-------------------------------- MODULE Tailer --------------------------------
(***************************************************************************)
(* reader_task and FileTailer of src/input/tailer.rs: the task that tails   *)
(* alerts.json and sends its lines into the bounded channel of main().      *)
(*                                                                         *)
(* Every system call of the task is a step of its own: an open is a         *)
(* metadata call (which yields the inode) and then the open proper, and     *)
(* check_rotation has a metadata call before those two, so the manager may  *)
(* rotate between any of them.  A read up to the end of a line is one step. *)
(* The sleeps of the task are the steps it does not take.  The read-ahead   *)
(* of BufReader is not modelled: in a file that only grows it changes when  *)
(* bytes are read but not which.                                            *)
(***************************************************************************)
EXTENDS AlertsFile

CONSTANT ChannelCap     \* CHANNEL_CAP

ASSUME ChannelAssumption == ChannelCap \in Nat \ {0}

VARIABLES
  rpc,      \* what the task does next
  goal,     \* what an open in progress is for
  statIno,  \* the inode FileTailer::open found before it opens the path
  tailer,   \* the FileTailer
  initial,  \* the TailState the task was started with
  msg,      \* the line the task is sending
  chan,     \* the channel, oldest first
  rxOpen    \* the receiver has not been closed

readerVars == <<rpc, goal, statIno, tailer, initial, msg, chan, rxOpen>>

ReaderPc ==
  {"off", "stat", "open", "next_line", "send", "check_rotation", "returned"}
Goal == {"initial", "startup", "rotation", "tailing"}
TailState == [inode : Nat, offset : Nat]
FileTailer ==
  [inode : Nat, fd : Inode \cup {NoInode}, offset : Nat, pos : Nat]
Message == [off : Nat, line : Line, whole : BOOLEAN]

NoTailer == [inode |-> NoInode, fd |-> NoInode, offset |-> 0, pos |-> 0]
NoState == [inode |-> NoInode, offset |-> 0]
NoMsg == [off |-> 0, line |-> 0, whole |-> FALSE]

ReaderTypeOK ==
  /\ rpc \in ReaderPc
  /\ goal \in Goal
  /\ statIno \in Inode \cup {NoInode}
  /\ tailer \in FileTailer
  /\ initial \in TailState
  /\ IF rpc = "send" THEN msg \in Message ELSE msg = NoMsg
  /\ chan \in Seq(Message) /\ Len(chan) <= ChannelCap
  /\ rxOpen \in BOOLEAN

NoReader ==
  /\ rpc = "off" /\ goal = "initial" /\ statIno = NoInode
  /\ tailer = NoTailer /\ initial = NoState
  /\ msg = NoMsg /\ chan = <<>> /\ rxOpen = FALSE

\* main() makes the channel and spawns the task.
SpawnReader(start) ==
  /\ rpc' = "stat" /\ goal' = "initial" /\ statIno' = NoInode
  /\ tailer' = NoTailer /\ initial' = start
  /\ msg' = NoMsg /\ chan' = <<>> /\ rxOpen' = TRUE

\* The process is gone, and the task and the channel with it.
ReaderDies ==
  /\ rpc' = "off" /\ goal' = "initial" /\ statIno' = NoInode
  /\ tailer' = NoTailer /\ initial' = NoState
  /\ msg' = NoMsg /\ chan' = <<>> /\ rxOpen' = FALSE

-----------------------------------------------------------------------------
(* FileTailer::open: the inode by path, then the open and the seek.         *)

StatPath ==
  /\ rpc = "stat"
  /\ statIno' = PathInode
  /\ rpc' = "open"
  /\ UNCHANGED <<goal, tailer, initial, msg, chan, rxOpen, fsVars>>

\* (mutant) The reopen keeps the offset.
OpenOffsetKept == IF goal = "initial" THEN initial.offset ELSE tailer.offset

OpenOffset == IF goal = "initial" THEN initial.offset ELSE 0

RotatedWhileStopped ==
  /\ goal = "initial"
  /\ initial.inode # NoInode
  /\ statIno # initial.inode

OpenPath ==
  /\ rpc = "open"
  /\ path # NoInode
  /\ tailer' = [inode |-> statIno, fd |-> path,
                offset |-> OpenOffset, pos |-> OpenOffset]
  /\ rpc' = IF RotatedWhileStopped THEN "stat" ELSE "next_line"
  /\ goal' = IF RotatedWhileStopped THEN "startup" ELSE "tailing"
  /\ statIno' = NoInode
  /\ UNCHANGED <<initial, msg, chan, rxOpen, fsVars>>

\* A missing file is waited for at the first open, ends the task at the
\* second one of the start, and is left for the next poll in check_rotation.
OpenFails ==
  /\ rpc = "open"
  /\ path = NoInode
  /\ rpc' = CASE goal = "initial" -> "stat"
              [] goal = "startup" -> "returned"
              [] OTHER -> "next_line"
  /\ goal' = IF goal = "rotation" THEN "tailing" ELSE goal
  /\ statIno' = NoInode
  /\ UNCHANGED <<tailer, initial, msg, chan, rxOpen, fsVars>>

-----------------------------------------------------------------------------
(* FileTailer::next_line.                                                   *)

Bytes == IF tailer.fd = NoInode THEN <<>> ELSE file[tailer.fd]

MovedTo(t, offset, pos) ==
  [inode |-> t.inode, fd |-> t.fd, offset |-> offset, pos |-> pos]

\* (mutant) The newline is not counted.
AfterLineShort(t, i) == MovedTo(t, t.offset + (i - t.pos) - 1, i)

\* The offset moves by what was read, the descriptor to where it read to.
AfterLine(t, i) == MovedTo(t, t.offset + (i - t.pos), i)

\* (mutant) The bytes stay to be read again.
ErrorNotConsumed(t, i) == t

\* read_line consumed the bytes but failed before the offset was moved.
AfterError(t, i) == MovedTo(t, t.offset, i)

\* (mutant) A partial line is not given back.
NoSeekBack(t) == MovedTo(t, t.offset, Len(Bytes))

\* A partial line is given back by a seek to the offset.
SeekBack(t) == MovedTo(t, t.offset, t.offset)

\* What is read is the whole of a line.
ReadsWhole(p, i) == p = StartOf(Bytes, i)

MessageAt(i) ==
  [off |-> AfterLine(tailer, i).offset,
   line |-> Bytes[i].line,
   whole |-> ReadsWhole(tailer.pos, i)]

LineReadable(i) == Decodable(Bytes, tailer.pos + 1, i)
Blank(i) == Kind[Bytes[i].line] = "blank"

ReadLine ==
  /\ rpc = "next_line"
  /\ \E i \in Newlines(Bytes) :
       /\ EndsFirstLineAfter(Bytes, tailer.pos, i)
       /\ LineReadable(i)
       /\ ~ Blank(i)
       /\ tailer' = AfterLine(tailer, i)
       /\ msg' = MessageAt(i)
  /\ rpc' = "send"
  /\ UNCHANGED <<goal, statIno, initial, chan, rxOpen, fsVars>>

ReadBlankLine ==
  /\ rpc = "next_line"
  /\ \E i \in Newlines(Bytes) :
       /\ EndsFirstLineAfter(Bytes, tailer.pos, i)
       /\ LineReadable(i)
       /\ Blank(i)
       /\ tailer' = AfterLine(tailer, i)
  /\ UNCHANGED <<rpc, goal, statIno, initial, msg, chan, rxOpen, fsVars>>

ReadUndecodable ==
  /\ rpc = "next_line"
  /\ \E i \in Newlines(Bytes) \cup {Len(Bytes)} :
       /\ tailer.pos < i
       /\ EndsFirstLineAfter(Bytes, tailer.pos, i)
            \/ NoLineEndsAfter(Bytes, tailer.pos)
       /\ ~ LineReadable(i)
       /\ tailer' = AfterError(tailer, i)
  /\ UNCHANGED <<rpc, goal, statIno, initial, msg, chan, rxOpen, fsVars>>

ReadPartialLine ==
  /\ rpc = "next_line"
  /\ tailer.pos < Len(Bytes)
  /\ NoLineEndsAfter(Bytes, tailer.pos)
  /\ LineReadable(Len(Bytes))
  /\ tailer' = SeekBack(tailer)
  /\ rpc' = "check_rotation"
  /\ UNCHANGED <<goal, statIno, initial, msg, chan, rxOpen, fsVars>>

ReadEof ==
  /\ rpc = "next_line"
  /\ Len(Bytes) <= tailer.pos
  /\ rpc' = "check_rotation"
  /\ UNCHANGED <<goal, statIno, tailer, initial, msg, chan, rxOpen, fsVars>>

-----------------------------------------------------------------------------
(* FileTailer::check_rotation: one metadata call, then perhaps an open.     *)

\* (mutants) Only the size is looked at; only an empty file is a truncated one.
RotatedBySize == path # NoInode /\ PathSize < tailer.offset
TruncatedToNothing == path # NoInode /\ path = tailer.inode /\ PathSize = 0 /\ PathSize < tailer.offset

Rotated == path # NoInode /\ path # tailer.inode
Truncated == path # NoInode /\ path = tailer.inode /\ PathSize < tailer.offset

CheckRotation ==
  /\ rpc = "check_rotation"
  /\ IF Rotated \/ Truncated
       THEN rpc' = "stat" /\ goal' = "rotation"
       ELSE rpc' = "next_line" /\ UNCHANGED goal
  /\ UNCHANGED <<statIno, tailer, initial, msg, chan, rxOpen, fsVars>>

-----------------------------------------------------------------------------
(* The channel.  A send waits for room and fails once the receiver closes.  *)

\* (mutant) One message too many.
ChannelOverfull == Len(chan) > ChannelCap

ChannelFull == Len(chan) >= ChannelCap

Send ==
  /\ rpc = "send"
  /\ rxOpen
  /\ ~ ChannelFull
  /\ chan' = Append(chan, msg)
  /\ msg' = NoMsg
  /\ rpc' = "next_line"
  /\ UNCHANGED <<goal, statIno, tailer, initial, rxOpen, fsVars>>

SendFails ==
  /\ rpc = "send"
  /\ ~ rxOpen
  /\ msg' = NoMsg
  /\ rpc' = "returned"
  /\ UNCHANGED <<goal, statIno, tailer, initial, chan, rxOpen, fsVars>>

ReaderNext ==
  \/ StatPath \/ OpenPath \/ OpenFails
  \/ ReadLine \/ ReadBlankLine \/ ReadUndecodable \/ ReadPartialLine \/ ReadEof
  \/ CheckRotation \/ Send \/ SendFails

\* (mutant) Closing the receiver alone does not end the channel.
ChannelDropped == chan = <<>> /\ rpc = "returned"

\* rx.recv() returns None.
ChannelEnded == chan = <<>> /\ (~ rxOpen \/ rpc = "returned")
=============================================================================
