-------------------------------- MODULE Tailing --------------------------------
(***************************************************************************)
(* The tailer alone: reader_task, the manager that writes and rotates the   *)
(* file under it, and a receiver that takes every message.  What main()     *)
(* does with the messages is in Etl.                                        *)
(***************************************************************************)
EXTENDS Tailer

VARIABLES
  received,   \* the messages the receiver has taken, oldest first
  rotates     \* whether the manager rotates the file in this behaviour

vars == <<fsVars, readerVars, received, rotates>>

Init == FsInit /\ NoReader /\ received = <<>> /\ rotates \in BOOLEAN

\* A first start that reads the file from its beginning.
Launch ==
  /\ rpc = "off"
  /\ SpawnReader([inode |-> PathInode, offset |-> 0])
  /\ UNCHANGED <<fsVars, received, rotates>>

Receive ==
  /\ chan # <<>>
  /\ received' = Append(received, Head(chan))
  /\ chan' = Tail(chan)
  /\ UNCHANGED <<fsVars, rpc, goal, statIno, tailer, initial, msg, rxOpen, rotates>>

Manager ==
  /\ FsNext
  /\ path' = NoInode => rotates
  /\ UNCHANGED <<readerVars, received, rotates>>

Reader == ReaderNext /\ UNCHANGED <<received, rotates>>

Next == Launch \/ Manager \/ Reader \/ Receive

\* The task is spawned and polled by the tokio runtime, and its sleeps end.
Spec ==
  /\ Init
  /\ [][Next]_vars
  /\ WF_vars(Launch)
  /\ WF_vars(Reader)
  /\ WF_vars(Receive)

-----------------------------------------------------------------------------
TypeOK == FsTypeOK /\ ReaderTypeOK /\ received \in Seq(Message) /\ rotates \in BOOLEAN

\* Every message on its way, in the order it was read.
Sent == received \o chan \o (IF msg = NoMsg THEN <<>> ELSE <<msg>>)
SentLines == {Sent[k].line : k \in 1 .. Len(Sent)}

IsReceived(l) == \E n \in 1 .. Len(received) : received[n].line = l

Finished(f) == {i \in Newlines(f) : Kind[f[i].line] # "blank"}

FinishedLines(f) == {f[i].line : i \in Finished(f)}

FinishedIn(l, k) == l \in FinishedLines(file[k])

\* A message is a whole line of the file, never a piece of one: not when the
\* reader meets a line half written, and not when the file is replaced by a
\* rotation between any two of its system calls (next_line gives a partial
\* line back; a reopen starts at byte 0).
NoTornLine == \A k \in 1 .. Len(Sent) : Sent[k].whole

\* The offset never runs ahead of what was read: each line of the open file
\* that ends at or before FileTailer::offset has been sent or is being sent.
\* The offsets that main() commits are copies of it.
SentUpToOffset ==
  \A i \in Finished(Bytes) :
    i <= tailer.offset => Bytes[i].line \in SentLines

\* FileTailer::offset is where the descriptor stands, except after a line it
\* could not decode, and it is the end of a line of the file that is open,
\* between the system calls of a reopen too.
OffsetIsLineEnd ==
  /\ tailer.offset = tailer.pos
  /\ tailer.offset \in Newlines(Bytes) \cup {0}

\* Rotation loses at most the end of a file that has been rotated away: once
\* alerts.json keeps naming one file, every finished line of it is received,
\* unless the reopen of the start failed and the task returned.
LastFileDrained ==
  \A k \in Inode, l \in Line :
    <>[](path = k) =>
      (path = k /\ FinishedIn(l, k)) ~> (rpc = "returned" \/ IsReceived(l))

\* A file that was cut below the offset is noticed: the tailer does not wait
\* for ever at an offset the file no longer has.
TruncationNoticed ==
  []<>(rpc = "returned" \/ path = NoInode \/ tailer.offset <= PathSize)

\* A line that cannot be decoded spoils itself and the offset, and no other
\* line: an alert in ASCII after it is still received, and whole, unless the
\* file is cut.
DamageIsLocal ==
  \A l \in Line :
    FinishedIn(l, 1) /\ Kind[l] = "alert" ~>
      \/ truncs > 0
      \/ \E n \in 1 .. Len(received) : received[n].line = l /\ received[n].whole

-----------------------------------------------------------------------------
(* The tailer of one growing file is a LineStream: of a behaviour with      *)
(* rotations it says nothing.                                               *)

LinesOf(s) == [k \in 1 .. Len(s) |-> s[k].line]

Stream ==
  INSTANCE LineStream WITH
    Item <- Line,
    written <- IF rotates THEN {} ELSE FinishedLines(file[1]),
    delivered <- IF rotates THEN <<>> ELSE LinesOf(Sent)

StreamsLines == Stream!Spec

-----------------------------------------------------------------------------
(* What the documentation says of a rotation while the pipeline runs.       *)

\* docs/reference-full.md on rotation while running: "no alerts are
\* double-processed".
NoAlertTwice ==
  \A a, b \in 1 .. Len(Sent) : Sent[a].line = Sent[b].line => a = b
=============================================================================
