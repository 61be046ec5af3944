----------------------------- MODULE EtlInvariant -----------------------------
(***************************************************************************)
(* The inductive invariant behind CommittedSettled and ReplayBounded.       *)
(* CommittedSettled is about the state file only; that a save keeps it      *)
(* depends on the line the main loop took last, that on the messages in the *)
(* channel, and these on how the reader met the lines of the file.  So the  *)
(* same statement, "every alert owed at this position is where it cannot be *)
(* forgotten", is carried back from the state file to the reader, position  *)
(* by position.  ReplayBounded needs the converse as well: what is in the   *)
(* batches and the flush is owed already, so no line is read twice unless   *)
(* the process ends between the two.                                        *)
(***************************************************************************)
EXTENDS Etl

ShapeInv ==
  /\ LineShape(file[1])
  /\ LinesInOrder(file[1])
  /\ IF file[1] = <<>> THEN last.line = 0 ELSE last = file[1][Len(file[1])]

\* n is a position of the growing file.
PositionOK(n) == Position(file[1], base, n)

Safe == Settled \cup InFlight

\* The lines of the first k messages of channel q that will become rows.
RecordOf(m) == IF IsRecord(m) THEN {m.line} ELSE {}
Carried(q, k) == {q[j].line : j \in {x \in 1 .. k : IsRecord(q[x])}}

\* A message of a file read from b on says where its line ends; a line cut off
\* at b makes no row.
MessageFrom(f, b, m) ==
  /\ m.off \in Newlines(f)
  /\ m.line = f[m.off].line
  /\ m.whole => b <= StartOf(f, m.off)

MessageOK(m) == MessageFrom(file[1], base, m)

Reading == mpc \in {"run", "final"}

IdleInv ==
  ~ Reading => rpc = "off" /\ goal = "initial" /\ fpc = "idle" /\ batches = NoRows

SavedInv ==
  /\ saved = NoState \/ (saved.inode = 1 /\ PositionOK(saved.offset))
  /\ OwedAt(saved.offset) \subseteq Settled
  /\ mpc = "boot" => saved.offset <= bootSize /\ bootSize <= Len(file[1])

MainInv ==
  Reading => /\ PositionOK(cur)
             /\ OwedAt(cur) \subseteq Safe
             /\ InFlight \subseteq OwedAt(cur)

\* Each row waits for its own table, and once.
Routed(b) ==
  \A t \in Table : \A j, k \in 1 .. Len(b[t]) :
    /\ TableOf[b[t][k]] = t
    /\ b[t][j] = b[t][k] => j = k

RowInv == Routed(batches) /\ Routed(work)

\* The reader opens the file at the offset main() resolved, and needs to do
\* so once.
StartInv ==
  Reading /\ goal # "tailing" =>
    /\ goal = "initial"
    /\ rpc \in {"stat", "open"}
    /\ rpc = "open" => statIno = 1
    /\ initial = [inode |-> 1, offset |-> cur]
    /\ chan = <<>>

ChanInv ==
  Reading =>
    \A k \in 1 .. Len(chan) :
      /\ PositionOK(chan[k].off) /\ MessageOK(chan[k])
      /\ OwedAt(chan[k].off) \subseteq OwedAt(cur) \cup Carried(chan, k)

TailInv ==
  Reading /\ goal = "tailing" =>
    /\ rpc \in {"next_line", "send", "check_rotation", "returned"}
    /\ tailer.fd = 1 /\ tailer.inode = 1
    /\ tailer.pos = tailer.offset
    /\ PositionOK(tailer.offset)
    /\ rpc \in {"next_line", "check_rotation"} =>
         OwedAt(tailer.offset) \subseteq OwedAt(cur) \cup Carried(chan, Len(chan))
    /\ rpc = "send" =>
         /\ msg.off = tailer.offset /\ MessageOK(msg)
         /\ OwedAt(msg.off) \subseteq
              OwedAt(cur) \cup Carried(chan, Len(chan)) \cup RecordOf(msg)

Core ==
  /\ ShapeInv /\ FlushInv /\ IdleInv /\ SavedInv
  /\ MainInv /\ RowInv /\ StartInv /\ ChanInv /\ TailInv

\* Positions only move forward: the state file is not ahead of the main loop,
\* this is behind the messages in the channel, these are behind one another,
\* and the reader is not behind any of them.
Behind(n) == cur <= n /\ \A k \in 1 .. Len(chan) : chan[k].off <= n
WellBehind(n) == cur < n /\ \A k \in 1 .. Len(chan) : chan[k].off < n

ForwardInv ==
  Reading =>
    /\ saved.offset <= cur
    /\ \A k \in 1 .. Len(chan) : cur < chan[k].off
    /\ \A j, k \in 1 .. Len(chan) : j < k => chan[j].off < chan[k].off
    /\ goal = "tailing" => Behind(tailer.offset)
    /\ rpc = "send" => WellBehind(msg.off)

\* A batch that is full is flushed at once, and what is taken out of the batches
\* is gone from the work before rows are pushed again.
BatchInv ==
  /\ \A t \in Table : Len(batches[t]) + Len(work[t]) <= BatchBound
  /\ fpc = "idle" => \A t \in Table : Len(batches[t]) < BatchBound

\* While alerts.json is one growing file: every position that the state file,
\* the main loop, the channel and the reader hold is the end of a line (or
\* where reading began), and every alert before it is settled, in flight or
\* carried by a message the loop takes before it commits that position.
PositionInv ==
  /\ TypeOK /\ FlushInv /\ BatchInv
  /\ Stable => Core /\ ForwardInv

\* What a kill would make the next start read again: the alerts taken from the
\* channel since the last save.
Exposed == OwedAt(cur) \ OwedAt(saved.offset)

\* The rows ClickHouse has that may yet be inserted again.
Front == IF Reading THEN cur ELSE saved.offset
Repeatable == {l \in stored : l \in InFlight \/ l \notin OwedAt(Front)}

\* A kill makes what is exposed repeatable, at most one flush; an insert makes
\* what it repeats unrepeatable; nothing else changes the sum.
ReplayInv ==
  Stable /\ faults.save = 0 =>
    /\ Reading => /\ fpc = "idle" => Exposed \subseteq RowsIn(batches)
                  /\ Cardinality(Exposed) <= FlushBound
    /\ replayed + Cardinality(Repeatable) <= faults.crash * FlushBound

IInv == PositionInv /\ ReplayInv
=============================================================================
