---------------------------- MODULE EtlZmqInvariant ----------------------------
(***************************************************************************)
(* The inductive invariant behind the promises of ZeroMQ mode.  AtMostOnce  *)
(* is about the messages taken and the rows stored; that none comes twice   *)
(* depends on the order in which the numbers of the publisher travel: what  *)
(* is on the wire comes after what the task holds, that after what it sent, *)
(* and what is in the channel after what the main loop has pushed.          *)
(***************************************************************************)
EXTENDS EtlZmq

Increasing(s) == \A i, j \in 1 .. Len(s) : i < j => s[i] < s[j]

\* Every message of m comes before every one of n.
Before(m, n) == \A a \in m, b \in n : a < b

InHand == {msg} \ {NoMessage}

\* The task has a message in its hands exactly while it sends it.
SendInv == rpc = "send" <=> msg # NoMessage

\* The publisher's numbers reach the socket and the task in their order.
OrderInv ==
  /\ RowsOf(sent) \cup InHand \cup RowsOf(wire) \subseteq 1 .. published
  /\ Increasing(wire)
  /\ Before(RowsOf(sent), InHand) /\ Before(RowsOf(sent) \cup InHand, RowsOf(wire))

\* And the main loop: what it pushed was sent, and before the channel's.
TakenInv ==
  /\ Pushed \cup RowsOf(chan) \subseteq RowsOf(sent)
  /\ Increasing(chan)
  /\ Before(Pushed, RowsOf(chan))

\* So no row is stored twice.
OnceInv == NewRows(batches) /\ NewRows(work) /\ replayed = 0

\* Without a process there is nothing to take, and the last flush is of a
\* channel that stays empty.
RestInv ==
  /\ mpc \in {"down", "stopped"} => rpc = "off" /\ chan = <<>> /\ fpc = "idle"
  /\ mpc = "final" => ChannelEnded

KeptInv ==
  faults.crash = 0 =>
    \A n \in RowsOf(sent) : Payload[n] = "alert" => n \in Pushed \cup RowsOf(chan)

\* Where the main loop stands is what file mode left, or 0, or the end of the
\* file at a first start.
OffsetInv ==
  \/ cur \in {0, saved.offset}
  \/ FirstRun /\ SeekToEnd /\ cur = FileSize

ZmqInv ==
  /\ TypeOK /\ SendInv /\ FlushInv
  /\ OrderInv /\ TakenInv /\ OnceInv /\ RestInv /\ KeptInv /\ OffsetInv
=============================================================================
