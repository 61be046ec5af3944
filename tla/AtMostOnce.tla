------------------------------- MODULE AtMostOnce -------------------------------
(***************************************************************************)
(* What ZeroMQ mode promises of the alerts a publisher numbers 1, 2, ...:   *)
(* each is taken at most once and in order, those that were missed are gone *)
(* for good, and ClickHouse gets nothing twice.                             *)
(***************************************************************************)
EXTENDS Naturals, Sequences

VARIABLES
  published,  \* how many alerts there have been
  taken,      \* the alerts taken, oldest first
  stored,     \* the alerts in ClickHouse
  twice       \* how often ClickHouse was given an alert it had

vars == <<published, taken, stored, twice>>

Taken == {taken[k] : k \in 1 .. Len(taken)}

Init == published = 0 /\ taken = <<>> /\ stored = {} /\ twice = 0

Publish ==
  /\ published' = published + 1
  /\ UNCHANGED <<taken, stored, twice>>

Take ==
  /\ \E n \in 1 .. published :
       /\ \A m \in Taken : m < n
       /\ taken' = Append(taken, n)
  /\ UNCHANGED <<published, stored, twice>>

Store ==
  /\ stored \subseteq stored'
  /\ stored' \subseteq Taken
  /\ UNCHANGED <<published, taken, twice>>

Next == Publish \/ Take \/ Store

Spec == Init /\ [][Next]_vars
=============================================================================
