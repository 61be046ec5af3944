------------------------------ MODULE LineStream ------------------------------
(***************************************************************************)
(* What reader_task promises of a file that only grows: the receiver of the *)
(* channel gets every finished line once and in the order of the file,      *)
(* whatever the timing of the writer, the polls and the receiver.  Lines    *)
(* are numbered in the order of the file.                                   *)
(***************************************************************************)
EXTENDS Naturals, Sequences

CONSTANT Item     \* the numbers that lines can have

VARIABLES
  written,    \* the lines finished so far
  delivered   \* the lines handed over so far, in the order of the hand-over

vars == <<written, delivered>>

Init == written = {} /\ delivered = <<>>

Write(l) ==
  /\ \A k \in written : k < l
  /\ written' = written \cup {l}
  /\ UNCHANGED delivered

\* The lines that are still to be handed over.
Due == written \ {delivered[k] : k \in 1 .. Len(delivered)}

Deliver ==
  /\ \E l \in Due :
       /\ \A k \in Due : l <= k
       /\ delivered' = Append(delivered, l)
  /\ UNCHANGED written

Next == (\E l \in Item : Write(l)) \/ Deliver

Safety == Init /\ [][Next]_vars

Spec == Safety /\ WF_vars(Deliver)
=============================================================================
