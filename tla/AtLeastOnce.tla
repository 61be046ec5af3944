------------------------------ MODULE AtLeastOnce ------------------------------
(***************************************************************************)
(* What file mode promises of one growing alerts file, crashes and restarts *)
(* included: the committed position never moves back, and it only moves     *)
(* over lines that have been dealt with.  A line is owed when it was        *)
(* finished and starts at or after the position of the first start.         *)
(***************************************************************************)
EXTENDS Naturals

VARIABLES
  finished,   \* the lines finished so far: [line, start, end]
  handled,    \* the lines dealt with: stored, or given up after an error
  committed,  \* the position a restart resumes from
  from        \* where the first start began to read

vars == <<finished, handled, committed, from>>

Owed(n) == {e.line : e \in {x \in finished : from <= x.start /\ x.end <= n}}

Init ==
  /\ finished = {} /\ handled = {}
  /\ committed = 0 /\ from = 0

\* Lines are finished; they end after everything that was committed.
Finish ==
  /\ finished \subseteq finished'
  /\ \A e \in finished' \ finished : committed < e.end
  /\ UNCHANGED <<handled, committed, from>>

Handle ==
  /\ handled \subseteq handled'
  /\ UNCHANGED <<finished, committed, from>>

Commit ==
  /\ committed <= committed'
  /\ Owed(committed') \subseteq handled
  /\ UNCHANGED <<finished, handled, from>>

\* A start that finds nothing committed chooses where to begin, and commits
\* it or not.
Start ==
  /\ committed = 0
  /\ committed' \in {0, from'}
  /\ UNCHANGED <<finished, handled>>

Next == Finish \/ Handle \/ Commit \/ Start

Spec == Init /\ [][Next]_vars
=============================================================================
