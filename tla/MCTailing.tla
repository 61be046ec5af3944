------------------------------ MODULE MCTailing ------------------------------
(***************************************************************************)
(* Instances of Tailing: which lines the manager writes.                    *)
(***************************************************************************)
EXTENDS Tailing

\* An alert in two bytes, a blank line, a line that is not JSON, an alert in
\* three bytes.
MixedLen == <<2, 1, 1, 3>>
MixedKind == <<"alert", "blank", "junk", "alert">>

\* An alert with a multi-byte character, a line that is not UTF-8, two alerts.
DamagedLen == <<3, 2, 2, 1>>
DamagedKind == <<"straddling", "undecodable", "alert", "alert">>

\* Two alerts.
ShortLen == <<1, 1>>
ShortKind == <<"alert", "alert">>
=============================================================================
