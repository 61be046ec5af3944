-------------------------------- MODULE MCEtl --------------------------------
(***************************************************************************)
(* Instances of Etl: what the manager writes and where it is routed.        *)
(***************************************************************************)
EXTENDS EtlInvariant

CONSTANTS web, db, c1, c2

\* Alerts that make a flush of both tables, with a line that is not JSON among
\* them, and one more alert.
FiveLen == <<1, 1, 1, 1, 1>>
FiveKind == <<"alert", "alert", "junk", "alert", "alert">>
FiveTable == <<web, db, web, web, web>>

\* Two alerts, one for each table.
TwoLen == <<1, 1>>
TwoKind == <<"alert", "alert">>
TwoTable == <<web, db>>
=============================================================================
