------------------------------- MODULE MCEtlZmq -------------------------------
(***************************************************************************)
(* Instances of EtlZmq: what is published and where it is routed.           *)
(***************************************************************************)
EXTENDS EtlZmqInvariant

CONSTANTS web, db, c1, c2

\* An alert, a message without text, an alert for the other table.
Payloads == <<"alert", "blank", "alert">>
Tables == <<web, web, db>>
=============================================================================
