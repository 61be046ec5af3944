------------------------------- MODULE Validator -------------------------------
(***************************************************************************)
(* src/pipeline/validator.rs: what check_and_warn asks of a record.  It     *)
(* only warns; a record that does not pass is stored all the same.          *)
(* (The check of the time is left out: Transform keeps no clock.)           *)
(***************************************************************************)
EXTENDS Naturals

ValidClassUids ==
  1001 .. 1008 \cup 2001 .. 2006 \cup 3001 .. 3006 \cup 4001 .. 4007
    \cup 5001 .. 5004 \cup 6001 .. 6005

ValidSeverityIds == 0 .. 6 \cup {99}

\* Classes without a list of their own accept every activity.
ValidActivityIds(class) ==
  CASE class = 1001 -> {1, 2, 3, 4, 5, 99}
    [] class \in {1006, 2002, 2003, 2004, 3002, 4003} -> {1, 2, 3, 99}
    [] class = 3001 -> {1, 2, 3, 7, 8, 9, 12, 99}
    [] class = 4001 -> {1, 2, 3, 4, 5, 6, 99}
    [] class = 4002 -> {1, 2, 3, 4, 5, 6, 7, 99}
    [] class = 4004 -> {1, 2, 3, 4, 99}
    [] OTHER -> 0 .. 255

\* A category and its name.
ExpectedCategory(class) ==
  LET names == <<"system", "findings", "identity", "network", "discovery", "application">>
  IN  <<class \div 1000, names[class \div 1000]>>

Violations(rec) ==
  {v \in {"class", "severity", "type", "activity", "category"} :
     CASE v = "class" -> rec.class \notin ValidClassUids
       [] v = "severity" -> rec.severity \notin ValidSeverityIds
       [] v = "type" -> rec.type # rec.class * 100 + rec.activity
       [] v = "activity" -> rec.activity \notin ValidActivityIds(rec.class)
       [] v = "category" ->
            /\ rec.class \div 100 \in {10, 20, 30, 40, 50, 60}
            /\ <<rec.category, rec.category_name>> # ExpectedCategory(rec.class)}
=============================================================================
