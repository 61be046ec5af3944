------------------------------ MODULE FieldPaths ------------------------------
(***************************************************************************)
(* How a field of an alert's data object is found and named: the look-ups   *)
(* of src/util/json.rs, and the filter of track_unmapped_fields in          *)
(* src/util/unmapped.rs.                                                    *)
(*                                                                         *)
(* A path is the sequence of the names between its dots.  A data object is  *)
(* a function from the positions of its leaves to their values; a position  *)
(* is a sequence of steps, each into an object by a key or into an array by *)
(* an index, and a key may have dots of its own.  null, {} and [] are all   *)
(* the same leaf: there is nothing in them.                                 *)
(***************************************************************************)
EXTENDS Integers, SequencesExt

CONSTANTS
  FieldList,    \* FieldList[c]: the paths field_paths.rs has for column c
  Extracted,    \* the other paths of KNOWN_PATHS, not all of which are read
  Hidden        \* the objects whose fields are never reported

Path == Seq(STRING)
Key(path) == [in |-> "object", key |-> path]
Index(name) == [in |-> "array", key |-> <<name>>]

MaxPort == 65535
NotANumber == -1
Value == [type : {"text", "padded", "blank", "number", "bool", "null"},
          num : Nat \cup {NotANumber}]

\* Every leaf is below a key, and two leaves part at two keys of one object or
\* two indices of one array.
WellFormed(d) ==
  /\ \A pos \in DOMAIN d : pos # <<>> /\ d[pos] \in Value
  /\ \A a, b \in DOMAIN d : a # b =>
       /\ ~ IsPrefix(a, b)
       /\ \A k \in 1 .. Len(a) :
            k <= Len(b) /\ SubSeq(a, 1, k - 1) = SubSeq(b, 1, k - 1) => a[k].in = b[k].in

\* flatten_to_paths joins the keys and indices with dots.
FlatPath(pos) == FlattenSeq([k \in DOMAIN pos |-> pos[k].key])

Leaves(d) == {pos \in DOMAIN d : d[pos].type # "null"}

-----------------------------------------------------------------------------
(* Where a look-up ends, NoLeaf if it finds nothing it can use.             *)

NoLeaf == <<>>
Literal(path) == <<Key(path)>>
Nested(path) == [k \in DOMAIN path |-> Key(<<path[k]>>)]

\* The object has the dotted path for a key, whatever there is under it.
HasLiteral(d, path) == \E pos \in DOMAIN d : Head(pos) = Key(path)

TypeAt(d, pos) == IF pos \in DOMAIN d THEN d[pos].type ELSE "container or nothing"
NumAt(d, pos) == IF pos \in DOMAIN d THEN d[pos].num ELSE NotANumber

\* first_str, first_port and first_u64: a literal key is looked at, and if it
\* will not do the nested path is not.
ListLeaf(d, path) == IF HasLiteral(d, path) THEN Literal(path) ELSE Nested(path)

\* value_to_str gives something.
Printable(d, pos) == TypeAt(d, pos) \in {"text", "padded", "number", "bool"}

\* (mutant) As in first_str, the literal key decides.
DataFieldLiteral(d, path) ==
  IF Printable(d, ListLeaf(d, path)) THEN ListLeaf(d, path) ELSE NoLeaf

\* (mutant) The nested path goes first.
DataFieldNested(d, path) ==
  CASE Printable(d, Nested(path)) -> Nested(path)
    [] Printable(d, Literal(path)) -> Literal(path)
    [] OTHER -> NoLeaf

\* get_data_field: the nested path is tried as well.
DataField(d, path) ==
  CASE Printable(d, Literal(path)) -> Literal(path)
    [] Printable(d, Nested(path)) /\ ~ Printable(d, Literal(path)) -> Nested(path)
    [] OTHER -> NoLeaf

-----------------------------------------------------------------------------
(* What a column gets from a leaf, by its kind: the leaf itself, or a       *)
(* number.                                                                  *)

Unset(kind) == IF kind = "text" THEN NoLeaf ELSE 0

PortOf(num) == IF num \in 0 .. MaxPort THEN num ELSE 0

\* first_str, first_port and first_u64 on one path; only a number is cut down
\* to MaxPort, a text that exceeds it is no port.
ListRead(kind, d, path) ==
  LET pos == ListLeaf(d, path)
      num == NumAt(d, pos)
      type == TypeAt(d, pos)
  IN  CASE kind = "text" -> IF type \in {"text", "padded"} THEN pos ELSE NoLeaf
        [] kind = "port" /\ type = "number" /\ num > MaxPort -> MaxPort
        [] kind = "port" /\ type \in {"text", "padded", "number"} -> PortOf(num)
        [] kind = "counter" /\ type \in {"text", "padded", "number"} /\ num # NotANumber -> num
        [] OTHER -> 0

\* first_u64 stops at a 0 it has read, first_port goes on.
Stops(kind, d, path) ==
  \/ ListRead(kind, d, path) # Unset(kind)
  \/ /\ kind = "counter"
     /\ TypeAt(d, ListLeaf(d, path)) \in {"text", "padded", "number"}
     /\ NumAt(d, ListLeaf(d, path)) = 0

FirstOf(kind, d, paths) ==
  LET Stop(path) == Stops(kind, d, path)
      hits == SelectSeq(paths, Stop)
  IN  IF hits = <<>> THEN Unset(kind) ELSE ListRead(kind, d, Head(hits))

\* A mapped field is printed first, and parsed as it is, with no trim().
MappedRead(kind, d, path) ==
  LET pos == DataField(d, path)
  IN  CASE kind = "text" -> pos
        [] kind # "text" /\ TypeAt(d, pos) \notin {"text", "number"} -> 0
        [] kind = "port" /\ TypeAt(d, pos) \in {"text", "number"} -> PortOf(NumAt(d, pos))
        [] OTHER -> IF NumAt(d, pos) = NotANumber THEN 0 ELSE NumAt(d, pos)

-----------------------------------------------------------------------------
(* The filter of the report.                                                *)

Known == Extracted \cup UNION {ToSet(FieldList[c]) : c \in DOMAIN FieldList}

Suppressed(path) == \E object \in Hidden : IsStrictPrefix(object, path)

\* (mutant) The paths of the field lists are reported.
ReportedKnown(d, mapped) ==
  {path \in {FlatPath(pos) : pos \in Leaves(d)} : path \notin mapped /\ ~ Suppressed(path)}

Reported(d, mapped) ==
  {path \in {FlatPath(pos) : pos \in Leaves(d)} :
     path \notin Known \cup mapped /\ ~ Suppressed(path)}
=============================================================================
