------------------------------- MODULE Discovery -------------------------------
(***************************************************************************)
(* How a field nobody knew of becomes a column: main() and do_flush of      *)
(* src/main.rs and the ends of transform() seen from the side of the field  *)
(* mappings.  A field of an alert's data object is tracked as unmapped, the *)
(* report names it, the operator maps it in field_mappings.toml, the        *)
(* watcher loads the mapping, and the rows made from then on carry the      *)
(* field in a typed column, or in extensions and a column made from it.     *)
(*                                                                         *)
(* The alerts file is a sequence of data objects, one per line, that does   *)
(* not rotate, and its state file the number of lines committed: Etl has    *)
(* the rest.  A flush comes whenever rows are waiting, as by its timer, and *)
(* fails nowhere: Sink has its statements and their failures.  There is one *)
(* table.                                                                   *)
(***************************************************************************)
EXTENDS FieldPaths, Watcher, Report

CONSTANTS
  Input,        \* the files: sequences of data objects
  Probe,        \* the data objects the look-ups are compared on
  KindOf,       \* KindOf[c]: "text", "port" or "counter", of the typed columns
  ColumnOf,     \* ColumnOf[t]: the typed column of a standard target
  Sanitised,    \* Sanitised[t]: the name of the column made for any other target
  Seconds,      \* the clock
  MaxEvent      \* how many edits, faults, kills and stops there are in all

TypedColumn == DOMAIN KindOf
Standard == DOMAIN ColumnOf
Custom == DOMAIN Sanitised
Targets(m) == {m[path] : path \in DOMAIN m}

\* Transform has the mappings that compete for one target.
ASSUME DiscoveryAssumption ==
  /\ \A d \in Probe \cup UNION {ToSet(file) : file \in Input} : WellFormed(d)
  /\ \A file \in Input : Len(file) \in Nat /\ DOMAIN file = 1 .. Len(file)
  /\ DOMAIN FieldList = TypedColumn
  /\ \A t \in Standard : ColumnOf[t] \in TypedColumn
  /\ IsInjective(ColumnOf)
  /\ Standard \cap Custom = {}
  /\ \A m \in Mapping : IsInjective(m) /\ Targets(m) \subseteq Standard \cup Custom
  /\ Seconds \subseteq Nat \ {0}
  /\ MaxEvent \in Nat

VARIABLES
  lines,        \* the alerts file
  mpc,          \* main(): "down" (killed), "stopped", "boot", "run", "save",
                \* "report", and "last save", "last report", "exit"
  second,       \* when the process was started
  cur,          \* current_offset
  saved,        \* the state file
  batch,        \* the rows waiting
  columns,      \* the custom columns of the table
  stored,       \* the rows of the table
  trackedBy,    \* trackedBy[n]: what line n had to report when it was last read
  left,         \* how many of the MaxEvent there still may be
  happened      \* which of them that the properties make an exception for

mainVars == <<lines, mpc, second, cur, saved, batch, columns, stored, trackedBy>>
events == <<left, happened>>
vars == <<watcherVars, reportVars, mainVars, events>>

\* A row is known by its line and the mappings it was made under; a row of the
\* table also has the mappings held at its flush.
WaitingRow == [line : DOMAIN lines, by : Mapping]
StoredRow == [line : DOMAIN lines, by : Mapping, at : Mapping]

Down == mpc \in {"down", "stopped"}

Exception == {"archiving fails", "writing fails", "late kill", "hasty start"}

TypeOK ==
  /\ WatcherTypeOK
  /\ lines \in Input
  /\ mpc \in {"down", "stopped", "boot", "run", "save", "report",
              "last save", "last report", "exit"}
  /\ (wpc = "off" <=> Down) /\ (wpc = "loaded" <=> mpc = "boot")
  /\ second \in Seconds \cup {0}
  /\ cur \in 0 .. Len(lines) /\ saved \in 0 .. Len(lines)
  /\ batch \subseteq WaitingRow /\ stored \subseteq StoredRow
  /\ columns \subseteq Targets(Sanitised) \ TypedColumn
  /\ DOMAIN trackedBy = DOMAIN lines
  /\ left \in 0 .. MaxEvent /\ happened \subseteq Exception
  /\ (tracker \cup published) \cap Known = {}
  /\ report \subseteq published

Init ==
  /\ WatcherInit /\ ReportInit(Seconds)
  /\ lines \in Input
  /\ mpc = "down" /\ second = 0 /\ cur = 0 /\ saved = 0
  /\ batch = {} /\ columns = {} /\ stored = {}
  /\ trackedBy = [n \in DOMAIN lines |-> {}]
  /\ left = MaxEvent /\ happened = {}

Happens(what) ==
  /\ left > 0
  /\ left' = left - 1
  /\ happened' = happened \cup (what \cap Exception)

-----------------------------------------------------------------------------
(* The row of a data object under a mapping.                                *)

FieldsFor(m, c) ==
  SetToSeq({path \in DOMAIN m : m[path] \in Standard /\ ColumnOf[m[path]] = c})

\* A mapping only fills a column the field lists leave empty.
TypedValue(d, m, c) ==
  LET native == FirstOf(KindOf[c], d, FieldList[c])
  IN  IF native # Unset(KindOf[c]) \/ FieldsFor(m, c) = <<>> THEN native
      ELSE MappedRead(KindOf[c], d, Head(FieldsFor(m, c)))

\* extensions[key]: written under the target as it is in the file.
Extension(d, m, key) ==
  LET fields == SetToSeq({path \in DOMAIN m : m[path] = key /\ key \in Custom})
  IN  IF fields = <<>> THEN NoLeaf ELSE DataField(d, Head(fields))

\* What a SELECT of a column shows for row r.  A column made for a target reads
\* the extension of its own, sanitised name; a typed column stays what it is.
Shown(r, name) ==
  CASE name \in TypedColumn -> TypedValue(lines[r.line], r.by, name)
    [] name \in columns -> Extension(lines[r.line], r.by, name)
    [] OTHER -> NoLeaf

-----------------------------------------------------------------------------
(* main().                                                                  *)

\* systemd waits before it restarts a killed process; a start by hand may come
\* within the second of the start before.
StartUp ==
  /\ Down
  /\ \E s \in Seconds :
       /\ second' = s
       /\ \/ s > second /\ UNCHANGED events
          \/ s = second /\ mpc = "stopped" /\ Happens({"hasty start"})
  /\ cur' = saved
  /\ LoadAtStart
  /\ mpc' = "boot"
  /\ UNCHANGED <<reportVars, lines, saved, batch, columns, stored, trackedBy>>

Boot ==
  /\ mpc = "boot"
  /\ \/ ArchiveReport(second) /\ UNCHANGED events
     \/ ArchivingFails /\ Happens({"archiving fails"})
  /\ SpawnWatcher
  /\ mpc' = "run"
  /\ UNCHANGED <<lines, second, cur, saved, batch, columns, stored, trackedBy>>

RecvLine ==
  /\ mpc = "run"
  /\ cur < Len(lines)
  /\ cur' = cur + 1
  /\ LET unmapped == Reported(lines[cur'], DOMAIN held)
     IN  TrackUnmapped(unmapped) /\ trackedBy' = [trackedBy EXCEPT ![cur'] = unmapped]
  /\ batch' = batch \cup {[line |-> cur', by |-> held]}
  /\ UNCHANGED <<watcherVars, events, lines, mpc, second, saved, columns, stored>>

\* (mutant) Columns are only made with the table.
ColumnsOfTheStart == IF stored = {} THEN {Sanitised[t] : t \in Targets(held) \cap Custom} ELSE {}

\* custom_column_targets() of the mappings held now.
NewColumns == {Sanitised[t] : t \in Targets(held) \cap Custom}

FlushBatch ==
  /\ columns' = columns \cup (NewColumns \ TypedColumn)
  /\ stored' = stored \cup {[line |-> r.line, by |-> r.by, at |-> held] : r \in batch}
  /\ batch' = {}
  /\ UNCHANGED <<watcherVars, reportVars, lines, second, cur, saved, trackedBy>>

Flush ==
  /\ mpc = "run"
  /\ batch # {}
  /\ FlushBatch
  /\ mpc' = "save"
  /\ UNCHANGED events

\* With no row waiting, a process that has not met the table leaves it alone.
FlushNothing ==
  /\ batch = {}
  /\ UNCHANGED <<watcherVars, reportVars, lines, second, cur, saved, batch, columns, stored,
                 trackedBy>>

\* The channel is closed by a signal and drained; it is flushed even if
\* nothing waits.
LastFlush ==
  /\ mpc = "run"
  /\ Happens({"stop"})
  /\ FlushBatch \/ FlushNothing
  /\ mpc' = "last save"

\* A save that fails is logged.
SaveState ==
  /\ mpc \in {"save", "last save"}
  /\ \/ saved' = cur /\ UNCHANGED events
     \/ UNCHANGED saved /\ Happens({"save fails"})
  /\ mpc' = IF mpc = "save" THEN "report" ELSE "last report"
  /\ UNCHANGED <<watcherVars, reportVars, lines, second, cur, batch, columns, stored,
                 trackedBy>>

PublishReport ==
  /\ mpc \in {"report", "last report"}
  /\ \/ WriteReport /\ UNCHANGED events
     \/ WritingFails /\ Happens({"writing fails"})
  /\ mpc' = IF mpc = "report" THEN "run" ELSE "exit"
  /\ UNCHANGED <<watcherVars, lines, second, cur, saved, batch, columns, stored,
                 trackedBy>>

ProcessDies ==
  /\ WatcherDies /\ TrackerDies
  /\ cur' = 0 /\ batch' = {}
  /\ UNCHANGED <<lines, second, saved, columns, stored, trackedBy>>

Exit ==
  /\ mpc = "exit"
  /\ ProcessDies
  /\ mpc' = "stopped"
  /\ UNCHANGED events

Kill ==
  /\ ~ Down
  /\ Happens(IF mpc \in {"report", "last report"} THEN {"late kill"} ELSE {"kill"})
  /\ ProcessDies
  /\ mpc' = "down"

Watcher == Watch /\ UNCHANGED <<reportVars, mainVars, events>>
Operator == Edit /\ Happens({"edit"}) /\ UNCHANGED <<reportVars, mainVars>>

Next ==
  \/ StartUp \/ Boot \/ RecvLine \/ Flush \/ LastFlush \/ SaveState \/ PublishReport
  \/ Exit \/ Kill \/ Watcher \/ Operator

\* The watcher polls, the timer flushes, and a flush goes on to its end.
Fairness ==
  /\ WF_vars(Watcher)
  /\ WF_vars(Flush)
  /\ WF_vars(SaveState \/ PublishReport \/ Exit)

Spec == Init /\ [][Next]_vars /\ Fairness

-----------------------------------------------------------------------------
\* No discovery is lost over a restart: what a report has ever shown is in the
\* report or in an archive, as long as no archiving failed and nobody started
\* the service twice within a second.
PublishedKept ==
  {"hasty start", "archiving fails"} \cap happened = {} =>
    published \subseteq report \cup UNION {archives[s] : s \in Seconds}

\* A line that will not be read again has had its unmapped fields reported, or
\* the tracker still has them for the next report; the exceptions are a kill
\* after the state was saved and before the report, and a report that could
\* not be written.
CommittedReported ==
  {"late kill", "writing fails"} \cap happened = {} =>
    \A n \in 1 .. saved : trackedBy[n] \subseteq published \cup tracker

Object == Probe \cup UNION {ToSet(file) : file \in Input}

\* The objects with a field that has something in it, is reached by keys without
\* dots or by one dotted key, and is not what a mapping of its path finds.
Unpromotable ==
  {d \in Object : \E pos \in DOMAIN d :
     LET path == FlatPath(pos)
     IN  /\ Printable(d, pos)
         /\ pos \in {Literal(path), Nested(path)}
         /\ DataField(d, path) = NoLeaf \/ FlatPath(DataField(d, path)) # path}

\* The objects with a field that a list of field_paths.rs reads, and a mapping
\* of the same path for the same column otherwise or not at all; a number that
\* is padded or cut down does not count.
ReadOtherwise ==
  {d \in Object : \E pos \in DOMAIN d, c \in TypedColumn :
     LET path == FlatPath(pos)
         found == ListRead(KindOf[c], d, path)
         leaf == ListLeaf(d, path)
     IN  /\ found # Unset(KindOf[c])
         /\ KindOf[c] # "text" => TypeAt(d, leaf) # "padded"
         /\ KindOf[c] = "port" => NumAt(d, leaf) <= MaxPort
         /\ MappedRead(KindOf[c], d, path) # found}

\* Every path of a report can be promoted as it stands: neither a line of the
\* file nor an object of Probe has a field that a mapping of its path misses,
\* dotted keys and nested paths of one name, empty texts and nulls included.
PathsArePromotable == \A d \in Unpromotable : d \notin Probe \cup ToSet(lines)

\* A field reads the same whether a list of field_paths.rs has its path or a
\* mapping, although get_data_field and first_str, first_port and first_u64
\* look in different places.
LookupsAgree == \A d \in ReadOtherwise : d \notin Probe \cup ToSet(lines)

\* The targets that do what they say: standard ones, and others whose name is a
\* column name that no typed column has.
Plain(t) == t \in Standard \/ (t \in Custom /\ Sanitised[t] = t /\ t \notin TypedColumn)
NameOf(t) == IF t \in Standard THEN ColumnOf[t] ELSE t

\* A promoted field is seen in its column, in every row made under the mapping,
\* whatever reloads, kills and restarts come between transform and flush;
\* only a target that has left the file before the flush may get no column.
PromotedIsVisible ==
  \A r \in stored : \A path \in DOMAIN r.by :
    LET t == r.by[path]
        kind == IF t \in Standard THEN KindOf[ColumnOf[t]] ELSE "text"
    IN  /\ Plain(t)
        /\ t \in Standard \cup Targets(r.at)
        /\ MappedRead(kind, lines[r.line], path) # Unset(kind)
        => Shown(r, NameOf(t)) # Unset(kind)

\* docs/reference-full.md:625 and 917: a field mapped to one of the standard
\* column names, app_category among them, is written to that typed column.
PromotedAsDocumented ==
  \A r \in stored : \A path \in DOMAIN r.by :
    LET c == r.by[path]
    IN  /\ c \in TypedColumn
        /\ MappedRead(KindOf[c], lines[r.line], path) # Unset(KindOf[c])
        => Shown(r, c) # Unset(KindOf[c])

\* The mappings held come to be those of the file, whenever it can be loaded,
\* and a file met half written does not stop the watcher from loading it when
\* it is whole; the exception is a change it cannot tell, made between the load
\* of the start and its first look or within one tick of the file times.
MappingsFollow ==
  []<>(held = toml.content \/ toml.content = Unloadable \/ missed \/ Down)

\* What is tracked is reported by and by, unless a report could not be
\* written: the flush that the row of its line waits for writes it.
ReportCatchesUp ==
  []<>(tracker \subseteq published \/ Down \/ "writing fails" \in happened)
=============================================================================
