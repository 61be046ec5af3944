-------------------------------- MODULE Watcher --------------------------------
(***************************************************************************)
(* field_mappings.toml and who reads it: the load at the start of main()    *)
(* and config_watcher_task of src/main.rs, CustomMappings::load of          *)
(* src/config.rs.  The watcher compares modification times, remembers the   *)
(* new one, and only then reads the file; what cannot be read or parsed     *)
(* leaves the mappings as they are.                                         *)
(*                                                                         *)
(* The operator edits the file at any moment: in place, with the file       *)
(* half written for a while, by putting another file there, even one that   *)
(* is older, by removing it, and twice within one tick of the file times.   *)
(***************************************************************************)
EXTENDS Naturals

CONSTANTS
  Mapping,      \* the [field_mappings] the operator writes: path -> target
  NoMapping,    \* CustomMappings::default()
  Unloadable,   \* what is not there, or is not TOML
  Mtime         \* the modification times, 0 for a file that is not there

Toml == {f \in [content : Mapping \cup {Unloadable}, mtime : Mtime] :
           f.mtime = 0 => f.content = Unloadable}

ASSUME WatcherAssumption ==
  /\ NoMapping \in Mapping
  /\ Unloadable \notin Mapping
  /\ Mtime \subseteq Nat /\ 0 \in Mtime

VARIABLES
  toml,     \* the file
  held,     \* the mappings in the lock
  wpc,      \* the watcher: "off", "loaded" (main() has loaded the file),
            \* "first" (its first look at the file), "poll", "load"
  last,     \* the modification time it remembers
  missed    \* the file changed and the watcher cannot tell

watcherVars == <<toml, held, wpc, last, missed>>

WatcherTypeOK ==
  /\ toml \in Toml
  /\ held \in Mapping
  /\ wpc \in {"off", "loaded", "first", "poll", "load"}
  /\ last \in Mtime
  /\ missed \in BOOLEAN

\* Nobody has mapped anything yet.
WatcherInit ==
  /\ toml \in {f \in Toml : f.content \in {NoMapping, Unloadable}}
  /\ held = NoMapping /\ wpc = "off" /\ last = 0 /\ missed = FALSE

WatcherDies ==
  /\ held' = NoMapping /\ wpc' = "off" /\ last' = 0 /\ missed' = FALSE
  /\ UNCHANGED toml

\* Between the load of the start and the first look no change can be told.
Edit ==
  /\ toml' \in Toml \ {toml}
  /\ missed' = \/ wpc \in {"loaded", "first"}
               \/ wpc \in {"poll", "load"} /\ (missed \/ toml'.mtime = last)
  /\ UNCHANGED <<held, wpc, last>>

Loaded(before) == IF toml.content \in Mapping THEN toml.content ELSE before

\* The mappings of the start; nothing is remembered about the file they are of.
LoadAtStart ==
  /\ held' = Loaded(NoMapping)
  /\ wpc' = "loaded"
  /\ UNCHANGED <<toml, last, missed>>

SpawnWatcher ==
  /\ wpc' = "first"
  /\ UNCHANGED <<toml, held, last, missed>>

FirstLook ==
  /\ wpc = "first"
  /\ last' = toml.mtime
  /\ wpc' = "poll"
  /\ UNCHANGED <<toml, held, missed>>

\* (mutant) Only a younger file counts.
Younger == toml.mtime > last

Changed == toml.mtime # last

Poll ==
  /\ wpc = "poll"
  /\ Changed
  /\ last' = toml.mtime
  /\ wpc' = "load"
  /\ UNCHANGED <<toml, held, missed>>

Reload ==
  /\ wpc = "load"
  /\ held' = Loaded(held)
  /\ wpc' = "poll"
  /\ missed' = FALSE
  /\ UNCHANGED <<toml, last>>

Watch == FirstLook \/ Poll \/ Reload
=============================================================================
