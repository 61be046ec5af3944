--------------------------------- MODULE Report ---------------------------------
(***************************************************************************)
(* The unmapped-field report of src/util/unmapped.rs: the tracker, which    *)
(* lives as long as the process, the report, which a flush replaces by what *)
(* is in the tracker, and the archives, one per start that found a report,  *)
(* named after the second of the start.  Counts, examples and the order of  *)
(* the fields are left out.                                                 *)
(***************************************************************************)
EXTENDS Naturals

VARIABLES
  tracker,      \* UNMAPPED_TRACKER
  report,       \* unmapped_fields.json; no report holds no field
  archives,     \* archives[s]: the .bak of second s, empty if there is none
  published     \* the fields any report has ever shown

reportVars == <<tracker, report, archives, published>>

ReportInit(seconds) ==
  /\ tracker = {} /\ report = {} /\ published = {}
  /\ archives = [s \in seconds |-> {}]

TrackerDies ==
  /\ tracker' = {}
  /\ UNCHANGED <<report, archives, published>>

TrackUnmapped(paths) ==
  /\ tracker' = tracker \cup paths
  /\ UNCHANGED <<report, archives, published>>

\* (mutant) One archive, and the next start writes over it.
OneName(second) == 1

ArchiveName(second) == second

\* The rename takes the place of an archive of the same second.
ArchiveReport(second) ==
  /\ archives' = IF report = {} THEN archives
                 ELSE [archives EXCEPT ![ArchiveName(second)] = report]
  /\ report' = {}
  /\ UNCHANGED <<tracker, published>>

\* The report stays, for the next flush to replace.
ArchivingFails == report # {} /\ UNCHANGED reportVars

\* (mutant) A session writes its report once.
WorthWritingOnce == tracker # {} /\ report = {}

WorthWriting == tracker # {}

\* Written next to the report and renamed: all of it, or the old one stays.
WriteReport ==
  /\ IF WorthWriting THEN report' = tracker /\ published' = published \cup tracker
     ELSE UNCHANGED <<report, published>>
  /\ UNCHANGED <<tracker, archives>>

WritingFails == WorthWriting /\ UNCHANGED reportVars
=============================================================================
