---------------------------- MODULE DiscoveryProofs ----------------------------
(***************************************************************************)
(* Proofs about Discovery, for every set of mappings, files, field lists,   *)
(* seconds and events: no report that was ever written is lost over a       *)
(* restart, no line is committed whose discoveries nobody has, a path that  *)
(* is reported can be promoted as it stands, and a promoted field is seen   *)
(* in its column.                                                           *)
(***************************************************************************)
EXTENDS Discovery, TLAPS, FiniteSetTheorems

LEMMA SecondsAreNumbers == Seconds \subseteq Nat \ {0}
BY DiscoveryAssumption, Zenon

LEMMA FilesAreSequences ==
  \A file \in Input : Len(file) \in Nat /\ DOMAIN file = 1 .. Len(file)
BY DiscoveryAssumption, Zenon

-----------------------------------------------------------------------------
(* What was published is kept.                                              *)

Careful == {"hasty start", "archiving fails"} \cap happened = {}

Running == mpc \in {"run", "save", "report", "last save", "last report", "exit"}

ClockOK ==
  /\ second \in Seconds \cup {0}
  /\ mpc = "boot" => second \in Seconds
  /\ mpc = "boot" \/ Running \/ Down
  /\ DOMAIN archives = Seconds

\* No archive has the second of a start to come, nor of the one in progress.
NamesFree ==
  \A s \in Seconds : s > second \/ (s = second /\ mpc = "boot") => archives[s] = {}

\* A report of this session has nothing the tracker has not.
ReportOfSession == Running => report \subseteq tracker

KeptInv ==
  /\ ClockOK
  /\ Careful => NamesFree /\ ReportOfSession /\ PublishedKept

LEMMA ClockIsNumber == KeptInv => second \in Nat
BY SecondsAreNumbers DEF KeptInv, ClockOK

\* An event that is no exception leaves the exceptions as they are; one that
\* is can only be added.
LEMMA HappensCareful ==
  ASSUME NEW what, Happens(what), {"hasty start", "archiving fails"} \cap happened' = {}
  PROVE  Careful
BY DEF Happens, Careful

LEMMA HastyNotCareful ==
  ASSUME Happens({"hasty start"})
  PROVE  ~ Careful'
BY DEF Happens, Careful, Exception

LEMMA FailedArchiveNotCareful ==
  ASSUME Happens({"archiving fails"})
  PROVE  ~ Careful'
BY DEF Happens, Careful, Exception

LEMMA KeptInit == Init => KeptInv
<1> SUFFICES ASSUME Init PROVE KeptInv
  OBVIOUS
<1>1. ClockOK
  BY DEF Init, ReportInit, ClockOK, Running, Down
<1>2. NamesFree /\ ReportOfSession /\ PublishedKept
  BY DEF Init, ReportInit, NamesFree, ReportOfSession, Running, PublishedKept
<1> QED
  BY <1>1, <1>2 DEF KeptInv

\* A start: the second is later than every archive's.
LEMMA KeptStartUp ==
  ASSUME KeptInv, StartUp
  PROVE  KeptInv'
<1>s. PICK s \in Seconds :
         /\ second' = s
         /\ \/ s > second /\ UNCHANGED events
            \/ s = second /\ mpc = "stopped" /\ Happens({"hasty start"})
  BY DEF StartUp
<1>0. mpc' = "boot" /\ UNCHANGED reportVars
  BY DEF StartUp
<1>1. ClockOK'
  BY <1>s, <1>0 DEF KeptInv, ClockOK, Running, reportVars
<1>2. ASSUME Careful' PROVE (NamesFree /\ ReportOfSession /\ PublishedKept)'
  <2>1. s > second /\ UNCHANGED events
    BY <1>s, <1>2, HastyNotCareful
  <2>2. NamesFree /\ PublishedKept
    BY <1>2, <2>1 DEF KeptInv, Careful, events
  <2>3. NamesFree'
    <3>0. s > second /\ second \in Nat /\ s \in Nat
      BY <2>1, ClockIsNumber, SecondsAreNumbers
    <3>1. \A t \in Seconds : t >= s => t > second
      BY <3>0, SecondsAreNumbers
    <3>2. \A t \in Seconds : t >= s => archives[t] = {}
      BY <2>2, <3>1 DEF NamesFree
    <3>3. \A t \in Seconds : t > s \/ t = s => t >= s
      BY SecondsAreNumbers
    <3> QED
      BY <1>s, <1>0, <3>2, <3>3 DEF NamesFree, reportVars
  <2>4. ReportOfSession'
    BY <1>0 DEF ReportOfSession, Running
  <2>5. PublishedKept'
    BY <1>0, <2>1, <2>2 DEF PublishedKept, reportVars, events
  <2> QED
    BY <2>3, <2>4, <2>5
<1> QED
  BY <1>1, <1>2 DEF KeptInv

\* The archive takes the report under a name nobody has.
LEMMA KeptBoot ==
  ASSUME KeptInv, Boot
  PROVE  KeptInv'
<1>0. mpc = "boot" /\ mpc' = "run" /\ second' = second /\ second \in Seconds
  BY DEF Boot, KeptInv, ClockOK
<1>1. ClockOK'
  BY <1>0 DEF Boot, KeptInv, ClockOK, Running, ArchiveReport, ArchivingFails, reportVars
<1>2. ASSUME Careful' PROVE (NamesFree /\ ReportOfSession /\ PublishedKept)'
  <2>1. ArchiveReport(second) /\ UNCHANGED events
    BY <1>2, FailedArchiveNotCareful DEF Boot
  <2>2. NamesFree /\ PublishedKept /\ DOMAIN archives = Seconds
    BY <1>2, <2>1 DEF KeptInv, Careful, events, ClockOK
  <2>3. \A t \in Seconds : archives'[t] = IF report # {} /\ t = second THEN report ELSE archives[t]
    BY <2>1, <2>2 DEF ArchiveReport, ArchiveName
  <2>4. NamesFree'
    <3>1. \A t \in Seconds : t > second => t # second
      BY ClockIsNumber, SecondsAreNumbers
    <3> QED
      BY <1>0, <2>2, <2>3, <3>1 DEF NamesFree
  <2>5. ReportOfSession'
    BY <2>1 DEF ReportOfSession, ArchiveReport
  <2>6. archives[second] = {}
    BY <1>0, <2>2 DEF NamesFree
  <2>7. published \subseteq report \cup UNION {archives[t] : t \in Seconds}
    BY <1>2, <2>1, <2>2 DEF PublishedKept, Careful, events
  <2>8. report \cup UNION {archives[t] : t \in Seconds} \subseteq UNION {archives'[t] : t \in Seconds}
    <3> SUFFICES ASSUME NEW x \in report \cup UNION {archives[t] : t \in Seconds}
                 PROVE  \E t \in Seconds : x \in archives'[t]
      OBVIOUS
    <3>1. CASE x \in report
      BY <1>0, <2>3, <3>1
    <3>2. CASE \E t \in Seconds : x \in archives[t]
      BY <2>3, <2>6, <3>2
    <3> QED
      BY <3>1, <3>2
  <2>9. PublishedKept'
    BY <2>1, <2>7, <2>8 DEF PublishedKept, ArchiveReport
  <2> QED
    BY <2>4, <2>5, <2>9
<1> QED
  BY <1>1, <1>2 DEF KeptInv

\* A new report has all that the one it replaces had.
LEMMA KeptPublishReport ==
  ASSUME KeptInv, PublishReport
  PROVE  KeptInv'
<1>0. /\ Running /\ Running' /\ mpc' # "boot"
      /\ UNCHANGED <<second, archives, tracker>>
      /\ \/ UNCHANGED <<report, published>>
         \/ report' = tracker /\ published' = published \cup tracker
  BY DEF PublishReport, Running, WriteReport, WritingFails, reportVars
<1>1. ClockOK'
  BY <1>0 DEF KeptInv, ClockOK, Running
<1>2. ASSUME Careful' PROVE (NamesFree /\ ReportOfSession /\ PublishedKept)'
  <2>1. NamesFree /\ ReportOfSession /\ PublishedKept /\ Careful
    BY <1>2, HappensCareful DEF PublishReport, KeptInv, Careful, events
  <2>2. NamesFree'
    BY <1>0, <2>1 DEF NamesFree
  <2>3. ReportOfSession'
    BY <1>0, <2>1 DEF ReportOfSession
  <2>4. PublishedKept'
    BY <1>0, <2>1 DEF PublishedKept, ReportOfSession, Careful
  <2> QED
    BY <2>2, <2>3, <2>4
<1> QED
  BY <1>1, <1>2 DEF KeptInv

\* The tracker dies with the process; report and archives do not.
LEMMA KeptProcessDies ==
  ASSUME KeptInv, Exit \/ Kill
  PROVE  KeptInv'
<1>0. /\ Down' /\ ~ Running' /\ mpc' # "boot"
      /\ UNCHANGED <<second, report, archives, published>>
  BY DEF Exit, Kill, ProcessDies, TrackerDies, Down, Running
<1>1. ClockOK'
  BY <1>0 DEF KeptInv, ClockOK
<1>2. ASSUME Careful' PROVE (NamesFree /\ ReportOfSession /\ PublishedKept)'
  <2>1. NamesFree /\ PublishedKept /\ Careful
    BY <1>2, HappensCareful DEF Exit, Kill, KeptInv, Careful, events
  <2> QED
    BY <1>0, <2>1 DEF NamesFree, ReportOfSession, PublishedKept, Careful
<1> QED
  BY <1>1, <1>2 DEF KeptInv

\* The other steps write no report, and the tracker only grows.
LEMMA KeptOther ==
  ASSUME KeptInv,
         RecvLine \/ Flush \/ LastFlush \/ SaveState \/ Watcher \/ Operator \/ UNCHANGED vars
  PROVE  KeptInv'
<1>0. /\ UNCHANGED <<second, report, archives, published>>
      /\ tracker \subseteq tracker'
      /\ (Running <=> Running') /\ (Down <=> Down') /\ (mpc = "boot" <=> mpc' = "boot")
      /\ UNCHANGED events \/ \E what \in {{"stop"}, {"save fails"}, {"edit"}} : Happens(what)
  BY DEF RecvLine, Flush, LastFlush, SaveState, Watcher, Operator, FlushBatch,
         FlushNothing, TrackUnmapped,
         vars, mainVars, reportVars, events, Running, Down
<1>1. ClockOK'
  BY <1>0 DEF KeptInv, ClockOK
<1>2. ASSUME Careful' PROVE (NamesFree /\ ReportOfSession /\ PublishedKept)'
  <2>1. NamesFree /\ ReportOfSession /\ PublishedKept /\ Careful
    BY <1>0, <1>2, HappensCareful DEF KeptInv, Careful, events
  <2> QED
    BY <1>0, <2>1 DEF NamesFree, ReportOfSession, PublishedKept, Careful
<1> QED
  BY <1>1, <1>2 DEF KeptInv

\* Whatever a report has ever shown is in the report or an archive, over any
\* number of starts, kills and failures (archive_unmapped_report and
\* write_unmapped_report), as long as no archiving fails and no two starts
\* share a second.
THEOREM ReportsAreKept == Spec => []PublishedKept
<1>1. KeptInv /\ [Next]_vars => KeptInv'
  BY KeptStartUp, KeptBoot, KeptPublishReport, KeptProcessDies, KeptOther DEF Next
<1>2. KeptInv => PublishedKept
  BY DEF KeptInv, PublishedKept, Careful
<1> QED
  BY <1>1, <1>2, KeptInit, PTL DEF Spec

-----------------------------------------------------------------------------
(* What was committed was reported.                                         *)

Attentive == {"late kill", "writing fails"} \cap happened = {}

PositionsOK ==
  /\ DOMAIN lines = 1 .. Len(lines) /\ Len(lines) \in Nat
  /\ DOMAIN trackedBy = DOMAIN lines
  /\ cur \in 0 .. Len(lines) /\ saved \in 0 .. Len(lines)
  /\ ~ Down => saved <= cur

\* What this session has read, the tracker has, or a report.
ReadTracked == ~ Down => \A n \in 1 .. cur : trackedBy[n] \subseteq published \cup tracker

\* Only between the save and the report does the state file pass a discovery
\* that is in memory alone.
SavedPublished ==
  mpc \notin {"report", "last report"} => \A n \in 1 .. saved : trackedBy[n] \subseteq published

ReportInv == PositionsOK /\ (Attentive => ReadTracked /\ SavedPublished)

LEMMA HappensAttentive ==
  ASSUME NEW what, Happens(what), Attentive'
  PROVE  Attentive
BY DEF Happens, Attentive

LEMMA FailedWriteNotAttentive ==
  ASSUME Happens({"writing fails"})
  PROVE  ~ Attentive'
BY DEF Happens, Attentive, Exception

LEMMA LateKillNotAttentive ==
  ASSUME Happens({"late kill"})
  PROVE  ~ Attentive'
BY DEF Happens, Attentive, Exception

LEMMA PositionsAreNumbers ==
  PositionsOK => cur \in Nat /\ saved \in Nat /\ 0 \in 0 .. Len(lines)
BY DEF PositionsOK

LEMMA ReportInit0 == Init => ReportInv
<1> SUFFICES ASSUME Init PROVE ReportInv
  OBVIOUS
<1>1. DOMAIN lines = 1 .. Len(lines) /\ Len(lines) \in Nat
  BY FilesAreSequences DEF Init
<1>2. PositionsOK
  BY <1>1 DEF Init, PositionsOK, Down
<1>3. ReadTracked /\ SavedPublished
  BY DEF Init, ReadTracked, SavedPublished, Down
<1> QED
  BY <1>2, <1>3 DEF ReportInv

\* A start goes on from the state file, all of which was reported.
LEMMA ReportStartUp ==
  ASSUME ReportInv, StartUp
  PROVE  ReportInv'
<1>0. /\ Down /\ mpc' = "boot" /\ cur' = saved
      /\ UNCHANGED <<lines, saved, trackedBy, tracker, published>>
  BY DEF StartUp, reportVars
<1>e. UNCHANGED events \/ Happens({"hasty start"})
  BY DEF StartUp
<1>1. PositionsOK'
  <2>1. PositionsOK /\ saved \in Nat
    BY PositionsAreNumbers DEF ReportInv
  <2>2. saved <= saved
    BY <2>1
  <2> QED
    BY <1>0, <2>1, <2>2 DEF PositionsOK
<1>2. ASSUME Attentive' PROVE (ReadTracked /\ SavedPublished)'
  <2>1. Attentive
    BY <1>e, <1>2, HappensAttentive DEF Attentive, events
  <2> QED
    BY <1>0, <2>1 DEF ReportInv, ReadTracked, SavedPublished, Down
<1> QED
  BY <1>1, <1>2 DEF ReportInv

\* A line is tracked before it is counted, and was not committed before.
LEMMA ReportRecvLine ==
  ASSUME ReportInv, RecvLine
  PROVE  ReportInv'
<1>0. /\ mpc = "run" /\ mpc' = "run" /\ cur < Len(lines) /\ cur' = cur + 1
      /\ UNCHANGED <<lines, saved, published, happened>>
  BY DEF RecvLine, TrackUnmapped, events
<1> PICK unmapped :
      /\ tracker' = tracker \cup unmapped
      /\ trackedBy' = [trackedBy EXCEPT ![cur'] = unmapped]
  BY DEF RecvLine, TrackUnmapped
<1>1. PositionsOK'
  BY <1>0 DEF ReportInv, PositionsOK, Down
<1>2. ASSUME Attentive' PROVE (ReadTracked /\ SavedPublished)'
  <2>1. ReadTracked /\ SavedPublished /\ PositionsOK /\ ~ Down
    BY <1>0, <1>2 DEF ReportInv, Attentive, Down
  <2>2. ASSUME NEW n \in 1 .. cur PROVE trackedBy'[n] = trackedBy[n]
    BY <1>0, <2>1 DEF PositionsOK
  <2>3. trackedBy'[cur'] = unmapped
    BY <1>0, <2>1 DEF PositionsOK
  <2>4. \A n \in 1 .. cur' : n \in 1 .. cur \/ n = cur'
    BY <1>0, <2>1 DEF PositionsOK
  <2>5. ReadTracked'
    BY <1>0, <2>1, <2>2, <2>3, <2>4 DEF ReadTracked
  <2>6. \A n \in 1 .. saved : n \in 1 .. cur
    BY <2>1 DEF PositionsOK
  <2>7. SavedPublished'
    BY <1>0, <2>1, <2>2, <2>6 DEF SavedPublished
  <2> QED
    BY <2>5, <2>7
<1> QED
  BY <1>1, <1>2 DEF ReportInv

\* From here to the report the discoveries committed may be the tracker's.
LEMMA ReportSaveState ==
  ASSUME ReportInv, SaveState
  PROVE  ReportInv'
<1>0. /\ ~ Down /\ mpc' \in {"report", "last report"} /\ saved' \in {cur, saved}
      /\ UNCHANGED <<lines, cur, trackedBy, tracker, published>>
  BY DEF SaveState, reportVars, Down
<1>e. UNCHANGED events \/ Happens({"save fails"})
  BY DEF SaveState
<1>1. PositionsOK'
  <2>1. PositionsOK /\ cur \in Nat
    BY PositionsAreNumbers DEF ReportInv
  <2>2. cur <= cur
    BY <2>1
  <2>3. saved' \in 0 .. Len(lines) /\ saved' <= cur
    BY <1>0, <2>1, <2>2 DEF PositionsOK
  <2> QED
    BY <1>0, <2>1, <2>3 DEF PositionsOK
<1>2. ASSUME Attentive' PROVE (ReadTracked /\ SavedPublished)'
  <2>1. Attentive
    BY <1>e, <1>2, HappensAttentive DEF Attentive, events
  <2> QED
    BY <1>0, <2>1 DEF ReportInv, ReadTracked, SavedPublished
<1> QED
  BY <1>1, <1>2 DEF ReportInv

\* The report has all the tracker has; an empty tracker needs none.
LEMMA ReportPublishReport ==
  ASSUME ReportInv, PublishReport
  PROVE  ReportInv'
<1>0. /\ ~ Down /\ ~ Down'
      /\ UNCHANGED <<lines, cur, saved, trackedBy, tracker>>
  BY DEF PublishReport, WriteReport, WritingFails, reportVars, Down
<1>1. PositionsOK'
  BY <1>0 DEF ReportInv, PositionsOK
<1>2. ASSUME Attentive' PROVE (ReadTracked /\ SavedPublished)'
  <2>1. WriteReport /\ UNCHANGED events
    BY <1>2, FailedWriteNotAttentive DEF PublishReport
  <2>2. ReadTracked /\ PositionsOK
    BY <1>2, <2>1 DEF ReportInv, Attentive, events
  <2>3. published' = published \cup tracker
    BY <2>1 DEF WriteReport, WorthWriting
  <2>4. \A n \in 1 .. cur : trackedBy[n] \subseteq published'
    BY <1>0, <2>2, <2>3 DEF ReadTracked
  <2>5. \A n \in 1 .. saved : n \in 1 .. cur
    BY <1>0, <2>2 DEF PositionsOK
  <2> QED
    BY <1>0, <2>4, <2>5 DEF ReadTracked, SavedPublished
<1> QED
  BY <1>1, <1>2 DEF ReportInv

\* The end of the process takes the tracker, not what was reported.
LEMMA ReportProcessDies ==
  ASSUME ReportInv, Exit \/ Kill
  PROVE  ReportInv'
<1>0. /\ Down' /\ mpc' \notin {"report", "last report"} /\ cur' = 0
      /\ UNCHANGED <<lines, saved, trackedBy, published>>
  BY DEF Exit, Kill, ProcessDies, TrackerDies, Down
<1>1. PositionsOK'
  <2>1. PositionsOK /\ 0 \in 0 .. Len(lines)
    BY PositionsAreNumbers DEF ReportInv
  <2> QED
    BY <1>0, <2>1 DEF PositionsOK
<1>2. ASSUME Attentive' PROVE (ReadTracked /\ SavedPublished)'
  <2>1. Attentive
    BY <1>2, HappensAttentive DEF Exit, Kill, Attentive, events
  <2>2. mpc \notin {"report", "last report"}
    BY <1>2, LateKillNotAttentive DEF Exit, Kill
  <2> QED
    BY <1>0, <2>1, <2>2 DEF ReportInv, ReadTracked, SavedPublished
<1> QED
  BY <1>1, <1>2 DEF ReportInv

LEMMA ReportOther ==
  ASSUME ReportInv, Boot \/ Flush \/ LastFlush \/ Watcher \/ Operator \/ UNCHANGED vars
  PROVE  ReportInv'
<1>0. /\ UNCHANGED <<lines, cur, saved, trackedBy, tracker, published>>
      /\ Down' <=> Down
      /\ mpc' \in {"report", "last report"} <=> mpc \in {"report", "last report"}
      /\ UNCHANGED events \/ \E what \in {{"archiving fails"}, {"stop"}, {"edit"}} : Happens(what)
  BY DEF Boot, Flush, LastFlush, Watcher, Operator, FlushBatch, FlushNothing,
         ArchiveReport, ArchivingFails,
         vars, mainVars, reportVars, events, Down
<1>1. PositionsOK'
  BY <1>0 DEF ReportInv, PositionsOK
<1>2. ASSUME Attentive' PROVE (ReadTracked /\ SavedPublished)'
  <2>1. Attentive
    BY <1>0, <1>2, HappensAttentive DEF Attentive, events
  <2> QED
    BY <1>0, <2>1 DEF ReportInv, ReadTracked, SavedPublished
<1> QED
  BY <1>1, <1>2 DEF ReportInv

LEMMA ReportInvImplies == ReportInv => CommittedReported
<1> SUFFICES ASSUME ReportInv, Attentive, NEW n \in 1 .. saved
             PROVE  trackedBy[n] \subseteq published \cup tracker
  BY DEF CommittedReported, Attentive
<1>1. CASE Down
  BY <1>1 DEF ReportInv, SavedPublished, Down
<1>2. CASE ~ Down
  <2>1. n \in 1 .. cur
    BY <1>2 DEF ReportInv, PositionsOK
  <2> QED
    BY <1>2, <2>1 DEF ReportInv, ReadTracked
<1> QED
  BY <1>1, <1>2

\* do_flush saves the offset before it writes the report, and a kill takes the
\* tracker: still, no line is committed whose unmapped fields no report has
\* shown and the tracker has not, unless the kill comes between the two or a
\* report could not be written.
THEOREM CommittedIsReported == Spec => []CommittedReported
<1>1. ReportInv /\ [Next]_vars => ReportInv'
  BY ReportStartUp, ReportRecvLine, ReportSaveState, ReportPublishReport, ReportProcessDies,
     ReportOther DEF Next
<1> QED
  BY <1>1, ReportInit0, ReportInvImplies, PTL DEF Spec

-----------------------------------------------------------------------------
(* Types.                                                                   *)

Stages == {"down", "stopped", "boot", "run", "save", "report",
           "last save", "last report", "exit"}

\* The watcher lives as long as the process, and polls once main() has started.
TogetherOK ==
  /\ WatcherTypeOK
  /\ mpc \in Stages
  /\ (wpc = "off" <=> Down) /\ (wpc = "loaded" <=> mpc = "boot")

\* What main() and the table have of the file.
PlacesOK ==
  /\ lines \in Input
  /\ second \in Seconds \cup {0}
  /\ cur \in 0 .. Len(lines) /\ saved \in 0 .. Len(lines)
  /\ batch \subseteq WaitingRow /\ stored \subseteq StoredRow
  /\ columns \subseteq Targets(Sanitised) \ TypedColumn
  /\ DOMAIN trackedBy = DOMAIN lines

ReportsOK ==
  /\ left \in 0 .. MaxEvent /\ happened \subseteq Exception
  /\ (tracker \cup published) \cap Known = {}
  /\ report \subseteq published

LEMMA TypeParts == TypeOK <=> TogetherOK /\ PlacesOK /\ ReportsOK
BY DEF TypeOK, TogetherOK, PlacesOK, ReportsOK, Stages

LEMMA MaxEventIsNumber == MaxEvent \in Nat
BY DiscoveryAssumption, Zenon

LEMMA NoMappingIsMapping == NoMapping \in Mapping /\ Unloadable \notin Mapping
BY WatcherAssumption, Zenon

LEMMA MtimesAreNumbers == Mtime \subseteq Nat /\ 0 \in Mtime
BY WatcherAssumption, Zenon

LEMMA HappensType ==
  ASSUME NEW what, Happens(what), left \in 0 .. MaxEvent, happened \subseteq Exception
  PROVE  left' \in 0 .. MaxEvent /\ happened' \subseteq Exception
BY MaxEventIsNumber DEF Happens

LEMMA TypeInit == Init => TypeOK
<1> SUFFICES ASSUME Init PROVE TypeOK
  OBVIOUS
<1>1. TogetherOK
  BY NoMappingIsMapping, MtimesAreNumbers
  DEF Init, WatcherInit, TogetherOK, WatcherTypeOK, Stages, Down
<1>2. PlacesOK
  <2>1. 0 \in 0 .. Len(lines)
    BY FilesAreSequences DEF Init
  <2> QED
    BY <2>1 DEF Init, PlacesOK
<1>3. ReportsOK
  BY MaxEventIsNumber DEF Init, ReportInit, ReportsOK
<1> QED
  BY <1>1, <1>2, <1>3, TypeParts

\* The watcher and the stage of main() go together through every step.
LEMMA TogetherStep ==
  ASSUME TogetherOK, [Next]_vars
  PROVE  TogetherOK'
<1>f. \A f \in Toml : f.content \in Mapping \cup {Unloadable} /\ f.mtime \in Mtime
  BY DEF Toml
<1>h. \A before \in Mapping : Loaded(before) \in Mapping
  BY DEF Loaded
<1>1. CASE StartUp
  BY <1>1, <1>h, NoMappingIsMapping
  DEF StartUp, LoadAtStart, TogetherOK, WatcherTypeOK, Stages, Down
<1>2. CASE Boot
  BY <1>2 DEF Boot, SpawnWatcher, TogetherOK, WatcherTypeOK, Stages, Down
<1>3. CASE RecvLine \/ Flush \/ LastFlush \/ SaveState \/ PublishReport \/ UNCHANGED vars
  BY <1>3 DEF RecvLine, Flush, LastFlush, FlushBatch, FlushNothing, SaveState,
              PublishReport, vars, mainVars,
              watcherVars, TogetherOK, WatcherTypeOK, Stages, Down
<1>4. CASE Exit \/ Kill
  BY <1>4, NoMappingIsMapping, MtimesAreNumbers
  DEF Exit, Kill, ProcessDies, WatcherDies, TogetherOK, WatcherTypeOK, Stages, Down
<1>5. CASE Watcher
  BY <1>5, <1>f, <1>h
  DEF Watcher, Watch, FirstLook, Poll, Reload, mainVars, TogetherOK, WatcherTypeOK, Stages, Down
<1>6. CASE Operator
  BY <1>6 DEF Operator, Edit, mainVars, TogetherOK, WatcherTypeOK, Stages, Down
<1> QED
  BY <1>1, <1>2, <1>3, <1>4, <1>5, <1>6 DEF Next

\* A line is read after those before it and committed after it is read; a
\* column is made for a target of the mappings, and for no typed column.
LEMMA PlacesStep ==
  ASSUME TogetherOK, PlacesOK, [Next]_vars
  PROVE  PlacesOK'
<1>0. /\ held \in Mapping
      /\ Len(lines) \in Nat /\ DOMAIN lines = 1 .. Len(lines) /\ 0 \in 0 .. Len(lines)
  BY FilesAreSequences DEF TogetherOK, WatcherTypeOK, PlacesOK
<1>1. CASE StartUp
  BY <1>1 DEF StartUp, PlacesOK, WaitingRow, StoredRow
<1>2. CASE RecvLine
  <2>1. cur' \in 1 .. Len(lines) /\ cur' \in 0 .. Len(lines)
    BY <1>0, <1>2 DEF RecvLine, PlacesOK
  <2>2. [line |-> cur', by |-> held] \in WaitingRow
    BY <1>0, <2>1 DEF WaitingRow
  <2> QED
    BY <1>2, <2>1, <2>2 DEF RecvLine, PlacesOK, WaitingRow, StoredRow
<1>3. CASE FlushBatch
  <2>2. columns' \subseteq Targets(Sanitised) \ TypedColumn
    BY <1>3 DEF FlushBatch, NewColumns, Custom, Targets, PlacesOK
  <2>3. \A r \in batch : [line |-> r.line, by |-> r.by, at |-> held] \in StoredRow
    BY <1>0 DEF PlacesOK, WaitingRow, StoredRow
  <2>4. stored' \subseteq StoredRow
    BY <1>3, <2>3 DEF FlushBatch, PlacesOK
  <2> QED
    BY <1>3, <2>2, <2>4 DEF FlushBatch, PlacesOK, WaitingRow, StoredRow
<1>4. CASE SaveState
  BY <1>4 DEF SaveState, PlacesOK, WaitingRow, StoredRow
<1>5. CASE Exit \/ Kill
  BY <1>0, <1>5 DEF Exit, Kill, ProcessDies, PlacesOK, WaitingRow, StoredRow
<1>6. CASE Boot \/ PublishReport \/ Watcher \/ Operator \/ FlushNothing \/ UNCHANGED vars
  BY <1>6 DEF Boot, PublishReport, Watcher, Operator, FlushNothing, vars, mainVars, PlacesOK,
              WaitingRow, StoredRow
<1>7. Flush \/ LastFlush => FlushBatch \/ FlushNothing
  BY DEF Flush, LastFlush
<1> QED
  BY <1>1, <1>2, <1>3, <1>4, <1>5, <1>6, <1>7 DEF Next

\* What KNOWN_PATHS has is never tracked, so no report has it.
LEMMA ReportsStep ==
  ASSUME ReportsOK, [Next]_vars
  PROVE  ReportsOK'
<1>0. \A d, mapped : Reported(d, mapped) \cap Known = {}
  BY DEF Reported
<1>1. left' \in 0 .. MaxEvent /\ happened' \subseteq Exception
  <2>1. UNCHANGED events \/ \E what : Happens(what)
    BY DEF Next, StartUp, Boot, RecvLine, Flush, LastFlush, SaveState, PublishReport, Exit, Kill,
           Watcher, Operator, vars
  <2> QED
    BY <2>1, HappensType DEF ReportsOK, events
<1>2. (tracker' \cup published') \cap Known = {} /\ report' \subseteq published'
  <2>1. CASE RecvLine
    BY <1>0, <2>1 DEF RecvLine, TrackUnmapped, ReportsOK
  <2>2. CASE PublishReport
    BY <2>2 DEF PublishReport, WriteReport, WritingFails, reportVars, ReportsOK
  <2>3. CASE Boot
    BY <2>3 DEF Boot, ArchiveReport, ArchivingFails, reportVars, ReportsOK
  <2>4. CASE Exit \/ Kill
    BY <2>4 DEF Exit, Kill, ProcessDies, TrackerDies, ReportsOK
  <2>5. CASE StartUp \/ Flush \/ LastFlush \/ SaveState \/ Watcher \/ Operator \/ UNCHANGED vars
    BY <2>5 DEF StartUp, Flush, LastFlush, FlushBatch, FlushNothing, SaveState,
                Watcher, Operator, vars, reportVars, ReportsOK
  <2> QED
    BY <2>1, <2>2, <2>3, <2>4, <2>5 DEF Next
<1> QED
  BY <1>1, <1>2 DEF ReportsOK, Known

\* The types of main(), the watcher and the report, whatever the operator
\* writes: no report ever has a path of KNOWN_PATHS, no column is made in the
\* place of a typed one, and the watcher polls exactly while main() runs.
THEOREM DiscoveryTyped == Spec => []TypeOK
<1>1. TypeOK /\ [Next]_vars => TypeOK'
  <2> SUFFICES ASSUME TypeOK, [Next]_vars PROVE TypeOK'
    OBVIOUS
  <2>1. TogetherOK' /\ PlacesOK' /\ ReportsOK'
    BY TypeParts, TogetherStep, PlacesStep, ReportsStep
  <2> QED
    BY <2>1 DEF TypeOK, TogetherOK, PlacesOK, ReportsOK, Stages
<1> QED
  BY <1>1, TypeInit, PTL DEF Spec

-----------------------------------------------------------------------------
(* A promoted field is seen in its column.                                  *)

\* Whatever the flush of a row found in the mappings has its column by then,
\* and no column is ever dropped.
ColumnsInv ==
  \A r \in stored : {Sanitised[t] : t \in Targets(r.at) \cap Custom} \subseteq columns \cup TypedColumn

LEMMA SetToSeqOne ==
  ASSUME NEW x
  PROVE  SetToSeq({x}) = <<x>>
<1>1. Cardinality({x}) = 1
  BY FS_Singleton
<1>2. [i \in 1 .. 1 |-> x] \in [1 .. 1 -> {x}] /\ IsInjective([i \in 1 .. 1 |-> x])
  BY DEF IsInjective
<1>3. \A f \in [1 .. 1 -> {x}] : f = <<x>>
  OBVIOUS
<1> QED
  BY <1>1, <1>2, <1>3 DEF SetToSeq

LEMMA MappingsAreInjective ==
  ASSUME NEW m \in Mapping, NEW p \in DOMAIN m, NEW q \in DOMAIN m, m[p] = m[q]
  PROVE  p = q
<1>1. \A map \in Mapping : IsInjective(map)
  BY DiscoveryAssumption, Zenon
<1> QED
  BY <1>1 DEF IsInjective

LEMMA StandardColumns ==
  /\ \A t \in Standard : ColumnOf[t] \in TypedColumn
  /\ \A t, u \in Standard : ColumnOf[t] = ColumnOf[u] => t = u
  /\ Standard \cap Custom = {}
<1>1. /\ IsInjective(ColumnOf)
      /\ \A t \in Standard : ColumnOf[t] \in TypedColumn
      /\ Standard \cap Custom = {}
  BY DiscoveryAssumption, Zenon
<1> QED
  BY <1>1 DEF IsInjective, Standard

LEMMA ColumnsStep ==
  ASSUME ColumnsInv, [Next]_vars
  PROVE  ColumnsInv'
<1>1. CASE FlushBatch
  <2>2. ASSUME NEW r \in stored'
        PROVE  {Sanitised[t] : t \in Targets(r.at) \cap Custom} \subseteq columns' \cup TypedColumn
    <3>1. CASE r \in stored
      BY <1>1, <3>1 DEF ColumnsInv, FlushBatch
    <3>2. CASE r \notin stored
      <4>1. r.at = held
        BY <1>1, <3>2 DEF FlushBatch
      <4> QED
        BY <1>1, <4>1 DEF FlushBatch, NewColumns
    <3> QED
      BY <3>1, <3>2
  <2> QED
    BY <2>2 DEF ColumnsInv, Targets, Custom, TypedColumn
<1>2. CASE UNCHANGED <<stored, columns>>
  BY <1>2 DEF ColumnsInv, Targets, Custom, TypedColumn
<1>3. FlushBatch \/ UNCHANGED <<stored, columns>>
  BY DEF Next, StartUp, Boot, RecvLine, Flush, LastFlush, FlushNothing, SaveState,
         PublishReport, Exit, Kill, ProcessDies, Watcher, Operator, vars, mainVars
<1> QED
  BY <1>1, <1>2, <1>3

\* A field whose target is a standard one fills the typed column that the
\* lists leave empty: it is the only one mapped to it.
LEMMA StandardIsSeen ==
  ASSUME NEW d, NEW m \in Mapping, NEW path \in DOMAIN m, m[path] \in Standard,
         NEW c, c = ColumnOf[m[path]], MappedRead(KindOf[c], d, path) # Unset(KindOf[c])
  PROVE  TypedValue(d, m, c) # Unset(KindOf[c])
<1>1. {p \in DOMAIN m : m[p] \in Standard /\ ColumnOf[m[p]] = c} = {path}
  BY StandardColumns, MappingsAreInjective
<1>2. FieldsFor(m, c) = <<path>>
  BY <1>1, SetToSeqOne DEF FieldsFor
<1>3. Head(FieldsFor(m, c)) = path /\ FieldsFor(m, c) # <<>>
  BY <1>2
<1> QED
  BY <1>3 DEF TypedValue

LEMMA CustomIsSeen ==
  ASSUME NEW d, NEW m \in Mapping, NEW path \in DOMAIN m, m[path] \in Custom
  PROVE  Extension(d, m, m[path]) = DataField(d, path)
<1>1. {p \in DOMAIN m : m[p] = m[path] /\ m[path] \in Custom} = {path}
  BY MappingsAreInjective
<1>2. SetToSeq({p \in DOMAIN m : m[p] = m[path] /\ m[path] \in Custom}) = <<path>>
  BY <1>1, SetToSeqOne
<1>3. <<path>> # <<>> /\ Head(<<path>>) = path
  OBVIOUS
<1> QED
  BY <1>2, <1>3 DEF Extension

LEMMA ColumnsShow ==
  ASSUME TypeOK, ColumnsInv
  PROVE  PromotedIsVisible
<1> SUFFICES ASSUME NEW r \in stored, NEW path \in DOMAIN r.by, NEW t, t = r.by[path],
                    NEW kind, kind = (IF t \in Standard THEN KindOf[ColumnOf[t]] ELSE "text"),
                    Plain(t), t \in Standard \cup Targets(r.at),
                    MappedRead(kind, lines[r.line], path) # Unset(kind)
             PROVE  Shown(r, NameOf(t)) # Unset(kind)
  BY DEF PromotedIsVisible
<1>0. r.by \in Mapping
  BY DEF TypeOK, StoredRow
<1>1. CASE t \in Standard
  <2>1. NameOf(t) = ColumnOf[t] /\ NameOf(t) \in TypedColumn /\ kind = KindOf[NameOf(t)]
    BY <1>1, StandardColumns DEF NameOf
  <2>2. Shown(r, NameOf(t)) = TypedValue(lines[r.line], r.by, NameOf(t))
    BY <2>1 DEF Shown, TypeOK
  <2> QED
    BY <1>0, <1>1, <2>1, <2>2, StandardIsSeen
<1>2. CASE t \notin Standard
  <2>1. /\ t \in Custom /\ Sanitised[t] = t /\ t \notin TypedColumn /\ NameOf(t) = t
        /\ kind = "text" /\ t \in Targets(r.at)
    BY <1>2 DEF Plain, NameOf
  <2>2. t \in columns
    BY <2>1 DEF ColumnsInv
  <2>3. Shown(r, NameOf(t)) = DataField(lines[r.line], path)
    BY <1>0, <2>1, <2>2, CustomIsSeen DEF Shown
  <2> QED
    BY <2>1, <2>3 DEF MappedRead
<1> QED
  BY <1>1, <1>2

\* What a row was made of under a mapping is seen in the column of its target,
\* whichever mappings the flush finds after reloads, kills and restarts, for a
\* target that is a column name of its own and is still mapped at the flush.
THEOREM PromotedFieldsAreSeen == Spec => []PromotedIsVisible
<1>1. Init => ColumnsInv
  BY DEF Init, ColumnsInv
<1>2. ColumnsInv /\ [Next]_vars => ColumnsInv'
  BY ColumnsStep
<1>3. TypeOK /\ ColumnsInv => PromotedIsVisible
  BY ColumnsShow
<1> QED
  BY <1>1, <1>2, <1>3, DiscoveryTyped, PTL DEF Spec
-----------------------------------------------------------------------------
(* How a field is found, in every data object.                              *)

LEMMA FlattenOne ==
  ASSUME NEW x
  PROVE  FlattenSeq(<<x>>) = x
<1> DEFINE n == Len(<<x>>)
           F(g) == [i \in 1 .. n |-> IF i = 1 THEN <<x>>[i] ELSE g[i - 1] \o <<x>>[i]]
<1>0. n = 1 /\ n # 0
  OBVIOUS
<1>1. F([i \in 1 .. n |-> x]) = [i \in 1 .. n |-> x]
  OBVIOUS
<1>2. \A g : g = F(g) => g[n] = x
  OBVIOUS
<1>3. (CHOOSE g : g = F(g))[n] = x
  <2>1. \E g : g = F(g)
    BY <1>1
  <2> HIDE DEF F
  <2> QED
    BY <1>2, <2>1
<1> QED
  BY <1>0, <1>3, Zenon DEF FlattenSeq

\* The flat path of a dotted key is the key.
LEMMA FlatLiteral ==
  ASSUME NEW path
  PROVE  FlatPath(Literal(path)) = path
<1>1. [k \in DOMAIN Literal(path) |-> Literal(path)[k].key] = <<path>>
  BY DEF Literal, Key
<1> QED
  BY <1>1, FlattenOne DEF FlatPath

\* get_data_field finds a printable field that is reached by keys without dots
\* or by one dotted key, or another one of the same path.
LEMMA FieldIsFound ==
  ASSUME NEW d, NEW pos \in DOMAIN d, NEW path, path = FlatPath(pos),
         pos # <<>>, Printable(d, pos), pos \in {Literal(path), Nested(path)}
  PROVE  DataField(d, path) # NoLeaf /\ FlatPath(DataField(d, path)) = path
<1>1. CASE Printable(d, Literal(path))
  <2>1. DataField(d, path) = Literal(path)
    BY <1>1 DEF DataField
  <2>2. Literal(path) # NoLeaf
    BY DEF Literal, NoLeaf
  <2> QED
    BY <2>1, <2>2, FlatLiteral
<1>2. CASE ~ Printable(d, Literal(path))
  <2>1. pos = Nested(path) /\ DataField(d, path) = pos
    BY <1>2 DEF DataField
  <2> QED
    BY <2>1 DEF NoLeaf
<1> QED
  BY <1>1, <1>2

LEMMA ObjectsAreWellFormed == \A d \in Object : WellFormed(d)
BY DiscoveryAssumption, Zenon DEF Object

LEMMA LeavesAreValues ==
  ASSUME NEW d \in Object, NEW pos
  PROVE  NumAt(d, pos) \in Nat \cup {NotANumber}
<1>1. \A p \in DOMAIN d : d[p] \in Value
  BY ObjectsAreWellFormed DEF WellFormed
<1>2. \A v \in Value : v.num \in Nat \cup {NotANumber}
  BY DEF Value
<1> QED
  BY <1>1, <1>2 DEF NumAt

\* No object has a field that a mapping of its reported path misses: what
\* track_unmapped_fields names, get_data_field finds.
THEOREM FieldsArePromotable == Spec => []PathsArePromotable
<1>1. Unpromotable = {}
  <2> SUFFICES ASSUME NEW d \in Object, NEW pos \in DOMAIN d,
                      Printable(d, pos), pos \in {Literal(FlatPath(pos)), Nested(FlatPath(pos))}
               PROVE  /\ DataField(d, FlatPath(pos)) # NoLeaf
                      /\ FlatPath(DataField(d, FlatPath(pos))) = FlatPath(pos)
    BY DEF Unpromotable
  <2>1. pos # <<>>
    BY ObjectsAreWellFormed DEF WellFormed
  <2> QED
    BY <2>1, FieldIsFound
<1>2. PathsArePromotable
  BY <1>1 DEF PathsArePromotable
<1> QED
  BY <1>2, PTL

\* A path that a list of field_paths.rs reads is read alike by a mapping: the
\* leaf is where the mapping finds it.
LEMMA SameLeaf ==
  ASSUME NEW d, NEW path, TypeAt(d, ListLeaf(d, path)) \in {"text", "padded", "number"}
  PROVE  DataField(d, path) = ListLeaf(d, path)
<1>1. CASE HasLiteral(d, path)
  BY <1>1 DEF ListLeaf, DataField, Printable
<1>2. CASE ~ HasLiteral(d, path)
  <2>1. Literal(path) \notin DOMAIN d
    BY <1>2 DEF HasLiteral, Literal
  <2>2. ~ Printable(d, Literal(path))
    BY <2>1 DEF Printable, TypeAt
  <2> QED
    BY <1>2, <2>2 DEF ListLeaf, DataField, Printable
<1> QED
  BY <1>1, <1>2

\* What first_str, first_port and first_u64 read, a mapping of the same path
\* for the same column reads: the same text, or the same number, unless the
\* number is padded or above the largest port.
LEMMA SameReading ==
  ASSUME NEW d \in Object, NEW path, NEW kind,
         ListRead(kind, d, path) # Unset(kind),
         kind # "text" => TypeAt(d, ListLeaf(d, path)) # "padded",
         kind = "port" => NumAt(d, ListLeaf(d, path)) <= MaxPort
  PROVE  MappedRead(kind, d, path) = ListRead(kind, d, path)
<1> DEFINE pos == ListLeaf(d, path)
           num == NumAt(d, pos)
           type == TypeAt(d, pos)
<1>0. num \in Nat \cup {NotANumber}
  BY LeavesAreValues
<1>1. CASE kind = "text"
  <2>1. type \in {"text", "padded"}
    BY <1>1 DEF ListRead, Unset
  <2> QED
    BY <1>1, <2>1, SameLeaf DEF ListRead, MappedRead
<1>2. CASE kind = "port"
  <2>1. ~ num > MaxPort
    BY <1>0, <1>2 DEF MaxPort, NotANumber
  <2>2. type \in {"text", "number"} /\ ListRead(kind, d, path) = PortOf(num)
    BY <1>2, <2>1 DEF ListRead, Unset
  <2> QED
    BY <1>2, <2>2, SameLeaf DEF MappedRead
<1>3. CASE kind = "counter"
  <2>1. type \in {"text", "number"} /\ num # NotANumber /\ ListRead(kind, d, path) = num
    BY <1>3 DEF ListRead, Unset
  <2> QED
    BY <1>3, <2>1, SameLeaf DEF MappedRead
<1>4. kind \in {"text", "port", "counter"}
  BY DEF ListRead, Unset
<1> QED
  BY <1>1, <1>2, <1>3, <1>4

\* The look-ups of src/util/json.rs agree, although get_data_field tries the
\* nested path where first_str, first_port and first_u64 stop at the literal
\* key: promoting a path cannot change what its column shows.
THEOREM LookupsAlwaysAgree == Spec => []LookupsAgree
<1>1. ReadOtherwise = {}
  <2> SUFFICES ASSUME NEW d \in Object, NEW pos \in DOMAIN d, NEW c \in TypedColumn,
                      ListRead(KindOf[c], d, FlatPath(pos)) # Unset(KindOf[c]),
                      KindOf[c] # "text" => TypeAt(d, ListLeaf(d, FlatPath(pos))) # "padded",
                      KindOf[c] = "port" => NumAt(d, ListLeaf(d, FlatPath(pos))) <= MaxPort
               PROVE  MappedRead(KindOf[c], d, FlatPath(pos)) = ListRead(KindOf[c], d, FlatPath(pos))
    BY DEF ReadOtherwise
  <2> QED
    BY SameReading
<1>2. LookupsAgree
  BY <1>1 DEF LookupsAgree
<1> QED
  BY <1>2, PTL
=============================================================================
