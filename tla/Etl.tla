---------------------------------- MODULE Etl ----------------------------------
(***************************************************************************)
(* The service in file mode: main() of src/main.rs with its event loop, the *)
(* reader task (Tailer), the flush (Sink), the state file, and what happens *)
(* around them: the manager writes and rotates, the process is killed and   *)
(* restarted, a signal stops it, statements and saves fail.                 *)
(*                                                                         *)
(* The event loop is a select! over the channel, the flush timer and the    *)
(* shutdown signal; do_flush runs inside a branch, so nothing else of the   *)
(* loop happens until it ends.  The reader runs all the while.              *)
(***************************************************************************)
EXTENDS Tailer, Sink

CONSTANTS
  SeekToEnd,    \* SEEK_TO_END_ON_FIRST_RUN
  TableOf,      \* TableOf[l]: the table line l is routed to
  MaxCrash,     \* how often the process is killed
  MaxStop,      \* how often it is stopped by a signal
  MaxSaveFail,  \* how often the state file cannot be saved
  MaxReload     \* how often field_mappings.toml changes

ASSUME EtlAssumption ==
  /\ Row = Line
  /\ SeekToEnd \in BOOLEAN
  /\ TableOf \in [Line -> Table] /\ IsFiniteSet(Table)
  /\ MaxCrash \in Nat /\ MaxStop \in Nat
  /\ MaxSaveFail \in Nat /\ MaxReload \in Nat

VARIABLES
  mpc,        \* "down" (killed), "stopped" (exited), "boot", "run", "final"
  cur,        \* current_offset
  saved,      \* the state file; NoState while there is none
  bootSize,   \* file_size of the start in progress
  base,       \* where the last start without a state file began to read
  faults      \* how often each bounded thing has happened

mainVars == <<mpc, cur, saved, bootSize, base, faults>>
vars == <<fsVars, readerVars, sinkVars, mainVars>>

MainTypeOK ==
  /\ mpc \in {"down", "stopped", "boot", "run", "final"}
  /\ cur \in Nat
  /\ saved \in TailState
  /\ bootSize \in Nat
  /\ base \in Nat
  /\ faults \in [crash : Nat, stop : Nat, save : Nat, reload : Nat]

TypeOK == FsTypeOK /\ ReaderTypeOK /\ SinkTypeOK /\ MainTypeOK

Init ==
  /\ FsInit /\ NoReader /\ SinkInit
  /\ mpc = "down" /\ cur = 0 /\ saved = NoState
  /\ bootSize = 0 /\ base = 0
  /\ faults = [crash |-> 0, stop |-> 0, save |-> 0, reload |-> 0]

Once(what, bound) ==
  /\ faults[what] < bound
  /\ faults' = [faults EXCEPT ![what] = @ + 1]

-----------------------------------------------------------------------------
(* Start: the state file, then two metadata calls, then the reader.         *)

ReadSize ==
  /\ mpc \in {"down", "stopped"}
  /\ bootSize' = PathSize
  /\ mpc' = "boot"
  /\ UNCHANGED <<fsVars, readerVars, sinkVars, cur, saved, base, faults>>

FirstRun == saved = NoState

\* (mutant) Every start begins at byte 0.
ResumeAtZero == 0

\* After a rotation while stopped the offset is kept as it is; a file that
\* has shrunk is read again.
ResumeOffset ==
  IF saved.inode # NoInode /\ saved.inode # PathInode THEN saved.offset
  ELSE IF saved.offset > bootSize THEN 0
  ELSE saved.offset

StartOffset ==
  IF ~ FirstRun THEN ResumeOffset
  ELSE IF SeekToEnd THEN bootSize ELSE 0

StartState == [inode |-> PathInode, offset |-> StartOffset]

StartUp ==
  /\ mpc = "boot"
  /\ \/ /\ FirstRun /\ StartOffset > 0
        /\ saved' = StartState
        /\ UNCHANGED faults
     \/ /\ FirstRun /\ StartOffset > 0
        /\ Once("save", MaxSaveFail)
        /\ UNCHANGED saved
     \/ /\ ~ (FirstRun /\ StartOffset > 0)
        /\ UNCHANGED <<saved, faults>>
  /\ base' = IF FirstRun THEN StartOffset ELSE base
  /\ SpawnReader(StartState)
  /\ cur' = StartOffset
  /\ mpc' = "run"
  /\ UNCHANGED <<fsVars, sinkVars, bootSize>>

-----------------------------------------------------------------------------
(* The event loop.                                                          *)

Waiting == mpc = "run" /\ fpc = "idle"

\* transform() makes a record of a line that is a JSON object.
IsRecord(m) == IsAlert(m.line) /\ m.whole

RecvLine ==
  /\ Waiting
  /\ chan # <<>>
  /\ cur' = Head(chan).off
  /\ chan' = Tail(chan)
  /\ IF IsRecord(Head(chan))
       THEN PushRow(TableOf[Head(chan).line], Head(chan).line)
       ELSE UNCHANGED <<batches, fpc>>
  /\ UNCHANGED <<fsVars, rpc, goal, statIno, tailer, initial, msg, rxOpen>>
  /\ UNCHANGED <<columnVars, work, ftab, knownTables, rowVars, dbFaults>>
  /\ UNCHANGED <<mpc, saved, bootSize, base, faults>>

\* recv() returns None: the final flush.
RecvClosed ==
  /\ Waiting
  /\ ChannelEnded
  /\ StartFlush
  /\ mpc' = "final"
  /\ UNCHANGED <<fsVars, readerVars, batches, columnVars, work, ftab,
                 knownTables, rowVars, dbFaults>>
  /\ UNCHANGED <<cur, saved, bootSize, base, faults>>

FlushTick ==
  /\ Waiting
  /\ ~ NothingPending
  /\ StartFlush
  /\ UNCHANGED <<fsVars, readerVars, batches, columnVars, work, ftab,
                 knownTables, rowVars, dbFaults, mainVars>>

\* SIGTERM or SIGINT: the receiver is closed, what is in the channel stays.
Shutdown ==
  /\ Waiting
  /\ rxOpen
  /\ Once("stop", MaxStop)
  /\ rxOpen' = FALSE
  /\ UNCHANGED <<fsVars, rpc, goal, statIno, tailer, initial, msg, chan>>
  /\ UNCHANGED <<sinkVars, mpc, cur, saved, bootSize, base>>

-----------------------------------------------------------------------------
(* The flush, and the save that ends it whatever became of the rows.        *)

Flush ==
  /\ FlushStep
  /\ UNCHANGED <<fsVars, readerVars, mainVars>>

\* (mutant) The save takes the offset the reader has got to.
StateReadSoFar == [inode |-> PathInode, offset |-> tailer.offset]

StateToSave == [inode |-> PathInode, offset |-> cur]

SaveOutcome ==
  \/ saved' = StateToSave /\ UNCHANGED faults
  \/ Once("save", MaxSaveFail) /\ UNCHANGED saved

SaveState ==
  /\ mpc = "run" /\ fpc = "save"
  /\ SaveOutcome
  /\ fpc' = "idle"
  /\ UNCHANGED <<fsVars, readerVars, batches, columnVars, work, ftab,
                 knownTables, rowVars, dbFaults>>
  /\ UNCHANGED <<mpc, cur, bootSize, base>>

\* The save of the final flush, and the end of the process.
FinalSave ==
  /\ mpc = "final" /\ fpc = "save"
  /\ SaveOutcome
  /\ mpc' = "stopped" /\ cur' = 0 /\ bootSize' = 0
  /\ ReaderDies /\ SinkDies
  /\ UNCHANGED <<fsVars, base>>

-----------------------------------------------------------------------------
(* The rest of the world.                                                   *)

Crash ==
  /\ mpc \in {"boot", "run", "final"}
  /\ Once("crash", MaxCrash)
  /\ mpc' = "down" /\ cur' = 0 /\ bootSize' = 0
  /\ ReaderDies /\ SinkDies
  /\ UNCHANGED <<fsVars, saved, base>>

\* field_mappings.toml is edited and, if the service runs, reloaded.
HotReload ==
  /\ Once("reload", MaxReload)
  /\ targets' \in SUBSET Column
  /\ UNCHANGED <<fsVars, readerVars, batches, flushVars, rowVars, dbFaults>>
  /\ UNCHANGED <<knownCols, newCols, colsTodo, colsFailed, dbCols>>
  /\ UNCHANGED <<mpc, cur, saved, bootSize, base>>

Manager == FsNext /\ UNCHANGED <<readerVars, sinkVars, mainVars>>
Reader == ReaderNext /\ UNCHANGED <<sinkVars, mainVars>>

Next ==
  \/ ReadSize \/ StartUp
  \/ RecvLine \/ RecvClosed \/ FlushTick \/ Shutdown
  \/ Flush \/ SaveState \/ FinalSave
  \/ Crash \/ HotReload \/ Manager \/ Reader

\* The unit restarts a killed process (Restart=on-failure), not one that
\* exited.  The runtime polls the tasks, the timer fires for ever, and
\* ClickHouse answers every statement in the end.
Fairness ==
  /\ WF_vars(mpc = "down" /\ ReadSize)
  /\ WF_vars(StartUp)
  /\ WF_vars(RecvLine \/ RecvClosed)
  /\ WF_vars(FlushTick)
  /\ WF_vars(Flush \/ SaveState \/ FinalSave)
  /\ WF_vars(Reader)

Spec == Init /\ [][Next]_vars
FairSpec == Spec /\ Fairness

-----------------------------------------------------------------------------
(* Properties.  Most are about a file that keeps growing (Stable): what a   *)
(* rotation does is the subject of Tailing and of the runs of findings.     *)

InFlight == RowsIn(batches) \cup RowsIn(work)

\* The lines that messages of the channel, and the one being sent, carry.
InChannel ==
  {m.line : m \in {x \in RowsOf(chan) \cup {msg} : x # NoMsg /\ IsRecord(x)}}

\* The alerts of file f that end at or before n and start at or after b.
Owed(f, b, n) ==
  {f[i].line : i \in
     {j \in Newlines(f) :
        j <= n /\ b <= StartOf(f, j) /\ IsAlert(f[j].line)}}

\* The alerts that a position n of the growing file stands for.
OwedAt(n) == Owed(file[1], base, n)

\* The offset in the state file never passes an alert that ClickHouse has not
\* got and that no logged error has given up, whenever the process is killed,
\* stopped or restarted: a restart at saved.offset skips nothing that is only
\* in memory (do_flush saves after flush_all, and the offset of the last line
\* taken from the channel).
CommittedSettled == Stable => OwedAt(saved.offset) \subseteq Settled

\* While the process runs, an alert the tailer has passed is in the channel,
\* in a batch, in the flush or settled: nothing falls between the tasks.  (A
\* task that returned at shutdown took its last line with it, uncommitted.)
NothingForgotten ==
  Stable /\ goal = "tailing" /\ rpc # "returned" =>
    OwedAt(tailer.offset) \subseteq Settled \cup InFlight \cup InChannel

BatchBound == IF BatchSize = 0 THEN 1 ELSE BatchSize

\* What one flush can hold: it starts when the first batch is full.
FlushBound == Cardinality(Table) * (BatchBound - 1) + 1

\* A kill makes the next starts insert at most one flush again, and a clean
\* stop nothing at all (the final flush is saved before the process ends).
ReplayBounded ==
  Stable /\ faults.save = 0 => replayed <= faults.crash * FlushBound

\* Backpressure: however slow ClickHouse is, the process holds at most the
\* channel, the line being sent and one batch per table.
MemoryBounded ==
  /\ Len(chan) <= ChannelCap
  /\ \A t \in Table : Len(batches[t]) + Len(work[t]) <= BatchBound

\* Every alert of a growing file is settled in the end, whatever is killed or
\* fails on the way, unless the service is stopped.
EveryAlertSettled ==
  \A l \in Line :
    (Stable /\ l \in OwedAt(Len(file[1]))) ~> (l \in Settled \/ mpc = "stopped" \/ ~ Stable)

\* A signal ends the process: the channel is drained, the last flush done.
ShutdownCompletes == (mpc = "run" /\ ~ rxOpen) ~> (mpc \in {"stopped", "down"})

\* On a growing file the service implements AtLeastOnce: what is committed
\* never moves back and only moves over alerts that are settled.
Promise ==
  INSTANCE AtLeastOnce WITH
    finished <- {[line |-> file[1][i].line, start |-> StartOf(file[1], i), end |-> i] :
                   i \in {j \in Newlines(file[1]) : IsAlert(file[1][j].line)}},
    handled <- Settled,
    committed <- saved.offset,
    from <- base

KeepsPromise == Promise!Spec

-----------------------------------------------------------------------------
(* What the documentation says, where the code does something else.         *)

\* docs/reference-full.md, ClickHouse slow or down: "no data loss".  What the
\* state file covers is in ClickHouse.
CommittedStored == Stable => OwedAt(saved.offset) \subseteq stored

\* docs/reference-full.md, rotation while stopped: "resets to offset 0 and
\* reads the new file from the beginning".  When the reader starts to tail,
\* and what it has open is the file it takes it for and not the saved one, it
\* stands at 0.
NewFileFromStart ==
  [][goal # "tailing" /\ goal' = "tailing" /\ tailer'.fd = tailer'.inode
       /\ saved.inode \notin {NoInode, tailer'.inode} => tailer'.offset = 0]_vars

\* docs/reference-full.md on custom columns: "If DDL fails (transient), the
\* column stays unregistered and is retried".  Between flushes a known table
\* has every column registered as known.
RegisteredExists ==
  fpc = "idle" => \A t \in knownTables : knownCols \subseteq dbCols[t]
=============================================================================
