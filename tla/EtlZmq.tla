-------------------------------- MODULE EtlZmq --------------------------------
(***************************************************************************)
(* The service in ZeroMQ mode: main() of src/main.rs with the reader of     *)
(* ZmqReader in the place of the tailer.  The loop, the flush and the save  *)
(* are those of file mode.  The alerts file is not read, yet its inode and  *)
(* size are asked for, at the start and at every save, and the state file   *)
(* is the one that file mode resumes from.  The file does not change here.  *)
(***************************************************************************)
EXTENDS ZmqReader, Sink

CONSTANTS
  FileInode, FileSize,  \* alerts.json, 0 and 0 if there is none
  SeekToEnd,    \* SEEK_TO_END_ON_FIRST_RUN
  TableOf,      \* TableOf[n]: the table alert n is routed to
  MaxCrash,     \* how often the process is killed
  MaxStop,      \* how often it is stopped by a signal
  MaxReload     \* how often field_mappings.toml changes

ASSUME EtlZmqAssumption ==
  /\ Row = Message
  /\ FileInode \in Nat /\ FileSize \in Nat
  /\ FileInode = 0 => FileSize = 0
  /\ SeekToEnd \in BOOLEAN
  /\ TableOf \in [Message -> Table]
  /\ MaxCrash \in Nat /\ MaxStop \in Nat /\ MaxReload \in Nat

VARIABLES
  mpc,      \* "down" (killed), "stopped" (exited), "run", "final"
  cur,      \* current_offset
  saved,    \* the state file; NoState while there is none
  faults    \* how often each bounded thing has happened

mainVars == <<mpc, cur, saved, faults>>
vars == <<publisherVars, readerVars, sinkVars, mainVars>>

NoState == [inode |-> 0, offset |-> 0]

TypeOK ==
  /\ ZmqTypeOK /\ SinkTypeOK
  /\ mpc \in {"down", "stopped", "run", "final"}
  /\ cur \in 0 .. FileSize
  /\ saved \in [inode : {0, FileInode}, offset : 0 .. FileSize]
  /\ faults \in [crash : 0 .. MaxCrash, stop : 0 .. MaxStop, reload : 0 .. MaxReload]

\* No state file, or the one file mode left before the mode was changed; the
\* first custom targets count as an edit.
Init ==
  /\ ZmqInit /\ SinkInit /\ targets = {}
  /\ mpc = "down" /\ cur = 0
  /\ saved \in {NoState} \cup [inode : {FileInode}, offset : 0 .. FileSize]
  /\ faults = [crash |-> 0, stop |-> 0, reload |-> 0]

Once(what, bound) ==
  /\ faults[what] < bound
  /\ faults' = [faults EXCEPT ![what] = @ + 1]

\* A save that fails is logged, if that.
SaveOutcome(state) == saved' \in {state, saved}

FirstRun == saved = NoState

\* (mutant) Every start begins at the end of the file.
SeekAlways == IF SeekToEnd THEN FileSize ELSE 0

StartOffset ==
  IF ~ FirstRun THEN saved.offset ELSE IF SeekToEnd THEN FileSize ELSE 0

StartUp ==
  /\ mpc \in {"down", "stopped"}
  /\ IF FirstRun /\ StartOffset > 0
       THEN SaveOutcome([inode |-> FileInode, offset |-> StartOffset])
       ELSE UNCHANGED saved
  /\ cur' = StartOffset
  /\ mpc' = "run"
  /\ SpawnZmqReader
  /\ UNCHANGED <<sinkVars, faults>>

Waiting == mpc = "run" /\ fpc = "idle"

\* (mutant) The number of the message is taken for an offset.
OffsetNumbered(n) == n

\* The offset every message comes with.
OffsetOf(n) == 0

RecvMessage ==
  /\ Waiting
  /\ chan # <<>>
  /\ chan' = Tail(chan)
  /\ cur' = OffsetOf(Head(chan))
  /\ IF Payload[Head(chan)] = "alert"
       THEN PushRow(TableOf[Head(chan)], Head(chan))
       ELSE UNCHANGED <<batches, fpc>>
  /\ UNCHANGED <<publisherVars, rpc, msg, rxOpen, sent>>
  /\ UNCHANGED <<columnVars, work, ftab, knownTables, rowVars, dbFaults>>
  /\ UNCHANGED <<mpc, saved, faults>>

\* (mutant) What is in a closed channel is not drained.
EndedUndrained == ~ rxOpen \/ rpc = "returned"

\* (mutant) recv() waits for the task to return as well.
EndedWithTask == chan = <<>> /\ rpc = "returned"

\* The channel is closed and empty; the task need not have noticed.
ChannelEnded == chan = <<>> /\ (~ rxOpen \/ rpc = "returned")

RecvClosed ==
  /\ Waiting
  /\ ChannelEnded
  /\ StartFlush
  /\ mpc' = "final"
  /\ UNCHANGED <<publisherVars, readerVars, batches, columnVars, work, ftab,
                 knownTables, rowVars, dbFaults, cur, saved, faults>>

FlushTick ==
  /\ Waiting
  /\ ~ NothingPending
  /\ StartFlush
  /\ UNCHANGED <<publisherVars, readerVars, batches, columnVars, work, ftab,
                 knownTables, rowVars, dbFaults, mainVars>>

Shutdown ==
  /\ Waiting
  /\ rxOpen
  /\ Once("stop", MaxStop)
  /\ rxOpen' = FALSE
  /\ UNCHANGED <<publisherVars, rpc, msg, chan, sent, sinkVars, mpc, cur, saved>>

Flush ==
  /\ FlushStep
  /\ UNCHANGED <<publisherVars, readerVars, mainVars>>

StateToSave == [inode |-> FileInode, offset |-> cur]

SaveState ==
  /\ mpc = "run" /\ fpc = "save"
  /\ SaveOutcome(StateToSave)
  /\ fpc' = "idle"
  /\ UNCHANGED <<publisherVars, readerVars, batches, columnVars, work, ftab,
                 knownTables, rowVars, dbFaults, mpc, cur, faults>>

FinalSave ==
  /\ mpc = "final" /\ fpc = "save"
  /\ SaveOutcome(StateToSave)
  /\ mpc' = "stopped" /\ cur' = 0
  /\ ZmqReaderDies /\ SinkDies
  /\ UNCHANGED faults

Crash ==
  /\ mpc \in {"run", "final"}
  /\ Once("crash", MaxCrash)
  /\ mpc' = "down" /\ cur' = 0
  /\ ZmqReaderDies /\ SinkDies
  /\ UNCHANGED saved

HotReload ==
  /\ Once("reload", MaxReload)
  /\ targets' \in SUBSET Column \ {targets}
  /\ UNCHANGED <<publisherVars, readerVars, batches, flushVars, rowVars, dbFaults>>
  /\ UNCHANGED <<knownCols, newCols, colsTodo, colsFailed, dbCols, mpc, cur, saved>>

Publisher == PublisherNext /\ UNCHANGED <<sinkVars, mainVars>>
Reader == ReaderNext /\ UNCHANGED <<sinkVars, mainVars>>

Next ==
  \/ StartUp \/ RecvMessage \/ RecvClosed \/ FlushTick \/ Shutdown
  \/ Flush \/ SaveState \/ FinalSave \/ Crash \/ HotReload \/ Publisher \/ Reader

\* As in file mode; the network hands a subscription over in the end, and the
\* publisher owes nobody a message.
Fairness ==
  /\ WF_vars(mpc = "down" /\ StartUp)
  /\ WF_vars(RecvMessage \/ RecvClosed)
  /\ WF_vars(FlushTick)
  /\ WF_vars(Flush \/ SaveState \/ FinalSave)
  /\ WF_vars(Reader)
  /\ SF_vars(Join /\ UNCHANGED <<sinkVars, mainVars>>)

Spec == Init /\ [][Next]_vars /\ Fairness

-----------------------------------------------------------------------------
InFlight == RowsIn(batches) \cup RowsIn(work) \cup RowsOf(chan)

\* ZeroMQ mode implements AtMostOnce: reconnects, kills, restarts and lost
\* replies never make it take an alert again, nor an older one after a newer,
\* and ClickHouse is given no alert twice.
Promise == INSTANCE AtMostOnce WITH taken <- sent, twice <- replayed

KeepsAtMostOnce == Promise!Spec

\* What is taken is not lost short of a kill: an alert that was put into the
\* channel is there, in a batch, in the flush or settled, and a signal does
\* not change that, although the reader is still at work when it comes.
TakenIsKept ==
  faults.crash = 0 =>
    \A n \in RowsOf(sent) : Payload[n] = "alert" => n \in Settled \cup InFlight

\* The state file ZeroMQ mode leaves behind makes file mode skip nothing: the
\* offset stays what file mode left or falls back to 0, except that the first
\* start of all may put it at the end of the file, as configured.
FileNotSkipped ==
  [][\/ saved'.offset \in {saved.offset, 0}
     \/ FirstRun /\ SeekToEnd /\ saved'.offset = FileSize]_vars

\* A link that died without a word is replaced: recv() never fails on it, so
\* the time-out has to end the wait and a new socket to be subscribed.
LinkRestored == link = "dead" ~> (link = "up" \/ mpc \in {"down", "stopped"})

\* What has arrived at the socket is settled in the end, however slow or
\* faulty ClickHouse is, unless the process ends.
ArrivedIsSettled ==
  \A n \in {m \in Message : Payload[m] = "alert"} :
    n \in RowsOf(wire) ~> (n \in Settled \/ mpc \in {"down", "stopped"})

\* A signal ends the process although the reader waits in recv() and notices
\* the closed channel only when it has something to send.
ShutdownCompletes == (mpc = "run" /\ ~ rxOpen) ~> mpc \in {"down", "stopped"}
=============================================================================
