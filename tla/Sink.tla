--------------------------------- MODULE Sink ---------------------------------
(***************************************************************************)
(* do_flush of src/main.rs and flush_all, ensure_table, insert_batch and    *)
(* ensure_custom_columns of src/output/db.rs: the in-memory batches, one    *)
(* per table, and the flush that takes them to ClickHouse.  Every statement *)
(* sent to ClickHouse is a step of its own, so the process may die between  *)
(* any two of them.  The flush never fails: an error is logged, and the     *)
(* rows it was about are gone.                                              *)
(*                                                                         *)
(* Of a row only the line it was made of is kept.  What ClickHouse holds is *)
(* the set of lines stored and the columns of each table.                   *)
(***************************************************************************)
EXTENDS Naturals, Sequences, FiniteSets

CONSTANTS
  Row,          \* what a row is made of: a line
  Table,        \* the tables routing_table() can name
  NoTable,      \* not a table
  Column,       \* the custom targets of field_mappings.toml
  Reserved,     \* the targets whose sanitised name is empty
  BatchSize,    \* BATCH_SIZE
  MaxDbFault    \* how many statements fail or lose their reply

ASSUME SinkAssumption ==
  /\ NoTable \notin Table
  /\ Reserved \subseteq Column
  /\ BatchSize \in Nat
  /\ MaxDbFault \in Nat

VARIABLES
  batches,    \* batches[t]: the rows waiting for table t
  knownTables, knownCols,   \* known_tables, known_custom_cols
  targets,    \* custom_column_targets() of the mappings now loaded
  fpc,        \* where the flush is, "idle" between flushes
  newCols, colsTodo, colsFailed,  \* do_flush: new_cols, the tables left, failed
  work,       \* flush_all: the batches taken
  ftab,       \* flush_all: the table in turn
  dbCols,     \* ClickHouse: dbCols[t]: the custom columns of t
  stored,     \* ClickHouse: the rows stored
  replayed,   \* ClickHouse: how many rows were stored again
  dropped,    \* the rows given up after an error
  dbFaults    \* statements that failed or lost their reply so far

batchVars == <<batches>>
columnVars == <<knownCols, targets, newCols, colsTodo, colsFailed, dbCols>>
flushVars == <<fpc, work, ftab, knownTables>>
rowVars == <<stored, replayed, dropped>>
sinkVars == <<batchVars, columnVars, flushVars, rowVars, dbFaults>>

FlushPc == {"idle", "detect", "alter", "take", "tables", "save"}

SinkTypeOK ==
  /\ batches \in [Table -> Seq(Row)]
  /\ knownTables \subseteq Table
  /\ knownCols \subseteq Column
  /\ targets \subseteq Column
  /\ fpc \in FlushPc
  /\ newCols \subseteq Column
  /\ colsTodo \subseteq Table
  /\ colsFailed \subseteq Column
  /\ work \in [Table -> Seq(Row)]
  /\ ftab \in Table \cup {NoTable}
  /\ dbCols \in [Table -> SUBSET Column]
  /\ stored \subseteq Row
  /\ replayed \in Nat
  /\ dropped \subseteq Row
  /\ dbFaults \in Nat

NoRows == [t \in Table |-> <<>>]
RowsOf(s) == {s[k] : k \in 1 .. Len(s)}
Pending(b) == {t \in Table : b[t] # <<>>}
RowsIn(b) == UNION {RowsOf(b[t]) : t \in Table}

SinkMemory(b, kt, kc, pc, nc, ct, cf, w, ft) ==
  /\ b = NoRows /\ kt = {} /\ kc = {} /\ pc = "idle" /\ nc = {}
  /\ ct = {} /\ cf = {} /\ w = NoRows /\ ft = NoTable

SinkInit ==
  /\ SinkMemory(batches, knownTables, knownCols, fpc,
                newCols, colsTodo, colsFailed, work, ftab)
  /\ targets \in SUBSET Column
  /\ dbCols = [t \in Table |-> {}]
  /\ stored = {} /\ replayed = 0 /\ dropped = {}
  /\ dbFaults = 0

\* The process is gone; what ClickHouse holds stays.
SinkDies ==
  /\ SinkMemory(batches', knownTables', knownCols', fpc',
                newCols', colsTodo', colsFailed', work', ftab')
  /\ UNCHANGED <<targets, dbCols, rowVars, dbFaults>>

DbFault == dbFaults < MaxDbFault /\ dbFaults' = dbFaults + 1

-----------------------------------------------------------------------------
(* do_flush: custom columns that appeared since the last flush.             *)

StartFlush == fpc' = "detect"

DetectColumns ==
  /\ fpc = "detect"
  /\ newCols' = targets \ knownCols
  /\ colsTodo' = IF newCols' = {} THEN {} ELSE knownTables
  /\ colsFailed' = {}
  /\ fpc' = IF newCols' = {} THEN "take" ELSE "alter"
  /\ UNCHANGED <<batches, knownCols, targets, dbCols, work, ftab,
                 knownTables, rowVars, dbFaults>>

\* ensure_custom_columns: one ALTER TABLE per column, each on its own; a
\* column whose sanitised name is empty is passed over.
Alterable(cols) == cols \ Reserved

\* Some of the columns are added to t: all of them unless a statement fails.
AlterTable(t, cols, added) ==
  /\ added \subseteq Alterable(cols)
  /\ dbCols' = [dbCols EXCEPT ![t] = @ \cup added]
  /\ IF added = Alterable(cols) THEN UNCHANGED dbFaults ELSE DbFault

\* (mutant) A column ClickHouse refused counts as added.
NoneRefused(cols, added) == {}

Refused(cols, added) == cols \ added

AddColumns ==
  /\ fpc = "alter"
  /\ \E t \in colsTodo, added \in SUBSET newCols :
       /\ AlterTable(t, newCols, added)
       /\ colsTodo' = colsTodo \ {t}
       /\ colsFailed' = colsFailed \cup Refused(newCols, added)
  /\ UNCHANGED <<batches, knownCols, targets, newCols, flushVars, rowVars>>

RegisterColumns ==
  /\ fpc = "alter"
  /\ colsTodo = {}
  /\ knownCols' = knownCols \cup (newCols \ colsFailed)
  /\ newCols' = {}
  /\ colsFailed' = {}
  /\ fpc' = "take"
  /\ UNCHANGED <<batches, targets, colsTodo, dbCols, work, ftab,
                 knownTables, rowVars, dbFaults>>

-----------------------------------------------------------------------------
(* flush_all.                                                               *)

TakeBatches ==
  /\ fpc = "take"
  /\ work' = batches
  /\ batches' = NoRows
  /\ fpc' = IF Pending(batches) = {} THEN "save" ELSE "tables"
  /\ UNCHANGED <<columnVars, ftab, knownTables, rowVars, dbFaults>>

\* The batch of t is done with.
FinishTable(t) ==
  /\ work' = [work EXCEPT ![t] = <<>>]
  /\ ftab' = NoTable
  /\ fpc' = IF Pending(work) = {t} THEN "save" ELSE "tables"

\* ensure_table for a table not met before, and the columns known by now.
\* Their failures are logged and forgotten.
EnsureTable(t) ==
  /\ fpc = "tables" /\ ftab = NoTable
  /\ work[t] # <<>>
  /\ t \notin knownTables
  /\ \E added \in SUBSET knownCols : AlterTable(t, knownCols, added)
  /\ knownTables' = knownTables \cup {t}
  /\ ftab' = t
  /\ UNCHANGED <<batches, knownCols, targets, newCols, colsTodo, colsFailed,
                 fpc, work, rowVars>>

\* CREATE DATABASE or CREATE TABLE fails: the batch is passed over, and it
\* was taken out of the map before.
EnsureTableFails(t) ==
  /\ fpc = "tables" /\ ftab = NoTable
  /\ work[t] # <<>>
  /\ t \notin knownTables
  /\ DbFault
  /\ dropped' = dropped \cup (RowsOf(work[t]) \ stored)
  /\ FinishTable(t)
  /\ UNCHANGED <<batches, columnVars, knownTables, stored, replayed>>

Insertable(t) ==
  /\ fpc = "tables" /\ ftab \in {t, NoTable}
  /\ work[t] # <<>>
  /\ t \in knownTables

Again(s) == Cardinality({k \in 1 .. Len(s) : s[k] \in stored})

Store(t) ==
  /\ stored' = stored \cup RowsOf(work[t])
  /\ replayed' = replayed + Again(work[t])
  /\ dropped' = dropped \ RowsOf(work[t])

InsertBatch(t) ==
  /\ Insertable(t)
  /\ Store(t)
  /\ FinishTable(t)
  /\ UNCHANGED <<batches, columnVars, knownTables, dbFaults>>

\* The insert fails: the records were moved into it.
InsertBatchFails(t) ==
  /\ Insertable(t)
  /\ DbFault
  /\ dropped' = dropped \cup (RowsOf(work[t]) \ stored)
  /\ FinishTable(t)
  /\ UNCHANGED <<batches, columnVars, knownTables, stored, replayed>>

\* The insert is done and its reply lost.
InsertReplyLost(t) ==
  /\ Insertable(t)
  /\ DbFault
  /\ Store(t)
  /\ FinishTable(t)
  /\ UNCHANGED <<batches, columnVars, knownTables>>

FlushStep ==
  \/ DetectColumns \/ AddColumns \/ RegisterColumns \/ TakeBatches
  \/ \E t \in Table :
       \/ EnsureTable(t) \/ EnsureTableFails(t)
       \/ InsertBatch(t) \/ InsertBatchFails(t) \/ InsertReplyLost(t)

-----------------------------------------------------------------------------
(* What the main loop does to the batches between two flushes.              *)

\* (mutant) One row too many.
BatchOverfull(t) == Len(batches'[t]) > BatchSize

BatchFull(t) == Len(batches'[t]) >= BatchSize

\* (mutant) A record takes the place of the batch.
PushRowOver(t, r) ==
  /\ batches' = [batches EXCEPT ![t] = <<r>>]
  /\ fpc' = IF BatchFull(t) THEN "detect" ELSE fpc

\* A record is pushed, and the flush starts when its batch is full.
PushRow(t, r) ==
  /\ batches' = [batches EXCEPT ![t] = Append(@, r)]
  /\ fpc' = IF BatchFull(t) THEN "detect" ELSE fpc

\* (mutant) The timer flushes full batches only.
NothingFull == \A t \in Table : Len(batches[t]) < BatchSize

NothingPending == Pending(batches) = {}

-----------------------------------------------------------------------------
\* The rows that are settled, and all that the sink was given and still has.
Settled == stored \cup dropped
Pushed == Settled \cup RowsIn(batches) \cup RowsIn(work)

\* Nothing of a flush is left over when the next one starts.
FlushInv ==
  /\ fpc \in {"tables", "save"} => batches = NoRows
  /\ fpc # "tables" => work = NoRows

\* Rows ClickHouse has not got, each for one table only.
NewRows(b) ==
  \A t \in Table :
    /\ RowsOf(b[t]) \cap stored = {}
    /\ \A u \in Table \ {t} : RowsOf(b[t]) \cap RowsOf(b[u]) = {}

\* A custom column is registered as known only when every table known at that
\* moment has it, failed ALTER statements and reloads included.
RegisteredEverywhere ==
  [][\A c \in knownCols' \ knownCols : \A t \in knownTables : c \in dbCols[t]]_sinkVars
=============================================================================
