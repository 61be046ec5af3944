------------------------------- MODULE SinkProofs -------------------------------
(***************************************************************************)
(* What the flush does to the rows it is given, whoever fills the batches:  *)
(* the facts about Sink that file mode and ZeroMQ mode share.               *)
(***************************************************************************)
EXTENDS Sink, FiniteSetTheorems, TLAPS

(* Type correctness.                                                        *)

\* The rows of a batch are rows, and how many of them are stored already is a
\* number.
LEMMA RowsTyped ==
  ASSUME SinkTypeOK, NEW t \in Table
  PROVE  RowsOf(work[t]) \subseteq Row /\ Again(work[t]) \in Nat
<1>1. work[t] \in Seq(Row)
  BY DEF SinkTypeOK
<1>2. Len(work[t]) \in Nat
  BY <1>1
<1>3. IsFiniteSet(1 .. Len(work[t]))
  BY <1>2, FS_Interval
<1>4. IsFiniteSet({k \in 1 .. Len(work[t]) : work[t][k] \in stored})
  BY <1>3, FS_Subset
<1> QED BY <1>1, <1>4, FS_CardinalityType DEF RowsOf, Again

\* Each statement of the flush keeps the sink well typed.
LEMMA FlushStepTyped ==
  ASSUME SinkTypeOK, FlushStep
  PROVE  SinkTypeOK'
<1> USE SinkAssumption
<1>1. NoRows \in [Table -> Seq(Row)]
  BY DEF NoRows
<1>2. CASE DetectColumns
  BY <1>2 DEF DetectColumns, SinkTypeOK, FlushPc, rowVars
<1>3. CASE AddColumns
  <2>1. PICK t \in colsTodo, added \in SUBSET newCols :
          /\ AlterTable(t, newCols, added)
          /\ colsTodo' = colsTodo \ {t}
          /\ colsFailed' = colsFailed \cup Refused(newCols, added)
    BY <1>3 DEF AddColumns
  <2>2. dbCols' \in [Table -> SUBSET Column] /\ dbFaults' \in Nat
    BY <2>1 DEF AlterTable, DbFault, SinkTypeOK
  <2> QED BY <1>3, <2>1, <2>2
          DEF AddColumns, SinkTypeOK, Refused, flushVars, rowVars
<1>4. CASE RegisterColumns
  BY <1>4 DEF RegisterColumns, SinkTypeOK, FlushPc, rowVars
<1>5. CASE TakeBatches
  BY <1>1, <1>5 DEF TakeBatches, SinkTypeOK, FlushPc, columnVars, rowVars
<1>6. ASSUME NEW t \in Table, EnsureTable(t)
      PROVE  SinkTypeOK'
  <2>1. PICK added \in SUBSET knownCols : AlterTable(t, knownCols, added)
    BY <1>6 DEF EnsureTable
  <2>2. dbCols' \in [Table -> SUBSET Column] /\ dbFaults' \in Nat
    BY <2>1 DEF AlterTable, DbFault, SinkTypeOK
  <2> QED BY <1>6, <2>2 DEF EnsureTable, SinkTypeOK, rowVars
<1>7. ASSUME NEW t \in Table, FinishTable(t)
      PROVE  /\ work' \in [Table -> Seq(Row)]
             /\ ftab' \in Table \cup {NoTable}
             /\ fpc' \in FlushPc
  BY <1>7 DEF FinishTable, SinkTypeOK, FlushPc
<1>8. ASSUME NEW t \in Table, Store(t)
      PROVE  stored' \subseteq Row /\ replayed' \in Nat /\ dropped' \subseteq Row
  BY <1>8, RowsTyped DEF Store, SinkTypeOK
<1>9. ASSUME NEW t \in Table, EnsureTableFails(t)
      PROVE  SinkTypeOK'
  BY <1>9, <1>7, RowsTyped
  DEF EnsureTableFails, DbFault, SinkTypeOK, columnVars
<1>10. ASSUME NEW t \in Table, InsertBatch(t)
       PROVE  SinkTypeOK'
  BY <1>10, <1>7, <1>8 DEF InsertBatch, SinkTypeOK, columnVars
<1>11. ASSUME NEW t \in Table, InsertBatchFails(t)
       PROVE  SinkTypeOK'
  BY <1>11, <1>7, RowsTyped
  DEF InsertBatchFails, DbFault, SinkTypeOK, columnVars
<1>12. ASSUME NEW t \in Table, InsertReplyLost(t)
       PROVE  SinkTypeOK'
  BY <1>12, <1>7, <1>8 DEF InsertReplyLost, DbFault, SinkTypeOK, columnVars
<1> QED BY <1>2, <1>3, <1>4, <1>5, <1>6, <1>9, <1>10, <1>11, <1>12
        DEF FlushStep

\* The end of the process leaves the sink well typed.
LEMMA SinkDiesTyped ==
  ASSUME SinkTypeOK, SinkDies
  PROVE  SinkTypeOK'
BY SinkAssumption
DEF SinkDies, SinkMemory, SinkTypeOK, NoRows, FlushPc, rowVars
-----------------------------------------------------------------------------
(* What a step of the flush does to the rows.                               *)

\* Batches with none pending are empty.
LEMMA NonePending ==
  ASSUME NEW w \in [Table -> Seq(Row)], Pending(w) = {}
  PROVE  w = NoRows
BY DEF Pending, NoRows

\* A row of some batches is a row of one of them.
LEMMA RowsInElements ==
  ASSUME NEW w, NEW r
  PROVE  r \in RowsIn(w) <=> \E t \in Table : r \in RowsOf(w[t])
BY DEF RowsIn

\* A table that is done with takes its own rows out of the work.
LEMMA FinishedRows ==
  ASSUME SinkTypeOK, NEW t \in Table, FinishTable(t)
  PROVE  /\ RowsIn(work) = RowsIn(work') \cup RowsOf(work[t])
         /\ work'[t] = <<>> /\ \A u \in Table \ {t} : work'[u] = work[u]
         /\ fpc' = "save" => work' = NoRows
         /\ fpc' \in {"tables", "save"}
<1>1. work' \in [Table -> Seq(Row)] /\ work'[t] = <<>>
        /\ \A u \in Table \ {t} : work'[u] = work[u]
  BY DEF FinishTable, SinkTypeOK
<1>2. ASSUME NEW r \in RowsIn(work), r \notin RowsOf(work[t])
      PROVE  r \in RowsIn(work')
  <2>1. PICK u \in Table : r \in RowsOf(work[u])
    BY RowsInElements
  <2>2. u # t
    BY <1>2, <2>1
  <2>3. r \in RowsOf(work'[u])
    BY <1>1, <2>1, <2>2
  <2> QED BY <2>3 DEF RowsIn
<1>3. ASSUME fpc' = "save" PROVE work' = NoRows
  <2>1. Pending(work) = {t}
    BY <1>3 DEF FinishTable
  <2>2. \A u \in Table \ {t} : work[u] = <<>>
    BY <2>1 DEF Pending
  <2>3. Pending(work') = {}
    BY <1>1, <2>2 DEF Pending
  <2> QED BY <1>1, <2>3, NonePending
<1>4. fpc' \in {"tables", "save"}
  BY DEF FinishTable
<1>5. RowsIn(work') \subseteq RowsIn(work) /\ RowsOf(work[t]) \subseteq RowsIn(work)
  <2>1. \A u \in Table : RowsOf(work'[u]) \subseteq RowsOf(work[u])
    BY <1>1 DEF RowsOf
  <2> QED BY <2>1 DEF RowsIn
<1> QED BY <1>1, <1>2, <1>3, <1>4, <1>5

\* A batch is given up: it is logged, and its rows are gone.
Drop(t) ==
  /\ dropped' = dropped \cup (RowsOf(work[t]) \ stored)
  /\ UNCHANGED <<stored, replayed>>

\* Of the rows a step of the flush sees nothing, or all batches, or those of
\* one table, which it stores or gives up.
LEMMA FlushShapes ==
  ASSUME FlushStep
  PROVE  \/ /\ UNCHANGED <<batches, work, rowVars>>
            /\ fpc = "tables" <=> fpc' = "tables"
            /\ {fpc, fpc'} \cap {"idle", "save"} = {}
         \/ TakeBatches
         \/ \E t \in Table :
              /\ fpc = "tables" /\ FinishTable(t) /\ UNCHANGED batches
              /\ Store(t) \/ Drop(t)
<1> DEFINE Shape(t) == /\ fpc = "tables" /\ FinishTable(t) /\ UNCHANGED batches
                       /\ Store(t) \/ Drop(t)
<1>1. CASE DetectColumns \/ AddColumns \/ RegisterColumns
  BY <1>1 DEF DetectColumns, AddColumns, RegisterColumns, flushVars
<1>2. ASSUME NEW t \in Table, EnsureTable(t)
      PROVE  UNCHANGED <<batches, work, rowVars, fpc>> /\ fpc = "tables"
  BY <1>2 DEF EnsureTable
<1>3. ASSUME NEW t \in Table, EnsureTableFails(t) \/ InsertBatchFails(t)
      PROVE  Shape(t)
  BY <1>3 DEF EnsureTableFails, InsertBatchFails, Insertable, Drop
<1>4. ASSUME NEW t \in Table, InsertBatch(t) \/ InsertReplyLost(t)
      PROVE  Shape(t)
  BY <1>4 DEF InsertBatch, InsertReplyLost, Insertable
<1> QED BY <1>1, <1>2, <1>3, <1>4 DEF FlushStep

\* Rows leave the batches for the work, and the work for ClickHouse or the rows
\* given up; none is lost on the way, none is made, and the next flush finds no
\* work left.
LEMMA FlushKeepsRows ==
  ASSUME SinkTypeOK, FlushInv, FlushStep
  PROVE  FlushInv' /\ Settled \subseteq Settled' /\ Pushed' = Pushed
<1>1. CASE /\ UNCHANGED <<batches, work, rowVars>>
           /\ fpc = "tables" <=> fpc' = "tables"
           /\ {fpc, fpc'} \cap {"idle", "save"} = {}
  BY <1>1 DEF FlushInv, Settled, Pushed, rowVars
<1>2. CASE TakeBatches
  <2>1. work = NoRows /\ RowsIn(NoRows) = {}
    BY <1>2 DEF TakeBatches, FlushInv, RowsIn, RowsOf, NoRows
  <2>2. Settled' = Settled /\ Pushed' = Settled \cup RowsIn(NoRows) \cup RowsIn(batches)
    BY <1>2 DEF TakeBatches, rowVars, Settled, Pushed
  <2>3. FlushInv'
    BY <1>2, NonePending DEF TakeBatches, FlushInv, SinkTypeOK
  <2> QED BY <2>1, <2>2, <2>3 DEF Pushed
<1>3. ASSUME NEW t \in Table, fpc = "tables", FinishTable(t), UNCHANGED batches,
             Store(t) \/ Drop(t)
      PROVE  FlushInv' /\ Settled \subseteq Settled' /\ Pushed' = Pushed
  <2>1. Settled' = Settled \cup RowsOf(work[t])
    BY <1>3 DEF Store, Drop, Settled
  <2>2. FlushInv' /\ RowsIn(work) = RowsIn(work') \cup RowsOf(work[t])
    BY <1>3, FinishedRows DEF FlushInv
  <2> QED BY <1>3, <2>1, <2>2 DEF Pushed
<1> QED BY <1>1, <1>2, <1>3, FlushShapes

\* The flush makes no batch longer, and waits for no row.
LEMMA FlushKeepsLengths ==
  ASSUME SinkTypeOK, FlushInv, FlushStep
  PROVE  /\ fpc # "idle" /\ fpc' # "idle"
         /\ \A t \in Table :
              Len(batches'[t]) + Len(work'[t]) <= Len(batches[t]) + Len(work[t])
<1>0. \A t \in Table : Len(batches[t]) \in Nat /\ Len(work[t]) \in Nat
  BY DEF SinkTypeOK
<1>1. CASE /\ UNCHANGED <<batches, work, rowVars>>
           /\ {fpc, fpc'} \cap {"idle", "save"} = {}
  <2>1. fpc # "idle" /\ fpc' # "idle"
    BY <1>1
  <2> QED BY <1>0, <1>1, <2>1
<1>2. CASE TakeBatches
  <2>1. /\ fpc = "take" /\ fpc' \in {"save", "tables"} /\ work = NoRows
        /\ work' = batches /\ batches' = NoRows
    BY <1>2 DEF TakeBatches, FlushInv
  <2>2. \A t \in Table : Len(NoRows[t]) = 0
    BY DEF NoRows
  <2>3. \A t \in Table :
          /\ Len(batches'[t]) = 0 /\ Len(work'[t]) = Len(batches[t]) /\ Len(work[t]) = 0
    BY <2>1, <2>2
  <2> QED BY <1>0, <2>1, <2>3
<1>3. ASSUME NEW t \in Table, fpc = "tables", FinishTable(t), UNCHANGED batches
      PROVE  /\ fpc # "idle" /\ fpc' # "idle"
             /\ \A u \in Table :
                  Len(batches'[u]) + Len(work'[u]) <= Len(batches[u]) + Len(work[u])
  BY <1>0, <1>3, FinishedRows
<1> QED BY <1>1, <1>2, <1>3, FlushShapes

\* What is in a sequence after an Append.
LEMMA AppendedRow ==
  ASSUME NEW S, NEW s \in Seq(S), NEW r \in S
  PROVE  RowsOf(Append(s, r)) = RowsOf(s) \cup {r}
<1>1. /\ Len(s) \in Nat
      /\ Len(Append(s, r)) = Len(s) + 1
      /\ \A k \in 1 .. Len(s) : Append(s, r)[k] = s[k]
      /\ Append(s, r)[Len(s) + 1] = r
  OBVIOUS
<1> QED BY <1>1 DEF RowsOf

\* A record pushed is in its batch, with those that were there.
LEMMA PushedRow ==
  ASSUME SinkTypeOK, NEW t \in Table, NEW r \in Row, PushRow(t, r)
  PROVE  /\ batches'[t] = Append(batches[t], r)
         /\ RowsOf(batches'[t]) = RowsOf(batches[t]) \cup {r}
         /\ \A u \in Table \ {t} : batches'[u] = batches[u]
<1>1. /\ batches[t] \in Seq(Row)
      /\ batches'[t] = Append(batches[t], r)
      /\ \A u \in Table \ {t} : batches'[u] = batches[u]
  BY DEF PushRow, SinkTypeOK
<1> QED BY <1>1, AppendedRow

\* The batches together have it, with what they had.
LEMMA PushKeepsRows ==
  ASSUME SinkTypeOK, NEW t \in Table, NEW r \in Row, PushRow(t, r)
  PROVE  RowsIn(batches') = RowsIn(batches) \cup {r}
BY PushedRow, RowsInElements

-----------------------------------------------------------------------------
(* Rows that are new to ClickHouse are stored once.                         *)

\* Without rows there is none that is stored.
LEMMA NoRowsNew == NewRows(NoRows) /\ RowsIn(NoRows) = {}
BY DEF NewRows, NoRows, RowsOf, RowsIn

\* The flush of new rows stores none of them a second time, and those that are
\* left are new.
LEMMA FlushStoresNew ==
  ASSUME SinkTypeOK, FlushInv, NewRows(batches), NewRows(work), FlushStep
  PROVE  /\ NewRows(batches)' /\ NewRows(work)'
         /\ replayed' = replayed
         /\ stored \subseteq stored' /\ stored' \subseteq stored \cup RowsIn(work)
<1>1. CASE UNCHANGED <<batches, work, rowVars>>
  BY <1>1 DEF NewRows, rowVars
<1>2. CASE TakeBatches
  BY <1>2, NoRowsNew DEF TakeBatches, rowVars, NewRows
<1>3. ASSUME NEW t \in Table, fpc = "tables", FinishTable(t), UNCHANGED batches,
             Store(t) \/ Drop(t)
      PROVE  /\ NewRows(batches)' /\ NewRows(work)'
             /\ replayed' = replayed
             /\ stored \subseteq stored' /\ stored' \subseteq stored \cup RowsIn(work)
  <2>1. work'[t] = <<>> /\ \A u \in Table \ {t} : work'[u] = work[u]
    BY <1>3, FinishedRows
  <2>2. RowsOf(work'[t]) = {} /\ RowsOf(work[t]) \subseteq RowsIn(work)
    BY <2>1 DEF RowsOf, RowsIn
  <2>3. stored' \subseteq stored \cup RowsOf(work[t]) /\ stored \subseteq stored'
    BY <1>3 DEF Store, Drop
  <2>4. NewRows(work)'
    BY <2>1, <2>2, <2>3 DEF NewRows
  <2>5. NewRows(batches)'
    <3>1. batches' = NoRows
      BY <1>3 DEF FlushInv
    <3> QED BY <3>1 DEF NewRows, NoRows, RowsOf
  <2>6. replayed' = replayed
    <3>1. CASE Store(t)
      <4>1. {k \in 1 .. Len(work[t]) : work[t][k] \in stored} = {}
        BY DEF NewRows, RowsOf
      <4>2. Again(work[t]) = 0
        BY <4>1, FS_EmptySet DEF Again
      <4> QED BY <3>1, <4>2 DEF Store, SinkTypeOK
    <3>2. CASE Drop(t)
      BY <3>2 DEF Drop
    <3> QED BY <1>3, <3>1, <3>2
  <2> QED BY <2>2, <2>3, <2>4, <2>5, <2>6
<1> QED BY <1>1, <1>2, <1>3, FlushShapes

\* A row that was not pushed before is new in the batch of its table.
LEMMA PushNew ==
  ASSUME SinkTypeOK, NewRows(batches), UNCHANGED stored,
         NEW t \in Table, NEW r \in Row, r \notin Pushed, PushRow(t, r)
  PROVE  NewRows(batches)'
<1>1. /\ RowsOf(batches'[t]) = RowsOf(batches[t]) \cup {r}
      /\ \A u \in Table \ {t} : batches'[u] = batches[u]
  BY PushedRow
<1>2. r \notin stored /\ \A u \in Table : r \notin RowsOf(batches[u])
  BY DEF Pushed, Settled, RowsIn
<1> QED BY <1>1, <1>2 DEF NewRows
-----------------------------------------------------------------------------
(* Columns are registered when every known table has them.                  *)

\* While columns are being added: those no statement failed for are in every
\* table that has had its turn.
ColumnInv ==
  fpc = "alter" =>
    /\ colsTodo \subseteq knownTables
    /\ \A t \in knownTables \ colsTodo : newCols \ colsFailed \subseteq dbCols[t]

\* A column one table refused is not registered, so those that are have been
\* added to every table that was known.
LEMMA FlushKeepsColumns ==
  ASSUME SinkTypeOK, ColumnInv, FlushStep
  PROVE  /\ ColumnInv'
         /\ \A c \in knownCols' \ knownCols : \A t \in knownTables : c \in dbCols[t]
<1> DEFINE Registered == \A c \in knownCols' \ knownCols : \A t \in knownTables : c \in dbCols[t]
<1>1. CASE DetectColumns
  BY <1>1 DEF DetectColumns, ColumnInv
<1>2. CASE AddColumns
  <2>1. PICK t \in colsTodo, added \in SUBSET newCols :
          /\ AlterTable(t, newCols, added)
          /\ colsTodo' = colsTodo \ {t}
          /\ colsFailed' = colsFailed \cup Refused(newCols, added)
    BY <1>2 DEF AddColumns
  <2>2. UNCHANGED <<knownCols, newCols, fpc, knownTables>>
    BY <1>2 DEF AddColumns, flushVars
  <2>3. /\ t \in Table
        /\ dbCols'[t] = dbCols[t] \cup added
        /\ \A u \in Table \ {t} : dbCols'[u] = dbCols[u]
    BY <2>1 DEF AlterTable, SinkTypeOK
  <2>4. ASSUME NEW u \in knownTables \ colsTodo'
        PROVE  newCols \ colsFailed' \subseteq dbCols'[u]
    <3>1. CASE u = t
      BY <2>1, <2>3, <3>1 DEF Refused
    <3>2. CASE u # t
      BY <1>2, <2>1, <2>3, <3>2 DEF ColumnInv, AddColumns, SinkTypeOK
    <3> QED BY <3>1, <3>2
  <2>5. ColumnInv'
    BY <1>2, <2>1, <2>2, <2>4 DEF ColumnInv, AddColumns
  <2> QED BY <2>2, <2>5
<1>3. CASE RegisterColumns
  BY <1>3 DEF RegisterColumns, ColumnInv
<1>4. CASE TakeBatches
  BY <1>4 DEF TakeBatches, columnVars, ColumnInv
<1>5. ASSUME NEW t \in Table,
             \/ EnsureTable(t) \/ EnsureTableFails(t)
             \/ InsertBatch(t) \/ InsertBatchFails(t) \/ InsertReplyLost(t)
      PROVE  knownCols' = knownCols /\ fpc' # "alter"
  BY <1>5 DEF EnsureTable, EnsureTableFails, InsertBatch, InsertBatchFails, InsertReplyLost,
              Insertable, FinishTable, columnVars
<1> QED BY <1>1, <1>2, <1>3, <1>4, <1>5 DEF FlushStep, ColumnInv
=============================================================================
