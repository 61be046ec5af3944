------------------------------- MODULE EtlProofs -------------------------------
(***************************************************************************)
(* File mode for every value of its constants: type correctness, the bound  *)
(* on memory, the columns known, and CommittedSettled: the offset in the    *)
(* state file never passes an alert that is neither in ClickHouse nor given *)
(* up by a logged error, as long as alerts.json grows and is UTF-8.         *)
(*                                                                         *)
(* First type correctness, inductive as it stands: TailerProofs and         *)
(* SinkProofs have the parts of the state that a step changes as a whole,   *)
(* and here is one step per action.  Then memory and columns.  Then facts   *)
(* about positions in a file, messages in a channel and rows in batches the *)
(* steps rest on, one lemma per group of actions that PositionInv of        *)
(* EtlInvariant is kept, and the theorems.                                  *)
(***************************************************************************)
EXTENDS EtlInvariant, TailerProofs, SinkProofs

\* What a restart and a save take for the state are well typed.
LEMMA StateTyped ==
  ASSUME TypeOK
  PROVE  StartState \in TailState /\ StateToSave \in TailState
<1>1. PathInode \in Nat
  BY FileAssumption DEF TypeOK, FsTypeOK, PathInode, Inode, NoInode
<1>2. StartOffset \in Nat
  BY DEF TypeOK, MainTypeOK, TailState, StartOffset, ResumeOffset
<1> QED BY <1>1, <1>2
        DEF StartState, StateToSave, TailState, TypeOK, MainTypeOK

\* A bounded thing that happens once more is counted.
LEMMA OnceTyped ==
  ASSUME MainTypeOK, NEW what \in {"crash", "stop", "save", "reload"},
         NEW bound, Once(what, bound)
  PROVE  faults' \in [crash : Nat, stop : Nat, save : Nat, reload : Nat]
BY DEF MainTypeOK, Once

\* A line taken from the channel goes into the batch of its table or nowhere.
LEMMA RecvTyped ==
  ASSUME TypeOK, RecvLine
  PROVE  TypeOK'
<1> USE EtlAssumption
<1>1. Head(chan) \in Message /\ Tail(chan) \in Seq(Message)
        /\ Len(Tail(chan)) <= ChannelCap
  BY ChannelAssumption DEF RecvLine, TypeOK, ReaderTypeOK
<1>2. batches' \in [Table -> Seq(Row)] /\ fpc' \in FlushPc
  <2>1. TableOf[Head(chan).line] \in Table /\ Head(chan).line \in Row
    BY <1>1 DEF Message
  <2>2. CASE IsRecord(Head(chan))
    <3>1. PushRow(TableOf[Head(chan).line], Head(chan).line)
      BY <2>2 DEF RecvLine
    <3> QED BY <2>1, <3>1 DEF PushRow, TypeOK, SinkTypeOK, FlushPc
  <2>3. CASE ~ IsRecord(Head(chan))
    BY <2>3 DEF RecvLine, TypeOK, SinkTypeOK
  <2> QED BY <2>2, <2>3
<1>3. FsTypeOK'
  BY DEF RecvLine, TypeOK, FsTypeOK, fsVars
<1>4. ReaderTypeOK'
  BY <1>1 DEF RecvLine, TypeOK, ReaderTypeOK
<1>5. SinkTypeOK'
  BY <1>2 DEF RecvLine, TypeOK, SinkTypeOK, columnVars, rowVars
<1>6. MainTypeOK'
  BY <1>1 DEF RecvLine, TypeOK, MainTypeOK, Message
<1> QED BY <1>3, <1>4, <1>5, <1>6 DEF TypeOK

\* Every step of the service and of what is around it keeps the state well
\* typed.
LEMMA StepTyped ==
  ASSUME TypeOK, [Next]_vars
  PROVE  TypeOK'
<1> USE DEF TypeOK
<1>1. CASE ReadSize
  <2>1. PathSize \in Nat
    BY DEF PathSize, FsTypeOK
  <2> QED BY <1>1, <2>1
    DEF ReadSize, fsVars, readerVars, sinkVars, batchVars, columnVars,
        flushVars, rowVars, FsTypeOK, ReaderTypeOK, SinkTypeOK, MainTypeOK
<1>2. CASE StartUp
  <2>1. StartState \in TailState /\ StartOffset \in Nat
    BY StateTyped DEF StartState, TailState
  <2>2. saved' \in TailState
        /\ faults' \in [crash : Nat, stop : Nat, save : Nat, reload : Nat]
    BY <1>2, <2>1, OnceTyped DEF StartUp, MainTypeOK
  <2>3. MainTypeOK'
    BY <1>2, <2>1, <2>2 DEF StartUp, MainTypeOK
  <2>4. ReaderTypeOK'
    BY <1>2, <2>1, ReaderEndsTyped DEF StartUp
  <2>5. FsTypeOK' /\ SinkTypeOK'
    BY <1>2 DEF StartUp, fsVars, sinkVars, batchVars, columnVars, flushVars,
                rowVars, FsTypeOK, SinkTypeOK
  <2> QED BY <2>3, <2>4, <2>5
<1>3. CASE RecvLine
  BY <1>3, RecvTyped
<1>4. CASE RecvClosed \/ FlushTick
  BY <1>4
  DEF RecvClosed, FlushTick, StartFlush, fsVars, readerVars, columnVars,
      rowVars, mainVars, FsTypeOK, ReaderTypeOK, SinkTypeOK, MainTypeOK, FlushPc
<1>5. CASE Shutdown
  BY <1>5, OnceTyped
  DEF Shutdown, fsVars, sinkVars, batchVars, columnVars, flushVars, rowVars,
      FsTypeOK, ReaderTypeOK, SinkTypeOK, MainTypeOK
<1>6. CASE Flush
  <2>1. SinkTypeOK'
    BY <1>6, FlushStepTyped DEF Flush
  <2> QED BY <1>6, <2>1
    DEF Flush, fsVars, readerVars, mainVars, FsTypeOK, ReaderTypeOK, MainTypeOK
<1>7. ASSUME SaveOutcome
      PROVE  saved' \in TailState
             /\ faults' \in [crash : Nat, stop : Nat, save : Nat, reload : Nat]
  BY <1>7, StateTyped, OnceTyped DEF SaveOutcome, MainTypeOK
<1>8. CASE SaveState
  BY <1>7, <1>8
  DEF SaveState, fsVars, readerVars, columnVars, rowVars,
      FsTypeOK, ReaderTypeOK, SinkTypeOK, MainTypeOK, FlushPc
<1>9. CASE FinalSave
  <2>1. SinkTypeOK' /\ ReaderTypeOK'
    BY <1>9, SinkDiesTyped, ReaderEndsTyped DEF FinalSave
  <2> QED BY <1>7, <1>9, <2>1 DEF FinalSave, fsVars, FsTypeOK, MainTypeOK
<1>10. CASE Crash
  <2>1. SinkTypeOK' /\ ReaderTypeOK'
    BY <1>10, SinkDiesTyped, ReaderEndsTyped DEF Crash
  <2> QED BY <1>10, <2>1, OnceTyped DEF Crash, fsVars, FsTypeOK, MainTypeOK
<1>11. CASE HotReload
  BY <1>11, OnceTyped
  DEF HotReload, fsVars, readerVars, flushVars, rowVars,
      FsTypeOK, ReaderTypeOK, SinkTypeOK, MainTypeOK
<1>12. CASE Manager
  <2>1. FsTypeOK'
    BY <1>12, FsStepTyped DEF Manager
  <2> QED BY <1>12, <2>1
    DEF Manager, readerVars, sinkVars, batchVars, columnVars, flushVars,
        rowVars, mainVars, ReaderTypeOK, SinkTypeOK, MainTypeOK
<1>13. CASE Reader
  <2>1. ReaderTypeOK'
    BY <1>13, ReaderStepTyped DEF Reader
  <2>2. UNCHANGED fsVars
    BY <1>13 DEF Reader, ReaderNext, StatPath, OpenPath, OpenFails, ReadLine,
                 ReadBlankLine, ReadUndecodable, ReadPartialLine, ReadEof,
                 CheckRotation, Send, SendFails
  <2> QED BY <1>13, <2>1, <2>2
    DEF Reader, fsVars, sinkVars, batchVars, columnVars, flushVars, rowVars,
        mainVars, FsTypeOK, SinkTypeOK, MainTypeOK
<1>14. CASE UNCHANGED vars
  BY <1>14
  DEF vars, fsVars, readerVars, sinkVars, batchVars, columnVars, flushVars,
      rowVars, mainVars, FsTypeOK, ReaderTypeOK, SinkTypeOK, MainTypeOK
<1> QED BY <1>1, <1>2, <1>3, <1>4, <1>5, <1>6, <1>8, <1>9, <1>10, <1>11,
           <1>12, <1>13, <1>14 DEF Next

\* The state before the first start is well typed.
LEMMA InitTyped == Init => TypeOK
<1> SUFFICES ASSUME Init PROVE TypeOK
  OBVIOUS
<1>1. FsTypeOK
  BY FileAssumption DEF Init, FsInit, FsTypeOK, Inode
<1>2. ReaderTypeOK
  BY ReaderEndsTyped DEF Init
<1>3. SinkTypeOK
  BY SinkAssumption
  DEF Init, SinkInit, SinkMemory, SinkTypeOK, NoRows, FlushPc
<1>4. MainTypeOK
  BY DEF Init, MainTypeOK, NoState, NoInode, TailState
<1> QED BY <1>1, <1>2, <1>3, <1>4 DEF TypeOK

\* The service is type correct: in particular the channel never holds more
\* than CHANNEL_CAP lines, and offsets never go below zero.
THEOREM TypeCorrect == Spec => []TypeOK
BY InitTyped, StepTyped, PTL DEF Spec

-----------------------------------------------------------------------------
(* Memory.                                                                  *)

\* A row fills its batch by one, and a batch that is full is flushed before the
\* loop takes another line.
LEMMA PushBatched ==
  ASSUME SinkTypeOK, FlushInv, BatchInv, fpc = "idle", UNCHANGED work,
         NEW t \in Table, NEW r \in Row, PushRow(t, r)
  PROVE  FlushInv' /\ BatchInv'
<1>1. /\ batches'[t] = Append(batches[t], r)
      /\ \A u \in Table \ {t} : batches'[u] = batches[u]
      /\ work = NoRows /\ fpc' = IF BatchFull(t) THEN "detect" ELSE "idle"
  BY PushedRow DEF PushRow, FlushInv
<1>2. /\ \A u \in Table : Len(batches[u]) \in Nat /\ Len(work[u]) = 0
      /\ Len(batches'[t]) = Len(batches[t]) + 1
      /\ BatchBound \in Nat
  BY <1>1, SinkAssumption DEF SinkTypeOK, NoRows, BatchBound
<1>3. ~ BatchFull(t) => Len(batches'[t]) < BatchBound
  BY <1>2, SinkAssumption DEF BatchFull, BatchBound
<1>4. ASSUME NEW u \in Table
      PROVE  Len(batches'[u]) + Len(work'[u]) <= BatchBound
  <2>1. Len(work'[u]) = 0 /\ Len(batches[u]) \in Nat /\ Len(batches[u]) < BatchBound
    BY <1>2 DEF BatchInv
  <2>2. CASE u = t
    BY <1>2, <2>1, <2>2
  <2>3. CASE u # t
    <3>1. Len(batches'[u]) = Len(batches[u])
      BY <1>1, <2>3
    <3> QED BY <1>2, <2>1, <3>1
  <2> QED BY <2>2, <2>3
<1>5. fpc' = "idle" => \A u \in Table : Len(batches'[u]) < BatchBound
  BY <1>1, <1>3 DEF BatchInv
<1> QED BY <1>1, <1>4, <1>5 DEF BatchInv, FlushInv

LEMMA BatchStep ==
  ASSUME TypeOK, FlushInv, BatchInv, [Next]_vars
  PROVE  FlushInv' /\ BatchInv'
<1>1. SinkTypeOK /\ BatchBound \in Nat \ {0}
  BY SinkAssumption DEF TypeOK, BatchBound
<1>2. \A t \in Table : Len(batches[t]) \in Nat /\ Len(work[t]) \in Nat
  BY <1>1 DEF SinkTypeOK
<1>3. CASE RecvLine
  <2>1. fpc = "idle" /\ UNCHANGED work
    BY <1>3 DEF RecvLine, Waiting
  <2>2. CASE IsRecord(Head(chan))
    <3>1. PushRow(TableOf[Head(chan).line], Head(chan).line)
      BY <1>3, <2>2 DEF RecvLine
    <3>2. Head(chan) \in Message
      BY <1>3 DEF RecvLine, TypeOK, ReaderTypeOK
    <3>3. TableOf[Head(chan).line] \in Table /\ Head(chan).line \in Row
      BY <3>2, EtlAssumption DEF Message
    <3> QED BY <1>1, <2>1, <3>1, <3>3, PushBatched
  <2>3. CASE ~ IsRecord(Head(chan))
    BY <1>3, <2>1, <2>3 DEF RecvLine, FlushInv, BatchInv
  <2> QED BY <2>2, <2>3
<1>4. CASE Flush
  <2>1. FlushInv' /\ fpc' # "idle"
    BY <1>1, <1>4, FlushKeepsRows, FlushKeepsLengths DEF Flush
  <2>2. \A t \in Table :
          Len(batches'[t]) + Len(work'[t]) <= Len(batches[t]) + Len(work[t])
    BY <1>1, <1>4, FlushKeepsLengths DEF Flush
  <2>3. \A t \in Table : Len(batches'[t]) \in Nat /\ Len(work'[t]) \in Nat
    BY <1>1, <1>4, FlushStepTyped DEF Flush, SinkTypeOK
  <2>4. ASSUME NEW t \in Table
        PROVE  Len(batches'[t]) + Len(work'[t]) <= BatchBound
    <3>1. Len(batches[t]) + Len(work[t]) <= BatchBound
      BY DEF BatchInv
    <3>2. Len(batches'[t]) + Len(work'[t]) <= Len(batches[t]) + Len(work[t])
      BY <2>2
    <3>3. \A a, b, c, d, n \in Nat : a + b <= c + d /\ c + d <= n => a + b <= n
      OBVIOUS
    <3>4. /\ Len(batches[t]) \in Nat /\ Len(work[t]) \in Nat
          /\ Len(batches'[t]) \in Nat /\ Len(work'[t]) \in Nat
      BY <1>2, <2>3
    <3> QED BY <1>1, <3>1, <3>2, <3>3, <3>4
  <2>5. UNCHANGED BatchBound
    BY DEF BatchBound
  <2> QED BY <2>1, <2>4, <2>5 DEF BatchInv
<1>5. CASE RecvClosed \/ FlushTick
  BY <1>5 DEF RecvClosed, FlushTick, StartFlush, Waiting, FlushInv, BatchInv
<1>6. ASSUME batches' = NoRows, work' = NoRows
      PROVE  FlushInv' /\ BatchInv'
  BY <1>1, <1>6 DEF FlushInv, BatchInv, NoRows
<1>7. CASE SaveState
  BY <1>6, <1>7 DEF SaveState, FlushInv
<1>8. CASE FinalSave \/ Crash
  BY <1>6, <1>8 DEF FinalSave, Crash, SinkDies, SinkMemory
<1>9. CASE ReadSize \/ StartUp \/ Shutdown \/ HotReload \/ Manager \/ Reader \/ UNCHANGED vars
  <2>1. UNCHANGED <<batches, work, fpc>>
    BY <1>9 DEF ReadSize, StartUp, Shutdown, HotReload, Manager, Reader, vars, sinkVars,
                batchVars, flushVars
  <2> QED BY <2>1 DEF FlushInv, BatchInv
<1> QED BY <1>3, <1>4, <1>5, <1>7, <1>8, <1>9 DEF Next

LEMMA BatchInit == Init => FlushInv /\ BatchInv
BY SinkAssumption DEF Init, SinkInit, SinkMemory, FlushInv, BatchInv, NoRows, BatchBound

\* However slow ClickHouse is, the process holds at most the channel, the line
\* being sent and one batch per table, those in the flush included; and when a
\* flush starts nothing is left over from the one before.
THEOREM BatchesBounded == Spec => [](FlushInv /\ BatchInv)
BY BatchInit, BatchStep, TypeCorrect, PTL DEF Spec

\* MemoryBounded for every capacity of the channel and every batch size.
THEOREM MemoryIsBounded == Spec => []MemoryBounded
<1>1. TypeOK /\ BatchInv => MemoryBounded
  BY DEF TypeOK, ReaderTypeOK, BatchInv, MemoryBounded
<1> QED BY <1>1, TypeCorrect, BatchesBounded, PTL

-----------------------------------------------------------------------------
(* Columns.                                                                 *)

\* Kills, reloads and refused statements notwithstanding, do_flush takes a
\* custom column for known only when every table known at that moment has it.
THEOREM ColumnsRegistered == Spec => RegisteredEverywhere
<1> DEFINE Registered == \A c \in knownCols' \ knownCols : \A t \in knownTables : c \in dbCols[t]
<1>1. Init => ColumnInv
  BY DEF Init, SinkInit, SinkMemory, ColumnInv
<1>2. TypeOK /\ ColumnInv /\ [Next]_vars => ColumnInv' /\ [Registered]_sinkVars
  <2> SUFFICES ASSUME TypeOK, ColumnInv, [Next]_vars
               PROVE  ColumnInv' /\ (Registered \/ UNCHANGED sinkVars)
    OBVIOUS
  <2>1. CASE Flush
    BY <2>1, FlushKeepsColumns DEF Flush, TypeOK
  <2>2. CASE RecvLine \/ RecvClosed \/ FlushTick \/ SaveState
    BY <2>2 DEF RecvLine, PushRow, RecvClosed, FlushTick, SaveState, Waiting, StartFlush,
                columnVars, ColumnInv
  <2>3. CASE FinalSave \/ Crash
    BY <2>3 DEF FinalSave, Crash, SinkDies, SinkMemory, ColumnInv
  <2>4. CASE HotReload
    BY <2>4 DEF HotReload, flushVars, ColumnInv
  <2>5. CASE ReadSize \/ StartUp \/ Shutdown \/ Manager \/ Reader \/ UNCHANGED vars
    <3>1. UNCHANGED sinkVars
      BY <2>5 DEF ReadSize, StartUp, Shutdown, Manager, Reader, vars
    <3> QED BY <3>1 DEF sinkVars, columnVars, flushVars, ColumnInv
  <2> QED BY <2>1, <2>2, <2>3, <2>4, <2>5 DEF Next
<1>3. Spec => []ColumnInv
  BY <1>1, <1>2, TypeCorrect, PTL DEF Spec
<1> QED BY <1>2, <1>3, TypeCorrect, PTL DEF Spec, RegisteredEverywhere

-----------------------------------------------------------------------------
(* Owed alerts and positions.                                               *)

\* Nothing is owed at the position where reading began, nor at 0.
LEMMA OwedNone ==
  ASSUME NEW f \in Seq(Byte), NEW b \in Nat
  PROVE  Owed(f, b, b) = {} /\ Owed(f, b, 0) = {}
<1>1. \A j \in Newlines(f) : j \in Nat \ {0} /\ f[j] \in Byte
  BY DEF Newlines
<1>2. \A j \in Newlines(f) : StartOf(f, j) < j /\ ~ (j <= 0)
  BY <1>1, LineAssumption DEF StartOf, Byte
<1>3. \A j \in Newlines(f) : StartOf(f, j) \in Int
  BY <1>1, LineAssumption DEF StartOf, Byte
<1>4. \A j \in Newlines(f) : ~ (j <= b /\ b <= StartOf(f, j))
  BY <1>1, <1>2, <1>3
<1> QED BY <1>2, <1>4 DEF Owed

\* A byte more at the end of the file changes nothing up to where it ended.
LEMMA OwedGrows ==
  ASSUME NEW f \in Seq(Byte), NEW c \in Byte, NEW b \in Nat,
         NEW n \in Nat, n <= Len(f)
  PROVE  Owed(Append(f, c), b, n) = Owed(f, b, n)
<1> DEFINE g == Append(f, c)
<1>1. /\ g \in Seq(Byte)
      /\ Len(f) \in Nat
      /\ Len(g) = Len(f) + 1
      /\ \A j \in 1 .. Len(f) : g[j] = f[j]
  OBVIOUS
<1>2. {j \in Newlines(g) : j <= n /\ b <= StartOf(g, j) /\ IsAlert(g[j].line)}
        = {j \in Newlines(f) : j <= n /\ b <= StartOf(f, j) /\ IsAlert(f[j].line)}
  BY <1>1 DEF Newlines, IsNewline, StartOf
<1>3. \A j \in Newlines(f) : g[j] = f[j]
  BY <1>1 DEF Newlines
<1> HIDE DEF g
<1> QED BY <1>2, <1>3 DEF Owed, g

\* The next line adds at most itself to what is owed.
LEMMA OwedNext ==
  ASSUME NEW f \in Seq(Byte), NEW b \in Nat, NEW p \in Nat, NEW i \in Nat,
         EndsFirstLineAfter(f, p, i),
         NEW l \in Owed(f, b, i)
  PROVE  l \in Owed(f, b, p)
           \/ (l = f[i].line /\ b <= StartOf(f, i) /\ IsAlert(l))
<1>1. PICK j \in Newlines(f) :
        /\ j <= i /\ b <= StartOf(f, j) /\ IsAlert(f[j].line)
        /\ l = f[j].line
  BY DEF Owed
<1>2. CASE j <= p
  BY <1>1, <1>2 DEF Owed
<1>3. CASE ~ (j <= p)
  <2>1. j \in Nat
    BY DEF Newlines
  <2>2. i <= j
    BY <1>3, <2>1 DEF EndsFirstLineAfter
  <2>3. i = j
    BY <1>1, <2>1, <2>2
  <2>4. l = f[i].line /\ b <= StartOf(f, i) /\ IsAlert(f[i].line)
    BY <1>1, <2>3
  <2> QED BY <2>4
<1> QED BY <1>2, <1>3

\* What is owed at a position is owed at a later one.
LEMMA OwedForward ==
  ASSUME NEW f \in Seq(Byte), NEW b, NEW m \in Nat, NEW n \in Nat, m <= n
  PROVE  Owed(f, b, m) \subseteq Owed(f, b, n)
<1>1. \A j \in Newlines(f) : j <= m => j <= n
  BY DEF Newlines
<1> QED BY <1>1 DEF Owed

\* A line ends once.
LEMMA OneNewline ==
  ASSUME NEW f \in Seq(Byte), LinesInOrder(f),
         NEW j \in Newlines(f), NEW k \in Newlines(f), f[j].line = f[k].line
  PROVE  j = k
<1>1. j \in 1 .. Len(f) /\ k \in 1 .. Len(f) /\ IsNewline(f[j]) /\ IsNewline(f[k])
  BY DEF Newlines
<1>2. f[j] \in Byte /\ f[k] \in Byte
  BY <1>1, ElementOfSeq
<1>3. f[j].line \in Nat /\ f[k].line \in Nat
  BY <1>2 DEF Byte, Line
<1>4. ~ (j < k) /\ ~ (k < j)
  BY <1>1, <1>3 DEF LinesInOrder
<1> QED BY <1>1, <1>4

(* Messages.                                                                *)

\* A byte more at the end of the file leaves the messages what they were.
LEMMA MessageGrows ==
  ASSUME NEW f \in Seq(Byte), NEW c \in Byte, NEW b, NEW m, MessageFrom(f, b, m)
  PROVE  MessageFrom(Append(f, c), b, m)
<1>1. /\ Len(f) \in Nat
      /\ Len(Append(f, c)) = Len(f) + 1
      /\ \A j \in 1 .. Len(f) : Append(f, c)[j] = f[j]
  OBVIOUS
<1>2. m.off \in 1 .. Len(f)
  BY DEF MessageFrom, Newlines
<1> QED BY <1>1, <1>2 DEF MessageFrom, Newlines, IsNewline, StartOf

\* The row a message makes is owed where its line ends, and at no position
\* before.
LEMMA MessageOwed ==
  ASSUME NEW f \in Seq(Byte), LinesInOrder(f), NEW b, NEW n \in Nat,
         NEW m \in Message, MessageFrom(f, b, m), n < m.off
  PROVE  /\ RecordOf(m) \subseteq Owed(f, b, m.off)
         /\ RecordOf(m) \cap Owed(f, b, n) = {}
<1>1. m.off \in Newlines(f) /\ m.line = f[m.off].line /\ m.off \in Nat
  BY DEF MessageFrom, Message
<1>2. ASSUME IsRecord(m)
      PROVE  m.line \in Owed(f, b, m.off) /\ m.line \notin Owed(f, b, n)
  <2>1. b <= StartOf(f, m.off) /\ IsAlert(m.line)
    BY <1>2 DEF MessageFrom, IsRecord
  <2>2. m.line \in Owed(f, b, m.off)
    BY <1>1, <2>1 DEF Owed
  <2>3. ASSUME m.line \in Owed(f, b, n) PROVE FALSE
    <3>1. PICK j \in Newlines(f) : j <= n /\ m.line = f[j].line
      BY <2>3 DEF Owed
    <3>2. j = m.off
      BY <1>1, <3>1, OneNewline
    <3> QED BY <1>1, <3>1, <3>2
  <2> QED BY <2>2, <2>3
<1> QED BY <1>2 DEF RecordOf

\* A message sent is carried last.
LEMMA CarriedAppend ==
  ASSUME NEW q \in Seq(Message), NEW m \in Message
  PROVE  /\ \A k \in 1 .. Len(q) : Carried(Append(q, m), k) = Carried(q, k)
         /\ Carried(Append(q, m), Len(q) + 1) = Carried(q, Len(q)) \cup RecordOf(m)
<1>1. /\ Len(q) \in Nat
      /\ \A k \in 1 .. Len(q) : Append(q, m)[k] = q[k]
      /\ Append(q, m)[Len(q) + 1] = m
  OBVIOUS
<1>2. \A k \in 1 .. Len(q) : Carried(Append(q, m), k) = Carried(q, k)
  BY <1>1 DEF Carried
<1>3. Carried(Append(q, m), Len(q) + 1) = Carried(q, Len(q)) \cup RecordOf(m)
  BY <1>1 DEF Carried, RecordOf
<1> QED BY <1>2, <1>3

\* A message received was carried first.
LEMMA CarriedTail ==
  ASSUME NEW q \in Seq(Message), q # <<>>
  PROVE  /\ Carried(q, 1) = RecordOf(Head(q))
         /\ \A k \in 0 .. Len(Tail(q)) :
              Carried(q, k + 1) \subseteq RecordOf(Head(q)) \cup Carried(Tail(q), k)
<1>1. /\ Len(q) \in Nat \ {0}
      /\ Len(Tail(q)) = Len(q) - 1
      /\ Head(q) = q[1]
      /\ \A k \in 1 .. Len(Tail(q)) : Tail(q)[k] = q[k + 1]
  OBVIOUS
<1>2. Carried(q, 1) = RecordOf(Head(q))
  BY <1>1 DEF Carried, RecordOf
<1>3. ASSUME NEW k \in 0 .. Len(Tail(q)), NEW l \in Carried(q, k + 1)
      PROVE  l \in RecordOf(Head(q)) \cup Carried(Tail(q), k)
  <2>1. PICK j \in 1 .. k + 1 : IsRecord(q[j]) /\ l = q[j].line
    BY DEF Carried
  <2>2. CASE j = 1
    BY <1>1, <2>1, <2>2 DEF RecordOf
  <2>3. CASE j # 1
    <3>1. j - 1 \in 1 .. k /\ Tail(q)[j - 1] = q[j]
      BY <1>1, <2>3
    <3> QED BY <2>1, <3>1 DEF Carried
  <2> QED BY <2>2, <2>3
<1> QED BY <1>2, <1>3
-----------------------------------------------------------------------------
(* The flush loses no row, and rows stay in the batches of their tables.    *)

\* No step of the flush takes a row out of the batches, the work and the
\* settled rows together.
LEMMA FlushLosesNothing ==
  ASSUME SinkTypeOK, FlushInv, FlushStep
  PROVE  FlushInv' /\ Settled \subseteq Settled' /\ Safe \subseteq Safe'
<1>1. Safe = Pushed /\ Safe' = Pushed'
  BY DEF Safe, Pushed, InFlight
<1> QED BY <1>1, FlushKeepsRows

\* Without rows there is nothing to route.
LEMMA NoRowsRouted == Routed(NoRows) /\ RowsIn(NoRows) = {}
BY DEF Routed, NoRows, RowsIn, RowsOf

\* Nor does it make rows, or take any to another table.
LEMMA FlushRouted ==
  ASSUME SinkTypeOK, FlushInv, RowInv, FlushStep
  PROVE  RowInv' /\ InFlight' \subseteq InFlight
<1>1. CASE UNCHANGED <<batches, work, rowVars>>
  BY <1>1 DEF RowInv, Routed, InFlight
<1>2. CASE TakeBatches
  <2>1. batches' = NoRows /\ work' = batches
    BY <1>2 DEF TakeBatches
  <2>2. InFlight' = RowsIn(NoRows) \cup RowsIn(batches)
    BY <2>1 DEF InFlight
  <2>3. Routed(batches') /\ Routed(work')
    BY <2>1, NoRowsRouted DEF RowInv
  <2> QED BY <2>2, <2>3, NoRowsRouted DEF RowInv, InFlight, Routed
<1>3. ASSUME NEW t \in Table, FinishTable(t), UNCHANGED batches
      PROVE  RowInv' /\ InFlight' \subseteq InFlight
  <2>1. /\ RowsIn(work') \subseteq RowsIn(work)
        /\ work'[t] = <<>> /\ \A u \in Table \ {t} : work'[u] = work[u]
    BY <1>3, FinishedRows
  <2>2. Routed(work')
    BY <2>1 DEF RowInv, Routed
  <2>3. Routed(batches') /\ RowsIn(batches') = RowsIn(batches)
    BY <1>3 DEF RowInv
  <2> QED BY <2>1, <2>2, <2>3 DEF RowInv, InFlight, Routed
<1> QED BY <1>1, <1>2, <1>3, FlushShapes

\* A record pushed is in the batch of its table, with those that were there.
LEMMA PushRouted ==
  ASSUME SinkTypeOK, RowInv, NEW r \in Row, TableOf[r] \in Table,
         r \notin InFlight, PushRow(TableOf[r], r), UNCHANGED work
  PROVE  RowInv' /\ InFlight' = InFlight \cup {r}
<1> DEFINE t == TableOf[r]
           s == batches[t]
<1>1. /\ batches'[t] = Append(s, r) /\ s \in Seq(Row)
      /\ \A u \in Table \ {t} : batches'[u] = batches[u]
  BY PushedRow DEF SinkTypeOK
<1>2. /\ Len(s) \in Nat /\ Len(Append(s, r)) = Len(s) + 1
      /\ \A k \in 1 .. Len(s) : Append(s, r)[k] = s[k]
      /\ Append(s, r)[Len(s) + 1] = r
  BY <1>1
<1>3. \A k \in 1 .. Len(s) : s[k] # r
  BY DEF InFlight, RowsIn, RowsOf
<1>4. \A j, k \in 1 .. Len(s) : TableOf[s[k]] = t /\ (s[j] = s[k] => j = k)
  BY DEF RowInv, Routed
<1>5. ASSUME NEW j \in 1 .. Len(s) + 1, NEW k \in 1 .. Len(s) + 1
      PROVE  /\ TableOf[Append(s, r)[k]] = t
             /\ Append(s, r)[j] = Append(s, r)[k] => j = k
  BY <1>2, <1>3, <1>4
<1>6. ASSUME NEW u \in Table, NEW j \in 1 .. Len(batches'[u]),
             NEW k \in 1 .. Len(batches'[u])
      PROVE  /\ TableOf[batches'[u][k]] = u
             /\ batches'[u][j] = batches'[u][k] => j = k
  <2>1. CASE u = t
    BY <1>1, <1>2, <1>5, <2>1
  <2>2. CASE u # t
    BY <1>1, <2>2 DEF RowInv, Routed
  <2> QED BY <2>1, <2>2
<1>7. Routed(batches') /\ Routed(work')
  BY <1>6 DEF Routed, RowInv
<1>8. RowsIn(batches') = RowsIn(batches) \cup {r}
  BY PushKeepsRows
<1> QED BY <1>7, <1>8 DEF RowInv, InFlight, Routed
-----------------------------------------------------------------------------
(* The steps of the service.                                                *)

\* A growing alerts.json is the first file.
LEMMA StableFile ==
  ASSUME TypeOK, Stable
  PROVE  file[1] \in Seq(Byte) /\ Len(file[1]) \in Nat /\ path = 1 /\ base \in Nat
<1>1. 1 \in Inode
  BY FileAssumption DEF Inode
<1>2. file[1] \in Seq(Byte)
  BY <1>1 DEF TypeOK, FsTypeOK
<1> QED BY <1>2 DEF Stable, TypeOK, MainTypeOK

\* A step that leaves the file, the reader and the main loop alone, and
\* neither loses nor makes rows, keeps the invariant.
LEMMA Undisturbed ==
  ASSUME Core, UNCHANGED <<fsVars, readerVars, cur, base, bootSize>>,
         Reading' <=> Reading, SavedInv', FlushInv', RowInv',
         Reading' \/ (fpc' = "idle" /\ batches' = batches),
         Safe \subseteq Safe', InFlight' \subseteq InFlight
  PROVE  Core'
<1> USE DEF Core, fsVars, readerVars, PositionOK, OwedAt
<1>1. ShapeInv' /\ IdleInv'
  BY DEF ShapeInv, IdleInv, NoRows
<1>2. MainInv' /\ StartInv'
  BY DEF MainInv, StartInv
<1>3. ChanInv'
  BY DEF ChanInv, MessageOK
<1>4. TailInv'
  BY DEF TailInv, MessageOK
<1> QED BY <1>1, <1>2, <1>3, <1>4

\* The state file stays good while it is left alone and no row is unsettled.
LEMMA SavedKept ==
  ASSUME Core, UNCHANGED <<fsVars, saved, base>>,
         mpc' = "boot" => mpc = "boot" /\ UNCHANGED bootSize,
         Settled \subseteq Settled'
  PROVE  SavedInv'
BY DEF Core, SavedInv, PositionOK, OwedAt, fsVars

\* A save after a flush commits the offset of the last line taken, and all
\* that was taken is settled then; a save that fails commits nothing.
LEMMA SaveKeeps ==
  ASSUME TypeOK, Stable, Core, Reading, fpc = "save", SaveOutcome,
         UNCHANGED <<fsVars, base, rowVars>>, mpc' # "boot"
  PROVE  SavedInv'
<1>1. RowsIn(NoRows) = {}
  BY DEF RowsIn, RowsOf, NoRows
<1>2. Safe = Settled
  BY <1>1 DEF Core, FlushInv, Safe, InFlight
<1>3. OwedAt(cur) \subseteq Settled /\ PositionOK(cur)
  BY <1>2 DEF Core, MainInv
<1>4. CASE saved' = StateToSave
  BY <1>3, <1>4, StableFile
  DEF SavedInv, PositionOK, OwedAt, StateToSave, PathInode, Settled, fsVars, rowVars
<1>5. CASE saved' = saved
  BY <1>5 DEF Core, SavedInv, PositionOK, OwedAt, Settled, fsVars, rowVars
<1> QED BY <1>4, <1>5 DEF SaveOutcome

\* The end of the process keeps what the state file says, which is all that
\* is left.
LEMMA DeathKeeps ==
  ASSUME Core, ReaderDies, SinkDies, UNCHANGED <<fsVars, base>>,
         mpc' \in {"down", "stopped"}, SavedInv'
  PROVE  Core'
<1>1. batches' = NoRows /\ work' = NoRows
  BY DEF SinkDies, SinkMemory
<1>2. RowInv'
  BY <1>1, NoRowsRouted DEF RowInv, Routed
<1> QED
  BY <1>2 DEF Core, ReaderDies, SinkDies, SinkMemory, ShapeInv, FlushInv, IdleInv,
              MainInv, StartInv, ChanInv, TailInv, Reading, fsVars

\* A start with a state file reads on from what is committed: the file is the
\* saved one and has not shrunk.
LEMMA StartResumes ==
  ASSUME TypeOK, Stable, Core, StartUp, ~ FirstRun
  PROVE  StartOffset = saved.offset /\ UNCHANGED <<saved, base>>
<1>1. path = 1
  BY StableFile
<1>2. saved.offset \in Nat /\ bootSize \in Nat /\ saved.offset <= bootSize
  BY DEF StartUp, Core, SavedInv, TypeOK, MainTypeOK, TailState
<1>3. UNCHANGED <<saved, base>> /\ saved.inode = 1
  BY DEF StartUp, Core, SavedInv, FirstRun
<1> QED BY <1>1, <1>2, <1>3 DEF StartOffset, ResumeOffset, PathInode

\* A start resumes at the state file, or begins where it decides to.
LEMMA StartKeeps ==
  ASSUME TypeOK, Stable, Core, ReadSize \/ StartUp
  PROVE  Core'
<1> DEFINE f == file[1]
<1>1. f \in Seq(Byte) /\ Len(f) \in Nat /\ path = 1 /\ base \in Nat
  BY StableFile
<1>2. saved.offset \in Nat /\ saved.offset <= Len(f)
  BY <1>1, PositionNat
  DEF Core, SavedInv, PositionOK, NoState, TypeOK, MainTypeOK, TailState
<1>3. CASE ReadSize
  <2>1. bootSize' = Len(f)
    BY <1>1, <1>3 DEF ReadSize, PathSize, NoInode
  <2>2. SavedInv'
    BY <1>1, <1>2, <1>3, <2>1
    DEF ReadSize, Core, SavedInv, PositionOK, OwedAt, Settled, fsVars, sinkVars,
        rowVars
  <2>3. ~ Reading /\ ~ Reading'
    BY <1>3 DEF ReadSize, Reading
  <2>4. RowInv'
    BY <1>3 DEF ReadSize, sinkVars, batchVars, flushVars, Core, RowInv, Routed
  <2> QED
    BY <1>3, <2>2, <2>3, <2>4
    DEF ReadSize, Core, ShapeInv, FlushInv, IdleInv, MainInv, StartInv, ChanInv,
        TailInv, fsVars, readerVars, sinkVars, batchVars, flushVars
<1>4. CASE StartUp
  <2>1. saved.offset <= bootSize /\ bootSize <= Len(f) /\ bootSize \in Nat
    BY <1>4 DEF StartUp, Core, SavedInv, TypeOK, MainTypeOK
  <2>2. /\ Position(f, base', StartOffset)
        /\ Owed(f, base', StartOffset) \subseteq Settled
        /\ base' \in Nat
    <3>1. CASE FirstRun
      <4>1. StartOffset \in {0, bootSize} /\ base' = StartOffset
        BY <1>4, <3>1 DEF StartUp, StartOffset
      <4>2. base' \in Nat /\ base' <= Len(f)
        BY <1>1, <2>1, <4>1
      <4>3. Owed(f, base', base') = {}
        BY <1>1, <4>2, OwedNone
      <4> QED BY <4>1, <4>2, <4>3 DEF Position
    <3>2. CASE ~ FirstRun
      <4>1. StartOffset = saved.offset /\ base' = base
        BY <1>4, <3>2, StartResumes
      <4>2. PositionOK(saved.offset)
        BY <3>2 DEF Core, SavedInv, FirstRun
      <4> QED BY <1>1, <4>1, <4>2 DEF Core, SavedInv, PositionOK, OwedAt
    <3> QED BY <3>1, <3>2
  <2>3. UNCHANGED <<file, last, batches, work, fpc, stored, dropped>>
    BY <1>4 DEF StartUp, fsVars, sinkVars, batchVars, flushVars, rowVars
  <2>4. StartState = [inode |-> 1, offset |-> StartOffset]
    BY <1>1 DEF StartState, PathInode
  <2>5. SavedInv'
    <3>1. CASE saved' = StartState
      BY <1>4, <2>2, <2>3, <2>4, <3>1
      DEF StartUp, SavedInv, PositionOK, OwedAt, Settled
    <3>2. CASE saved' = saved /\ FirstRun
      <4>1. Owed(f, base', 0) = {}
        BY <1>1, <2>2, OwedNone
      <4> QED BY <1>4, <2>3, <3>2, <4>1
              DEF StartUp, SavedInv, OwedAt, FirstRun, NoState
    <3>3. CASE saved' = saved /\ ~ FirstRun
      BY <1>4, <2>3, <3>3
      DEF StartUp, Core, SavedInv, PositionOK, OwedAt, Settled
    <3> QED BY <1>4, <3>1, <3>2, <3>3 DEF StartUp
  <2>6. MainInv' /\ RowInv' /\ fpc = "idle"
    <3>1. fpc = "idle" /\ batches = NoRows /\ work = NoRows
      BY <1>4 DEF StartUp, Core, IdleInv, FlushInv, Reading
    <3>2. InFlight' = {} /\ RowInv'
      BY <2>3, <3>1, NoRowsRouted DEF InFlight, RowInv, Routed
    <3> QED BY <1>4, <2>2, <2>3, <3>1, <3>2
            DEF StartUp, MainInv, PositionOK, OwedAt, Safe, Settled
  <2>7. StartInv' /\ ChanInv' /\ TailInv'
    BY <1>4, <2>4
    DEF StartUp, SpawnReader, StartInv, ChanInv, TailInv
  <2> QED BY <1>4, <2>3, <2>5, <2>6, <2>7
          DEF StartUp, Core, ShapeInv, FlushInv, IdleInv, Reading
<1> QED BY <1>3, <1>4

\* The line taken from the channel is the next that is owed, and in no batch
\* yet; if it makes a row it goes to one.
LEMMA RecvTakes ==
  ASSUME TypeOK, Stable, Core, ForwardInv, RecvLine, NEW m, m = Head(chan)
  PROVE  /\ m \in Message /\ cur' = m.off /\ PositionOK(m.off) /\ MessageOK(m)
         /\ OwedAt(cur) \subseteq OwedAt(m.off)
         /\ OwedAt(m.off) \subseteq OwedAt(cur) \cup RecordOf(m)
         /\ RecordOf(m) \subseteq OwedAt(m.off) \ OwedAt(cur)
         /\ RowInv' /\ InFlight' = InFlight \cup RecordOf(m)
         /\ RowsIn(batches') = RowsIn(batches) \cup RecordOf(m)
<1>1. /\ chan \in Seq(Message) /\ chan # <<>> /\ m \in Message
      /\ m = chan[1] /\ Len(chan) \in Nat \ {0}
  BY DEF RecvLine, TypeOK, ReaderTypeOK
<1>2. Reading /\ UNCHANGED work
  BY DEF RecvLine, Waiting, Reading
<1>3. file[1] \in Seq(Byte) /\ base \in Nat /\ SinkTypeOK
  BY StableFile DEF TypeOK
<1>4. /\ cur' = m.off /\ cur \in Nat /\ m.off \in Nat /\ cur < m.off
      /\ PositionOK(m.off) /\ MessageOK(m)
      /\ OwedAt(m.off) \subseteq OwedAt(cur) \cup RecordOf(m)
  <2>1. cur' = m.off /\ cur \in Nat /\ m.off \in Nat
    BY <1>1 DEF RecvLine, TypeOK, MainTypeOK, Message
  <2>2. cur < m.off
    BY <1>1, <1>2 DEF ForwardInv
  <2>3. /\ PositionOK(chan[1].off) /\ MessageOK(chan[1])
        /\ OwedAt(chan[1].off) \subseteq OwedAt(cur) \cup Carried(chan, 1)
    BY <1>1, <1>2 DEF Core, ChanInv
  <2> QED BY <1>1, <2>1, <2>2, <2>3, CarriedTail
<1>5. /\ RecordOf(m) \subseteq OwedAt(m.off) /\ RecordOf(m) \cap OwedAt(cur) = {}
      /\ OwedAt(cur) \subseteq OwedAt(m.off)
  <2>1. LinesInOrder(file[1])
    BY DEF Core, ShapeInv
  <2>2. OwedAt(cur) \subseteq OwedAt(m.off)
    BY <1>3, <1>4, OwedForward DEF OwedAt
  <2>3. MessageFrom(file[1], base, m)
    BY <1>4 DEF MessageOK
  <2>4. /\ RecordOf(m) \subseteq Owed(file[1], base, m.off)
        /\ RecordOf(m) \cap Owed(file[1], base, cur) = {}
    BY <1>1, <1>3, <1>4, <2>1, <2>3, MessageOwed
  <2> QED BY <2>2, <2>4 DEF OwedAt
<1>6. CASE IsRecord(m)
  <2>1. PushRow(TableOf[m.line], m.line)
    BY <1>6 DEF RecvLine
  <2>2. TableOf[m.line] \in Table /\ m.line \in Row
    BY <1>1, EtlAssumption DEF Message
  <2>3. m.line \notin InFlight
    BY <1>2, <1>5, <1>6 DEF Core, MainInv, RecordOf
  <2>4. RowInv' /\ InFlight' = InFlight \cup {m.line}
    BY <1>2, <1>3, <2>1, <2>2, <2>3, PushRouted DEF Core
  <2>5. RowsIn(batches') = RowsIn(batches) \cup {m.line}
    BY <1>3, <2>1, <2>2, PushKeepsRows
  <2> QED BY <1>1, <1>4, <1>5, <1>6, <2>4, <2>5 DEF RecordOf
<1>7. CASE ~ IsRecord(m)
  <2>1. batches' = batches /\ RecordOf(m) = {}
    BY <1>7 DEF RecvLine, RecordOf
  <2>2. RowInv' /\ InFlight' = InFlight
    BY <1>2, <2>1 DEF InFlight, Core, RowInv, Routed
  <2> QED BY <1>1, <1>4, <1>5, <2>1, <2>2
<1> QED BY <1>6, <1>7

\* A line taken from the channel: what it carries goes to a batch before its
\* offset becomes the one a save would commit, and was in none before.
LEMMA RecvKeeps ==
  ASSUME TypeOK, Stable, Core, ForwardInv, RecvLine
  PROVE  Core'
<1> DEFINE m == Head(chan)
<1>1. /\ chan \in Seq(Message) /\ chan # <<>> /\ m \in Message
      /\ m = chan[1] /\ Len(chan) \in Nat \ {0}
      /\ chan' = Tail(chan) /\ Len(chan') = Len(chan) - 1
      /\ \A k \in 1 .. Len(chan') : chan'[k] = chan[k + 1]
  BY DEF RecvLine, TypeOK, ReaderTypeOK
<1>2. Reading /\ Reading' /\ fpc = "idle" /\ fpc' \in {"idle", "detect"}
  BY DEF RecvLine, Waiting, Reading, PushRow
<1>3. UNCHANGED <<fsVars, base, saved, bootSize, mpc, work, stored, dropped,
                  rpc, goal, tailer, msg, initial, statIno>>
  BY DEF RecvLine, rowVars
<1>4. file'[1] = file[1]
  BY <1>3 DEF fsVars
<1>5. /\ cur' = m.off /\ PositionOK(m.off) /\ MessageOK(m)
      /\ OwedAt(cur) \subseteq OwedAt(m.off) /\ RecordOf(m) \subseteq OwedAt(m.off)
      /\ OwedAt(m.off) \subseteq OwedAt(cur) \cup RecordOf(m)
  BY RecvTakes
<1>6. RowInv' /\ InFlight' = InFlight \cup RecordOf(m)
  BY RecvTakes
<1>7. Settled' = Settled
  BY <1>3 DEF Settled
<1>8. SavedInv'
  BY <1>3, <1>7, SavedKept
<1>9. \A n : /\ Owed(file'[1], base', n) = OwedAt(n)
             /\ Position(file'[1], base', n) <=> PositionOK(n)
             /\ MessageFrom(file'[1], base', n) <=> MessageOK(n)
  BY <1>3, <1>4 DEF OwedAt, PositionOK, MessageOK
<1>10. MainInv'
  <2>1. OwedAt(m.off) \subseteq Safe'
    BY <1>2, <1>5, <1>6, <1>7 DEF Core, MainInv, Safe
  <2>2. InFlight' \subseteq OwedAt(m.off)
    BY <1>2, <1>5, <1>6 DEF Core, MainInv
  <2> QED BY <1>5, <1>9, <2>1, <2>2 DEF MainInv, PositionOK, OwedAt
<1>11. goal = "tailing"
  BY <1>1, <1>2 DEF Core, StartInv
<1>12. \A k \in 0 .. Len(chan') :
         OwedAt(cur) \cup Carried(chan, k + 1) \subseteq OwedAt(cur') \cup Carried(chan', k)
  BY <1>1, <1>5, CarriedTail
<1>13. ChanInv'
  <2> SUFFICES ASSUME NEW k \in 1 .. Len(chan')
               PROVE  /\ Position(file'[1], base', chan'[k].off)
                      /\ MessageFrom(file'[1], base', chan'[k])
                      /\ Owed(file'[1], base', chan'[k].off)
                           \subseteq Owed(file'[1], base', cur') \cup Carried(chan', k)
    BY DEF ChanInv, PositionOK, OwedAt, MessageOK
  <2>1. k + 1 \in 1 .. Len(chan) /\ chan'[k] = chan[k + 1]
    BY <1>1
  <2>2. /\ PositionOK(chan[k + 1].off) /\ MessageOK(chan[k + 1])
        /\ OwedAt(chan[k + 1].off) \subseteq OwedAt(cur) \cup Carried(chan, k + 1)
    BY <1>2, <2>1 DEF Core, ChanInv
  <2>3. OwedAt(cur) \cup Carried(chan, k + 1) \subseteq OwedAt(cur') \cup Carried(chan', k)
    BY <1>12
  <2> QED BY <1>9, <2>1, <2>2, <2>3
<1>14. OwedAt(cur) \cup Carried(chan, Len(chan))
         \subseteq Owed(file'[1], base', cur') \cup Carried(chan', Len(chan'))
  BY <1>1, <1>9, <1>12
<1>15. TailInv'
  <2>1. UNCHANGED <<rpc, tailer, msg>> /\ TailInv
    BY <1>3 DEF Core
  <2>2. MessageOK(msg) => MessageFrom(file'[1], base', msg')
    BY <1>9, <2>1
  <2> QED BY <1>2, <1>9, <1>11, <1>14, <2>1, <2>2 DEF TailInv, PositionOK, OwedAt, MessageOK
<1>16. ShapeInv' /\ FlushInv' /\ IdleInv' /\ StartInv'
  BY <1>2, <1>3, <1>11 DEF Core, ShapeInv, FlushInv, IdleInv, StartInv, fsVars
<1> QED BY <1>6, <1>8, <1>10, <1>13, <1>15, <1>16 DEF Core

\* The bytes the tailer has open are those of the growing file.
LEMMA TailedFile ==
  ASSUME TypeOK, Stable, Core, Reading, goal = "tailing"
  PROVE  /\ Bytes = file[1] /\ tailer.offset \in Nat
         /\ tailer.offset <= Len(file[1]) /\ base <= tailer.offset
<1>1. Bytes = file[1]
  BY DEF Core, TailInv, Bytes, NoInode
<1>2. PositionOK(tailer.offset)
  BY DEF Core, TailInv
<1> QED BY <1>1, <1>2, StableFile, PositionNat DEF PositionOK

\* A line read takes the tailer from a position to the next, and what the
\* line adds to the owed alerts is the record that its message carries, if it
\* is not blank.
LEMMA LineRead ==
  ASSUME TypeOK, Stable, Core, Reading, goal = "tailing", rpc = "next_line",
         NEW i \in Newlines(Bytes), EndsFirstLineAfter(Bytes, tailer.pos, i)
  PROVE  /\ AfterLine(tailer, i).offset = i /\ AfterLine(tailer, i).pos = i
         /\ AfterLine(tailer, i).fd = 1 /\ AfterLine(tailer, i).inode = 1
         /\ PositionOK(i) /\ MessageOK(MessageAt(i))
         /\ OwedAt(i) \subseteq
              OwedAt(cur) \cup Carried(chan, Len(chan)) \cup RecordOf(MessageAt(i))
         /\ Blank(i) => RecordOf(MessageAt(i)) = {}
<1> DEFINE f == file[1]
<1>1. /\ f \in Seq(Byte) /\ Len(f) \in Nat /\ base \in Nat
      /\ Bytes = f /\ tailer.offset \in Nat /\ base <= tailer.offset
  BY StableFile, TailedFile
<1>2. /\ tailer.pos = tailer.offset /\ tailer.fd = 1 /\ tailer.inode = 1
      /\ Position(f, base, tailer.offset)
      /\ OwedAt(tailer.offset) \subseteq OwedAt(cur) \cup Carried(chan, Len(chan))
  BY DEF Core, TailInv, PositionOK
<1>3. i \in Nat /\ i \in Newlines(f) /\ i <= Len(f) /\ tailer.offset < i
  BY <1>1, <1>2 DEF Newlines, EndsFirstLineAfter
<1>4. /\ AfterLine(tailer, i).offset = i /\ AfterLine(tailer, i).pos = i
      /\ AfterLine(tailer, i).fd = 1 /\ AfterLine(tailer, i).inode = 1
  BY <1>1, <1>2, <1>3 DEF AfterLine, MovedTo
<1>5. PositionOK(i)
  BY <1>1, <1>3 DEF PositionOK, Position
<1>6. MessageAt(i).line = f[i].line
        /\ MessageAt(i).whole = (tailer.offset = StartOf(f, i))
  BY <1>1, <1>2 DEF MessageAt, ReadsWhole
<1>7. ASSUME NEW l \in OwedAt(i)
      PROVE  l \in OwedAt(cur) \cup Carried(chan, Len(chan)) \cup RecordOf(MessageAt(i))
  <2>1. \/ l \in Owed(f, base, tailer.offset)
        \/ l = f[i].line /\ base <= StartOf(f, i) /\ IsAlert(l)
    BY <1>1, <1>2, <1>3, <1>7, OwedNext DEF OwedAt
  <2>2. CASE l \in Owed(f, base, tailer.offset)
    BY <1>2, <2>2 DEF OwedAt
  <2>3. CASE l = f[i].line /\ base <= StartOf(f, i) /\ IsAlert(l)
    <3>1. LineShape(f)
      BY DEF Core, ShapeInv
    <3>2. tailer.offset = StartOf(f, i)
      BY <1>1, <1>2, <1>3, <2>3, <3>1, NextLineWhole
    <3> QED BY <1>6, <2>3, <3>2 DEF RecordOf, IsRecord
  <2> QED BY <2>1, <2>2, <2>3
<1>8. Blank(i) => RecordOf(MessageAt(i)) = {}
  BY <1>1, <1>6 DEF Blank, RecordOf, IsRecord, IsAlert
<1>9. MessageOK(MessageAt(i))
  <2>1. MessageAt(i).off = i
    BY <1>4 DEF MessageAt
  <2> QED BY <1>1, <1>3, <1>6, <2>1 DEF MessageOK, MessageFrom
<1> QED BY <1>4, <1>5, <1>7, <1>8, <1>9

\* No step of the reader takes an alert past the tailer without its message,
\* and on a growing file the tailer never opens it a second time.
LEMMA ReaderKeeps ==
  ASSUME AllDecodable, TypeOK, Stable, Core, Reader
  PROVE  Core'
<1> USE DEF Core
<1>1. UNCHANGED <<fsVars, mainVars, sinkVars, initial, rxOpen>>
  BY DEF Reader, ReaderNext, StatPath, OpenPath, OpenFails, ReadLine,
         ReadBlankLine, ReadUndecodable, ReadPartialLine, ReadEof,
         CheckRotation, Send, SendFails
<1>2. /\ UNCHANGED <<file, last, path, batches, work, fpc, stored, dropped>>
      /\ UNCHANGED <<mpc, cur, saved, bootSize, base>>
      /\ Settled' = Settled /\ Safe' = Safe /\ Reading' = Reading
      /\ InFlight' = InFlight
  BY <1>1
  DEF fsVars, mainVars, sinkVars, batchVars, flushVars, rowVars,
      Settled, Safe, InFlight, Reading
<1>3. Reading
  BY DEF IdleInv, Reader, ReaderNext, StatPath, OpenPath, OpenFails, ReadLine,
         ReadBlankLine, ReadUndecodable, ReadPartialLine, ReadEof,
         CheckRotation, Send, SendFails
<1>4. ShapeInv' /\ FlushInv' /\ IdleInv' /\ SavedInv' /\ MainInv' /\ RowInv'
  BY <1>2, <1>3
  DEF ShapeInv, FlushInv, IdleInv, SavedInv, MainInv, RowInv, Routed, PositionOK, OwedAt
<1>5. /\ file[1] \in Seq(Byte) /\ Len(file[1]) \in Nat /\ path = 1
      /\ chan \in Seq(Message) /\ Len(chan) \in Nat
  BY StableFile DEF TypeOK, ReaderTypeOK
<1>6. ASSUME chan' = chan PROVE ChanInv'
  BY <1>2, <1>6 DEF ChanInv, PositionOK, OwedAt, MessageOK
<1>7. CASE StatPath
  <2>1. StartInv' /\ TailInv'
    BY <1>2, <1>3, <1>5, <1>7 DEF StatPath, PathInode, StartInv, TailInv
  <2> QED BY <1>4, <1>6, <1>7, <2>1 DEF StatPath
<1>8. CASE OpenPath
  <2>1. goal = "initial" /\ statIno = 1 /\ initial = [inode |-> 1, offset |-> cur]
          /\ chan = <<>>
    BY <1>3, <1>8 DEF OpenPath, StartInv, TailInv
  <2>2. ~ RotatedWhileStopped /\ OpenOffset = cur
    BY <2>1 DEF RotatedWhileStopped, OpenOffset
  <2>3. tailer' = [inode |-> 1, fd |-> 1, offset |-> cur, pos |-> cur]
          /\ rpc' = "next_line" /\ goal' = "tailing" /\ chan' = chan
    BY <1>5, <1>8, <2>1, <2>2 DEF OpenPath
  <2>4. PositionOK(cur)
    BY <1>3 DEF MainInv
  <2>5. StartInv' /\ TailInv'
    BY <1>2, <2>3, <2>4 DEF StartInv, TailInv, PositionOK, OwedAt
  <2> QED BY <1>4, <1>6, <2>3, <2>5
<1>9. CASE OpenFails
  BY <1>5, <1>9 DEF OpenFails, NoInode
<1>10. ASSUME rpc \in {"next_line", "send", "check_rotation"}
       PROVE  goal = "tailing"
  BY <1>3, <1>10 DEF StartInv
<1>11. CASE ReadLine
  <2>1. PICK i \in Newlines(Bytes) :
          /\ EndsFirstLineAfter(Bytes, tailer.pos, i)
          /\ tailer' = AfterLine(tailer, i)
          /\ msg' = MessageAt(i)
    BY <1>11 DEF ReadLine
  <2>2. rpc = "next_line" /\ goal = "tailing" /\ rpc' = "send"
          /\ goal' = goal /\ chan' = chan
    BY <1>10, <1>11 DEF ReadLine
  <2>3. /\ tailer'.offset = i /\ tailer'.pos = i /\ tailer'.fd = 1
        /\ tailer'.inode = 1 /\ msg'.off = i /\ PositionOK(i)
        /\ MessageFrom(file[1], base, msg')
        /\ OwedAt(i) \subseteq OwedAt(cur) \cup Carried(chan, Len(chan)) \cup RecordOf(msg')
    BY <1>3, <2>1, <2>2, LineRead DEF MessageAt, MessageOK
  <2>4. StartInv' /\ TailInv'
    BY <1>2, <2>2, <2>3 DEF StartInv, TailInv, PositionOK, OwedAt, MessageOK
  <2> QED BY <1>4, <1>6, <2>2, <2>4
<1>12. CASE ReadBlankLine
  <2>1. PICK i \in Newlines(Bytes) :
          /\ EndsFirstLineAfter(Bytes, tailer.pos, i)
          /\ Blank(i)
          /\ tailer' = AfterLine(tailer, i)
    BY <1>12 DEF ReadBlankLine
  <2>2. rpc = "next_line" /\ goal = "tailing" /\ rpc' = rpc
          /\ goal' = goal /\ chan' = chan
    BY <1>10, <1>12 DEF ReadBlankLine
  <2>3. /\ tailer'.offset = i /\ tailer'.pos = i /\ tailer'.fd = 1
        /\ tailer'.inode = 1 /\ PositionOK(i)
        /\ OwedAt(i) \subseteq OwedAt(cur) \cup Carried(chan, Len(chan))
    BY <1>3, <2>1, <2>2, LineRead
  <2>4. StartInv' /\ TailInv'
    BY <1>2, <2>2, <2>3 DEF StartInv, TailInv, PositionOK, OwedAt
  <2> QED BY <1>4, <1>6, <2>2, <2>4
<1>13. CASE ReadUndecodable
  <2>1. PICK i \in Newlines(Bytes) \cup {Len(Bytes)} :
          tailer.pos < i /\ ~ LineReadable(i)
    BY <1>13 DEF ReadUndecodable
  <2>2. Bytes = file[1] /\ tailer.offset \in Nat /\ tailer.pos = tailer.offset
    BY <1>3, <1>10, <1>13, TailedFile DEF ReadUndecodable, TailInv
  <2>3. i \in 1 .. Len(file[1]) /\ tailer.pos + 1 \in 1 .. Len(file[1])
    BY <1>5, <2>1, <2>2 DEF Newlines
  <2>4. LineReadable(i)
    BY <1>5, <2>2, <2>3, AllReadable DEF LineReadable
  <2> QED BY <2>1, <2>4
<1>14. CASE ReadPartialLine \/ ReadEof
  <2>1. rpc = "next_line" /\ goal = "tailing" /\ rpc' = "check_rotation"
          /\ goal' = goal /\ chan' = chan
    BY <1>10, <1>14 DEF ReadPartialLine, ReadEof
  <2>2. /\ tailer'.fd = 1 /\ tailer'.inode = 1
        /\ tailer'.offset = tailer.offset /\ tailer'.pos = tailer.offset
    BY <1>3, <1>14, <2>1
    DEF ReadPartialLine, ReadEof, SeekBack, MovedTo, TailInv
  <2>3. StartInv' /\ TailInv'
    BY <1>2, <1>3, <2>1, <2>2 DEF StartInv, TailInv, PositionOK, OwedAt
  <2> QED BY <1>4, <1>6, <2>1, <2>3
<1>15. CASE CheckRotation
  <2>1. rpc = "check_rotation" /\ goal = "tailing"
    BY <1>10, <1>15 DEF CheckRotation
  <2>2. ~ Rotated /\ ~ Truncated
    BY <1>3, <1>5, <2>1, TailedFile DEF Rotated, Truncated, PathSize, TailInv, NoInode
  <2>3. rpc' = "next_line" /\ UNCHANGED <<goal, tailer, chan>>
    BY <1>15, <2>2 DEF CheckRotation
  <2>4. StartInv' /\ TailInv'
    BY <1>2, <1>3, <2>1, <2>3 DEF StartInv, TailInv, PositionOK, OwedAt
  <2> QED BY <1>4, <1>6, <2>3, <2>4
<1>16. CASE Send
  <2>1. /\ rpc = "send" /\ goal = "tailing" /\ rpc' = "next_line"
        /\ goal' = goal /\ tailer' = tailer /\ chan' = Append(chan, msg)
        /\ msg \in Message
    BY <1>10, <1>16 DEF Send, TypeOK, ReaderTypeOK
  <2>2. /\ Len(chan') = Len(chan) + 1
        /\ chan'[Len(chan) + 1] = msg
        /\ \A k \in 1 .. Len(chan) : chan'[k] = chan[k]
    BY <1>5, <2>1
  <2>3. /\ \A k \in 1 .. Len(chan) : Carried(chan', k) = Carried(chan, k)
        /\ Carried(chan', Len(chan')) = Carried(chan, Len(chan)) \cup RecordOf(msg)
    BY <1>5, <2>1, <2>2, CarriedAppend
  <2>4. /\ msg.off = tailer.offset /\ PositionOK(msg.off) /\ MessageOK(msg)
        /\ OwedAt(msg.off) \subseteq OwedAt(cur) \cup Carried(chan', Len(chan'))
    BY <1>3, <2>1, <2>3 DEF TailInv
  <2>5. ChanInv'
    <3> SUFFICES ASSUME NEW k \in 1 .. Len(chan')
                 PROVE  /\ Position(file'[1], base', chan'[k].off)
                        /\ MessageFrom(file'[1], base', chan'[k])
                        /\ Owed(file'[1], base', chan'[k].off)
                             \subseteq Owed(file'[1], base', cur') \cup Carried(chan', k)
      BY DEF ChanInv, PositionOK, OwedAt, MessageOK
    <3>1. CASE k = Len(chan')
      BY <1>2, <2>2, <2>4, <3>1 DEF PositionOK, OwedAt, MessageOK
    <3>2. CASE k # Len(chan')
      <4>1. k \in 1 .. Len(chan)
        BY <1>5, <2>2, <3>2
      <4>2. /\ PositionOK(chan[k].off) /\ MessageOK(chan[k])
            /\ OwedAt(chan[k].off) \subseteq OwedAt(cur) \cup Carried(chan, k)
        BY <1>3, <4>1 DEF ChanInv
      <4> QED BY <1>2, <2>2, <2>3, <4>1, <4>2 DEF PositionOK, OwedAt, MessageOK
    <3> QED BY <3>1, <3>2
  <2>6. StartInv' /\ TailInv'
    BY <1>2, <1>3, <2>1, <2>4 DEF StartInv, TailInv, PositionOK, OwedAt
  <2> QED BY <1>4, <2>5, <2>6
<1>17. CASE SendFails
  <2>1. rpc' = "returned" /\ goal = "tailing" /\ UNCHANGED <<goal, tailer, chan>>
    BY <1>10, <1>17 DEF SendFails
  <2>2. StartInv' /\ TailInv'
    BY <1>2, <1>3, <2>1 DEF StartInv, TailInv, PositionOK, OwedAt
  <2> QED BY <1>4, <1>6, <2>1, <2>2
<1> QED BY <1>7, <1>8, <1>9, <1>11, <1>12, <1>13, <1>14, <1>15, <1>16, <1>17
        DEF Reader, ReaderNext

\* The growing file stays whole lines and the beginning of one when the
\* manager writes its next byte.
LEMMA ShapeGrows ==
  ASSUME TypeOK, Stable, ShapeInv, WriteByte
  PROVE  /\ file'[1] = Append(file[1], NextByte) /\ NextByte \in Byte
         /\ ShapeInv'
<1> DEFINE f == file[1]
<1>1. f \in Seq(Byte) /\ Len(f) \in Nat /\ path = 1 /\ FsTypeOK
  BY StableFile DEF TypeOK
<1>2. 1 \in Inode
  BY FileAssumption DEF Inode
<1>3. NextByte \in Byte /\ file'[1] = Append(f, NextByte) /\ last' = NextByte
  BY <1>1, <1>2, WrittenByte DEF WriteByte
<1>4. EndsWithLast(f) /\ LineShape(f) /\ LinesInOrder(f)
  BY DEF ShapeInv, EndsWithLast, BetweenLines
<1>5. LineShape(Append(f, NextByte)) /\ LinesInOrder(Append(f, NextByte))
  BY <1>1, <1>3, <1>4, ByteKeepsShape, ByteKeepsOrder
<1>6. /\ Append(f, NextByte) # <<>>
      /\ Append(f, NextByte)[Len(Append(f, NextByte))] = NextByte
  BY <1>1, <1>3
<1> QED BY <1>3, <1>5, <1>6 DEF ShapeInv

\* What the manager writes next leaves every position, and what is owed
\* there, as it was; anything else it does ends the growing file.
LEMMA ManagerKeeps ==
  ASSUME TypeOK, Stable, Core, Manager, Stable'
  PROVE  Core'
<1> DEFINE f == file[1]
           g == Append(f, NextByte)
<1>1. WriteByte
  BY FileAssumption
  DEF Manager, FsNext, RotateAway, CreateFile, Truncate, Stable, TypeOK, FsTypeOK,
      NoInode
<1>2. f \in Seq(Byte) /\ Len(f) \in Nat /\ base \in Nat
  BY StableFile
<1>3. file'[1] = g /\ NextByte \in Byte /\ ShapeInv'
  BY <1>1, ShapeGrows DEF Core
<1>4. \A n : Position(f, base, n) =>
         /\ Position(g, base, n)
         /\ Owed(g, base, n) = Owed(f, base, n)
  BY <1>2, <1>3, PositionGrows, PositionNat, OwedGrows
<1>4a. \A m : MessageFrom(f, base, m) => MessageFrom(g, base, m)
  BY <1>2, <1>3, MessageGrows
<1>5. Owed(g, base, 0) = Owed(f, base, 0) /\ Len(g) = Len(f) + 1
  BY <1>2, <1>3, OwedGrows
<1>6. UNCHANGED <<readerVars, sinkVars, mainVars>>
  BY DEF Manager
<1>7. /\ UNCHANGED <<rpc, goal, statIno, tailer, initial, msg, chan>>
      /\ UNCHANGED <<batches, work, fpc, mpc, cur, saved, bootSize, base>>
      /\ Settled' = Settled /\ Safe' = Safe /\ Reading' = Reading
      /\ InFlight' = InFlight
  BY <1>6
  DEF readerVars, sinkVars, mainVars, batchVars, flushVars, rowVars,
      Settled, Safe, InFlight, Reading
<1> HIDE DEF f, g
<1>8. /\ \A n : PositionOK(n) <=> Position(f, base, n)
      /\ \A n : OwedAt(n) = Owed(f, base, n)
      /\ \A m : MessageOK(m) <=> MessageFrom(f, base, m)
      /\ \A n : Position(file'[1], base', n) <=> Position(g, base, n)
      /\ \A n : Owed(file'[1], base', n) = Owed(g, base, n)
      /\ \A m : MessageFrom(file'[1], base', m) <=> MessageFrom(g, base, m)
  BY <1>3, <1>7 DEF f, PositionOK, OwedAt, MessageOK
<1>9. FlushInv' /\ IdleInv' /\ StartInv' /\ RowInv'
  BY <1>7 DEF Core, FlushInv, IdleInv, StartInv, RowInv, Routed
<1>10. SavedInv'
  <2>1. saved' = NoState \/ (saved'.inode = 1 /\ Position(file'[1], base', saved'.offset))
    BY <1>4, <1>7, <1>8 DEF Core, SavedInv
  <2>2. Owed(file'[1], base', saved'.offset) \subseteq Settled'
    BY <1>4, <1>5, <1>7, <1>8 DEF Core, SavedInv, NoState
  <2>3. bootSize \in Nat
    BY DEF TypeOK, MainTypeOK
  <2>4. mpc' = "boot" => saved'.offset <= bootSize' /\ bootSize' <= Len(file'[1])
    BY <1>2, <1>3, <1>5, <1>7, <2>3 DEF Core, SavedInv, f
  <2> QED BY <2>1, <2>2, <2>4 DEF SavedInv, PositionOK, OwedAt
<1>11. MainInv'
  BY <1>4, <1>7, <1>8 DEF Core, MainInv, PositionOK, OwedAt
<1>12. Reading => Owed(g, base, cur) = Owed(f, base, cur)
  BY <1>4, <1>8 DEF Core, MainInv
<1>13. ChanInv'
  BY <1>4, <1>4a, <1>7, <1>8, <1>12 DEF Core, ChanInv, PositionOK, OwedAt, MessageOK
<1>14. TailInv'
  BY <1>4, <1>4a, <1>7, <1>8, <1>12 DEF Core, TailInv, PositionOK, OwedAt, MessageOK
<1> QED BY <1>3, <1>9, <1>10, <1>11, <1>13, <1>14 DEF Core

\* A flush moves rows on and gives none up without a log line; until it is
\* saved the state file says what it said.
LEMMA FlushKeeps ==
  ASSUME TypeOK, Core, Flush
  PROVE  Core'
<1>1. /\ FlushInv' /\ Settled \subseteq Settled' /\ Safe \subseteq Safe'
      /\ RowInv' /\ InFlight' \subseteq InFlight
  BY FlushLosesNothing, FlushRouted DEF Flush, TypeOK, Core
<1>2. UNCHANGED <<fsVars, readerVars, mpc, cur, saved, bootSize, base>>
  BY DEF Flush, mainVars
<1>3. Reading /\ Reading'
  BY <1>2
  DEF Flush, FlushStep, DetectColumns, AddColumns, RegisterColumns, TakeBatches,
      EnsureTable, EnsureTableFails, InsertBatch, InsertBatchFails,
      InsertReplyLost, Insertable, Core, IdleInv, Reading
<1>4. SavedInv'
  BY <1>1, <1>2, SavedKept
<1> QED BY <1>1, <1>2, <1>3, <1>4, Undisturbed

\* The loop starts a flush at a tick of the timer, at the end of the channel
\* and, in RecvLine, at a full batch.
LEMMA TickKeeps ==
  ASSUME Core, FlushTick \/ RecvClosed \/ HotReload
  PROVE  Core'
<1>1. /\ UNCHANGED <<fsVars, readerVars, cur, saved, bootSize, base>>
      /\ UNCHANGED <<batches, work, stored, dropped>>
      /\ Settled' = Settled /\ Safe' = Safe /\ InFlight' = InFlight
  BY DEF FlushTick, RecvClosed, HotReload, mainVars, flushVars, rowVars,
         Settled, Safe, InFlight
<1>2. /\ Reading' <=> Reading
      /\ fpc' = "idle" \/ Reading'
      /\ FlushInv'
      /\ mpc' = "boot" => mpc = "boot"
  BY DEF FlushTick, RecvClosed, HotReload, mainVars, flushVars, Waiting,
         StartFlush, Reading, Core, FlushInv, IdleInv
<1>3. SavedInv'
  BY <1>1, <1>2, SavedKept
<1>4. RowInv'
  BY <1>1 DEF Core, RowInv, Routed
<1> QED BY <1>1, <1>2, <1>3, <1>4, Undisturbed

\* Closing the receiver is nothing that the invariant speaks of.
LEMMA ShutdownKeeps ==
  ASSUME Core, Shutdown
  PROVE  Core'
<1>1. /\ UNCHANGED <<file, last, rpc, goal, statIno, tailer, initial, msg, chan>>
      /\ UNCHANGED <<batches, work, fpc, mpc, cur, saved, bootSize, base>>
      /\ Settled' = Settled /\ Safe' = Safe /\ Reading' = Reading
      /\ InFlight' = InFlight
  BY DEF Shutdown, fsVars, sinkVars, batchVars, flushVars, rowVars,
         Settled, Safe, InFlight, Reading
<1>2. /\ ShapeInv' /\ FlushInv' /\ IdleInv' /\ SavedInv' /\ MainInv'
      /\ RowInv' /\ StartInv'
  BY <1>1 DEF Core, ShapeInv, FlushInv, IdleInv, SavedInv, MainInv, RowInv, Routed,
              StartInv, PositionOK, OwedAt
<1>3. ChanInv' /\ TailInv'
  BY <1>1 DEF Core, ChanInv, TailInv, PositionOK, OwedAt, MessageOK
<1> QED BY <1>2, <1>3 DEF Core

\* The save that ends a flush, the save that ends the process, and the end
\* without one.
LEMMA EndKeeps ==
  ASSUME TypeOK, Stable, Core, SaveState \/ FinalSave \/ Crash
  PROVE  Core'
<1>1. CASE SaveState
  <2>1. SavedInv'
    BY <1>1, SaveKeeps DEF SaveState, Reading
  <2>2. Safe' = Safe /\ FlushInv' /\ RowInv' /\ InFlight' = InFlight
    BY <1>1 DEF SaveState, rowVars, Safe, Settled, InFlight, Core, FlushInv, RowInv, Routed
  <2> QED BY <1>1, <2>1, <2>2, Undisturbed DEF SaveState, Reading
<1>2. CASE FinalSave
  <2>1. SavedInv'
    BY <1>2, SaveKeeps DEF FinalSave, SinkDies, Reading
  <2> QED BY <1>2, <2>1, DeathKeeps DEF FinalSave
<1>3. CASE Crash
  <2>1. Settled' = Settled
    BY <1>3 DEF Crash, SinkDies, rowVars, Settled
  <2>2. SavedInv'
    BY <1>3, <2>1, SavedKept DEF Crash
  <2> QED BY <1>3, <2>2, DeathKeeps DEF Crash
<1> QED BY <1>1, <1>2, <1>3

\* A file that is no longer the first one, or was truncated, never becomes a
\* growing one again.
LEMMA StableBefore ==
  ASSUME TypeOK, [Next]_vars, Stable'
  PROVE  Stable
<1>1. CASE UNCHANGED fsVars
  BY <1>1 DEF Stable, fsVars
<1>2. CASE Manager
  BY <1>2, FileAssumption
  DEF Manager, FsNext, WriteByte, RotateAway, CreateFile, Truncate, Stable,
      TypeOK, FsTypeOK, Inode, NoInode
<1>3. UNCHANGED fsVars \/ Manager
  BY DEF Next, vars, ReadSize, StartUp, RecvLine, RecvClosed, FlushTick, Shutdown,
         Flush, SaveState, FinalSave, Crash, HotReload, Reader, ReaderNext,
         StatPath, OpenPath, OpenFails, ReadLine, ReadBlankLine,
         ReadUndecodable, ReadPartialLine, ReadEof, CheckRotation, Send, SendFails
<1> QED BY <1>1, <1>2, <1>3
-----------------------------------------------------------------------------
(* Positions move forward.                                                  *)

\* All that the process holds is unordered before it begins to read.
LEMMA ForwardUndisturbed ==
  ASSUME ForwardInv, Reading' => Reading,
         UNCHANGED <<saved, cur, chan, goal, tailer, rpc, msg>>
  PROVE  ForwardInv'
BY DEF ForwardInv, Behind, WellBehind

\* A start reads on from what is committed.
LEMMA ForwardStart ==
  ASSUME TypeOK, Stable, Core, StartUp
  PROVE  ForwardInv'
<1>1. saved.offset \in Nat /\ bootSize \in Nat
  BY DEF TypeOK, MainTypeOK, TailState
<1>2. chan' = <<>> /\ goal' = "initial" /\ cur' = StartOffset /\ rpc' = "stat"
  BY DEF StartUp, SpawnReader
<1>3. CASE FirstRun
  <2>1. saved.offset = 0 /\ StartOffset \in Nat
    BY <1>1, <1>3 DEF FirstRun, NoState, StartOffset
  <2>2. saved'.offset \in {0, StartOffset}
    BY <2>1 DEF StartUp, StartState
  <2> QED BY <1>2, <2>1, <2>2 DEF ForwardInv
<1>4. CASE ~ FirstRun
  <2>1. saved' = saved /\ StartOffset = saved.offset
    BY <1>4, StartResumes
  <2> QED BY <1>1, <1>2, <2>1 DEF ForwardInv
<1> QED BY <1>3, <1>4

\* The line taken from the channel is the first of those in it.
LEMMA ForwardRecv ==
  ASSUME TypeOK, Stable, Core, ForwardInv, RecvLine
  PROVE  ForwardInv'
<1>1. /\ Reading /\ goal = "tailing"
      /\ cur' = chan[1].off /\ chan' = Tail(chan)
      /\ UNCHANGED <<saved, goal, tailer>>
  BY DEF RecvLine, Waiting, Reading, Core, StartInv
<1>2. /\ chan \in Seq(Message) /\ Len(chan) \in Nat \ {0}
      /\ Len(chan') = Len(chan) - 1
      /\ \A k \in 1 .. Len(chan') : chan'[k] = chan[k + 1]
  BY <1>1 DEF RecvLine, TypeOK, ReaderTypeOK
<1>3. saved.offset \in Nat /\ cur \in Nat /\ tailer.offset \in Nat
  BY DEF TypeOK, MainTypeOK, TailState, ReaderTypeOK, FileTailer
<1>4. \A k \in 1 .. Len(chan) : chan[k].off \in Nat
  <2>1. \A k \in 1 .. Len(chan) : chan[k] \in Message
    BY <1>2, ElementOfSeq
  <2> QED BY <2>1 DEF Message
<1>5. saved'.offset <= cur'
  BY <1>1, <1>2, <1>3, <1>4 DEF ForwardInv
<1>6. \A k \in 1 .. Len(chan') : cur' < chan'[k].off
  BY <1>1, <1>2, <1>4 DEF ForwardInv
<1>7. ASSUME NEW j \in 1 .. Len(chan'), NEW k \in 1 .. Len(chan'), j < k
      PROVE  chan'[j].off < chan'[k].off
  <2>1. j + 1 \in 1 .. Len(chan) /\ k + 1 \in 1 .. Len(chan) /\ j + 1 < k + 1
    BY <1>2, <1>7
  <2> QED BY <1>1, <1>2, <2>1 DEF ForwardInv
<1>8. cur' <= tailer'.offset /\ \A k \in 1 .. Len(chan') : chan'[k].off <= tailer'.offset
  BY <1>1, <1>2 DEF ForwardInv, Behind
<1>9. rpc' = "send" =>
        cur' < msg'.off /\ \A k \in 1 .. Len(chan') : chan'[k].off < msg'.off
  <2>1. UNCHANGED <<rpc, msg>>
    BY DEF RecvLine
  <2> QED BY <1>1, <1>2, <2>1 DEF ForwardInv, WellBehind
<1> QED BY <1>5, <1>6, <1>7, <1>8, <1>9 DEF ForwardInv, Behind, WellBehind

\* The tailer moves to the end of the next line, and what it sends is last.
LEMMA ForwardRead ==
  ASSUME TypeOK, Stable, Core, ForwardInv, Reader
  PROVE  ForwardInv'
<1>1. Reading /\ UNCHANGED <<saved, cur, mpc>>
  BY DEF Core, IdleInv, Reader, ReaderNext, StatPath, OpenPath, OpenFails, ReadLine,
         ReadBlankLine, ReadUndecodable, ReadPartialLine, ReadEof,
         CheckRotation, Send, SendFails, mainVars
<1>2. /\ chan \in Seq(Message) /\ Len(chan) \in Nat
      /\ cur \in Nat /\ tailer.offset \in Nat
  BY DEF TypeOK, MainTypeOK, ReaderTypeOK, FileTailer
<1>3. \A k \in 1 .. Len(chan) : chan[k].off \in Nat
  <2>1. \A k \in 1 .. Len(chan) : chan[k] \in Message
    BY <1>2, ElementOfSeq
  <2> QED BY <2>1 DEF Message
<1>4. ASSUME UNCHANGED <<chan, goal>>, tailer'.offset = tailer.offset, rpc' # "send"
      PROVE  ForwardInv'
  BY <1>1, <1>4 DEF ForwardInv, Behind
<1>5. ASSUME rpc \in {"next_line", "send", "check_rotation"}
      PROVE  goal = "tailing" /\ tailer.pos = tailer.offset
  BY <1>1, <1>5 DEF Core, StartInv, TailInv
<1>6. CASE OpenPath
  <2>1. goal = "initial" /\ statIno = 1 /\ initial = [inode |-> 1, offset |-> cur]
          /\ chan = <<>>
    BY <1>1, <1>6 DEF OpenPath, Core, StartInv, TailInv
  <2>2. tailer'.offset = cur /\ chan' = <<>> /\ rpc' # "send"
    BY <1>6, <2>1 DEF OpenPath, OpenOffset
  <2> QED BY <1>1, <1>2, <2>2 DEF ForwardInv, Behind
<1>7. CASE ReadLine \/ ReadBlankLine
  <2>1. PICK i \in Newlines(Bytes) :
          /\ EndsFirstLineAfter(Bytes, tailer.pos, i)
          /\ tailer' = AfterLine(tailer, i)
          /\ rpc' = "send" => msg' = MessageAt(i)
    BY <1>7 DEF ReadLine, ReadBlankLine
  <2>2. rpc = "next_line" /\ goal = "tailing" /\ UNCHANGED <<chan, goal>>
    BY <1>5, <1>7 DEF ReadLine, ReadBlankLine
  <2>3. i \in Nat /\ tailer.offset < i
    BY <1>2, <1>5, <2>1, <2>2 DEF EndsFirstLineAfter, Newlines
  <2>4. tailer'.offset = i /\ (rpc' = "send" => msg'.off = i)
    <3>1. AfterLine(tailer, i).offset = i
      BY <1>1, <2>1, <2>2, LineRead
    <3>2. MessageAt(i).off = i
      BY <3>1 DEF MessageAt
    <3> QED BY <2>1, <3>1, <3>2
  <2>5. Behind(tailer.offset)
    BY <1>1, <2>2 DEF ForwardInv
  <2>6. cur < i /\ \A k \in 1 .. Len(chan) : chan[k].off < i
    BY <1>2, <1>3, <2>3, <2>5 DEF Behind
  <2>7. cur <= i /\ \A k \in 1 .. Len(chan) : chan[k].off <= i
    BY <1>2, <1>3, <2>3, <2>6
  <2> QED BY <1>1, <2>2, <2>4, <2>6, <2>7 DEF ForwardInv, Behind, WellBehind
<1>8. CASE Send
  <2>1. /\ rpc = "send" /\ goal = "tailing" /\ UNCHANGED <<goal, tailer>>
        /\ chan' = Append(chan, msg) /\ msg \in Message
    BY <1>5, <1>8 DEF Send, TypeOK, ReaderTypeOK
  <2>2. /\ Len(chan') = Len(chan) + 1
        /\ chan'[Len(chan) + 1] = msg
        /\ \A k \in 1 .. Len(chan) : chan'[k] = chan[k]
    BY <1>2, <2>1
  <2>3. msg.off = tailer.offset /\ Behind(tailer.offset) /\ WellBehind(msg.off)
          /\ rpc' # "send"
    BY <1>1, <1>8, <2>1 DEF Core, TailInv, ForwardInv, Send
  <2>4. \A k \in 1 .. Len(chan') : cur < chan'[k].off /\ chan'[k].off <= tailer.offset
    BY <1>1, <1>2, <2>2, <2>3 DEF ForwardInv, Behind, WellBehind
  <2>5. ASSUME NEW j \in 1 .. Len(chan'), NEW k \in 1 .. Len(chan'), j < k
        PROVE  chan'[j].off < chan'[k].off
    <3>1. CASE k = Len(chan) + 1
      BY <1>2, <2>2, <2>3, <2>5, <3>1 DEF WellBehind
    <3>2. CASE k # Len(chan) + 1
      <4>1. j \in 1 .. Len(chan) /\ k \in 1 .. Len(chan)
        BY <1>2, <2>2, <2>5, <3>2
      <4> QED BY <1>1, <2>2, <2>5, <4>1 DEF ForwardInv
    <3> QED BY <3>1, <3>2
  <2> QED BY <1>1, <2>1, <2>3, <2>4, <2>5 DEF ForwardInv, Behind
<1>9. CASE StatPath \/ OpenFails
  <2>1. path = 1
    BY StableFile
  <2>2. StatPath
    BY <1>9, <2>1 DEF OpenFails, NoInode
  <2> QED BY <1>4, <2>2 DEF StatPath
<1>10. CASE ReadUndecodable \/ ReadPartialLine \/ ReadEof \/ SendFails
  BY <1>4, <1>10
  DEF ReadUndecodable, ReadPartialLine, ReadEof, SendFails, AfterError, SeekBack,
      MovedTo
<1>11. CASE CheckRotation
  <2>1. ~ Rotated /\ ~ Truncated
    BY <1>1, <1>5, <1>11, StableFile, TailedFile
    DEF CheckRotation, Rotated, Truncated, PathSize, Core, TailInv, NoInode
  <2> QED BY <1>4, <1>11, <2>1 DEF CheckRotation
<1> QED BY <1>6, <1>7, <1>8, <1>9, <1>10, <1>11 DEF Reader, ReaderNext

LEMMA ForwardStep ==
  ASSUME TypeOK, Stable, Core, ForwardInv, [Next]_vars
  PROVE  ForwardInv'
<1>1. CASE StartUp
  BY <1>1, ForwardStart
<1>2. CASE RecvLine
  BY <1>2, ForwardRecv
<1>3. CASE Reader
  BY <1>3, ForwardRead
<1>4. CASE SaveState
  <2>1. cur \in Nat /\ saved'.offset \in {saved.offset, cur}
          /\ UNCHANGED <<cur, chan, goal, tailer, rpc, msg>> /\ Reading
    BY <1>4
    DEF SaveState, SaveOutcome, StateToSave, readerVars, Reading, TypeOK, MainTypeOK
  <2> QED BY <2>1 DEF ForwardInv, Behind, WellBehind
<1>5. CASE ReadSize \/ FinalSave \/ Crash
  BY <1>5 DEF ReadSize, FinalSave, Crash, ForwardInv, Reading
<1>6. CASE RecvClosed \/ FlushTick \/ Shutdown \/ Flush \/ HotReload \/ Manager
            \/ UNCHANGED vars
  BY <1>6, ForwardUndisturbed
  DEF RecvClosed, FlushTick, Waiting, Shutdown, Flush, HotReload, Manager, vars,
      mainVars, readerVars, Reading
<1> QED BY <1>1, <1>2, <1>3, <1>4, <1>5, <1>6 DEF Next
-----------------------------------------------------------------------------
(* The theorem.                                                             *)

\* The invariant holds of a service that has never run.
LEMMA InitKeeps ==
  ASSUME Init
  PROVE  Core
<1>1. 1 \in Inode
  BY FileAssumption DEF Inode
<1>2. file[1] = <<>> /\ last.line = 0
  BY <1>1 DEF Init, FsInit
<1>3. Owed(<<>>, 0, 0) = {}
  BY DEF Owed, Newlines
<1>4. SavedInv
  BY <1>2, <1>3 DEF Init, SavedInv, OwedAt, NoState
<1>5. ShapeInv /\ FlushInv /\ IdleInv /\ RowInv
  BY <1>2, NoRowsRouted
  DEF Init, ShapeInv, LineShape, LinesInOrder, SinkInit, SinkMemory, FlushInv, IdleInv,
      NoReader, RowInv
<1> QED BY <1>4, <1>5
        DEF Init, Core, MainInv, StartInv, ChanInv, TailInv, Reading

\* PositionInv is inductive.
LEMMA StepKeeps ==
  ASSUME AllDecodable, PositionInv, TypeOK', [Next]_vars
  PROVE  PositionInv'
<1>0. FlushInv' /\ BatchInv'
  BY BatchStep DEF PositionInv
<1> SUFFICES ASSUME Stable' PROVE Core'
  <2>1. Stable' => Stable
    BY StableBefore DEF PositionInv
  <2>2. Stable' => ForwardInv'
    BY <2>1, ForwardStep DEF PositionInv
  <2> QED BY <1>0, <2>2 DEF PositionInv
<1>1. TypeOK /\ Stable /\ Core /\ ForwardInv
  BY StableBefore DEF PositionInv
<1>2. CASE ReadSize \/ StartUp
  BY <1>1, <1>2, StartKeeps
<1>3. CASE RecvLine
  BY <1>1, <1>3, RecvKeeps
<1>4. CASE FlushTick \/ RecvClosed \/ HotReload
  BY <1>1, <1>4, TickKeeps
<1>5. CASE Shutdown
  BY <1>1, <1>5, ShutdownKeeps
<1>6. CASE Flush
  BY <1>1, <1>6, FlushKeeps
<1>7. CASE SaveState \/ FinalSave \/ Crash
  BY <1>1, <1>7, EndKeeps
<1>8. CASE Manager
  BY <1>1, <1>8, ManagerKeeps
<1>9. CASE Reader
  BY <1>1, <1>9, ReaderKeeps
<1>10. CASE UNCHANGED vars
  <2>1. UNCHANGED <<fsVars, readerVars, sinkVars, mainVars>>
    BY <1>10 DEF vars
  <2>2. /\ UNCHANGED <<cur, saved, bootSize, base, mpc, batches, work, fpc>>
        /\ Settled' = Settled /\ Safe' = Safe
    BY <2>1 DEF mainVars, sinkVars, batchVars, flushVars, rowVars,
                Settled, Safe, InFlight
  <2>3. SavedInv' /\ FlushInv' /\ RowInv' /\ InFlight' = InFlight
    BY <1>1, <2>1, <2>2, SavedKept DEF Core, FlushInv, RowInv, Routed, InFlight
  <2> QED BY <1>1, <2>1, <2>2, <2>3, Undisturbed DEF Reading, Core, IdleInv
<1> QED BY <1>2, <1>3, <1>4, <1>5, <1>6, <1>7, <1>8, <1>9, <1>10 DEF Next

\* Every position the service holds stands for alerts that are settled, in
\* flight or in the channel, through every kill, stop, restart and failure.
THEOREM PositionsSafe ==
  ASSUME AllDecodable
  PROVE  Spec => []PositionInv
<1>1. Init => Core /\ ForwardInv /\ FlushInv /\ BatchInv
  BY InitKeeps, BatchInit DEF Init, ForwardInv, Reading
<1>2. Init /\ TypeOK => PositionInv
  BY <1>1 DEF PositionInv
<1>3. PositionInv /\ TypeOK' /\ [Next]_vars => PositionInv'
  BY StepKeeps
<1>4. Spec => []TypeOK
  BY TypeCorrect
<1> QED BY <1>2, <1>3, <1>4, PTL DEF Spec

\* However the service is killed, stopped, restarted, refused statements or
\* saves: while alerts.json grows, and if all of it is UTF-8, the offset in the
\* state file passes no alert that is neither in ClickHouse nor given up by a
\* logged error.
THEOREM CommittedIsSettled ==
  ASSUME AllDecodable
  PROVE  Spec => []CommittedSettled
<1>1. PositionInv => CommittedSettled
  BY DEF PositionInv, Core, SavedInv, CommittedSettled
<1>2. Spec => []PositionInv
  BY PositionsSafe
<1> QED BY <1>1, <1>2, PTL

\* What the messages of the channel carry is in the channel.
LEMMA CarriedInChannel ==
  ASSUME TypeOK
  PROVE  /\ Carried(chan, Len(chan)) \subseteq InChannel
         /\ rpc = "send" => RecordOf(msg) \subseteq InChannel
<1>1. chan \in Seq(Message) /\ Len(chan) \in Nat
        /\ (rpc = "send" => msg \in Message)
  BY DEF TypeOK, ReaderTypeOK
<1>2. \A m \in Message : m # NoMsg
  BY LineAssumption DEF Message, NoMsg, Line
<1>3. ASSUME NEW l \in Carried(chan, Len(chan)) PROVE l \in InChannel
  <2>1. PICK k \in 1 .. Len(chan) : IsRecord(chan[k]) /\ l = chan[k].line
    BY <1>3 DEF Carried
  <2>2. chan[k] \in Message /\ chan[k] \in RowsOf(chan)
    BY <1>1, <2>1, ElementOfSeq DEF RowsOf
  <2> QED BY <1>2, <2>1, <2>2 DEF InChannel
<1>4. ASSUME rpc = "send" PROVE RecordOf(msg) \subseteq InChannel
  BY <1>1, <1>2, <1>4 DEF RecordOf, InChannel
<1> QED BY <1>3, <1>4

\* While the process runs, no alert the tailer has passed falls between the
\* reader, the channel, the batches and the flush.
THEOREM NothingIsForgotten ==
  ASSUME AllDecodable
  PROVE  Spec => []NothingForgotten
<1>1. ASSUME PositionInv PROVE NothingForgotten
  <2> SUFFICES ASSUME Stable, goal = "tailing", rpc # "returned"
               PROVE  OwedAt(tailer.offset) \subseteq Safe \cup InChannel
    BY DEF NothingForgotten, Safe
  <2>1. TypeOK /\ Core
    BY <1>1 DEF PositionInv
  <2>2. Reading
    BY <2>1 DEF Core, IdleInv
  <2>3. TailInv /\ OwedAt(cur) \subseteq Safe
    BY <2>1, <2>2 DEF Core, MainInv
  <2>4. CASE rpc = "send"
    BY <2>1, <2>2, <2>3, <2>4, CarriedInChannel DEF TailInv
  <2>5. CASE rpc # "send"
    BY <2>1, <2>2, <2>3, <2>5, CarriedInChannel DEF TailInv
  <2> QED BY <2>4, <2>5
<1>2. Spec => []PositionInv
  BY PositionsSafe
<1> QED BY <1>1, <1>2, PTL
=============================================================================
