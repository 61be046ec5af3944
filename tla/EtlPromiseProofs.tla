---------------------------- MODULE EtlPromiseProofs ----------------------------
(***************************************************************************)
(* What file mode promises, for every value of its constants, while         *)
(* alerts.json is one growing file: every alert at least once               *)
(* (KeepsPromise), and after a kill at most one flush of them again         *)
(* (ReplayBounded).  Both follow from PositionInv of EtlInvariant.          *)
(***************************************************************************)
EXTENDS EtlProofs

(* KeepsPromise: on a growing alerts.json the service implements            *)
(* AtLeastOnce.  PositionInv says what a save commits; here every step of   *)
(* the service is one of AtLeastOnce: the manager finishes a line, a flush  *)
(* handles rows, a save commits, a first start chooses where to begin; the  *)
(* rest is unseen.                                                          *)

\* The lines finished in f, as AtLeastOnce knows them.
Entry(f, i) == [line |-> f[i].line, start |-> StartOf(f, i), end |-> i]
Entries(f) == {Entry(f, i) : i \in {j \in Newlines(f) : IsAlert(f[j].line)}}

\* What AtLeastOnce calls owed is what Etl calls owed.
LEMMA OwedAgrees ==
  ASSUME NEW n
  PROVE  Promise!Owed(n) = OwedAt(n)
<1> DEFINE f == file[1]
<1>1. Promise!Owed(n) = {e.line : e \in {x \in Entries(f) : base <= x.start /\ x.end <= n}}
  BY DEF Promise!Owed, Entries, Entry
<1>2. ASSUME NEW l \in Promise!Owed(n) PROVE l \in OwedAt(n)
  <2>1. PICK e \in Entries(f) : base <= e.start /\ e.end <= n /\ l = e.line
    BY <1>1, <1>2
  <2>2. PICK j \in Newlines(f) : IsAlert(f[j].line) /\ e = Entry(f, j)
    BY <2>1 DEF Entries
  <2> QED BY <2>1, <2>2 DEF Entry, OwedAt, Owed
<1>3. ASSUME NEW l \in OwedAt(n) PROVE l \in Promise!Owed(n)
  <2>1. PICK j \in Newlines(f) :
          j <= n /\ base <= StartOf(f, j) /\ IsAlert(f[j].line) /\ l = f[j].line
    BY <1>3 DEF OwedAt, Owed
  <2>2. Entry(f, j) \in Entries(f) /\ Entry(f, j).line = l
          /\ base <= Entry(f, j).start /\ Entry(f, j).end <= n
    BY <2>1 DEF Entries, Entry
  <2> QED BY <1>1, <2>2
<1> QED BY <1>2, <1>3

\* A byte more finishes no line or the one it ends.
LEMMA EntriesGrow ==
  ASSUME NEW f \in Seq(Byte), NEW c \in Byte
  PROVE  /\ Entries(f) \subseteq Entries(Append(f, c))
         /\ \A e \in Entries(Append(f, c)) \ Entries(f) : e.end = Len(f) + 1
<1> DEFINE g == Append(f, c)
<1>1. /\ Len(f) \in Nat /\ Len(g) = Len(f) + 1
      /\ \A j \in 1 .. Len(f) : g[j] = f[j]
  OBVIOUS
<1>2. \A j \in 1 .. Len(f) : Entry(g, j) = Entry(f, j)
  BY <1>1 DEF Entry, StartOf
<1>3. \A j \in 1 .. Len(f) : j \in Newlines(g) <=> j \in Newlines(f)
  BY <1>1 DEF Newlines, IsNewline
<1>4. ASSUME NEW e \in Entries(f) PROVE e \in Entries(g)
  <2>1. PICK j \in Newlines(f) : IsAlert(f[j].line) /\ e = Entry(f, j)
    BY <1>4 DEF Entries
  <2>2. j \in 1 .. Len(f)
    BY DEF Newlines
  <2>3. j \in Newlines(g) /\ IsAlert(g[j].line) /\ e = Entry(g, j)
    BY <1>1, <1>2, <1>3, <2>1, <2>2
  <2> QED BY <2>3 DEF Entries
<1>5. ASSUME NEW e \in Entries(g), e \notin Entries(f) PROVE e.end = Len(f) + 1
  <2>1. PICK j \in Newlines(g) : IsAlert(g[j].line) /\ e = Entry(g, j)
    BY <1>5 DEF Entries
  <2>2. j \in 1 .. Len(f) + 1
    BY <1>1 DEF Newlines
  <2>3. CASE j \in 1 .. Len(f)
    <3>1. j \in Newlines(f) /\ IsAlert(f[j].line) /\ e = Entry(f, j)
      BY <1>1, <1>2, <1>3, <2>1, <2>3
    <3> QED BY <1>5, <3>1 DEF Entries
  <2>4. CASE j = Len(f) + 1
    BY <2>1, <2>4 DEF Entry
  <2> QED BY <1>1, <2>2, <2>3, <2>4
<1> QED BY <1>4, <1>5

\* A step that leaves the file, the state file and where reading began alone
\* handles rows or is not seen.
LEMMA HandleStep ==
  ASSUME UNCHANGED <<file, saved, base>>, Settled \subseteq Settled'
  PROVE  Promise!Handle
BY DEF Promise!Handle

\* The manager ends a line after all that is committed.
LEMMA FinishStep ==
  ASSUME TypeOK, Stable, Stable', Core, Manager
  PROVE  Promise!Finish
<1> DEFINE f == file[1]
           g == Append(f, NextByte)
<1>1. WriteByte
  BY FileAssumption
  DEF Manager, FsNext, RotateAway, CreateFile, Truncate, Stable, TypeOK, FsTypeOK,
      NoInode
<1>2. f \in Seq(Byte) /\ Len(f) \in Nat /\ base \in Nat
  BY StableFile
<1>3. file'[1] = g /\ NextByte \in Byte
  BY <1>1, ShapeGrows DEF Core
<1>4. saved.offset \in Nat /\ saved.offset <= Len(f)
  BY <1>2, PositionNat DEF Core, SavedInv, PositionOK, NoState, TypeOK, MainTypeOK, TailState
<1>5. UNCHANGED <<saved, base>> /\ Settled' = Settled
  BY DEF Manager, sinkVars, rowVars, mainVars, Settled
<1>6. /\ Entries(f) \subseteq Entries(file'[1])
      /\ \A e \in Entries(file'[1]) \ Entries(f) : saved.offset < e.end
  BY <1>2, <1>3, <1>4, EntriesGrow
<1> QED BY <1>5, <1>6 DEF Promise!Finish, Entries, Entry

\* A save commits the position of the last line taken: all that is owed there
\* is settled, and it is not behind what was committed before.
LEMMA CommitStep ==
  ASSUME Core, ForwardInv, Reading, fpc = "save", saved' = StateToSave,
         UNCHANGED <<file, base, stored, dropped>>
  PROVE  Promise!Commit
<1>1. RowsIn(NoRows) = {}
  BY DEF RowsIn, RowsOf, NoRows
<1>2. OwedAt(cur) \subseteq Settled
  BY <1>1 DEF Core, FlushInv, MainInv, Safe, InFlight
<1>3. saved'.offset = cur /\ saved.offset <= cur /\ Settled' = Settled
  BY DEF StateToSave, ForwardInv, Settled
<1> QED BY <1>2, <1>3, OwedAgrees DEF Promise!Commit

\* Every step of the service on a growing file.
LEMMA PromiseStep ==
  ASSUME PositionInv, Stable, Stable', [Next]_vars
  PROVE  [Promise!Next]_(Promise!vars)
<1>1. TypeOK /\ Core /\ ForwardInv /\ FlushInv
  BY DEF PositionInv
<1> SUFFICES Promise!Finish \/ Promise!Handle \/ Promise!Commit \/ Promise!Start
  BY DEF Promise!Next
<1>2. CASE Manager
  BY <1>1, <1>2, FinishStep
<1>3. CASE Flush
  <2>1. UNCHANGED <<file, saved, base>>
    BY <1>3 DEF Flush, fsVars, mainVars
  <2>2. Settled \subseteq Settled'
    BY <1>1, <1>3, FlushLosesNothing DEF Flush, TypeOK
  <2> QED BY <2>1, <2>2, HandleStep
<1>4. CASE SaveState \/ FinalSave
  <2>1. Reading /\ fpc = "save" /\ SaveOutcome
          /\ UNCHANGED <<file, base, stored, dropped>>
    BY <1>4 DEF SaveState, FinalSave, SinkDies, Reading, fsVars, rowVars
  <2>2. CASE saved' = StateToSave
    BY <1>1, <2>1, <2>2, CommitStep
  <2>3. CASE saved' = saved
    BY <2>1, <2>3, HandleStep DEF Settled
  <2> QED BY <2>1, <2>2, <2>3 DEF SaveOutcome
<1>5. CASE StartUp
  <2>1. UNCHANGED <<file, stored, dropped>>
    BY <1>5 DEF StartUp, fsVars, sinkVars, rowVars
  <2>2. CASE FirstRun
    <3>1. saved.offset = 0 /\ base' = StartOffset
            /\ saved' \in {saved, StartState}
      BY <1>5, <2>2 DEF StartUp, FirstRun, NoState
    <3>2. saved'.offset \in {0, base'}
      BY <3>1 DEF StartState
    <3> QED BY <2>1, <3>1, <3>2 DEF Promise!Start, Settled
  <2>3. CASE ~ FirstRun
    <3>1. UNCHANGED <<saved, base>>
      BY <1>5, <2>3 DEF StartUp
    <3> QED BY <2>1, <3>1, HandleStep DEF Settled
  <2> QED BY <2>2, <2>3
<1>6. ASSUME UNCHANGED <<file, saved, base, stored, dropped>>
      PROVE  Promise!Handle
  BY <1>6, HandleStep DEF Settled
<1>7. CASE RecvLine
  BY <1>6, <1>7 DEF RecvLine, fsVars, rowVars
<1>8. CASE Reader
  BY <1>6, <1>8
  DEF Reader, ReaderNext, StatPath, OpenPath, OpenFails, ReadLine, ReadBlankLine,
      ReadUndecodable, ReadPartialLine, ReadEof, CheckRotation, Send, SendFails,
      fsVars, sinkVars, rowVars, mainVars
<1>9. CASE ReadSize \/ RecvClosed \/ FlushTick \/ Shutdown \/ Crash \/ HotReload
             \/ UNCHANGED vars
  BY <1>6, <1>9
  DEF ReadSize, RecvClosed, FlushTick, Shutdown, Crash, SinkDies, HotReload, vars,
      fsVars, sinkVars, rowVars, mainVars
<1> QED BY <1>2, <1>3, <1>4, <1>5, <1>7, <1>8, <1>9 DEF Next

\* Nothing is finished, settled or committed before the service first runs.
LEMMA PromiseInit == Init => Promise!Init
<1> SUFFICES ASSUME Init PROVE Promise!Init
  OBVIOUS
<1>1. 1 \in Inode
  BY FileAssumption DEF Inode
<1>2. file[1] = <<>> /\ Newlines(<<>>) = {}
  BY <1>1 DEF Init, FsInit, Newlines
<1>3. Settled = {} /\ saved.offset = 0 /\ base = 0
  BY DEF Init, SinkInit, NoState, Settled
<1> QED BY <1>2, <1>3 DEF Promise!Init

\* While alerts.json is one growing file, all of it UTF-8, file mode keeps the
\* promise of AtLeastOnce through every kill, stop, restart, refused statement
\* and failed save: the committed position never moves back, and it only moves
\* over alerts that are in ClickHouse or given up by a logged error.
THEOREM ImplementsAtLeastOnce ==
  ASSUME AllDecodable
  PROVE  Spec /\ []Stable => KeepsPromise
<1>1. Init => Promise!Init
  BY PromiseInit
<1>2. PositionInv /\ Stable /\ Stable' /\ [Next]_vars => [Promise!Next]_(Promise!vars)
  BY PromiseStep
<1>3. Spec => []PositionInv
  BY PositionsSafe
<1> QED BY <1>1, <1>2, <1>3, PTL DEF Spec, KeepsPromise, Promise!Spec

\* A manager that neither rotates nor truncates the file keeps it growing.
THEOREM OneFileKeepsPromise ==
  ASSUME AllDecodable, MaxInode = 1, MaxTruncate = 0
  PROVE  Spec => KeepsPromise
<1>1. Init => Stable
  BY DEF Init, FsInit, Stable
<1>2. Stable /\ TypeOK /\ [Next]_vars => Stable'
  <2> SUFFICES ASSUME Stable, TypeOK, [Next]_vars PROVE Stable'
    OBVIOUS
  <2>1. CASE UNCHANGED fsVars
    BY <2>1 DEF Stable, fsVars
  <2>2. CASE Manager
    BY <2>2 DEF Manager, FsNext, WriteByte, RotateAway, CreateFile, Truncate, Stable
  <2>3. UNCHANGED fsVars \/ Manager
    BY DEF Next, vars, ReadSize, StartUp, RecvLine, RecvClosed, FlushTick, Shutdown,
           Flush, SaveState, FinalSave, Crash, HotReload, Reader, ReaderNext,
           StatPath, OpenPath, OpenFails, ReadLine, ReadBlankLine,
           ReadUndecodable, ReadPartialLine, ReadEof, CheckRotation, Send, SendFails
  <2> QED BY <2>1, <2>2, <2>3
<1>3. Spec => []Stable
  BY <1>1, <1>2, TypeCorrect, PTL DEF Spec
<1> QED BY <1>3, ImplementsAtLeastOnce

-----------------------------------------------------------------------------
(* ReplayBounded: a kill makes at most one flush come again.  What it       *)
(* exposes is the rows of the batches, or of one flush; ReplayInv keeps the *)
(* account of what was exposed, and what of it is still to come.            *)

\* The lines are finitely many, and so is all that is made of them.
LEMMA LinesFinite ==
  ASSUME NEW S \in SUBSET Line
  PROVE  IsFiniteSet(S) /\ Cardinality(S) \in Nat
<1>1. IsFiniteSet(Line)
  BY FS_Interval, LineAssumption DEF Line
<1> QED BY <1>1, FS_Subset, FS_CardinalityType

\* Rows of batches that hold at most n each.
LEMMA RowsBounded ==
  ASSUME SinkTypeOK, NEW n \in Nat, \A t \in Table : Len(batches[t]) <= n
  PROVE  Cardinality(RowsIn(batches)) <= Cardinality(Table) * n
<1> DEFINE P == Table \X (1 .. n)
           Holds(p, l) == batches[p[1]][p[2]] = l
           place == [l \in RowsIn(batches) |-> CHOOSE p \in P : Holds(p, l)]
<1>1. IsFiniteSet(1 .. n) /\ Cardinality(1 .. n) = n
  BY FS_Interval
<1>2. IsFiniteSet(P) /\ Cardinality(P) = Cardinality(Table) * n
  BY <1>1, EtlAssumption, FS_Product
<1>3. ASSUME NEW l \in RowsIn(batches)
      PROVE  place[l] \in P /\ Holds(place[l], l)
  <2>1. PICK t \in Table : l \in RowsOf(batches[t])
    BY RowsInElements
  <2>2. PICK k \in 1 .. Len(batches[t]) : batches[t][k] = l
    BY <2>1 DEF RowsOf
  <2>3. Len(batches[t]) \in Nat /\ Len(batches[t]) <= n
    BY DEF SinkTypeOK
  <2>4. k \in 1 .. n
    BY <2>3
  <2>5. <<t, k>> \in P /\ Holds(<<t, k>>, l)
    BY <2>2, <2>4
  <2>6. \E p \in P : Holds(p, l)
    BY <2>5
  <2> HIDE DEF P, Holds
  <2>7. (CHOOSE p \in P : Holds(p, l)) \in P /\ Holds(CHOOSE p \in P : Holds(p, l), l)
    BY <2>6
  <2> QED BY <2>7
<1>4. place \in Injection(RowsIn(batches), P)
  <2>1. place \in [RowsIn(batches) -> P]
    BY <1>3
  <2>2. ASSUME NEW l \in RowsIn(batches), NEW r \in RowsIn(batches), place[l] = place[r]
        PROVE  l = r
    <3>1. Holds(place[l], l) /\ Holds(place[r], r)
      BY <1>3
    <3> HIDE DEF place
    <3> QED BY <2>2, <3>1
  <2> HIDE DEF place, P
  <2> QED BY <2>1, <2>2 DEF Injection, IsInjective
<1> HIDE DEF place, P
<1> QED BY <1>2, <1>4, FS_Injection

\* The rows of a batch that are inserted again are counted once each.
LEMMA AgainCounts ==
  ASSUME SinkTypeOK, RowInv, NEW t \in Table
  PROVE  Again(work[t]) <= Cardinality(RowsOf(work[t]) \cap stored)
<1> DEFINE s == work[t]
           K == {k \in 1 .. Len(s) : s[k] \in stored}
           row == [k \in K |-> s[k]]
<1>1. RowsOf(s) \subseteq Line
  BY RowsTyped, EtlAssumption
<1>2. IsFiniteSet(RowsOf(s) \cap stored)
  BY <1>1, LinesFinite
<1>3. \A j, k \in K : s[j] = s[k] => j = k
  BY DEF RowInv, Routed
<1>4. row \in Injection(K, RowsOf(s) \cap stored)
  <2>1. \A k \in K : s[k] \in RowsOf(s) \cap stored
    BY DEF RowsOf
  <2>2. row \in [K -> RowsOf(s) \cap stored]
    BY <2>1
  <2>3. \A j, k \in K : row[j] = row[k] => j = k
    BY <1>3
  <2> HIDE DEF row, K
  <2> QED BY <2>2, <2>3 DEF Injection, IsInjective
<1>5. Cardinality(K) <= Cardinality(RowsOf(s) \cap stored)
  <2> HIDE DEF row, K
  <2> QED BY <1>2, <1>4, FS_Injection
<1> QED BY <1>5 DEF Again

\* Parts of a set of lines do not outnumber it.
LEMMA LinesCount ==
  ASSUME NEW A \in SUBSET Line, NEW B \in SUBSET Line, NEW C \in SUBSET Line
  PROVE  /\ B \subseteq A => Cardinality(B) <= Cardinality(A)
         /\ B \subseteq A \cup C => Cardinality(B) <= Cardinality(A) + Cardinality(C)
         /\ B \cup C \subseteq A /\ B \cap C = {} =>
              Cardinality(B) + Cardinality(C) <= Cardinality(A)
<1>1. /\ IsFiniteSet(A) /\ IsFiniteSet(B) /\ IsFiniteSet(C)
      /\ Cardinality(A) \in Nat /\ Cardinality(B) \in Nat /\ Cardinality(C) \in Nat
  BY LinesFinite
<1>2. B \subseteq A => Cardinality(B) <= Cardinality(A)
  BY <1>1, FS_Subset
<1>3. IsFiniteSet(A \cup C) /\ Cardinality(A \cup C) <= Cardinality(A) + Cardinality(C)
  <2>1. Cardinality(A \cap C) \in Nat
    BY LinesFinite
  <2>2. /\ IsFiniteSet(A \cup C)
        /\ Cardinality(A \cup C) = Cardinality(A) + Cardinality(C) - Cardinality(A \cap C)
    BY <1>1, FS_Union
  <2> QED BY <1>1, <2>1, <2>2
<1>4. B \subseteq A \cup C => Cardinality(B) <= Cardinality(A \cup C)
  BY <1>3, FS_Subset
<1>5. ASSUME B \cap C = {}
      PROVE  Cardinality(B \cup C) = Cardinality(B) + Cardinality(C)
  <2>1. Cardinality(B \cap C) = 0
    BY <1>5, FS_EmptySet
  <2>2. Cardinality(B \cup C) = Cardinality(B) + Cardinality(C) - Cardinality(B \cap C)
    BY <1>1, FS_Union
  <2> QED BY <1>1, <2>1, <2>2
<1>6. B \cup C \subseteq A => Cardinality(B \cup C) <= Cardinality(A)
  BY <1>1, FS_Subset
<1>7. Cardinality(A \cup C) \in Nat /\ Cardinality(B \cup C) \in Nat
  BY LinesFinite
<1> QED BY <1>1, <1>2, <1>3, <1>4, <1>5, <1>6, <1>7

\* What the account is made of is finite.
LEMMA AccountTyped ==
  ASSUME TypeOK, Stable
  PROVE  /\ Exposed \in SUBSET Line /\ Repeatable \in SUBSET Line
         /\ Cardinality(Exposed) \in Nat /\ Cardinality(Repeatable) \in Nat
         /\ FlushBound \in Nat /\ faults.crash \in Nat /\ faults.save \in Nat
         /\ replayed \in Nat
<1>1. file[1] \in Seq(Byte)
  BY StableFile
<1>2. OwedAt(cur) \subseteq Line
  <2>1. \A i \in Newlines(file[1]) : file[1][i] \in Byte
    BY <1>1, ElementOfSeq DEF Newlines
  <2> QED BY <2>1 DEF OwedAt, Owed, Byte
<1>3. Exposed \in SUBSET Line /\ Repeatable \in SUBSET Line
  BY <1>2, EtlAssumption DEF Exposed, Repeatable, TypeOK, SinkTypeOK
<1>4. Cardinality(Table) \in Nat /\ BatchBound - 1 \in Nat
  BY EtlAssumption, SinkAssumption, FS_CardinalityType DEF BatchBound
<1>5. \A a, b \in Nat : a * b + 1 \in Nat
  OBVIOUS
<1>6. FlushBound \in Nat
  BY <1>4, <1>5 DEF FlushBound
<1> QED BY <1>3, <1>6, LinesFinite DEF TypeOK, MainTypeOK, SinkTypeOK

\* The account is kept if what may be repeated does not grow.
LEMMA AccountFalls ==
  ASSUME TypeOK, Stable, ReplayInv, faults.save = 0,
         UNCHANGED replayed, faults'.crash = faults.crash,
         Repeatable' \subseteq Repeatable
  PROVE  replayed' + Cardinality(Repeatable') <= faults'.crash * FlushBound
<1>1. replayed + Cardinality(Repeatable) <= faults.crash * FlushBound
  BY DEF ReplayInv
<1>2. Repeatable \in SUBSET Line /\ Repeatable' \in SUBSET Line
  BY AccountTyped
<1>3. /\ Cardinality(Repeatable) \in Nat /\ Cardinality(Repeatable') \in Nat
      /\ Cardinality(Repeatable') <= Cardinality(Repeatable)
  BY <1>2, LinesFinite, LinesCount
<1>4. replayed \in Nat /\ faults.crash \in Nat /\ FlushBound \in Nat
  BY AccountTyped
<1>5. \A c, F \in Nat : c * F \in Nat
  OBVIOUS
<1>6. faults.crash * FlushBound \in Nat
  BY <1>4, <1>5
<1> QED BY <1>1, <1>3, <1>4, <1>6

\* Nothing the account is made of moves.
LEMMA AccountSame ==
  ASSUME ReplayInv, Stable, faults'.crash = faults.crash, faults'.save = faults.save,
         UNCHANGED <<file, base, cur, saved, batches, work, stored, replayed>>,
         Reading' <=> Reading, fpc' = "idle" => fpc = "idle"
  PROVE  ReplayInv'
<1>1. Exposed' = Exposed
  BY DEF Exposed, OwedAt
<1>2. Repeatable' = Repeatable
  BY DEF Repeatable, Front, InFlight, OwedAt
<1>3. RowsIn(batches') = RowsIn(batches) /\ UNCHANGED FlushBound
  BY DEF FlushBound, BatchBound
<1> QED BY <1>1, <1>2, <1>3 DEF ReplayInv

\* A start exposes nothing: it reads from what is committed.
LEMMA StartExposesNone ==
  ASSUME TypeOK, Stable, Core, StartUp
  PROVE  /\ Exposed' = {} /\ Repeatable' \subseteq Repeatable /\ UNCHANGED replayed
         /\ faults'.crash = faults.crash
         /\ faults'.save = 0 => faults.save = 0
<1>1. UNCHANGED <<file, batches, work, stored, replayed>> /\ cur' = StartOffset
  BY DEF StartUp, fsVars, sinkVars, batchVars, flushVars, rowVars
<1>2. ~ Reading /\ Reading' /\ InFlight' = InFlight
  BY <1>1 DEF StartUp, Reading, InFlight
<1>3. /\ faults'.crash = faults.crash
      /\ faults'.save = 0 => faults.save = 0
  BY DEF StartUp, Once, TypeOK, MainTypeOK
<1>4. CASE FirstRun
  <2>1. saved.offset = 0 /\ base' = StartOffset /\ StartOffset \in Nat
    BY <1>4 DEF StartUp, FirstRun, NoState, StartOffset, TypeOK, MainTypeOK
  <2>2. Owed(file[1], base', base') = {} /\ OwedAt(0) = {}
    BY <2>1, StableFile, OwedNone DEF OwedAt
  <2>3. Exposed' = {}
    BY <1>1, <2>1, <2>2 DEF Exposed, OwedAt
  <2>4. Repeatable = stored
    BY <1>2, <2>1, <2>2 DEF Repeatable, Front
  <2>5. Repeatable' \subseteq stored
    BY <1>1 DEF Repeatable
  <2> QED BY <1>1, <1>3, <2>3, <2>4, <2>5
<1>5. CASE ~ FirstRun
  <2>1. StartOffset = saved.offset /\ UNCHANGED <<saved, base>>
    BY <1>5, StartResumes
  <2>2. Exposed' = {}
    BY <1>1, <2>1 DEF Exposed, OwedAt
  <2>3. Repeatable' = Repeatable
    BY <1>1, <1>2, <2>1 DEF Repeatable, Front, OwedAt
  <2> QED BY <1>1, <1>3, <2>2, <2>3
<1> QED BY <1>4, <1>5

\* A line taken exposes one row more, so one flush at most: none of the batches
\* is full before.
LEMMA RecvExposesOne ==
  ASSUME TypeOK, Stable, Core, ForwardInv, BatchInv, RecvLine,
         Exposed \subseteq RowsIn(batches)
  PROVE  /\ Exposed' \subseteq RowsIn(batches') /\ Cardinality(Exposed') <= FlushBound
         /\ Repeatable' \subseteq Repeatable
<1> DEFINE m == Head(chan)
<1>1. /\ m \in Message /\ cur' = m.off /\ OwedAt(cur) \subseteq OwedAt(m.off)
      /\ OwedAt(m.off) \subseteq OwedAt(cur) \cup RecordOf(m)
      /\ RecordOf(m) \cap OwedAt(cur) = {}
      /\ InFlight' = InFlight \cup RecordOf(m)
      /\ RowsIn(batches') = RowsIn(batches) \cup RecordOf(m)
  BY RecvTakes
<1>2. /\ UNCHANGED <<file, base, saved, stored>>
      /\ Reading /\ Reading' /\ fpc = "idle"
  BY DEF RecvLine, fsVars, rowVars, Waiting, Reading
<1>3. Exposed' \subseteq RowsIn(batches) \cup RecordOf(m)
  <2>1. Exposed' = OwedAt(m.off) \ OwedAt(saved.offset)
    BY <1>1, <1>2 DEF Exposed, OwedAt
  <2> QED BY <1>1, <2>1 DEF Exposed
<1>4. Cardinality(Exposed') <= FlushBound
  <2>1. SinkTypeOK /\ BatchBound - 1 \in Nat /\ Cardinality(Table) \in Nat
    BY SinkAssumption, EtlAssumption, FS_CardinalityType DEF TypeOK, BatchBound
  <2>2. \A t \in Table : Len(batches[t]) <= BatchBound - 1
    <3>1. \A t \in Table : Len(batches[t]) < BatchBound
      BY <1>2 DEF BatchInv
    <3>2. \A t \in Table : Len(batches[t]) \in Nat
      BY <2>1 DEF SinkTypeOK
    <3>3. \A a, b \in Nat : b - 1 \in Nat /\ a < b => a <= b - 1
      OBVIOUS
    <3>4. BatchBound \in Nat
      BY SinkAssumption DEF BatchBound
    <3> QED BY <2>1, <3>1, <3>2, <3>3, <3>4
  <2>3. Cardinality(RowsIn(batches)) <= Cardinality(Table) * (BatchBound - 1)
    BY <2>1, <2>2, RowsBounded
  <2>4. RowsIn(batches) \in SUBSET Line /\ RecordOf(m) \in SUBSET Line
          /\ Exposed' \in SUBSET Line
    <3>1. RowsIn(batches) \subseteq Line
      <4>1. \A t \in Table : batches[t] \in Seq(Line)
        BY <2>1, EtlAssumption DEF SinkTypeOK
      <4>2. \A t \in Table : \A k \in 1 .. Len(batches[t]) : batches[t][k] \in Line
        BY <4>1, ElementOfSeq
      <4> QED BY <4>2 DEF RowsIn, RowsOf
    <3>2. RecordOf(m) \subseteq Line
      BY <1>1 DEF RecordOf, Message
    <3> QED BY <1>3, <3>1, <3>2
  <2>5. Cardinality(RecordOf(m)) <= 1 /\ Cardinality(RecordOf(m)) \in Nat
    <3>1. Cardinality({m.line}) = 1 /\ Cardinality({}) = 0
      BY FS_EmptySet, FS_Singleton
    <3> QED BY <3>1 DEF RecordOf
  <2>6. Cardinality(Exposed') <= Cardinality(RowsIn(batches)) + Cardinality(RecordOf(m))
    BY <1>3, <2>4, LinesCount
  <2>7. Cardinality(Exposed') \in Nat /\ Cardinality(RowsIn(batches)) \in Nat
    BY <2>4, LinesFinite
  <2>8. \A a, b \in Nat : a * b \in Nat
    OBVIOUS
  <2>9. Cardinality(Table) * (BatchBound - 1) \in Nat
    BY <2>1, <2>8
  <2> QED BY <2>3, <2>5, <2>6, <2>7, <2>9 DEF FlushBound
<1>5. Repeatable' \subseteq Repeatable
  <2>1. Repeatable' = {l \in stored : l \in InFlight' \/ l \notin OwedAt(m.off)}
    BY <1>1, <1>2 DEF Repeatable, Front, OwedAt
  <2>2. Repeatable = {l \in stored : l \in InFlight \/ l \notin OwedAt(cur)}
    BY <1>2 DEF Repeatable, Front
  <2> QED BY <1>1, <2>1, <2>2
<1> QED BY <1>1, <1>3, <1>4, <1>5

\* The flush exposes nothing more, and an insert makes the rows it stores
\* unrepeatable: they are owed by now, and in no other batch.
LEMMA FlushAccounts ==
  ASSUME TypeOK, Stable, Core, ReplayInv, Flush, faults.save = 0
  PROVE  /\ UNCHANGED <<Exposed, FlushBound>> /\ fpc' # "idle" /\ Reading' = Reading
         /\ replayed' + Cardinality(Repeatable') <= faults'.crash * FlushBound
<1>1. SinkTypeOK /\ FlushInv /\ FlushStep /\ RowInv
        /\ UNCHANGED <<file, base, cur, saved, mpc, faults>>
  BY DEF TypeOK, Core, Flush, fsVars, mainVars
<1>2. /\ UNCHANGED Exposed /\ Reading' = Reading /\ UNCHANGED FlushBound
      /\ fpc # "idle" /\ fpc' # "idle" /\ InFlight' \subseteq InFlight
  BY <1>1, FlushKeepsLengths, FlushRouted
  DEF Exposed, OwedAt, Reading, FlushBound, BatchBound
<1>3. Front' = Front /\ OwedAt(Front)' = OwedAt(Front)
  BY <1>1, <1>2 DEF Front, OwedAt
<1>4. Reading
  BY <1>2 DEF Core, IdleInv
<1>5. ASSUME UNCHANGED <<stored, replayed>>
      PROVE  replayed' + Cardinality(Repeatable') <= faults'.crash * FlushBound
  <2>1. Repeatable' \subseteq Repeatable
    BY <1>2, <1>3, <1>5 DEF Repeatable
  <2> QED BY <1>1, <1>5, <2>1, AccountFalls
<1>6. ASSUME NEW t \in Table, fpc = "tables", FinishTable(t), UNCHANGED batches,
             Store(t)
      PROVE  replayed' + Cardinality(Repeatable') <= faults'.crash * FlushBound
  <2> DEFINE rows == RowsOf(work[t])
  <2>1. stored' = stored \cup rows /\ replayed' = replayed + Again(work[t])
    BY <1>6 DEF Store
  <2>2. rows \subseteq Line /\ Again(work[t]) \in Nat /\ stored \subseteq Line
    BY <1>1, RowsTyped, EtlAssumption DEF SinkTypeOK
  <2>3. rows \subseteq InFlight /\ rows \subseteq OwedAt(Front)
    BY <1>4 DEF InFlight, RowsIn, Core, MainInv, Front
  <2>4. rows \cap InFlight' = {}
    <3>1. batches = NoRows
      BY <1>1, <1>6 DEF FlushInv
    <3>2. work'[t] = <<>> /\ \A u \in Table \ {t} : work'[u] = work[u]
      BY <1>1, <1>6, FinishedRows
    <3>3. \A u \in Table \ {t} : rows \cap RowsOf(work[u]) = {}
      BY <1>1 DEF RowInv, Routed, RowsOf
    <3>4. \A u \in Table : rows \cap RowsOf(work'[u]) = {}
      <4>1. RowsOf(work'[t]) = {}
        BY <3>2 DEF RowsOf
      <4> QED BY <3>2, <3>3, <4>1
    <3>5. InFlight' = RowsIn(NoRows) \cup RowsIn(work')
      BY <1>6, <3>1 DEF InFlight
    <3> QED BY <3>4, <3>5, NoRowsRouted DEF RowsIn
  <2>5. Repeatable' \subseteq Repeatable \ rows
    <3>1. \A l \in Repeatable' : l \in stored \cup rows
      BY <2>1 DEF Repeatable
    <3>2. \A l \in Repeatable' : l \in InFlight' \/ l \notin OwedAt(Front)
      BY <1>3 DEF Repeatable
    <3>3. \A l \in Repeatable' : l \notin rows
      BY <2>3, <2>4, <3>2
    <3>4. \A l \in Repeatable' : l \in stored /\ (l \in InFlight \/ l \notin OwedAt(Front))
      BY <1>2, <3>1, <3>2, <3>3
    <3> QED BY <3>3, <3>4 DEF Repeatable
  <2>6. rows \cap stored \subseteq Repeatable
    BY <2>3 DEF Repeatable
  <2>7. Again(work[t]) <= Cardinality(rows \cap stored)
    BY <1>1, AgainCounts
  <2>8. Cardinality(Repeatable') + Cardinality(rows \cap stored) <= Cardinality(Repeatable)
    <3>1. Repeatable \in SUBSET Line /\ Repeatable' \in SUBSET Line
            /\ rows \cap stored \in SUBSET Line
      BY <2>2, <2>5, AccountTyped
    <3>2. Repeatable' \cup (rows \cap stored) \subseteq Repeatable
            /\ Repeatable' \cap (rows \cap stored) = {}
      BY <2>5, <2>6
    <3> QED BY <3>1, <3>2, LinesCount
  <2>9. Cardinality(Repeatable') \in Nat /\ Cardinality(rows \cap stored) \in Nat
          /\ Cardinality(Repeatable) \in Nat
    BY <2>2, <2>5, AccountTyped, LinesFinite
  <2>10. replayed + Cardinality(Repeatable) <= faults'.crash * FlushBound
    BY <1>1 DEF ReplayInv
  <2>11. replayed \in Nat /\ faults'.crash * FlushBound \in Nat
    <3>1. \A a, b \in Nat : a * b \in Nat
      OBVIOUS
    <3> QED BY <1>1, <3>1, AccountTyped
  <2> HIDE DEF rows
  <2> QED BY <2>1, <2>2, <2>7, <2>8, <2>9, <2>10, <2>11
<1>7. UNCHANGED <<stored, replayed>>
        \/ \E t \in Table : fpc = "tables" /\ FinishTable(t) /\ UNCHANGED batches /\ Store(t)
  BY <1>1, FlushShapes DEF TakeBatches, Drop, rowVars
<1> QED BY <1>2, <1>5, <1>6, <1>7

\* What a kill exposed is repeatable from then on.
LEMMA CrashAccounts ==
  ASSUME TypeOK, Stable, Core, ReplayInv, Crash, faults.save = 0
  PROVE  replayed' + Cardinality(Repeatable') <= faults'.crash * FlushBound
<1>1. /\ UNCHANGED <<file, base, saved, stored, replayed>> /\ ~ Reading'
      /\ InFlight' = {} /\ faults'.crash = faults.crash + 1
  BY NoRowsRouted
  DEF Crash, Once, TypeOK, MainTypeOK, Reading, SinkDies, SinkMemory, rowVars,
      InFlight, fsVars
<1>2. Repeatable' = {l \in stored : l \notin OwedAt(saved.offset)}
  BY <1>1 DEF Repeatable, Front, OwedAt
<1>3. Cardinality(Repeatable') <= Cardinality(Repeatable) + FlushBound
  <2>1. Repeatable \in SUBSET Line /\ Repeatable' \in SUBSET Line /\ Exposed \in SUBSET Line
    BY <1>2, AccountTyped, EtlAssumption DEF TypeOK, SinkTypeOK
  <2>2. /\ Cardinality(Repeatable) \in Nat /\ Cardinality(Repeatable') \in Nat
        /\ Cardinality(Exposed) \in Nat /\ FlushBound \in Nat
    BY <2>1, LinesFinite, AccountTyped
  <2>3. CASE Reading
    <3>1. Repeatable' \subseteq Repeatable \cup Exposed
      BY <1>2, <2>3 DEF Repeatable, Front, Exposed
    <3>2. Cardinality(Repeatable') <= Cardinality(Repeatable) + Cardinality(Exposed)
      BY <2>1, <3>1, LinesCount
    <3>3. Cardinality(Exposed) <= FlushBound
      BY <2>3 DEF ReplayInv
    <3> QED BY <2>2, <3>2, <3>3
  <2>4. CASE ~ Reading
    <3>1. Repeatable' \subseteq Repeatable
      BY <1>2, <2>4 DEF Repeatable, Front
    <3>2. Cardinality(Repeatable') <= Cardinality(Repeatable)
      BY <2>1, <3>1, LinesCount
    <3> QED BY <2>2, <3>2
  <2> QED BY <2>3, <2>4
<1>4. replayed + Cardinality(Repeatable) <= faults.crash * FlushBound
  BY DEF ReplayInv
<1>5. /\ replayed \in Nat /\ faults.crash \in Nat /\ FlushBound \in Nat
      /\ Cardinality(Repeatable) \in Nat /\ Cardinality(Repeatable') \in Nat
  BY <1>2, AccountTyped, LinesFinite, EtlAssumption DEF TypeOK, SinkTypeOK
<1>6. \A c, n \in Nat : c * n \in Nat
  OBVIOUS
<1>7. \A c, n \in Nat : (c + 1) * n = c * n + n
  OBVIOUS
<1>8. faults'.crash * FlushBound = faults.crash * FlushBound + FlushBound
  BY <1>1, <1>5, <1>7
<1>9. faults.crash * FlushBound \in Nat
  BY <1>5, <1>6
<1> QED BY <1>1, <1>3, <1>4, <1>5, <1>8, <1>9

\* A save leaves nothing exposed, and the end of the process nothing in flight.
LEMMA SaveAccounts ==
  ASSUME TypeOK, Stable, Core, ReplayInv, SaveState \/ FinalSave, faults'.save = 0
  PROVE  /\ faults.save = 0
         /\ SaveState => Exposed' = {}
         /\ FinalSave => ~ Reading'
         /\ replayed' + Cardinality(Repeatable') <= faults'.crash * FlushBound
<1>1. /\ UNCHANGED <<file, base, stored, replayed>> /\ SaveOutcome /\ Reading /\ fpc = "save"
      /\ InFlight' = InFlight
  <2>1. UNCHANGED <<file, base, stored, replayed>> /\ SaveOutcome /\ Reading /\ fpc = "save"
    BY DEF SaveState, FinalSave, SinkDies, rowVars, fsVars, Reading
  <2>2. batches = NoRows /\ work = NoRows
    BY <2>1 DEF Core, FlushInv
  <2>3. batches' = NoRows /\ work' = NoRows
    BY <2>2 DEF SaveState, FinalSave, SinkDies, SinkMemory
  <2> QED BY <2>1, <2>2, <2>3 DEF InFlight
<1>2. saved'.offset = cur /\ UNCHANGED faults
  BY <1>1 DEF SaveOutcome, StateToSave, Once, TypeOK, MainTypeOK
<1>3. /\ SaveState => Reading' /\ cur' = cur
      /\ FinalSave => ~ Reading'
  BY DEF SaveState, FinalSave, Reading
<1>4. SaveState => Exposed' = {}
  BY <1>2, <1>3 DEF Exposed, OwedAt
<1>5. Front' = cur
  BY <1>2, <1>3 DEF Front
<1>6. Repeatable' = Repeatable
  BY <1>1, <1>5 DEF Repeatable, Front, OwedAt
<1> QED BY <1>1, <1>2, <1>3, <1>4, <1>6, AccountFalls

\* What the manager appends is owed by nothing that is exposed or repeatable.
LEMMA ManagerAccounts ==
  ASSUME TypeOK, Stable, Stable', Core, ForwardInv, Manager
  PROVE  /\ Reading => Exposed' = Exposed
         /\ Repeatable' = Repeatable
<1>1. WriteByte
  BY FileAssumption
  DEF Manager, FsNext, RotateAway, CreateFile, Truncate, Stable, TypeOK, FsTypeOK,
      NoInode
<1>2. file[1] \in Seq(Byte) /\ Len(file[1]) \in Nat /\ base \in Nat
  BY StableFile
<1>3. file'[1] = Append(file[1], NextByte) /\ NextByte \in Byte
  BY <1>1, ShapeGrows DEF Core
<1>4. /\ UNCHANGED <<base, cur, saved, batches, work, stored, mpc>>
      /\ InFlight' = InFlight /\ Reading' = Reading
  BY DEF Manager, sinkVars, mainVars, batchVars, flushVars, rowVars, InFlight, Reading
<1>5. \A n \in Nat : n <= Len(file[1]) => Owed(file'[1], base', n) = OwedAt(n)
  BY <1>2, <1>3, <1>4, OwedGrows DEF OwedAt
<1>6. saved.offset \in Nat /\ saved.offset <= Len(file[1])
  BY <1>2, PositionNat
  DEF Core, SavedInv, PositionOK, NoState, TypeOK, MainTypeOK, TailState
<1>7. Reading => cur \in Nat /\ cur <= Len(file[1])
  BY <1>2, PositionNat DEF Core, MainInv, PositionOK
<1>8. Reading => Exposed' = Exposed
  BY <1>4, <1>5, <1>6, <1>7 DEF Exposed, OwedAt
<1>9. Front' = Front /\ Front \in Nat /\ Front <= Len(file[1])
  BY <1>4, <1>6, <1>7 DEF Front
<1>10. Owed(file'[1], base', Front') = OwedAt(Front)
  BY <1>5, <1>9
<1>11. Repeatable' = Repeatable
  BY <1>4, <1>10 DEF Repeatable, OwedAt
<1> QED BY <1>8, <1>11

\* ReplayInv is inductive, given what PositionInv says of the state.
LEMMA AccountStep ==
  ASSUME PositionInv, ReplayInv, TypeOK', [Next]_vars
  PROVE  ReplayInv'
<1>1. faults'.save = 0 => faults.save = 0
  <2>1. TypeOK
    BY DEF PositionInv
  <2>2. \A bound : \A what \in {"crash", "stop", "save", "reload"} :
          Once(what, bound) /\ faults'.save = 0 => faults.save = 0
    BY <2>1 DEF Once, TypeOK, MainTypeOK
  <2>3. \/ UNCHANGED faults \/ Once("crash", MaxCrash) \/ Once("stop", MaxStop)
        \/ Once("save", MaxSaveFail) \/ Once("reload", MaxReload)
    BY DEF Next, ReadSize, StartUp, RecvLine, RecvClosed, FlushTick, Shutdown, Flush,
           SaveState, FinalSave, SaveOutcome, Crash, HotReload, Manager, Reader, vars,
           mainVars
  <2> QED BY <2>2, <2>3
<1> SUFFICES ASSUME Stable', faults'.save = 0 PROVE ReplayInv'
  BY DEF ReplayInv
<1>2. TypeOK /\ Stable /\ Core /\ ForwardInv /\ BatchInv /\ faults.save = 0
  BY <1>1, StableBefore DEF PositionInv
<1>3. UNCHANGED FlushBound /\ FlushBound \in Nat
  BY <1>2, AccountTyped DEF FlushBound, BatchBound
<1>4. ASSUME Exposed' = {} \/ ~ Reading',
             replayed' + Cardinality(Repeatable') <= faults'.crash * FlushBound
      PROVE  ReplayInv'
  <2>1. Cardinality({}) = 0
    BY FS_EmptySet
  <2> QED BY <1>3, <1>4, <2>1 DEF ReplayInv
<1>5. CASE StartUp
  BY <1>2, <1>4, <1>5, StartExposesNone, AccountFalls
<1>6. CASE RecvLine
  <2>1. Waiting /\ UNCHANGED <<mpc, replayed, faults>>
    BY <1>6 DEF RecvLine, rowVars
  <2>2. Exposed \subseteq RowsIn(batches)
    BY <1>2, <2>1 DEF ReplayInv, Waiting, Reading
  <2>3. /\ Exposed' \subseteq RowsIn(batches') /\ Cardinality(Exposed') <= FlushBound
        /\ Repeatable' \subseteq Repeatable
    BY <1>2, <1>6, <2>2, RecvExposesOne
  <2>4. replayed' + Cardinality(Repeatable') <= faults'.crash * FlushBound
    BY <1>2, <2>1, <2>3, AccountFalls
  <2> QED BY <1>3, <2>3, <2>4 DEF ReplayInv
<1>7. CASE Flush
  <2>1. /\ Exposed' = Exposed /\ fpc' # "idle" /\ Reading' = Reading
        /\ replayed' + Cardinality(Repeatable') <= faults'.crash * FlushBound
    BY <1>2, <1>7, FlushAccounts
  <2> QED BY <1>2, <1>3, <2>1 DEF ReplayInv
<1>8. CASE SaveState \/ FinalSave
  BY <1>2, <1>4, <1>8, SaveAccounts
<1>9. CASE Crash
  <2>1. ~ Reading'
    BY <1>9 DEF Crash, Reading
  <2> QED BY <1>2, <1>4, <1>9, <2>1, CrashAccounts
<1>10. CASE Manager
  <2>1. /\ Reading' = Reading /\ UNCHANGED <<batches, fpc, replayed, faults>>
        /\ RowsIn(batches') = RowsIn(batches)
    BY <1>10 DEF Manager, sinkVars, mainVars, batchVars, flushVars, rowVars, Reading
  <2>2. (Reading => Exposed' = Exposed) /\ Repeatable' = Repeatable
    BY <1>2, <1>10, ManagerAccounts
  <2> QED BY <1>2, <1>3, <2>1, <2>2 DEF ReplayInv
<1>11. CASE ReadSize \/ RecvClosed \/ FlushTick \/ Shutdown \/ HotReload \/ Reader
              \/ UNCHANGED vars
  <2>1. /\ UNCHANGED <<base, cur, saved, batches, work, stored, replayed>>
        /\ faults'.crash = faults.crash /\ faults'.save = faults.save
        /\ fpc' = "idle" => fpc = "idle"
        /\ Reading' <=> Reading
    BY <1>2, <1>11
    DEF ReadSize, RecvClosed, FlushTick, StartFlush, Waiting, Shutdown, HotReload, Once,
        Reader, vars, TypeOK, MainTypeOK, Reading,
        mainVars, sinkVars, batchVars, flushVars, rowVars
  <2>2. UNCHANGED file
    BY <1>11
    DEF ReadSize, RecvClosed, FlushTick, Shutdown, HotReload, Reader, ReaderNext, vars,
        StatPath, OpenPath, OpenFails, ReadLine, ReadBlankLine, ReadUndecodable,
        ReadPartialLine, ReadEof, CheckRotation, Send, SendFails, fsVars
  <2> QED BY <1>2, <2>1, <2>2, AccountSame
<1> QED BY <1>5, <1>6, <1>7, <1>8, <1>9, <1>10, <1>11 DEF Next

\* Nothing is stored before the service first runs.
LEMMA AccountInit == Init => ReplayInv
<1> SUFFICES ASSUME Init PROVE ReplayInv
  OBVIOUS
<1>1. Repeatable = {} /\ ~ Reading /\ replayed = 0 /\ faults.crash = 0
  BY DEF Init, SinkInit, Repeatable, Reading
<1>2. Cardinality({}) = 0 /\ FlushBound \in Nat
  BY <1>1, FS_EmptySet, AccountTyped, InitTyped DEF Init, FsInit, Stable
<1>3. \A n \in Nat : 0 * n = 0
  OBVIOUS
<1> QED BY <1>1, <1>2, <1>3 DEF ReplayInv

\* The positions are safe and the account is kept, through every kill, stop,
\* restart and failure: the invariant the run etl_crash checks.
THEOREM InvariantHolds ==
  ASSUME AllDecodable
  PROVE  Spec => []IInv
<1>1. PositionInv /\ ReplayInv /\ TypeOK' /\ [Next]_vars => ReplayInv'
  BY AccountStep
<1>2. Init => ReplayInv
  BY AccountInit
<1>3. Spec => []PositionInv
  BY PositionsSafe
<1>4. Spec => []TypeOK
  BY TypeCorrect
<1> QED BY <1>1, <1>2, <1>3, <1>4, PTL DEF Spec, IInv

\* On a growing file a kill makes at most one flush be inserted again, and a
\* clean stop nothing, if every save succeeds.
THEOREM ReplayIsBounded ==
  ASSUME AllDecodable
  PROVE  Spec => []ReplayBounded
<1>1. ASSUME IInv PROVE ReplayBounded
  <2> SUFFICES ASSUME Stable, faults.save = 0
               PROVE  replayed <= faults.crash * FlushBound
    BY DEF ReplayBounded
  <2>1. replayed + Cardinality(Repeatable) <= faults.crash * FlushBound
    BY <1>1 DEF IInv, ReplayInv
  <2>2. /\ replayed \in Nat /\ Cardinality(Repeatable) \in Nat
        /\ faults.crash \in Nat /\ FlushBound \in Nat
    BY <1>1, AccountTyped DEF IInv, PositionInv
  <2>3. \A c, n \in Nat : c * n \in Nat
    OBVIOUS
  <2>4. faults.crash * FlushBound \in Nat
    BY <2>2, <2>3
  <2> QED BY <2>1, <2>2, <2>4
<1>2. Spec => []IInv
  BY InvariantHolds
<1> QED BY <1>1, <1>2, PTL
=============================================================================
