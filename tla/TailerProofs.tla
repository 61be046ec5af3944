------------------------------ MODULE TailerProofs ------------------------------
(***************************************************************************)
(* What holds of the file and of the reader task whoever takes the lines:   *)
(* the facts about AlertsFile and Tailer that Etl and Tailing share.        *)
(***************************************************************************)
EXTENDS Tailer, FiniteSetTheorems, SequenceTheorems, TLAPS

\* What the manager does keeps the file system well typed: it writes no line
\* past the last, and a new file has an inode.
LEMMA FsStepTyped ==
  ASSUME FsTypeOK, FsNext
  PROVE  FsTypeOK'
<1> USE LineAssumption, FileAssumption
<1>1. CASE WriteByte
  <2>1. NextByte \in Byte
    <3>1. CASE last.line = 0
      BY <1>1, <3>1
      DEF WriteByte, FsTypeOK, NextByte, BetweenLines, Line, Byte
    <3>2. CASE last.line # 0
      BY <1>1, <3>2
      DEF WriteByte, FsTypeOK, NextByte, BetweenLines, Line, Byte, IsNewline
    <3> QED BY <3>1, <3>2
  <2>2. file[path] \in Seq(Byte) /\ path \in Inode
    BY <1>1 DEF WriteByte, FsTypeOK
  <2>3. file' \in [Inode -> Seq(Byte)]
    BY <1>1, <2>1, <2>2 DEF WriteByte, FsTypeOK
  <2>4. last' \in [line : Line \cup {0}, nth : Nat]
    BY <1>1, <2>1 DEF WriteByte, Byte
  <2> QED BY <1>1, <2>3, <2>4 DEF WriteByte, FsTypeOK
<1>2. CASE RotateAway
  BY <1>2 DEF RotateAway, FsTypeOK
<1>3. CASE CreateFile
  BY <1>3 DEF CreateFile, FsTypeOK, Inode
<1>4. CASE Truncate
  BY <1>4 DEF Truncate, FsTypeOK
<1> QED BY <1>1, <1>2, <1>3, <1>4 DEF FsNext

\* The bytes the tailer has open are a sequence of bytes, and each of their
\* newlines is one of their positions.
LEMMA BytesTyped ==
  ASSUME FsTypeOK, ReaderTypeOK
  PROVE  /\ Bytes \in Seq(Byte)
         /\ Len(Bytes) \in Nat
         /\ \A i \in Newlines(Bytes) : i \in Nat \ {0} /\ Bytes[i] \in Byte
<1>1. Bytes \in Seq(Byte)
  BY DEF FsTypeOK, ReaderTypeOK, FileTailer, Bytes
<1> QED BY <1>1 DEF Newlines

\* A line read moves the tailer to a well-typed place.
LEMMA ReadTyped ==
  ASSUME FsTypeOK, ReaderTypeOK,
         NEW i \in Nat, tailer.pos < i
  PROVE  /\ AfterLine(tailer, i) \in FileTailer
         /\ AfterError(tailer, i) \in FileTailer
         /\ SeekBack(tailer) \in FileTailer
<1>1. i - tailer.pos \in Nat
  BY DEF ReaderTypeOK, FileTailer
<1> QED BY <1>1
        DEF ReaderTypeOK, FileTailer, AfterLine, AfterError, SeekBack, MovedTo

\* Each step of the reader task keeps its state well typed, and the channel
\* within its capacity.
LEMMA ReaderStepTyped ==
  ASSUME FsTypeOK, ReaderTypeOK, ReaderNext
  PROVE  ReaderTypeOK'
<1> USE LineAssumption, FileAssumption, ChannelAssumption
<1>1. CASE StatPath
  BY <1>1 DEF StatPath, ReaderTypeOK, ReaderPc, PathInode, FsTypeOK
<1>2. CASE OpenPath
  <2>1. OpenOffset \in Nat
    BY DEF OpenOffset, ReaderTypeOK, TailState
  <2>2. tailer' \in FileTailer
    BY <1>2, <2>1
    DEF OpenPath, FsTypeOK, ReaderTypeOK, FileTailer, Inode, NoInode
  <2> QED BY <1>2, <2>2
          DEF OpenPath, ReaderTypeOK, ReaderPc, Goal, NoInode
<1>3. CASE OpenFails
  BY <1>3 DEF OpenFails, ReaderTypeOK, ReaderPc, Goal, NoInode
<1>4. CASE ReadLine
  <2>1. PICK i \in Newlines(Bytes) :
          /\ EndsFirstLineAfter(Bytes, tailer.pos, i)
          /\ tailer' = AfterLine(tailer, i)
          /\ msg' = MessageAt(i)
    BY <1>4 DEF ReadLine
  <2>2. i \in Nat /\ tailer.pos < i /\ Bytes[i] \in Byte
    BY <2>1, BytesTyped DEF EndsFirstLineAfter
  <2>3. AfterLine(tailer, i) \in FileTailer
    BY <2>2, ReadTyped
  <2>4. MessageAt(i) \in Message
    BY <2>2, <2>3 DEF MessageAt, Message, FileTailer, Byte, ReadsWhole
  <2> QED BY <1>4, <2>1, <2>3, <2>4 DEF ReadLine, ReaderTypeOK, ReaderPc
<1>5. CASE ReadBlankLine
  <2>1. PICK i \in Newlines(Bytes) :
          /\ EndsFirstLineAfter(Bytes, tailer.pos, i)
          /\ tailer' = AfterLine(tailer, i)
    BY <1>5 DEF ReadBlankLine
  <2>2. AfterLine(tailer, i) \in FileTailer
    BY <2>1, BytesTyped, ReadTyped DEF EndsFirstLineAfter
  <2> QED BY <1>5, <2>1, <2>2 DEF ReadBlankLine, ReaderTypeOK
<1>6. CASE ReadUndecodable
  <2>1. PICK i \in Newlines(Bytes) \cup {Len(Bytes)} :
          tailer.pos < i /\ tailer' = AfterError(tailer, i)
    BY <1>6 DEF ReadUndecodable
  <2>2. AfterError(tailer, i) \in FileTailer
    BY <2>1, BytesTyped, ReadTyped
  <2> QED BY <1>6, <2>1, <2>2 DEF ReadUndecodable, ReaderTypeOK
<1>7. CASE ReadPartialLine
  <2>1. SeekBack(tailer) \in FileTailer
    BY <1>7, BytesTyped, ReadTyped DEF ReadPartialLine
  <2> QED BY <1>7, <2>1 DEF ReadPartialLine, ReaderTypeOK, ReaderPc
<1>8. CASE ReadEof
  BY <1>8 DEF ReadEof, ReaderTypeOK, ReaderPc
<1>9. CASE CheckRotation
  BY <1>9 DEF CheckRotation, ReaderTypeOK, ReaderPc, Goal
<1>10. CASE Send
  <2>1. chan' \in Seq(Message) /\ Len(chan') <= ChannelCap
    BY <1>10 DEF Send, ReaderTypeOK, ChannelFull
  <2> QED BY <1>10, <2>1 DEF Send, ReaderTypeOK, ReaderPc
<1>11. CASE SendFails
  BY <1>11 DEF SendFails, ReaderTypeOK, ReaderPc
<1> QED BY <1>1, <1>2, <1>3, <1>4, <1>5, <1>6, <1>7, <1>8, <1>9, <1>10, <1>11
        DEF ReaderNext

\* A reader just spawned, and none at all, are well typed.
LEMMA ReaderEndsTyped ==
  /\ \A start \in TailState : SpawnReader(start) => ReaderTypeOK'
  /\ ReaderDies => ReaderTypeOK'
  /\ NoReader => ReaderTypeOK
<1> USE ChannelAssumption DEF ReaderTypeOK, ReaderPc, Goal
<1>1. NoTailer \in FileTailer /\ NoState \in TailState
  BY DEF NoTailer, FileTailer, NoState, TailState, NoInode
<1>2. <<>> \in Seq(Message) /\ Len(<<>>) <= ChannelCap
  OBVIOUS
<1>3. ASSUME NEW start \in TailState, SpawnReader(start)
      PROVE  ReaderTypeOK'
  BY <1>1, <1>2, <1>3 DEF SpawnReader
<1>4. ReaderDies => ReaderTypeOK'
  BY <1>1, <1>2 DEF ReaderDies
<1>5. NoReader => ReaderTypeOK
  BY <1>1, <1>2 DEF NoReader
<1> QED BY <1>3, <1>4, <1>5
-----------------------------------------------------------------------------
(* Files that are only appended to.                                         *)

\* Nor is a position lost.
LEMMA PositionGrows ==
  ASSUME NEW f \in Seq(Byte), NEW c \in Byte, NEW b \in Nat, NEW n,
         Position(f, b, n)
  PROVE  Position(Append(f, c), b, n)
<1>1. /\ Len(f) \in Nat
      /\ Len(Append(f, c)) = Len(f) + 1
      /\ \A j \in 1 .. Len(f) : Append(f, c)[j] = f[j]
  OBVIOUS
<1> QED BY <1>1 DEF Position, Newlines, IsNewline

\* A position is a number.
LEMMA PositionNat ==
  ASSUME NEW f \in Seq(Byte), NEW b \in Nat, NEW n, Position(f, b, n)
  PROVE  n \in Nat /\ n <= Len(f) /\ b <= n
BY DEF Position, Newlines

\* The reader that stands at a position reads a line whole, if the line starts
\* where reading began or later.
LEMMA NextLineWhole ==
  ASSUME NEW f \in Seq(Byte), LineShape(f), NEW b \in Nat,
         NEW p \in Nat, Position(f, b, p),
         NEW i \in Nat, EndsFirstLineAfter(f, p, i), b <= StartOf(f, i)
  PROVE  p = StartOf(f, i)
<1> DEFINE s == StartOf(f, i)
<1>1. i \in 1 .. Len(f) /\ f[i].nth = LineLen[f[i].line] /\ p < i
  BY DEF EndsFirstLineAfter, Newlines, IsNewline
<1>2. f[i] \in Byte /\ f[i].nth \in Nat \ {0} /\ s = i - f[i].nth
  <2>1. f[i] \in Byte
    BY <1>1
  <2>2. f[i].nth \in Nat \ {0}
    BY <2>1 DEF Byte
  <2>3. s = i - f[i].nth
    BY <1>1 DEF StartOf
  <2> QED BY <2>1, <2>2, <2>3
<1>3. f[i].nth <= i
  BY <1>1 DEF LineShape
<1>4. s \in Nat /\ s < i
  BY <1>1, <1>2, <1>3
<1>5. ~ (p < s)
  <2> SUFFICES ASSUME p < s PROVE FALSE
    OBVIOUS
  <2>1. f[i].nth < i
    BY <1>2, <1>4
  <2>2. IsNewline(f[s])
    BY <1>1, <1>2, <2>1 DEF LineShape
  <2>3. s \in Newlines(f)
    BY <1>1, <1>4, <2>2 DEF Newlines
  <2> QED BY <1>4, <2>3 DEF EndsFirstLineAfter
<1>6. ~ (s < p)
  <2> SUFFICES ASSUME s < p PROVE FALSE
    OBVIOUS
  <2>1. p \in 1 .. i /\ i - f[i].nth < p
    BY <1>1, <1>2, <1>4
  <2>2. f[p] = [line |-> f[i].line, nth |-> f[i].nth - (i - p)]
    BY <1>1, <2>1 DEF LineShape
  <2>3. f[p].nth < LineLen[f[p].line]
    BY <1>1, <1>2, <2>1, <2>2
  <2>4. p \notin Newlines(f)
    BY <2>3, LineAssumption, <1>1, <1>2, <2>2 DEF Newlines, IsNewline, Byte
  <2>5. p = b
    BY <2>4 DEF Position
  <2> QED BY <2>5, <1>4
<1> QED BY <1>4, <1>5, <1>6

\* A byte read is one of the lines of the log, so it is decodable.
LEMMA AllReadable ==
  ASSUME AllDecodable, NEW f \in Seq(Byte),
         NEW a \in 1 .. Len(f), NEW b \in 1 .. Len(f)
  PROVE  Decodable(f, a, b)
<1>1. f[a] \in Byte /\ f[b] \in Byte
  BY ElementOfSeq
<1>2. f[a].line \in Line /\ f[b].line \in Line
  BY <1>1 DEF Byte
<1>3. /\ Kind[f[a].line] # "straddling" /\ Kind[f[b].line] # "straddling"
      /\ Kind[f[b].line] # "undecodable"
  BY <1>2 DEF AllDecodable
<1> QED BY <1>3 DEF Decodable

\* The manager appends a byte to the file the path names.
LEMMA WrittenByte ==
  ASSUME FsTypeOK, WriteByte
  PROVE  /\ NextByte \in Byte /\ last' = NextByte /\ path \in Inode
         /\ file' = [file EXCEPT ![path] = Append(file[path], NextByte)]
         /\ file'[path] = Append(file[path], NextByte)
         /\ \A k \in Inode \ {path} : file'[k] = file[k]
<1>1. path \in Inode /\ file[path] \in Seq(Byte)
  BY DEF WriteByte, FsTypeOK
<1>2. file' = [file EXCEPT ![path] = Append(file[path], NextByte)] /\ last' = NextByte
  BY DEF WriteByte
<1>3. file'[path] = Append(file[path], NextByte)
        /\ \A k \in Inode \ {path} : file'[k] = file[k]
  BY <1>1, <1>2 DEF FsTypeOK
<1>4. FsTypeOK'
  BY FsStepTyped DEF FsNext
<1>5. Append(file[path], NextByte) \in Seq(Byte)
  BY <1>1, <1>3, <1>4 DEF FsTypeOK
<1>6. /\ Len(file[path]) + 1 \in 1 .. Len(Append(file[path], NextByte))
      /\ Append(file[path], NextByte)[Len(file[path]) + 1] = NextByte
  BY <1>1
<1>7. NextByte \in Byte
  BY <1>5, <1>6, ElementOfSeq
<1> QED BY <1>1, <1>2, <1>3, <1>7

\* A file made of whole lines and a beginning stays one when the manager
\* writes its next byte.
LEMMA ByteKeepsShape ==
  ASSUME NextByte \in Byte, NEW f \in Seq(Byte), LineShape(f), EndsWithLast(f)
  PROVE  LineShape(Append(f, NextByte))
<1> DEFINE n == Len(f)
           c == NextByte
           g == Append(f, c)
<1>1. f \in Seq(Byte) /\ n \in Nat
  OBVIOUS
<1>2. c \in Byte
  OBVIOUS
<1>3. /\ Len(g) = n + 1 /\ g[n + 1] = c
      /\ \A k \in 1 .. n : g[k] = f[k]
  BY <1>1
<1>4. c.nth \in Nat \ {0} /\ LineLen[c.line] \in Nat \ {0}
  BY <1>2, LineAssumption DEF Byte
<1>5. CASE BetweenLines
  <2>1. c.nth = 1
    BY <1>5 DEF NextByte
  <2>2. 0 < n => IsNewline(f[n])
    <3> SUFFICES ASSUME 0 < n PROVE IsNewline(f[n])
      OBVIOUS
    <3>1. last = f[n] /\ f[n] \in Byte
      BY <1>1 DEF EndsWithLast
    <3>2. last.line # 0
      BY <3>1 DEF Byte, Line
    <3> QED BY <1>5, <3>1, <3>2 DEF BetweenLines
  <2>3. LineShape(g)
    <3> SUFFICES ASSUME NEW k \in 1 .. n + 1
                 PROVE  /\ g[k].nth <= k
                        /\ g[k].nth <= LineLen[g[k].line]
                        /\ \A j \in 1 .. k : k - g[k].nth < j =>
                             g[j] = [line |-> g[k].line, nth |-> g[k].nth - (k - j)]
                        /\ g[k].nth < k => IsNewline(g[k - g[k].nth])
      BY <1>3 DEF LineShape
    <3>1. CASE k = n + 1
      <4>1. c = [line |-> c.line, nth |-> c.nth]
        BY <1>2 DEF Byte
      <4>2. ASSUME NEW j \in 1 .. k, k - g[k].nth < j
            PROVE  j = n + 1
        BY <1>1, <1>3, <2>1, <3>1, <4>2
      <4>3. \A j \in 1 .. k : k - g[k].nth < j =>
              g[j] = [line |-> g[k].line, nth |-> g[k].nth - (k - j)]
        BY <1>1, <1>3, <1>4, <3>1, <4>1, <4>2
      <4>4. g[k].nth < k => IsNewline(g[k - g[k].nth])
        BY <1>1, <1>3, <2>1, <2>2, <3>1
      <4> QED BY <1>1, <1>3, <1>4, <2>1, <3>1, <4>3, <4>4
    <3>2. CASE k # n + 1
      <4>1. k \in 1 .. n /\ g[k] = f[k]
        BY <1>1, <1>3, <3>2
      <4>2. f[k] \in Byte
        BY <1>1, <4>1, ElementOfSeq
      <4>3. f[k].nth \in Nat \ {0}
        BY <4>2 DEF Byte
      <4>4. /\ f[k].nth <= k
            /\ f[k].nth <= LineLen[f[k].line]
            /\ \A j \in 1 .. k : k - f[k].nth < j =>
                 f[j] = [line |-> f[k].line, nth |-> f[k].nth - (k - j)]
            /\ f[k].nth < k => IsNewline(f[k - f[k].nth])
        BY <4>1 DEF LineShape
      <4>5. g[k].nth < k => g[k - g[k].nth] = f[k - f[k].nth]
        BY <1>1, <1>3, <4>1, <4>3
      <4>6. \A j \in 1 .. k : g[j] = f[j]
        BY <1>1, <1>3, <4>1
      <4> QED BY <4>1, <4>4, <4>5, <4>6
    <3> QED BY <3>1, <3>2
  <2> QED BY <2>3
<1>6. CASE ~ BetweenLines
  <2>1. last.line # 0 /\ ~ IsNewline(last)
    BY <1>6 DEF BetweenLines
  <2>2. 0 < n /\ last = f[n] /\ f[n] \in Byte
    BY <1>1, <1>6, <2>1 DEF EndsWithLast
  <2>3. c = [line |-> f[n].line, nth |-> f[n].nth + 1]
    BY <1>6, <2>2 DEF NextByte
  <2>4. f[n].nth \in Nat \ {0} /\ f[n].nth <= n /\ c.nth = f[n].nth + 1
          /\ c.nth <= LineLen[c.line] /\ c.line = f[n].line
    BY <1>1, <1>4, <2>1, <2>2, <2>3 DEF LineShape, IsNewline, Byte
  <2>5. LineShape(g)
    <3> SUFFICES ASSUME NEW k \in 1 .. n + 1
                 PROVE  /\ g[k].nth <= k
                        /\ g[k].nth <= LineLen[g[k].line]
                        /\ \A j \in 1 .. k : k - g[k].nth < j =>
                             g[j] = [line |-> g[k].line, nth |-> g[k].nth - (k - j)]
                        /\ g[k].nth < k => IsNewline(g[k - g[k].nth])
      BY <1>3 DEF LineShape
    <3>1. CASE k = n + 1
      <4>1. ASSUME NEW j \in 1 .. k, k - g[k].nth < j
            PROVE  g[j] = [line |-> g[k].line, nth |-> g[k].nth - (k - j)]
        <5>1. CASE j = n + 1
          BY <1>1, <1>3, <2>3, <2>4, <3>1, <5>1
        <5>2. CASE j # n + 1
          <6>1. j \in 1 .. n /\ n - f[n].nth < j
            BY <1>1, <1>3, <2>4, <3>1, <4>1, <5>2
          <6>2. f[j] = [line |-> f[n].line, nth |-> f[n].nth - (n - j)]
            BY <1>1, <2>2, <6>1 DEF LineShape
          <6>3. f[n].nth - (n - j) = g[k].nth - (k - j)
            BY <1>1, <1>3, <2>4, <3>1, <6>1
          <6> QED BY <1>3, <2>4, <3>1, <6>1, <6>2, <6>3
        <5> QED BY <5>1, <5>2
      <4>2. g[k].nth < k => IsNewline(g[k - g[k].nth])
        <5> SUFFICES ASSUME g[k].nth < k PROVE IsNewline(g[k - g[k].nth])
          OBVIOUS
        <5>1. g[k].nth = f[n].nth + 1 /\ k = n + 1
          BY <1>3, <2>4, <3>1
        <5>2. f[n].nth < n /\ k - g[k].nth = n - f[n].nth
          BY <1>1, <2>4, <5>1
        <5>3. n - f[n].nth \in 1 .. n
          BY <1>1, <2>4, <5>2
        <5>4. IsNewline(f[n - f[n].nth])
          BY <1>1, <2>2, <5>2 DEF LineShape
        <5>5. g[k - g[k].nth] = f[n - f[n].nth]
          BY <1>3, <5>2, <5>3
        <5> QED BY <5>4, <5>5
      <4>3. g[k] = c
        BY <1>3, <3>1
      <4>4. c.nth <= k /\ c.nth <= LineLen[c.line]
        BY <1>1, <2>4, <3>1
      <4> QED BY <4>1, <4>2, <4>3, <4>4
    <3>2. CASE k # n + 1
      <4>1. k \in 1 .. n /\ g[k] = f[k]
        BY <1>1, <1>3, <3>2
      <4>2. f[k] \in Byte
        BY <1>1, <4>1, ElementOfSeq
      <4>3. f[k].nth \in Nat \ {0}
        BY <4>2 DEF Byte
      <4>4. /\ f[k].nth <= k
            /\ f[k].nth <= LineLen[f[k].line]
            /\ \A j \in 1 .. k : k - f[k].nth < j =>
                 f[j] = [line |-> f[k].line, nth |-> f[k].nth - (k - j)]
            /\ f[k].nth < k => IsNewline(f[k - f[k].nth])
        BY <4>1 DEF LineShape
      <4>5. g[k].nth < k => g[k - g[k].nth] = f[k - f[k].nth]
        BY <1>1, <1>3, <4>1, <4>3
      <4>6. \A j \in 1 .. k : g[j] = f[j]
        BY <1>1, <1>3, <4>1
      <4> QED BY <4>1, <4>4, <4>5, <4>6
    <3> QED BY <3>1, <3>2
  <2> QED BY <2>5
<1> QED BY <1>5, <1>6

\* And its lines stay in order.
LEMMA ByteKeepsOrder ==
  ASSUME NextByte \in Byte, NEW f \in Seq(Byte), LinesInOrder(f), EndsWithLast(f)
  PROVE  LinesInOrder(Append(f, NextByte))
<1> DEFINE n == Len(f)
           c == NextByte
           g == Append(f, c)
<1>1. /\ n \in Nat /\ Len(g) = n + 1 /\ g[n + 1] = c
      /\ \A k \in 1 .. n : g[k] = f[k] /\ f[k] \in Byte
  BY ElementOfSeq
<1>2. ASSUME NEW j \in 1 .. n
      PROVE  f[j].line <= c.line /\ (IsNewline(f[j]) => f[j].line < c.line)
  <2>1. n \in 1 .. n /\ last = f[n] /\ f[n] \in Byte /\ f[j] \in Byte
    BY <1>1 DEF EndsWithLast
  <2>2. f[n].line \in Nat \ {0} /\ f[j].line \in Nat
    BY <2>1 DEF Byte, Line
  <2>3. f[j].line <= f[n].line /\ (IsNewline(f[j]) /\ j # n => f[j].line < f[n].line)
    BY <2>1, <2>2 DEF LinesInOrder
  <2>4. CASE IsNewline(f[n])
    <3>1. c.line = f[n].line + 1
      BY <2>1, <2>2, <2>4 DEF NextByte, BetweenLines
    <3> QED BY <2>2, <2>3, <3>1
  <2>5. CASE ~ IsNewline(f[n])
    <3>1. c.line = f[n].line
      BY <2>1, <2>2, <2>5 DEF NextByte, BetweenLines
    <3> QED BY <2>2, <2>3, <2>5, <3>1
  <2> QED BY <2>4, <2>5
<1>3. ASSUME NEW j \in 1 .. n + 1, NEW k \in 1 .. n + 1, j < k
      PROVE  g[j].line <= g[k].line /\ (IsNewline(g[j]) => g[j].line < g[k].line)
  <2>1. j \in 1 .. n /\ g[j] = f[j]
    BY <1>1, <1>3
  <2>2. CASE k = n + 1
    BY <1>1, <1>2, <2>1, <2>2
  <2>3. CASE k # n + 1
    <3>1. k \in 1 .. n /\ g[k] = f[k]
      BY <1>1, <2>3
    <3> QED BY <1>3, <2>1, <3>1 DEF LinesInOrder
  <2> QED BY <2>2, <2>3
<1> QED BY <1>1, <1>3 DEF LinesInOrder
=============================================================================
