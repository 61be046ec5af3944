----------------------------- MODULE TailingProofs -----------------------------
(***************************************************************************)
(* The tailer alone, for every value of the constants and through every     *)
(* rotation: what it sends are whole lines, its offset is the end of one,   *)
(* and no line before the offset was passed over; and of a file that is not *)
(* rotated it sends every line once and in order, which is the safety part  *)
(* of LineStream.  What the lines and the manager must be like for that is  *)
(* assumed by name: all of the log is UTF-8 (AllDecodable), and no file is  *)
(* truncated in place (NotTruncated); without either a reader does meet     *)
(* torn lines.                                                              *)
(***************************************************************************)
EXTENDS Tailing, TailerProofs

NotTruncated == MaxTruncate = 0

-----------------------------------------------------------------------------
(* The inductive invariant.                                                 *)

\* Each file is whole lines in order and the beginning of one; what is not yet
\* created is empty, and the manager closes a file at the end of a line.
FilesInv ==
  /\ \A k \in Inode : LineShape(file[k]) /\ LinesInOrder(file[k])
  /\ \A k \in Inode : made < k => file[k] = <<>>
  /\ path = NoInode => BetweenLines
  /\ path # NoInode => path = made /\ EndsWithLast(file[path])

\* The task begins at byte 0, and nobody closes the channel.
StartInv ==
  /\ initial.offset = 0
  /\ IF rpc = "off" THEN chan = <<>> ELSE rxOpen

\* A file that is not rotated is opened once, and what was sent are lines of it
\* up to the offset, in their order.
OneFileInv ==
  ~ rotates =>
    /\ path = 1 /\ made = 1
    /\ rpc = "open" => statIno = 1
    /\ goal = "initial" =>
         /\ rpc \in {"off", "stat", "open"}
         /\ rpc # "off" => initial.inode = 1
    /\ goal # "initial" =>
         /\ goal = "tailing"
         /\ rpc \in {"next_line", "send", "check_rotation"}
         /\ tailer.inode = 1 /\ tailer.fd = 1
    /\ goal = "initial" => tailer = NoTailer /\ Sent = <<>>
    /\ \A a, b \in 1 .. Len(Sent) : a < b => Sent[a].line < Sent[b].line
    /\ \A k \in 1 .. Len(Sent) :
         \E i \in Finished(file[1]) : i <= tailer.offset /\ Sent[k].line = file[1][i].line

\* What holds of the tailer through every rotation.
RotationInv ==
  /\ TypeOK /\ FilesInv /\ StartInv
  /\ OffsetIsLineEnd /\ NoTornLine /\ SentUpToOffset

-----------------------------------------------------------------------------
(* Types.                                                                   *)

LEMMA TailingInitTyped == Init => TypeOK
<1> SUFFICES ASSUME Init PROVE TypeOK
  OBVIOUS
<1>1. FsTypeOK
  BY FileAssumption, LineAssumption DEF Init, FsInit, FsTypeOK, Inode, Line
<1>2. ReaderTypeOK
  BY ReaderEndsTyped DEF Init
<1> QED BY <1>1, <1>2 DEF Init, TypeOK

LEMMA TailingStepTyped ==
  ASSUME TypeOK, [Next]_vars
  PROVE  TypeOK'
<1>1. CASE Launch
  <2>1. [inode |-> PathInode, offset |-> 0] \in TailState
    BY FileAssumption DEF TypeOK, FsTypeOK, PathInode, TailState, Inode, NoInode
  <2>2. ReaderTypeOK'
    BY <1>1, <2>1, ReaderEndsTyped DEF Launch
  <2> QED BY <1>1, <2>2 DEF Launch, TypeOK, FsTypeOK, fsVars
<1>2. CASE Manager
  <2>1. FsTypeOK'
    BY <1>2, FsStepTyped DEF Manager, TypeOK
  <2> QED BY <1>2, <2>1 DEF Manager, TypeOK, ReaderTypeOK, readerVars
<1>3. CASE Reader
  <2>1. ReaderTypeOK'
    BY <1>3, ReaderStepTyped DEF Reader, TypeOK
  <2>2. UNCHANGED fsVars
    BY <1>3 DEF Reader, ReaderNext, StatPath, OpenPath, OpenFails, ReadLine,
                ReadBlankLine, ReadUndecodable, ReadPartialLine, ReadEof,
                CheckRotation, Send, SendFails
  <2> QED BY <1>3, <2>1, <2>2 DEF Reader, TypeOK, FsTypeOK, fsVars
<1>4. CASE Receive
  <2>1. chan \in Seq(Message) /\ chan # <<>> /\ Len(chan) <= ChannelCap
    BY <1>4 DEF Receive, TypeOK, ReaderTypeOK
  <2>2. Head(chan) \in Message /\ Tail(chan) \in Seq(Message) /\ Len(Tail(chan)) <= ChannelCap
    BY <2>1, ChannelAssumption
  <2>3. received' \in Seq(Message)
    BY <1>4, <2>2 DEF Receive, TypeOK
  <2> QED BY <1>4, <2>2, <2>3 DEF Receive, TypeOK, FsTypeOK, ReaderTypeOK, fsVars
<1>5. CASE UNCHANGED vars
  BY <1>5 DEF vars, fsVars, readerVars, TypeOK, FsTypeOK, ReaderTypeOK
<1> QED BY <1>1, <1>2, <1>3, <1>4, <1>5 DEF Next

\* The tailer is type correct through every rotation and truncation.
THEOREM TailingTyped == Spec => []TypeOK
BY TailingInitTyped, TailingStepTyped, PTL DEF Spec

-----------------------------------------------------------------------------
(* The messages on their way.                                               *)

LEMMA SentTyped ==
  ASSUME TypeOK
  PROVE  /\ received \in Seq(Message) /\ chan \in Seq(Message)
         /\ received \o chan \in Seq(Message)
         /\ Sent \in Seq(Message) /\ Len(Sent) \in Nat
         /\ msg = NoMsg <=> rpc # "send"
<1>1. received \in Seq(Message) /\ chan \in Seq(Message)
  BY DEF TypeOK, ReaderTypeOK
<1>2. NoMsg \notin Message
  BY LineAssumption DEF Message, NoMsg, Line
<1>3. msg = NoMsg <=> rpc # "send"
  BY <1>2 DEF TypeOK, ReaderTypeOK
<1>4. msg # NoMsg => msg \in Message
  BY <1>3 DEF TypeOK, ReaderTypeOK
<1>5. received \o chan \in Seq(Message)
  BY <1>1
<1>6. Sent \in Seq(Message)
  <2>1. CASE msg = NoMsg
    BY <1>5, <2>1 DEF Sent
  <2>2. CASE msg # NoMsg
    <3>1. <<msg>> \in Seq(Message)
      BY <1>4, <2>2
    <3> QED BY <1>5, <2>2, <3>1 DEF Sent
  <2> QED BY <2>1, <2>2
<1> QED BY <1>1, <1>3, <1>5, <1>6

\* Only the read of a line that is not blank changes what is on its way, and
\* appends the message; a send and a receipt move messages along.
LEMMA SentStep ==
  ASSUME TypeOK, TypeOK', StartInv, [Next]_vars
  PROVE  IF rpc = "next_line" /\ rpc' = "send"
           THEN Sent' = Append(Sent, msg') /\ msg' \in Message
           ELSE Sent' = Sent
<1>1. /\ received \in Seq(Message) /\ chan \in Seq(Message)
      /\ msg = NoMsg <=> rpc # "send"
      /\ rpc = "send" => msg \in Message
  BY SentTyped DEF TypeOK, ReaderTypeOK
<1>2. msg' = NoMsg <=> rpc' # "send"
  <2>1. NoMsg \notin Message
    BY LineAssumption DEF Message, NoMsg, Line
  <2> QED BY <2>1 DEF TypeOK, ReaderTypeOK
<1>3. ASSUME UNCHANGED <<received, chan, msg>> PROVE Sent' = Sent
  BY <1>3 DEF Sent
<1>4. CASE Launch
  <2>1. chan' = chan /\ msg' = msg /\ received' = received /\ rpc = "off"
    BY <1>1, <1>4 DEF Launch, SpawnReader, StartInv
  <2> QED BY <1>3, <2>1
<1>5. CASE Receive
  <2> DEFINE m == IF msg = NoMsg THEN <<>> ELSE <<msg>>
  <2>1. received' = Append(received, Head(chan)) /\ chan' = Tail(chan)
          /\ msg' = msg /\ rpc' = rpc /\ chan # <<>>
    BY <1>5 DEF Receive
  <2>2. Append(received, Head(chan)) \o Tail(chan) = received \o chan
    <3>1. Head(chan) \in Message /\ Tail(chan) \in Seq(Message)
            /\ chan = <<Head(chan)>> \o Tail(chan) /\ <<Head(chan)>> \in Seq(Message)
      BY <1>1, <2>1
    <3>2. Append(received, Head(chan)) = received \o <<Head(chan)>>
      BY <1>1, <3>1, AppendIsConcat
    <3>3. (received \o <<Head(chan)>>) \o Tail(chan) = received \o (<<Head(chan)>> \o Tail(chan))
      BY <1>1, <3>1, ConcatAssociative
    <3> QED BY <3>1, <3>2, <3>3
  <2>3. Sent' = Sent
    BY <2>1, <2>2 DEF Sent
  <2> QED BY <2>1, <2>3
<1>6. CASE ReadLine /\ UNCHANGED received
  <2>1. rpc = "next_line" /\ rpc' = "send" /\ chan' = chan
    BY <1>6 DEF ReadLine
  <2>2. msg = NoMsg /\ msg' # NoMsg /\ msg' \in Message
    BY <1>1, <1>2, <2>1 DEF TypeOK, ReaderTypeOK
  <2>3. received \o chan \in Seq(Message) /\ (received \o chan) \o <<>> = received \o chan
    BY <1>1
  <2>4. Sent = received \o chan /\ Sent' = (received \o chan) \o <<msg'>>
    BY <1>6, <2>1, <2>2, <2>3 DEF Sent
  <2>5. Append(received \o chan, msg') = (received \o chan) \o <<msg'>>
    BY <2>2, <2>3, AppendIsConcat
  <2> QED BY <2>1, <2>2, <2>4, <2>5
<1>7. CASE Send /\ UNCHANGED received
  <2>1. rpc = "send" /\ chan' = Append(chan, msg) /\ msg' = NoMsg
          /\ msg \in Message /\ msg # NoMsg
    BY <1>1, <1>7 DEF Send
  <2>2. Append(chan, msg) = chan \o <<msg>> /\ <<msg>> \in Seq(Message)
    BY <1>1, <2>1, AppendIsConcat
  <2>3. received \o (chan \o <<msg>>) = (received \o chan) \o <<msg>>
    BY <1>1, <2>2, ConcatAssociative
  <2>4. received \o (chan \o <<msg>>) \in Seq(Message)
    BY <1>1, <2>2
  <2>5. Sent' = (received \o (chan \o <<msg>>)) \o <<>>
    BY <1>7, <2>1, <2>2 DEF Sent
  <2>6. Sent = (received \o chan) \o <<msg>>
    BY <2>1 DEF Sent
  <2> QED BY <2>1, <2>3, <2>4, <2>5, <2>6
<1>8. CASE SendFails
  BY <1>8 DEF SendFails, StartInv
<1>9. CASE (StatPath \/ OpenPath \/ OpenFails \/ ReadBlankLine \/ ReadUndecodable
              \/ ReadPartialLine \/ ReadEof \/ CheckRotation) /\ UNCHANGED received
  <2>1. UNCHANGED <<received, chan, msg>> /\ rpc' # "send"
    BY <1>9 DEF StatPath, OpenPath, OpenFails, ReadBlankLine, ReadUndecodable,
                ReadPartialLine, ReadEof, CheckRotation
  <2> QED BY <1>3, <2>1
<1>10. CASE Manager \/ UNCHANGED vars
  <2>1. UNCHANGED <<received, chan, msg, rpc>>
    BY <1>10 DEF Manager, vars, readerVars
  <2> QED BY <1>3, <2>1
<1>11. Reader => ReaderNext /\ UNCHANGED received
  BY DEF Reader
<1> QED BY <1>4, <1>5, <1>6, <1>7, <1>8, <1>9, <1>10, <1>11 DEF Next, ReaderNext

-----------------------------------------------------------------------------
(* The files.                                                               *)

\* g is f with perhaps more at its end.
Extends(g, f) == Len(f) <= Len(g) /\ \A j \in 1 .. Len(f) : g[j] = f[j]

\* What the manager does to the files, none truncated: each grows or stays as
\* it is, and all keep their shape.
LEMMA FilesStep ==
  ASSUME NotTruncated, FsTypeOK, FilesInv, FsNext
  PROVE  FilesInv' /\ \A k \in Inode : Extends(file'[k], file[k])
<1>1. CASE WriteByte
  <2>1. /\ NextByte \in Byte /\ last' = NextByte /\ path \in Inode
        /\ file'[path] = Append(file[path], NextByte)
        /\ \A k \in Inode \ {path} : file'[k] = file[k]
    BY <1>1, WrittenByte
  <2>2. file[path] \in Seq(Byte) /\ EndsWithLast(file[path]) /\ path # NoInode
    BY <1>1, <2>1 DEF WriteByte, FsTypeOK, FilesInv
  <2>3. LineShape(file'[path]) /\ LinesInOrder(file'[path])
    BY <2>1, <2>2, ByteKeepsShape, ByteKeepsOrder DEF FilesInv
  <2>4. file'[path] # <<>> /\ file'[path][Len(file'[path])] = NextByte
    BY <2>1, <2>2
  <2>5. Extends(file'[path], file[path])
    BY <2>1, <2>2 DEF Extends
  <2>6. \A k \in Inode : Extends(file'[k], file[k])
    <3>1. \A k \in Inode : Len(file[k]) \in Nat
      BY DEF FsTypeOK
    <3> QED BY <2>1, <2>5, <3>1 DEF Extends
  <2>7. path' = path /\ made' = made /\ path = made
    BY <1>1, <2>2 DEF WriteByte, FilesInv
  <2>8. \A k \in Inode : made < k => k # path
    BY <2>7 DEF FsTypeOK, Inode
  <2>9. \A k \in Inode : LineShape(file'[k]) /\ LinesInOrder(file'[k])
    BY <2>1, <2>3 DEF FilesInv
  <2>10. EndsWithLast(file[path])'
    BY <2>1, <2>4, <2>7 DEF EndsWithLast
  <2>11. \A k \in Inode : made' < k => file'[k] = <<>>
    BY <2>1, <2>7, <2>8 DEF FilesInv
  <2> QED BY <2>2, <2>6, <2>7, <2>9, <2>10, <2>11 DEF FilesInv
<1>2. ASSUME UNCHANGED file PROVE \A k \in Inode : Extends(file'[k], file[k])
  <2>1. \A k \in Inode : Len(file[k]) \in Nat
    BY DEF FsTypeOK
  <2> QED BY <1>2, <2>1 DEF Extends
<1>3. CASE RotateAway
  BY <1>2, <1>3 DEF RotateAway, FilesInv, BetweenLines
<1>4. CASE CreateFile
  <2>1. /\ path = NoInode /\ made \in Inode /\ made + 1 \in Inode
        /\ path' = made + 1 /\ made' = made + 1 /\ UNCHANGED <<file, last>>
    BY <1>4, FileAssumption DEF CreateFile, FsTypeOK, Inode
  <2>2. file[made + 1] = <<>> /\ BetweenLines
    BY <2>1 DEF FilesInv, Inode
  <2>3. EndsWithLast(file[path])'
    BY <2>1, <2>2 DEF EndsWithLast, BetweenLines
  <2>4. \A k \in Inode : made' < k => file'[k] = <<>>
    BY <2>1 DEF FilesInv, Inode
  <2>5. path' # NoInode
    BY <2>1 DEF NoInode, Inode
  <2> QED BY <1>2, <2>1, <2>3, <2>4, <2>5 DEF FilesInv
<1>5. CASE Truncate
  BY <1>5 DEF Truncate, NotTruncated, FsTypeOK
<1> QED BY <1>1, <1>3, <1>4, <1>5 DEF FsNext

\* What was read in a file stays where it was read.
LEMMA NewlinesKept ==
  ASSUME NEW f \in Seq(Byte), NEW g \in Seq(Byte), Extends(g, f)
  PROVE  /\ \A i \in 1 .. Len(f) : i \in Newlines(g) <=> i \in Newlines(f)
         /\ \A i \in 1 .. Len(f) : i \in Finished(g) <=> i \in Finished(f)
         /\ Newlines(f) \subseteq Newlines(g)
<1>1. Len(f) \in Nat /\ Len(g) \in Nat
  OBVIOUS
<1>2. \A i \in 1 .. Len(f) : i \in Newlines(g) <=> i \in Newlines(f)
  BY <1>1 DEF Extends, Newlines, IsNewline
<1>3. \A i \in 1 .. Len(f) : i \in Finished(g) <=> i \in Finished(f)
  BY <1>2 DEF Extends, Finished
<1>4. Newlines(f) \subseteq 1 .. Len(f)
  BY DEF Newlines
<1> QED BY <1>2, <1>3, <1>4

-----------------------------------------------------------------------------
(* The steps.                                                               *)

\* The tailer stands in the file it has open.
LEMMA TailerPlace ==
  ASSUME TypeOK, OffsetIsLineEnd, FilesInv
  PROVE  /\ Bytes \in Seq(Byte) /\ Len(Bytes) \in Nat
         /\ tailer.offset \in Nat /\ tailer.pos = tailer.offset
         /\ tailer.offset <= Len(Bytes)
         /\ Position(Bytes, 0, tailer.offset)
         /\ LineShape(Bytes) /\ LinesInOrder(Bytes)
<1>1. Bytes \in Seq(Byte) /\ Len(Bytes) \in Nat
  BY BytesTyped DEF TypeOK
<1>2. tailer.pos = tailer.offset /\ tailer.offset \in Newlines(Bytes) \cup {0}
        /\ tailer.offset \in Nat
  BY DEF OffsetIsLineEnd, TypeOK, ReaderTypeOK, FileTailer
<1>3. tailer.offset <= Len(Bytes)
  BY <1>1, <1>2 DEF Newlines
<1>4. LineShape(Bytes) /\ LinesInOrder(Bytes)
  <2>1. CASE tailer.fd = NoInode
    <3>1. Bytes = <<>>
      BY <2>1 DEF Bytes
    <3> QED BY <3>1 DEF LineShape, LinesInOrder
  <2>2. CASE tailer.fd # NoInode
    <3>1. tailer.fd \in Inode /\ Bytes = file[tailer.fd]
      BY <2>2 DEF Bytes, TypeOK, ReaderTypeOK, FileTailer
    <3> QED BY <3>1 DEF FilesInv
  <2> QED BY <2>1, <2>2
<1> QED BY <1>1, <1>2, <1>3, <1>4 DEF Position

\* A line read takes the tailer to its end, is read whole, and is all there is
\* between.
LEMMA LineTailed ==
  ASSUME TypeOK, OffsetIsLineEnd, FilesInv,
         NEW i \in Newlines(Bytes), EndsFirstLineAfter(Bytes, tailer.pos, i)
  PROVE  /\ AfterLine(tailer, i) = [inode |-> tailer.inode, fd |-> tailer.fd,
                                    offset |-> i, pos |-> i]
         /\ MessageAt(i).whole
         /\ MessageAt(i).line = Bytes[i].line
         /\ i \in Nat /\ tailer.offset < i
         /\ \A j \in Newlines(Bytes) : j <= i => j <= tailer.offset \/ j = i
<1>1. /\ Bytes \in Seq(Byte) /\ tailer.offset \in Nat /\ tailer.pos = tailer.offset
      /\ Position(Bytes, 0, tailer.offset) /\ LineShape(Bytes)
  BY TailerPlace
<1>2. i \in Nat /\ i \in 1 .. Len(Bytes) /\ tailer.offset < i
  BY <1>1 DEF Newlines, EndsFirstLineAfter
<1>3. AfterLine(tailer, i) = [inode |-> tailer.inode, fd |-> tailer.fd,
                              offset |-> i, pos |-> i]
  BY <1>1, <1>2 DEF AfterLine, MovedTo
<1>4. 0 <= StartOf(Bytes, i)
  <2>1. Bytes[i].nth <= i /\ Bytes[i].nth = LineLen[Bytes[i].line] /\ Bytes[i] \in Byte
    BY <1>1, <1>2 DEF LineShape, Newlines, IsNewline
  <2>2. Bytes[i].nth \in Nat
    BY <2>1 DEF Byte
  <2>3. StartOf(Bytes, i) = i - Bytes[i].nth
    BY <2>1 DEF StartOf
  <2> QED BY <1>2, <2>1, <2>2, <2>3
<1>5. tailer.pos = StartOf(Bytes, i)
  BY <1>1, <1>2, <1>4, NextLineWhole
<1>6. \A j \in Newlines(Bytes) : j \in Nat
  BY <1>1 DEF Newlines
<1>7. \A j \in Newlines(Bytes) : j <= i => j <= tailer.offset \/ j = i
  BY <1>1, <1>2, <1>6 DEF EndsFirstLineAfter
<1> QED BY <1>2, <1>3, <1>5, <1>7 DEF MessageAt, ReadsWhole

\* What is sent stays sent.
LEMMA LinesSent ==
  ASSUME TypeOK, Sent' = Sent \/ \E m \in Message : Sent' = Append(Sent, m)
  PROVE  SentLines \subseteq SentLines'
<1>1. Sent \in Seq(Message) /\ Len(Sent) \in Nat
  BY SentTyped
<1>2. CASE Sent' = Sent
  BY <1>2 DEF SentLines
<1>3. CASE \E m \in Message : Sent' = Append(Sent, m)
  <2>1. Len(Sent') = Len(Sent) + 1 /\ \A k \in 1 .. Len(Sent) : Sent'[k] = Sent[k]
    BY <1>1, <1>3
  <2> QED BY <1>1, <2>1 DEF SentLines
<1> QED BY <1>2, <1>3

\* A step that moves neither the tailer nor the messages on their way, whatever
\* the files gain.
LEMMA TailerStays ==
  ASSUME TypeOK, TypeOK', FilesInv, OffsetIsLineEnd, NoTornLine, SentUpToOffset,
         \A k \in Inode : Extends(file'[k], file[k]),
         UNCHANGED tailer, Sent' = Sent
  PROVE  OffsetIsLineEnd' /\ NoTornLine' /\ SentUpToOffset'
<1>1. /\ Bytes \in Seq(Byte) /\ Bytes' \in Seq(Byte) /\ tailer.offset \in Nat
      /\ tailer.offset <= Len(Bytes)
  <2>1. Bytes' \in Seq(Byte)
    BY DEF TypeOK, FsTypeOK, ReaderTypeOK, FileTailer, Bytes
  <2> QED BY <2>1, TailerPlace
<1>2. Extends(Bytes', Bytes)
  <2>1. CASE tailer.fd = NoInode
    BY <2>1 DEF Bytes, Extends
  <2>2. CASE tailer.fd # NoInode
    <3>1. tailer.fd \in Inode
      BY <2>2 DEF TypeOK, ReaderTypeOK, FileTailer
    <3> QED BY <2>2, <3>1 DEF Bytes
  <2> QED BY <2>1, <2>2
<1>3. /\ \A i \in 1 .. Len(Bytes) : i \in Finished(Bytes') <=> i \in Finished(Bytes)
      /\ Newlines(Bytes) \subseteq Newlines(Bytes')
  BY <1>1, <1>2, NewlinesKept
<1>4. OffsetIsLineEnd'
  BY <1>3 DEF OffsetIsLineEnd
<1>5. NoTornLine' /\ SentLines' = SentLines
  BY DEF NoTornLine, SentLines
<1>6. ASSUME NEW i \in Finished(Bytes'), i <= tailer'.offset
      PROVE  Bytes'[i].line \in SentLines'
  <2>1. i \in 1 .. Len(Bytes)
    BY <1>1, <1>6 DEF Finished, Newlines
  <2>2. i \in Finished(Bytes) /\ Bytes'[i] = Bytes[i]
    BY <1>2, <1>3, <2>1, <1>6 DEF Extends
  <2> QED BY <1>5, <1>6, <2>2 DEF SentUpToOffset
<1> QED BY <1>4, <1>5, <1>6 DEF SentUpToOffset

\* The file is left alone.
LEMMA FilesStay ==
  ASSUME FsTypeOK, FilesInv, UNCHANGED fsVars
  PROVE  FilesInv' /\ \A k \in Inode : Extends(file'[k], file[k])
<1>1. \A k \in Inode : Len(file[k]) \in Nat
  BY DEF FsTypeOK
<1>2. UNCHANGED <<file, path, made, last>>
  BY DEF fsVars
<1> QED BY <1>1, <1>2 DEF FilesInv, EndsWithLast, BetweenLines, Extends

LEMMA StartStep ==
  ASSUME StartInv, [Next]_vars
  PROVE  StartInv'
BY DEF StartInv, Next, Launch, SpawnReader, Manager, Reader, ReaderNext, Receive,
       StatPath, OpenPath, OpenFails, ReadLine, ReadBlankLine, ReadUndecodable,
       ReadPartialLine, ReadEof, CheckRotation, Send, SendFails, vars, readerVars

\* Each step of the reader: the tailer moves over the line it sends, or over a
\* blank one, or goes back to byte 0 of what it opens.
LEMMA TailerStep ==
  ASSUME AllDecodable, TypeOK, TypeOK', FilesInv, StartInv,
         OffsetIsLineEnd, NoTornLine, SentUpToOffset, Reader
  PROVE  OffsetIsLineEnd' /\ NoTornLine' /\ SentUpToOffset'
<1>1. UNCHANGED fsVars /\ UNCHANGED <<file, received>>
  BY DEF Reader, ReaderNext, StatPath, OpenPath, OpenFails, ReadLine, ReadBlankLine,
         ReadUndecodable, ReadPartialLine, ReadEof, CheckRotation, Send, SendFails,
         fsVars
<1>2. \A k \in Inode : Extends(file'[k], file[k])
  BY <1>1, FilesStay DEF TypeOK
<1>3. Sent \in Seq(Message) /\ Len(Sent) \in Nat
  BY SentTyped
<1>4. /\ Bytes \in Seq(Byte) /\ Len(Bytes) \in Nat
      /\ tailer.offset \in Nat /\ tailer.pos = tailer.offset
      /\ tailer.offset <= Len(Bytes)
  BY TailerPlace
<1>5. [Next]_vars
  BY DEF Next
<1>6. IF rpc = "next_line" /\ rpc' = "send"
        THEN Sent' = Append(Sent, msg') /\ msg' \in Message
        ELSE Sent' = Sent
  BY <1>5, SentStep
<1>7. CASE OpenPath
  <2>1. tailer'.offset = 0 /\ tailer'.pos = 0 /\ Sent' = Sent
    BY <1>6, <1>7 DEF OpenPath, OpenOffset, StartInv
  <2>2. OffsetIsLineEnd'
    BY <2>1 DEF OffsetIsLineEnd
  <2>3. NoTornLine'
    BY <2>1 DEF NoTornLine
  <2>4. \A i \in Finished(Bytes') : ~ (i <= 0)
    BY DEF Finished, Newlines
  <2> QED BY <2>1, <2>2, <2>3, <2>4 DEF SentUpToOffset
<1>8. CASE ReadLine
  <2>1. PICK i \in Newlines(Bytes) :
          /\ EndsFirstLineAfter(Bytes, tailer.pos, i)
          /\ tailer' = AfterLine(tailer, i) /\ msg' = MessageAt(i)
    BY <1>8 DEF ReadLine
  <2>2. /\ tailer' = [inode |-> tailer.inode, fd |-> tailer.fd, offset |-> i, pos |-> i]
        /\ msg'.whole /\ msg'.line = Bytes[i].line
        /\ \A j \in Newlines(Bytes) : j <= i => j <= tailer.offset \/ j = i
    BY <2>1, LineTailed
  <2>3. Bytes' = Bytes
    BY <1>1, <2>2 DEF Bytes
  <2>4. Sent' = Append(Sent, msg') /\ msg' \in Message
    BY <1>6, <1>8 DEF ReadLine
  <2>5. /\ Len(Sent') = Len(Sent) + 1 /\ Sent'[Len(Sent) + 1] = msg'
        /\ \A k \in 1 .. Len(Sent) : Sent'[k] = Sent[k]
    BY <1>3, <2>4
  <2>6. OffsetIsLineEnd'
    BY <2>2, <2>3 DEF OffsetIsLineEnd
  <2>7. NoTornLine'
    <3> SUFFICES ASSUME NEW k \in 1 .. Len(Sent') PROVE Sent'[k].whole
      BY DEF NoTornLine
    <3>1. CASE k \in 1 .. Len(Sent)
      BY <2>5, <3>1 DEF NoTornLine
    <3>2. CASE k = Len(Sent) + 1
      BY <2>2, <2>5, <3>2
    <3> QED BY <1>3, <2>5, <3>1, <3>2
  <2>8. SentLines \subseteq SentLines' /\ msg'.line \in SentLines'
    <3>1. SentLines \subseteq SentLines'
      BY <2>4, LinesSent
    <3>2. Len(Sent) + 1 \in 1 .. Len(Sent')
      BY <1>3, <2>5
    <3> QED BY <2>5, <3>1, <3>2 DEF SentLines
  <2>9. ASSUME NEW j \in Finished(Bytes), j <= i PROVE Bytes[j].line \in SentLines'
    <3>1. j \in Newlines(Bytes)
      BY DEF Finished
    <3> QED BY <2>2, <2>8, <2>9, <3>1 DEF SentUpToOffset
  <2> QED BY <2>2, <2>3, <2>6, <2>7, <2>9 DEF SentUpToOffset
<1>9. CASE ReadBlankLine
  <2>1. PICK i \in Newlines(Bytes) :
          /\ EndsFirstLineAfter(Bytes, tailer.pos, i)
          /\ Blank(i)
          /\ tailer' = AfterLine(tailer, i)
    BY <1>9 DEF ReadBlankLine
  <2>2. /\ tailer' = [inode |-> tailer.inode, fd |-> tailer.fd, offset |-> i, pos |-> i]
        /\ \A j \in Newlines(Bytes) : j <= i => j <= tailer.offset \/ j = i
    BY <2>1, LineTailed
  <2>3. Bytes' = Bytes
    BY <1>1, <2>2 DEF Bytes
  <2>4. Sent' = Sent
    BY <1>6, <1>9 DEF ReadBlankLine
  <2>5. OffsetIsLineEnd'
    BY <2>2, <2>3 DEF OffsetIsLineEnd
  <2>6. NoTornLine' /\ SentLines' = SentLines
    BY <2>4 DEF NoTornLine, SentLines
  <2>7. ASSUME NEW j \in Finished(Bytes), j <= i PROVE Bytes[j].line \in SentLines
    <3>1. j \in Newlines(Bytes) /\ j # i
      BY <2>1 DEF Finished, Blank
    <3> QED BY <2>2, <2>7, <3>1 DEF SentUpToOffset
  <2> QED BY <2>2, <2>3, <2>5, <2>6, <2>7 DEF SentUpToOffset
<1>10. CASE ReadUndecodable
  <2>1. PICK i \in Newlines(Bytes) \cup {Len(Bytes)} :
          tailer.pos < i /\ ~ LineReadable(i)
    BY <1>10 DEF ReadUndecodable
  <2>2. i \in 1 .. Len(Bytes) /\ tailer.pos + 1 \in 1 .. Len(Bytes)
    BY <1>4, <2>1 DEF Newlines
  <2>3. LineReadable(i)
    BY <1>4, <2>2, AllReadable DEF LineReadable
  <2> QED BY <2>1, <2>3
<1>11. CASE ReadPartialLine
  <2>1. tailer' = tailer
    <3>1. tailer' = [inode |-> tailer.inode, fd |-> tailer.fd,
                     offset |-> tailer.offset, pos |-> tailer.offset]
      BY <1>11 DEF ReadPartialLine, SeekBack, MovedTo
    <3> QED BY <1>4, <3>1 DEF TypeOK, ReaderTypeOK, FileTailer
  <2>2. Sent' = Sent
    BY <1>6, <1>11 DEF ReadPartialLine
  <2> QED BY <1>2, <2>1, <2>2, TailerStays
<1>12. CASE StatPath \/ OpenFails \/ ReadEof \/ CheckRotation \/ Send \/ SendFails
  <2>1. tailer' = tailer /\ ~ (rpc = "next_line" /\ rpc' = "send")
    BY <1>12 DEF StatPath, OpenFails, ReadEof, CheckRotation, Send, SendFails
  <2> QED BY <1>2, <1>6, <2>1, TailerStays
<1> QED BY <1>7, <1>8, <1>9, <1>10, <1>11, <1>12 DEF Reader, ReaderNext

LEMMA RotationInit == Init => RotationInv
<1> SUFFICES ASSUME Init PROVE RotationInv
  OBVIOUS
<1>1. TypeOK
  BY TailingInitTyped
<1>2. /\ \A k \in Inode : file[k] = <<>>
      /\ path = 1 /\ made = 1 /\ last.line = 0
      /\ tailer = NoTailer /\ initial.offset = 0 /\ rpc = "off" /\ chan = <<>>
      /\ Sent = <<>>
  BY FileAssumption DEF Init, FsInit, NoReader, NoState, Sent, Inode
<1>3. FilesInv
  BY <1>2, FileAssumption DEF FilesInv, LineShape, LinesInOrder, EndsWithLast, BetweenLines, NoInode, Inode
<1>4. StartInv /\ NoTornLine /\ OffsetIsLineEnd
  BY <1>2 DEF StartInv, NoTornLine, OffsetIsLineEnd, NoTailer
<1>5. Bytes = <<>>
  BY <1>2 DEF NoTailer, Bytes
<1>6. SentUpToOffset
  BY <1>5 DEF SentUpToOffset, Finished, Newlines
<1> QED BY <1>1, <1>3, <1>4, <1>6 DEF RotationInv

LEMMA RotationStep ==
  ASSUME AllDecodable, NotTruncated, RotationInv, [Next]_vars
  PROVE  RotationInv'
<1> USE DEF RotationInv
<1>1. TypeOK' /\ StartInv'
  BY TailingStepTyped, StartStep
<1>2. CASE Manager
  <2>1. FilesInv' /\ \A k \in Inode : Extends(file'[k], file[k])
    BY <1>2, FilesStep DEF Manager, TypeOK
  <2>2. UNCHANGED <<tailer, received, chan, msg>>
    BY <1>2 DEF Manager, readerVars
  <2>3. Sent' = Sent
    BY <2>2 DEF Sent
  <2> QED BY <1>1, <2>1, <2>2, <2>3, TailerStays
<1>3. CASE Reader
  <2>1. UNCHANGED fsVars
    BY <1>3 DEF Reader, ReaderNext, StatPath, OpenPath, OpenFails, ReadLine,
                ReadBlankLine, ReadUndecodable, ReadPartialLine, ReadEof,
                CheckRotation, Send, SendFails
  <2>2. FilesInv'
    BY <2>1, FilesStay DEF TypeOK
  <2> QED BY <1>1, <1>3, <2>2, TailerStep
<1>4. CASE Receive \/ UNCHANGED vars
  <2>1. UNCHANGED fsVars /\ tailer' = tailer /\ rpc' = rpc
    BY <1>4 DEF Receive, vars, readerVars
  <2>2. FilesInv' /\ \A k \in Inode : Extends(file'[k], file[k])
    BY <2>1, FilesStay DEF TypeOK
  <2>3. Sent' = Sent
    BY <1>1, <2>1, SentStep
  <2> QED BY <1>1, <2>1, <2>2, <2>3, TailerStays
<1>5. CASE Launch
  <2>1. UNCHANGED fsVars /\ tailer' = NoTailer /\ rpc' = "stat"
    BY <1>5 DEF Launch, SpawnReader
  <2>2. FilesInv'
    BY <2>1, FilesStay DEF TypeOK
  <2>3. Sent' = Sent
    BY <1>1, <2>1, SentStep
  <2>4. OffsetIsLineEnd' /\ NoTornLine'
    BY <2>1, <2>3 DEF OffsetIsLineEnd, NoTornLine, NoTailer
  <2>5. Bytes' = <<>>
    BY <2>1 DEF Bytes, NoTailer
  <2> QED BY <1>1, <2>2, <2>4, <2>5 DEF SentUpToOffset, Finished, Newlines
<1> QED BY <1>2, <1>3, <1>4, <1>5 DEF Next

\* Through every rotation, with the path gone or replaced between any two
\* system calls of the reader, and while the manager has half a line written:
\* each message is a whole line, the offset is the end of one, and every line
\* of the open file before the offset has been sent or is being sent.
THEOREM RotationSafe ==
  ASSUME AllDecodable, NotTruncated
  PROVE  Spec => []RotationInv
BY RotationInit, RotationStep, PTL DEF Spec

\* No message is a piece of a line.
THEOREM NoLineIsTorn ==
  ASSUME AllDecodable, NotTruncated
  PROVE  Spec => []NoTornLine
BY RotationSafe, PTL DEF RotationInv

\* The offsets that main() commits are ends of lines.
THEOREM OffsetsAreLineEnds ==
  ASSUME AllDecodable, NotTruncated
  PROVE  Spec => []OffsetIsLineEnd
BY RotationSafe, PTL DEF RotationInv

\* The offset never runs ahead of the lines sent.
THEOREM OffsetNotAhead ==
  ASSUME AllDecodable, NotTruncated
  PROVE  Spec => []SentUpToOffset
BY RotationSafe, PTL DEF RotationInv

-----------------------------------------------------------------------------
(* A file that is not rotated: LineStream.                                  *)

\* The line that is read next comes after all that were sent, and before all
\* that are still to be sent.
LEMMA NextLineDue ==
  ASSUME RotationInv, OneFileInv, ~ rotates, goal = "tailing",
         NEW i \in Newlines(Bytes), EndsFirstLineAfter(Bytes, tailer.pos, i)
  PROVE  /\ Bytes = file[1] /\ i \in Nat /\ tailer.offset < i
         /\ \A k \in 1 .. Len(Sent) : Sent[k].line < file[1][i].line
         /\ \A j \in Finished(file[1]) :
              file[1][j].line \notin SentLines => file[1][i].line <= file[1][j].line
<1> DEFINE f == file[1]
<1>1. Bytes = f /\ tailer.fd = 1
  BY DEF OneFileInv, Bytes, NoInode
<1>2. /\ f \in Seq(Byte) /\ tailer.offset \in Nat /\ tailer.pos = tailer.offset
      /\ LinesInOrder(f)
  BY <1>1, TailerPlace DEF RotationInv
<1>3. i \in 1 .. Len(f) /\ i \in Nat /\ tailer.offset < i
  BY <1>1, <1>2 DEF Newlines, EndsFirstLineAfter
<1>4. \A j \in 1 .. Len(f) : f[j] \in Byte
  BY <1>2, ElementOfSeq
<1>5. ASSUME NEW j \in 1 .. Len(f) PROVE f[j].line \in Nat
  BY <1>4 DEF Byte, Line
<1>6. ASSUME NEW k \in 1 .. Len(Sent) PROVE Sent[k].line < f[i].line
  <2>1. PICK j \in Finished(f) : j <= tailer.offset /\ Sent[k].line = f[j].line
    BY DEF OneFileInv
  <2>2. j \in 1 .. Len(f) /\ IsNewline(f[j])
    BY DEF Finished, Newlines
  <2>3. j < i
    BY <1>2, <1>3, <2>1, <2>2
  <2> QED BY <1>3, <2>1, <2>2, <2>3, <1>2 DEF LinesInOrder
<1>7. ASSUME NEW j \in Finished(f), f[j].line \notin SentLines
      PROVE  f[i].line <= f[j].line
  <2>1. j \in Newlines(f) /\ j \in 1 .. Len(f)
    BY DEF Finished, Newlines
  <2>2. ~ (j <= tailer.offset)
    BY <1>1, <1>7 DEF RotationInv, SentUpToOffset
  <2>3. i <= j
    BY <1>1, <1>2, <2>1, <2>2 DEF EndsFirstLineAfter
  <2>4. CASE i = j
    BY <1>5, <2>1, <2>4
  <2>5. CASE i < j
    BY <1>2, <1>3, <2>1, <2>5 DEF LinesInOrder
  <2> QED BY <1>3, <2>1, <2>3, <2>4, <2>5
<1> QED BY <1>1, <1>3, <1>6, <1>7

\* The messages and the tailer stay as they are, and the file gains at most.
LEMMA OneFileStays ==
  ASSUME RotationInv, OneFileInv, Sent' = Sent, UNCHANGED <<tailer, rotates>>,
         Extends(file'[1], file[1]), ~ rotates,
         file[1] \in Seq(Byte), file'[1] \in Seq(Byte)
  PROVE  \A k \in 1 .. Len(Sent') :
           \E i \in Finished(file'[1]) :
             i <= tailer'.offset /\ Sent'[k].line = file'[1][i].line
<1> SUFFICES ASSUME NEW k \in 1 .. Len(Sent)
             PROVE  \E i \in Finished(file'[1]) :
                      i <= tailer.offset /\ Sent[k].line = file'[1][i].line
  OBVIOUS
<1>1. PICK i \in Finished(file[1]) : i <= tailer.offset /\ Sent[k].line = file[1][i].line
  BY DEF OneFileInv
<1>2. i \in 1 .. Len(file[1])
  BY DEF Finished, Newlines
<1>3. i \in Finished(file'[1]) /\ file'[1][i] = file[1][i]
  BY <1>2, NewlinesKept DEF Extends
<1> QED BY <1>1, <1>3

\* A file that is not rotated grows and stays the file of the path.
LEMMA OneFileGrows ==
  ASSUME NotTruncated, RotationInv, OneFileInv, ~ rotates, Manager
  PROVE  /\ WriteByte /\ path' = 1 /\ made' = 1
         /\ Extends(file'[1], file[1])
<1>1. path = 1 /\ path' # NoInode
  BY DEF OneFileInv, Manager
<1>2. WriteByte
  BY <1>1 DEF Manager, FsNext, RotateAway, CreateFile, Truncate, NotTruncated,
              RotationInv, TypeOK, FsTypeOK, NoInode
<1>3. 1 \in Inode
  BY FileAssumption DEF Inode
<1>4. Extends(file'[1], file[1])
  BY <1>3, FilesStep DEF RotationInv, TypeOK, Manager
<1> QED BY <1>1, <1>2, <1>4 DEF WriteByte, OneFileInv

LEMMA OneFileStep ==
  ASSUME AllDecodable, NotTruncated, RotationInv, RotationInv', OneFileInv, [Next]_vars
  PROVE  OneFileInv'
<1> SUFFICES ASSUME ~ rotates' PROVE OneFileInv'
  BY DEF OneFileInv
<1>1. ~ rotates /\ UNCHANGED rotates
  BY DEF Next, Launch, Receive, Manager, Reader, vars
<1>2. 1 \in Inode /\ file[1] \in Seq(Byte) /\ file'[1] \in Seq(Byte)
  BY FileAssumption DEF RotationInv, TypeOK, FsTypeOK, Inode
<1>3. Extends(file[1], file[1])
  BY <1>2 DEF Extends
<1>4. /\ path = 1 /\ made = 1 /\ Sent \in Seq(Message) /\ Len(Sent) \in Nat
      /\ TypeOK /\ TypeOK' /\ StartInv
  BY <1>1, SentTyped DEF OneFileInv, RotationInv
<1>5. IF rpc = "next_line" /\ rpc' = "send"
        THEN Sent' = Append(Sent, msg') /\ msg' \in Message
        ELSE Sent' = Sent
  BY <1>4, SentStep
<1>6. CASE Manager
  <2>1. UNCHANGED <<tailer, received, chan, msg, rpc, goal, statIno, initial>>
    BY <1>6 DEF Manager, readerVars
  <2>2. Sent' = Sent
    BY <2>1 DEF Sent
  <2>3. path' = 1 /\ made' = 1 /\ Extends(file'[1], file[1])
    BY <1>1, <1>6, OneFileGrows
  <2>4. \A k \in 1 .. Len(Sent') :
          \E i \in Finished(file'[1]) :
            i <= tailer'.offset /\ Sent'[k].line = file'[1][i].line
    BY <1>1, <1>2, <2>1, <2>2, <2>3, OneFileStays
  <2> QED BY <1>1, <2>1, <2>2, <2>3, <2>4 DEF OneFileInv
<1>7. ASSUME Sent' = Sent, UNCHANGED <<tailer, fsVars>>
      PROVE  \A k \in 1 .. Len(Sent') :
               \E i \in Finished(file'[1]) :
                 i <= tailer'.offset /\ Sent'[k].line = file'[1][i].line
  BY <1>1, <1>2, <1>3, <1>7, OneFileStays DEF fsVars
<1>8. CASE Receive \/ UNCHANGED vars
  <2>1. UNCHANGED <<tailer, fsVars, rpc, goal, statIno, initial>>
    BY <1>8 DEF Receive, vars, readerVars
  <2>2. Sent' = Sent
    BY <1>5, <2>1
  <2> QED BY <1>1, <1>4, <1>7, <2>1, <2>2 DEF OneFileInv, fsVars
<1>9. CASE Launch
  <2>1. /\ rpc = "off" /\ rpc' = "stat" /\ goal' = "initial" /\ tailer' = NoTailer
        /\ initial'.inode = 1 /\ UNCHANGED fsVars
    BY <1>4, <1>9 DEF Launch, SpawnReader, PathInode
  <2>2. goal = "initial" /\ Sent' = Sent /\ tailer = NoTailer
    BY <1>1, <1>5, <2>1 DEF OneFileInv
  <2> QED BY <1>1, <1>4, <1>7, <2>1, <2>2 DEF OneFileInv, fsVars
<1>10. CASE Reader
  <2>1. UNCHANGED <<fsVars, initial>> /\ path' = 1 /\ made' = 1 /\ file' = file
    BY <1>4, <1>10
    DEF Reader, ReaderNext, StatPath, OpenPath, OpenFails, ReadLine, ReadBlankLine,
        ReadUndecodable, ReadPartialLine, ReadEof, CheckRotation, Send, SendFails,
        fsVars
  <2>2. CASE StatPath
    BY <1>1, <1>4, <1>5, <1>7, <2>1, <2>2 DEF StatPath, PathInode, OneFileInv
  <2>3. CASE OpenFails
    BY <1>4, <2>3 DEF OpenFails, NoInode
  <2>4. CASE OpenPath
    <3>1. goal = "initial" /\ statIno = 1 /\ initial.inode = 1
      BY <1>1, <2>4 DEF OpenPath, OneFileInv
    <3>2. /\ ~ RotatedWhileStopped /\ rpc' = "next_line" /\ goal' = "tailing"
          /\ tailer'.fd = 1 /\ tailer'.inode = 1 /\ rpc = "open"
      BY <1>4, <2>4, <3>1 DEF OpenPath, RotatedWhileStopped
    <3>3. Sent' = <<>>
      BY <1>1, <1>5, <3>1, <3>2 DEF OneFileInv
    <3> QED BY <1>1, <2>1, <3>2, <3>3 DEF OneFileInv
  <2>5. ASSUME rpc \in {"next_line", "send", "check_rotation"}
        PROVE  goal = "tailing" /\ tailer.inode = 1 /\ tailer.fd = 1
    BY <1>1, <2>5 DEF OneFileInv
  <2>6. CASE ReadLine
    <3>1. PICK i \in Newlines(Bytes) :
            /\ EndsFirstLineAfter(Bytes, tailer.pos, i) /\ ~ Blank(i)
            /\ tailer' = AfterLine(tailer, i) /\ msg' = MessageAt(i)
      BY <2>6 DEF ReadLine
    <3>2. rpc = "next_line" /\ rpc' = "send" /\ goal = "tailing" /\ goal' = goal
            /\ tailer.inode = 1 /\ tailer.fd = 1
      BY <2>5, <2>6 DEF ReadLine
    <3>3. tailer' = [inode |-> 1, fd |-> 1, offset |-> i, pos |-> i]
            /\ msg'.line = Bytes[i].line
      BY <3>1, <3>2, LineTailed DEF RotationInv
    <3>4. /\ Bytes = file[1] /\ i \in Nat /\ tailer.offset < i
          /\ \A k \in 1 .. Len(Sent) : Sent[k].line < file[1][i].line
      BY <1>1, <3>1, <3>2, NextLineDue
    <3>5. i \in Finished(file[1])
      BY <3>1, <3>4 DEF Finished, Blank
    <3>6. /\ Len(Sent') = Len(Sent) + 1 /\ Sent'[Len(Sent) + 1] = msg'
          /\ \A k \in 1 .. Len(Sent) : Sent'[k] = Sent[k]
      BY <1>4, <1>5, <3>2
    <3>7. ASSUME NEW a \in 1 .. Len(Sent'), NEW b \in 1 .. Len(Sent'), a < b
          PROVE  Sent'[a].line < Sent'[b].line
      <4>1. a \in 1 .. Len(Sent)
        BY <1>4, <3>6, <3>7
      <4>2. CASE b = Len(Sent) + 1
        BY <3>3, <3>4, <3>6, <4>1, <4>2
      <4>3. CASE b # Len(Sent) + 1
        <5>1. b \in 1 .. Len(Sent)
          BY <1>4, <3>6, <4>3
        <5> QED BY <1>1, <3>6, <3>7, <4>1, <5>1 DEF OneFileInv
      <4> QED BY <4>2, <4>3
    <3>8. ASSUME NEW k \in 1 .. Len(Sent')
          PROVE  \E j \in Finished(file[1]) : j <= i /\ Sent'[k].line = file[1][j].line
      <4>1. CASE k = Len(Sent) + 1
        BY <3>3, <3>4, <3>5, <3>6, <4>1
      <4>2. CASE k # Len(Sent) + 1
        <5>1. k \in 1 .. Len(Sent)
          BY <1>4, <3>6, <4>2
        <5>2. PICK j \in Finished(file[1]) :
                j <= tailer.offset /\ Sent[k].line = file[1][j].line
          BY <1>1, <5>1 DEF OneFileInv
        <5>3. j \in Nat /\ tailer.offset \in Nat
          BY TailerPlace DEF Finished, Newlines, RotationInv
        <5> QED BY <3>4, <3>6, <5>1, <5>2, <5>3
      <4> QED BY <4>1, <4>2
    <3> QED BY <1>1, <2>1, <3>2, <3>3, <3>7, <3>8 DEF OneFileInv
  <2>7. CASE ReadBlankLine
    <3>1. PICK i \in Newlines(Bytes) :
            EndsFirstLineAfter(Bytes, tailer.pos, i) /\ tailer' = AfterLine(tailer, i)
      BY <2>7 DEF ReadBlankLine
    <3>2. rpc = "next_line" /\ rpc' = rpc /\ goal = "tailing" /\ goal' = goal
            /\ tailer.inode = 1 /\ tailer.fd = 1
      BY <2>5, <2>7 DEF ReadBlankLine
    <3>3. tailer' = [inode |-> 1, fd |-> 1, offset |-> i, pos |-> i]
            /\ i \in Nat /\ tailer.offset < i
      BY <3>1, <3>2, LineTailed DEF RotationInv
    <3>4. Sent' = Sent
      BY <1>5, <3>2
    <3>5. ASSUME NEW k \in 1 .. Len(Sent)
          PROVE  \E j \in Finished(file[1]) : j <= i /\ Sent[k].line = file[1][j].line
      <4>1. PICK j \in Finished(file[1]) :
              j <= tailer.offset /\ Sent[k].line = file[1][j].line
        BY <1>1 DEF OneFileInv
      <4>2. j \in Nat /\ tailer.offset \in Nat
        BY TailerPlace DEF Finished, Newlines, RotationInv
      <4> QED BY <3>3, <4>1, <4>2
    <3> QED BY <1>1, <2>1, <3>2, <3>3, <3>4, <3>5 DEF OneFileInv
  <2>8. CASE ReadUndecodable
    <3>1. PICK i \in Newlines(Bytes) \cup {Len(Bytes)} :
            tailer.pos < i /\ ~ LineReadable(i)
      BY <2>8 DEF ReadUndecodable
    <3>2. Bytes \in Seq(Byte) /\ Len(Bytes) \in Nat /\ tailer.pos \in Nat
      BY TailerPlace DEF RotationInv
    <3>3. i \in 1 .. Len(Bytes) /\ tailer.pos + 1 \in 1 .. Len(Bytes)
      BY <3>1, <3>2 DEF Newlines
    <3> QED BY <3>1, <3>2, <3>3, AllReadable DEF LineReadable
  <2>9. ASSUME rpc \in {"next_line", "send", "check_rotation"},
               rpc' \in {"next_line", "send", "check_rotation"},
               UNCHANGED <<goal, tailer>>, Sent' = Sent
        PROVE  OneFileInv'
    BY <1>1, <1>7, <2>1, <2>5, <2>9 DEF OneFileInv
  <2>10. CASE ReadPartialLine
    <3>1. tailer.pos = tailer.offset
      BY TailerPlace DEF RotationInv
    <3>2. tailer' = tailer
      BY <2>10, <3>1
      DEF ReadPartialLine, SeekBack, MovedTo, RotationInv, TypeOK, ReaderTypeOK, FileTailer
    <3> QED BY <1>5, <2>9, <2>10, <3>2 DEF ReadPartialLine
  <2>11. CASE ReadEof
    BY <1>5, <2>9, <2>11 DEF ReadEof
  <2>12. CASE CheckRotation
    <3>1. tailer.offset \in Nat /\ tailer.offset <= Len(Bytes) /\ Len(Bytes) \in Nat
      BY TailerPlace DEF RotationInv
    <3>2. tailer.inode = 1 /\ tailer.fd = 1
      BY <2>5, <2>12 DEF CheckRotation
    <3>3. ~ Rotated /\ ~ Truncated
      BY <1>4, <3>1, <3>2 DEF Rotated, Truncated, PathSize, Bytes, NoInode
    <3> QED BY <1>5, <2>9, <2>12, <3>3 DEF CheckRotation
  <2>13. CASE Send
    BY <1>5, <2>9, <2>13 DEF Send
  <2>14. CASE SendFails
    BY <1>4, <2>14 DEF SendFails, StartInv
  <2> QED BY <1>10, <2>2, <2>3, <2>4, <2>6, <2>7, <2>8, <2>10, <2>11, <2>12, <2>13, <2>14
          DEF Reader, ReaderNext
<1> QED BY <1>6, <1>8, <1>9, <1>10 DEF Next

LEMMA OneFileInit == Init => OneFileInv
<1> SUFFICES ASSUME Init PROVE OneFileInv
  OBVIOUS
<1>1. Sent = <<>>
  BY DEF Init, NoReader, Sent
<1> QED BY <1>1 DEF Init, FsInit, NoReader, OneFileInv

LEMMA LinesOfAppend ==
  ASSUME NEW s \in Seq(Message), NEW m \in Message
  PROVE  LinesOf(Append(s, m)) = Append(LinesOf(s), m.line)
<1>1. Len(s) \in Nat /\ Len(Append(s, m)) = Len(s) + 1
        /\ (\A k \in 1 .. Len(s) : Append(s, m)[k] = s[k]) /\ Append(s, m)[Len(s) + 1] = m
  OBVIOUS
<1>2. \A k \in 1 .. Len(s) : s[k].line \in Line
  <2>1. \A k \in 1 .. Len(s) : s[k] \in Message
    BY ElementOfSeq
  <2> QED BY <2>1 DEF Message
<1>3. LinesOf(s) \in Seq(Line) /\ Len(LinesOf(s)) = Len(s)
        /\ \A k \in 1 .. Len(s) : LinesOf(s)[k] = s[k].line
  BY <1>1, <1>2 DEF LinesOf
<1>4. m.line \in Line
  BY DEF Message
<1>5. Append(LinesOf(s), m.line) \in Seq(Line)
        /\ Len(Append(LinesOf(s), m.line)) = Len(s) + 1
        /\ (\A k \in 1 .. Len(s) : Append(LinesOf(s), m.line)[k] = s[k].line)
        /\ Append(LinesOf(s), m.line)[Len(s) + 1] = m.line
  BY <1>3, <1>4
<1>6. \A k \in 1 .. Len(s) + 1 : Append(s, m)[k].line \in Line
  BY <1>1, <1>2, <1>4
<1>7. LinesOf(Append(s, m)) \in Seq(Line)
        /\ Len(LinesOf(Append(s, m))) = Len(s) + 1
        /\ \A k \in 1 .. Len(s) + 1 : LinesOf(Append(s, m))[k] = Append(s, m)[k].line
  BY <1>1, <1>6 DEF LinesOf
<1>8. \A k \in 1 .. Len(s) + 1 : LinesOf(Append(s, m))[k] = Append(LinesOf(s), m.line)[k]
  BY <1>1, <1>5, <1>7
<1> QED BY <1>5, <1>7, <1>8, SeqEqual

\* What LineStream calls due is what is finished and not yet on its way.
LEMMA DueLines ==
  ASSUME TypeOK, ~ rotates
  PROVE  Stream!Due = FinishedLines(file[1]) \ SentLines
<1>1. Sent \in Seq(Message) /\ Len(Sent) \in Nat
  BY SentTyped
<1>2. {LinesOf(Sent)[k] : k \in 1 .. Len(LinesOf(Sent))} = SentLines
  BY <1>1 DEF LinesOf, SentLines
<1> QED BY <1>2 DEF Stream!Due

\* The manager's byte finishes no line, a blank one, or the one after all that
\* were finished before.
LEMMA WriteStep ==
  ASSUME NotTruncated, RotationInv, OneFileInv, ~ rotates, Manager
  PROVE  [Stream!Next]_(Stream!vars)
<1> DEFINE f == file[1]
           g == file'[1]
           n == Len(file[1])
           c == NextByte
<1>1. WriteByte /\ path' = 1 /\ path = 1
  BY OneFileGrows DEF OneFileInv
<1>2. f \in Seq(Byte) /\ n \in Nat /\ c \in Byte /\ g = Append(f, c)
  <2>1. 1 \in Inode
    BY FileAssumption DEF Inode
  <2>2. f \in Seq(Byte)
    BY <2>1 DEF RotationInv, TypeOK, FsTypeOK
  <2>3. c \in Byte /\ g = Append(f, c)
    BY <1>1, WrittenByte DEF RotationInv, TypeOK
  <2> QED BY <2>2, <2>3
<1>3. UNCHANGED <<received, chan, msg, rotates>>
  BY DEF Manager, readerVars
<1>4. Sent' = Sent
  BY <1>3 DEF Sent
<1>5. /\ Len(g) = n + 1 /\ g[n + 1] = c
      /\ \A k \in 1 .. n : g[k] = f[k]
  BY <1>2
<1>6. \A k \in 1 .. n : k \in Finished(g) <=> k \in Finished(f)
  <2>1. Extends(g, f) /\ g \in Seq(Byte)
    BY <1>2, <1>5 DEF Extends
  <2> QED BY <1>2, <2>1, NewlinesKept
<1>7. FinishedLines(g) =
        FinishedLines(f) \cup (IF n + 1 \in Finished(g) THEN {c.line} ELSE {})
  <2>1. \A k \in Finished(g) : k \in 1 .. n \/ k = n + 1
    BY <1>2, <1>5 DEF Finished, Newlines
  <2>2. \A k \in Finished(f) : k \in 1 .. n
    BY DEF Finished, Newlines
  <2> QED BY <1>5, <1>6, <2>1, <2>2 DEF FinishedLines
<1>8. ASSUME NEW l \in FinishedLines(f) PROVE l < c.line
  <2>1. PICK k \in Finished(f) : l = f[k].line
    BY <1>8 DEF FinishedLines
  <2>2. k \in 1 .. n /\ IsNewline(f[k])
    BY DEF Finished, Newlines
  <2>3. LinesInOrder(g)
    <3>1. LinesInOrder(f) /\ EndsWithLast(f)
      BY <1>1, FileAssumption DEF RotationInv, FilesInv, NoInode, Inode
    <3> QED BY <1>2, <3>1, ByteKeepsOrder
  <2>4. k \in 1 .. Len(g) /\ n + 1 \in 1 .. Len(g) /\ k < n + 1
    BY <1>2, <1>5, <2>2
  <2>5. g[k] = f[k] /\ IsNewline(g[k])
    BY <1>5, <2>2
  <2> QED BY <1>5, <2>1, <2>3, <2>4, <2>5 DEF LinesInOrder
<1>9. c.line \in Line
  BY <1>2 DEF Byte
<1>10. CASE n + 1 \in Finished(g)
  <2>1. Stream!Write(c.line)
    BY <1>3, <1>4, <1>7, <1>8, <1>10 DEF Stream!Write
  <2> QED BY <1>9, <2>1 DEF Stream!Next
<1>11. CASE n + 1 \notin Finished(g)
  <2>1. FinishedLines(file'[1]) = FinishedLines(file[1])
    BY <1>7, <1>11
  <2> QED BY <1>3, <1>4, <2>1 DEF Stream!vars
<1> QED BY <1>10, <1>11

\* The reader hands over the first line that is due.
LEMMA DeliverStep ==
  ASSUME TypeOK', RotationInv, OneFileInv, ~ rotates, ReadLine,
         UNCHANGED <<received, rotates>>
  PROVE  Stream!Deliver
<1>1. rpc = "next_line" /\ rpc' = "send" /\ goal = "tailing" /\ file' = file
  BY DEF ReadLine, OneFileInv, fsVars
<1>2. PICK i \in Newlines(Bytes) :
        /\ EndsFirstLineAfter(Bytes, tailer.pos, i) /\ ~ Blank(i) /\ msg' = MessageAt(i)
        /\ tailer' = AfterLine(tailer, i)
  BY DEF ReadLine
<1>3. /\ Bytes = file[1] /\ i \in Nat /\ tailer.offset < i
      /\ \A k \in 1 .. Len(Sent) : Sent[k].line < file[1][i].line
      /\ \A j \in Finished(file[1]) :
           file[1][j].line \notin SentLines => file[1][i].line <= file[1][j].line
  BY <1>1, <1>2, NextLineDue
<1>4. Sent' = Append(Sent, msg') /\ msg' \in Message
  <2>1. [Next]_vars
    BY DEF Next, Reader, ReaderNext
  <2> QED BY <1>1, <2>1, SentStep DEF RotationInv
<1>5. msg'.line = file[1][i].line
  BY <1>2, <1>3, LineTailed DEF RotationInv
<1>6. Sent \in Seq(Message)
  BY SentTyped DEF RotationInv
<1>7. LinesOf(Sent)' = Append(LinesOf(Sent), msg'.line)
  BY <1>4, <1>6, LinesOfAppend DEF LinesOf
<1>8. Stream!Due = FinishedLines(file[1]) \ SentLines
  BY DueLines DEF RotationInv
<1>9. i \in Finished(file[1])
  BY <1>2, <1>3 DEF Finished, Blank
<1>10. msg'.line \in Stream!Due
  <2>1. msg'.line \in FinishedLines(file[1])
    BY <1>5, <1>9 DEF FinishedLines
  <2>2. msg'.line \notin SentLines
    <3> SUFFICES ASSUME NEW k \in 1 .. Len(Sent), Sent[k].line = msg'.line PROVE FALSE
      BY DEF SentLines
    <3>1. Sent[k].line < msg'.line /\ msg'.line \in Nat
      BY <1>3, <1>4, <1>5 DEF Message, Line
    <3> QED BY <3>1
  <2> QED BY <1>8, <2>1, <2>2
<1>11. \A l \in Stream!Due : msg'.line <= l
  BY <1>3, <1>5, <1>8 DEF FinishedLines
<1>12. FinishedLines(file[1])' = FinishedLines(file[1])
  BY <1>1 DEF FinishedLines
<1> QED BY <1>7, <1>10, <1>11, <1>12 DEF Stream!Deliver

\* Every other step leaves the stream as it is.
LEMMA StreamStep ==
  ASSUME NotTruncated, TypeOK', RotationInv, OneFileInv, [Next]_vars
  PROVE  [Stream!Next]_(Stream!vars)
<1>1. UNCHANGED rotates
  BY DEF Next, Launch, Receive, Manager, Reader, vars
<1>2. CASE rotates
  BY <1>1, <1>2 DEF Stream!vars
<1>3. CASE ~ rotates /\ Manager
  BY <1>3, WriteStep
<1>4. CASE ~ rotates /\ Reader /\ ReadLine
  BY <1>4, DeliverStep DEF Stream!Next, Reader
<1>5. CASE ~ rotates /\ ~ Manager /\ ~ (Reader /\ ReadLine)
  <2>1. file' = file /\ ~ (rpc = "next_line" /\ rpc' = "send")
    BY <1>5
    DEF Next, Launch, Receive, Reader, ReaderNext, SpawnReader, vars, readerVars, fsVars,
        StatPath, OpenPath, OpenFails, ReadBlankLine, ReadUndecodable,
        ReadPartialLine, ReadEof, CheckRotation, Send, SendFails
  <2>2. Sent' = Sent
    BY <2>1, SentStep DEF RotationInv
  <2> QED BY <1>1, <2>1, <2>2 DEF Stream!vars
<1> QED BY <1>2, <1>3, <1>4, <1>5

LEMMA StreamInit == Init => Stream!Init
<1> SUFFICES ASSUME Init PROVE Stream!Init
  OBVIOUS
<1>1. Sent = <<>>
  BY DEF Init, NoReader, Sent
<1>2. LinesOf(Sent) = <<>>
  BY <1>1 DEF LinesOf
<1>3. file[1] = <<>>
  BY FileAssumption DEF Init, FsInit, Inode
<1>4. FinishedLines(file[1]) = {}
  BY <1>3 DEF FinishedLines, Finished, Newlines
<1> QED BY <1>2, <1>4 DEF Stream!Init

\* The safety part of StreamsLines: of a file that is not rotated the receiver
\* is handed every finished line that is not blank, none twice and in the order
\* of the file, whatever the timing of the writer, the polls and the receiver.
THEOREM StreamsInOrder ==
  ASSUME AllDecodable, NotTruncated
  PROVE  Spec => Stream!Safety
<1>1. Spec => [](RotationInv /\ OneFileInv)
  BY RotationInit, RotationStep, OneFileInit, OneFileStep, PTL DEF Spec
<1>2. RotationInv /\ RotationInv' /\ OneFileInv /\ [Next]_vars => [Stream!Next]_(Stream!vars)
  BY StreamStep DEF RotationInv
<1> QED BY <1>1, <1>2, StreamInit, PTL DEF Spec, Stream!Safety
=============================================================================
