------------------------------ MODULE EtlZmqProofs ------------------------------
(***************************************************************************)
(* ZeroMQ mode for every value of its constants: it is type correct, it     *)
(* implements AtMostOnce, what is taken is not lost short of a kill, and    *)
(* the state file makes file mode skip nothing.                             *)
(***************************************************************************)
EXTENDS EtlZmqInvariant, SinkProofs, SequenceTheorems

-----------------------------------------------------------------------------
(* Type correctness.                                                        *)

LEMMA EmptyTyped == <<>> \in Seq(Message) /\ Len(<<>>) <= HighWater
BY ZmqAssumption

LEMMA TypeInit == Init => TypeOK /\ SendInv /\ RestInv
<1> SUFFICES ASSUME Init PROVE TypeOK /\ SendInv /\ RestInv
  OBVIOUS
<1>1. ZmqTypeOK
  <2>1. published \in 0 .. MaxMessage /\ linkFaults \in 0 .. MaxLinkFault
    BY ZmqAssumption DEF Init, ZmqInit
  <2> QED BY <2>1, EmptyTyped DEF Init, ZmqInit, NoZmqReader, ZmqTypeOK, ReaderPc
<1>2. SinkTypeOK
  BY SinkAssumption DEF Init, SinkInit, SinkMemory, SinkTypeOK, NoRows, FlushPc
<1>3. /\ mpc \in {"down", "stopped", "run", "final"}
      /\ cur \in 0 .. FileSize
      /\ saved \in [inode : {0, FileInode}, offset : 0 .. FileSize]
      /\ faults \in [crash : 0 .. MaxCrash, stop : 0 .. MaxStop, reload : 0 .. MaxReload]
  BY EtlZmqAssumption DEF Init, NoState
<1>4. SendInv /\ RestInv
  BY DEF Init, ZmqInit, NoZmqReader, SinkInit, SinkMemory, SendInv, RestInv
<1> QED BY <1>1, <1>2, <1>3, <1>4 DEF TypeOK

LEMMA PublisherTyped ==
  ASSUME ZmqTypeOK, SendInv, PublisherNext
  PROVE  ZmqTypeOK' /\ SendInv'
<1> USE ZmqAssumption DEF ZmqTypeOK, SendInv, readerVars
<1>1. CASE Publish
  <2>1. published + 1 \in Message
    BY <1>1 DEF Publish, Message
  <2>2. wire' \in Seq(Message) /\ Len(wire') <= HighWater
    BY <1>1, <2>1 DEF Publish
  <2> QED BY <1>1, <2>2 DEF Publish
<1>2. CASE Join
  BY <1>2 DEF Join
<1>3. CASE LinkDies
  BY <1>3 DEF LinkDies, LinkFault
<1> QED BY <1>1, <1>2, <1>3 DEF PublisherNext

LEMMA ReaderTyped ==
  ASSUME ZmqTypeOK, SendInv, ReaderNext
  PROVE  ZmqTypeOK' /\ SendInv'
<1> USE ZmqAssumption DEF ZmqTypeOK, SendInv, ReaderPc, publisherVars
<1>1. CASE Connect
  BY <1>1 DEF Connect, Goto, LinkFault
<1>2. CASE Subscribe
  BY <1>2 DEF Subscribe, Goto, LinkFault
<1>3. CASE Recv
  <2>1. Head(wire) \in Message /\ Tail(wire) \in Seq(Message) /\ Len(Tail(wire)) <= HighWater
    BY <1>3 DEF Recv
  <2> QED BY <1>3, <2>1 DEF Recv, Message, NoMessage
<1>4. CASE RecvGivesUp
  BY <1>4 DEF RecvGivesUp, DropSocket, Goto
<1>5. CASE Wake
  BY <1>5 DEF Wake, Goto
<1>6. CASE Send
  <2>1. msg \in Message
    BY <1>6 DEF Send
  <2> QED BY <1>6, <2>1 DEF Send, AfterSend, Goto
<1>7. CASE SendFails
  BY <1>7 DEF SendFails
<1> QED BY <1>1, <1>2, <1>3, <1>4, <1>5, <1>6, <1>7 DEF ReaderNext

LEMMA ZmqReaderDiesTyped ==
  ASSUME ZmqTypeOK, ZmqReaderDies
  PROVE  ZmqTypeOK' /\ SendInv'
BY EmptyTyped DEF ZmqTypeOK, ZmqReaderDies, ReaderPc, SendInv

LEMMA RecvMessageTyped ==
  ASSUME TypeOK, SendInv, RecvMessage
  PROVE  TypeOK' /\ SendInv'
<1> DEFINE n == Head(chan)
<1>1. n \in Message /\ Tail(chan) \in Seq(Message)
  BY DEF RecvMessage, TypeOK, ZmqTypeOK
<1>2. TableOf[n] \in Table /\ n \in Row
  BY <1>1, EtlZmqAssumption
<1>3. batches' \in [Table -> Seq(Row)] /\ fpc' \in FlushPc
  <2>1. CASE Payload[n] = "alert"
    <3>1. PushRow(TableOf[n], n)
      BY <2>1 DEF RecvMessage
    <3> QED BY <1>2, <3>1 DEF PushRow, TypeOK, SinkTypeOK, FlushPc
  <2>2. CASE Payload[n] # "alert"
    BY <2>2 DEF RecvMessage, TypeOK, SinkTypeOK
  <2> QED BY <2>1, <2>2
<1>4. SinkTypeOK'
  BY <1>3 DEF RecvMessage, TypeOK, SinkTypeOK, columnVars, rowVars
<1>5. ZmqTypeOK' /\ SendInv'
  BY <1>1 DEF RecvMessage, TypeOK, ZmqTypeOK, publisherVars, SendInv
<1> QED BY <1>4, <1>5, EtlZmqAssumption DEF RecvMessage, TypeOK, OffsetOf

\* The offset of a start and the one of a save are offsets of the file.
LEMMA StateTyped ==
  ASSUME TypeOK
  PROVE  /\ StartOffset \in 0 .. FileSize
         /\ \A state \in [inode : {0, FileInode}, offset : 0 .. FileSize] :
              SaveOutcome(state) =>
                saved' \in [inode : {0, FileInode}, offset : 0 .. FileSize]
BY EtlZmqAssumption DEF TypeOK, StartOffset, SaveOutcome

LEMMA TypeStep ==
  ASSUME TypeOK, SendInv, RestInv, [Next]_vars
  PROVE  TypeOK' /\ SendInv'
<1> USE DEF TypeOK
<1>1. CASE StartUp
  <2>1. ZmqTypeOK' /\ SendInv'
    BY <1>1 DEF StartUp, SpawnZmqReader, ZmqTypeOK, ReaderPc, SendInv, RestInv, publisherVars
  <2>2. SinkTypeOK'
    BY <1>1 DEF StartUp, sinkVars, batchVars, columnVars, flushVars, rowVars, SinkTypeOK
  <2> QED BY <1>1, <2>1, <2>2, StateTyped DEF StartUp
<1>2. CASE RecvMessage
  BY <1>2, RecvMessageTyped
<1>3. CASE RecvClosed \/ FlushTick \/ SaveState
  <2>1. ZmqTypeOK' /\ SendInv'
    BY <1>3 DEF RecvClosed, FlushTick, SaveState, publisherVars, readerVars, ZmqTypeOK, SendInv
  <2>2. SinkTypeOK'
    BY <1>3 DEF RecvClosed, FlushTick, SaveState, StartFlush, columnVars, rowVars,
                SinkTypeOK, FlushPc
  <2> QED BY <1>3, <2>1, <2>2, StateTyped
          DEF RecvClosed, FlushTick, SaveState, StateToSave, mainVars
<1>4. CASE Shutdown \/ HotReload
  <2>1. ZmqTypeOK' /\ SendInv'
    BY <1>4 DEF Shutdown, HotReload, publisherVars, readerVars, ZmqTypeOK, SendInv
  <2>2. SinkTypeOK'
    BY <1>4 DEF Shutdown, HotReload, sinkVars, batchVars, columnVars, flushVars, rowVars,
                SinkTypeOK
  <2>3. faults' \in [crash : 0 .. MaxCrash, stop : 0 .. MaxStop, reload : 0 .. MaxReload]
    BY <1>4, EtlZmqAssumption DEF Shutdown, HotReload, Once
  <2> QED BY <1>4, <2>1, <2>2, <2>3 DEF Shutdown, HotReload
<1>5. CASE Flush
  <2>1. SinkTypeOK'
    BY <1>5, FlushStepTyped DEF Flush
  <2> QED BY <1>5, <2>1 DEF Flush, publisherVars, readerVars, mainVars, ZmqTypeOK, SendInv
<1>6. CASE FinalSave
  BY <1>6, ZmqReaderDiesTyped, SinkDiesTyped, StateTyped, EtlZmqAssumption
  DEF FinalSave, StateToSave
<1>7. CASE Crash
  <2>1. faults' \in [crash : 0 .. MaxCrash, stop : 0 .. MaxStop, reload : 0 .. MaxReload]
    BY <1>7, EtlZmqAssumption DEF Crash, Once
  <2> QED BY <1>7, <2>1, ZmqReaderDiesTyped, SinkDiesTyped, EtlZmqAssumption DEF Crash
<1>8. CASE Publisher \/ Reader
  <2>1. ZmqTypeOK' /\ SendInv'
    BY <1>8, PublisherTyped, ReaderTyped DEF Publisher, Reader
  <2>2. SinkTypeOK'
    BY <1>8 DEF Publisher, Reader, sinkVars, batchVars, columnVars, flushVars, rowVars,
                SinkTypeOK
  <2> QED BY <1>8, <2>1, <2>2 DEF Publisher, Reader, mainVars
<1>9. CASE UNCHANGED vars
  BY <1>9 DEF vars, publisherVars, readerVars, sinkVars, batchVars, columnVars, flushVars,
              rowVars, mainVars, ZmqTypeOK, SinkTypeOK, SendInv
<1> QED BY <1>1, <1>2, <1>3, <1>4, <1>5, <1>6, <1>7, <1>8, <1>9 DEF Next

-----------------------------------------------------------------------------
(* The start and the end of the process.                                    *)

\* A flush runs only where there is something to do for it.
LEMMA FlushRuns ==
  ASSUME FlushStep
  PROVE  fpc # "idle"
BY DEF FlushStep, DetectColumns, AddColumns, RegisterColumns, TakeBatches, EnsureTable,
       EnsureTableFails, InsertBatch, InsertBatchFails, InsertReplyLost, Insertable

\* A channel that has ended stays so: what the task still has is not sent.
LEMMA ReaderRests ==
  ASSUME ReaderNext
  PROVE  rpc # "off" /\ (ChannelEnded => ChannelEnded')
<1> USE DEF ChannelEnded, Goto
<1>1. CASE Connect \/ Subscribe \/ Wake
  BY <1>1 DEF Connect, Subscribe, Wake
<1>2. CASE Recv \/ RecvGivesUp
  BY <1>2 DEF Recv, RecvGivesUp, DropSocket
<1>3. CASE Send \/ SendFails
  BY <1>3 DEF Send, SendFails
<1> QED BY <1>1, <1>2, <1>3 DEF ReaderNext

LEMMA RestStep ==
  ASSUME RestInv, [Next]_vars
  PROVE  RestInv'
<1> USE DEF RestInv
<1>1. CASE StartUp \/ FinalSave \/ Crash
  BY <1>1 DEF StartUp, FinalSave, Crash, ZmqReaderDies, SinkDies, SinkMemory
<1>2. CASE RecvMessage \/ Shutdown
  BY <1>2 DEF RecvMessage, Shutdown, Waiting
<1>3. CASE RecvClosed \/ FlushTick \/ SaveState
  BY <1>3 DEF RecvClosed, FlushTick, SaveState, Waiting, ChannelEnded, readerVars, mainVars
<1>4. CASE Flush
  BY <1>4, FlushRuns DEF Flush, ChannelEnded, readerVars, mainVars
<1>5. CASE HotReload
  BY <1>5 DEF HotReload, ChannelEnded, readerVars, flushVars
<1>6. CASE Publisher
  BY <1>6 DEF Publisher, PublisherNext, Publish, Join, LinkDies, ChannelEnded, readerVars,
              sinkVars, flushVars, mainVars
<1>7. CASE Reader
  BY <1>7, ReaderRests DEF Reader, sinkVars, flushVars, mainVars
<1>8. CASE UNCHANGED vars
  BY <1>8 DEF vars, ChannelEnded, readerVars, sinkVars, flushVars, mainVars
<1> QED BY <1>1, <1>2, <1>3, <1>4, <1>5, <1>6, <1>7, <1>8 DEF Next

\* ZeroMQ mode is type correct: the channel and the publisher's buffer keep
\* their bounds (the send waits for room, the publisher drops), and the state
\* file never holds an offset beyond the end of the alerts file.
THEOREM ZmqTypeCorrect == Spec => []TypeOK
<1>1. TypeOK /\ SendInv /\ RestInv /\ [Next]_vars => (TypeOK /\ SendInv /\ RestInv)'
  BY TypeStep, RestStep
<1> QED BY <1>1, TypeInit, PTL DEF Spec

-----------------------------------------------------------------------------
(* Sequences of numbers in their order.                                     *)

\* What is taken off the front of a sequence in order comes before the rest.
LEMMA IncreasingTail ==
  ASSUME NEW s \in Seq(Nat), s # <<>>, Increasing(s)
  PROVE  /\ RowsOf(s) = {Head(s)} \cup RowsOf(Tail(s))
         /\ Increasing(Tail(s))
         /\ Before({Head(s)}, RowsOf(Tail(s)))
<1>1. /\ Len(s) \in Nat /\ Len(s) > 0
      /\ Head(s) = s[1]
      /\ Len(Tail(s)) = Len(s) - 1
      /\ \A k \in 1 .. Len(Tail(s)) : Tail(s)[k] = s[k + 1]
  OBVIOUS
<1>2. RowsOf(s) \subseteq {Head(s)} \cup RowsOf(Tail(s))
  <2>1. ASSUME NEW k \in 1 .. Len(s), k # 1
        PROVE  s[k] \in RowsOf(Tail(s))
    <3>1. k - 1 \in 1 .. Len(Tail(s)) /\ Tail(s)[k - 1] = s[k]
      BY <1>1, <2>1
    <3> QED BY <3>1 DEF RowsOf
  <2> QED BY <1>1, <2>1 DEF RowsOf
<1>3. {Head(s)} \cup RowsOf(Tail(s)) \subseteq RowsOf(s)
  BY <1>1 DEF RowsOf
<1>4. Increasing(Tail(s))
  BY <1>1 DEF Increasing
<1>5. Before({Head(s)}, RowsOf(Tail(s)))
  BY <1>1 DEF Increasing, Before, RowsOf
<1> QED BY <1>2, <1>3, <1>4, <1>5

\* A number that comes after all of a sequence in order may be put at its end.
LEMMA IncreasingAppend ==
  ASSUME NEW s \in Seq(Nat), NEW n \in Nat, Increasing(s), Before(RowsOf(s), {n})
  PROVE  Increasing(Append(s, n))
<1>1. /\ Len(s) \in Nat
      /\ Len(Append(s, n)) = Len(s) + 1
      /\ \A k \in 1 .. Len(s) : Append(s, n)[k] = s[k]
      /\ Append(s, n)[Len(s) + 1] = n
  OBVIOUS
<1>2. \A k \in 1 .. Len(s) : s[k] < n
  BY DEF Before, RowsOf
<1> QED BY <1>1, <1>2 DEF Increasing

\* Messages are numbers.
LEMMA NumbersTyped ==
  ASSUME TypeOK
  PROVE  /\ wire \in Seq(Nat) /\ chan \in Seq(Nat) /\ sent \in Seq(Nat)
         /\ msg \in Nat /\ published \in Nat
<1>1. wire \in Seq(Message) /\ chan \in Seq(Message) /\ sent \in Seq(Message)
  BY DEF TypeOK, ZmqTypeOK
<1>2. Message \subseteq Nat
  BY DEF Message
<1>3. \A s \in Seq(Message) : s \in Seq(Nat)
  BY <1>2, SeqMonotonic
<1>4. msg \in Nat /\ published \in Nat
  BY ZmqAssumption DEF TypeOK, ZmqTypeOK, Message, NoMessage
<1> QED BY <1>1, <1>3, <1>4

-----------------------------------------------------------------------------
(* What a step of the publisher or of the task does to the messages.        *)

LEMMA ReaderShapes ==
  ASSUME TypeOK, SendInv, PublisherNext \/ ReaderNext
  PROVE  \/ UNCHANGED <<published, wire, msg, chan, sent>>
         \/ Publish
         \/ /\ wire # <<>> /\ wire' = Tail(wire)
            /\ msg = NoMessage /\ msg' \in {NoMessage, Head(wire)}
            /\ UNCHANGED <<published, chan, sent>>
         \/ wire' = <<>> /\ msg' = NoMessage /\ UNCHANGED <<published, chan, sent>>
         \/ Send
<1> USE DEF Goto, SendInv
<1>1. CASE Join \/ LinkDies
  BY <1>1 DEF Join, LinkDies, readerVars
<1>2. CASE Connect \/ Subscribe \/ Wake
  BY <1>2 DEF Connect, Subscribe, Wake, publisherVars
<1>3. CASE Recv
  BY <1>3 DEF Recv
<1>4. CASE RecvGivesUp \/ SendFails
  BY <1>4 DEF RecvGivesUp, SendFails, DropSocket
<1> QED BY <1>1, <1>2, <1>3, <1>4 DEF PublisherNext, ReaderNext

LEMMA SendShape ==
  ASSUME TypeOK, SendInv, Send
  PROVE  /\ chan' = Append(chan, msg)
         /\ RowsOf(chan') = RowsOf(chan) \cup {msg} /\ RowsOf(sent') = RowsOf(sent) \cup {msg}
         /\ sent' = Append(sent, msg)
         /\ msg \in InHand /\ msg' = NoMessage /\ UNCHANGED <<published, wire>>
<1>1. /\ chan' = Append(chan, msg) /\ sent' = Append(sent, msg)
      /\ msg \in InHand /\ msg' = NoMessage /\ UNCHANGED <<published, wire>>
  BY DEF Send, SendInv, AfterSend, InHand, publisherVars
<1>2. chan \in Seq(Nat) /\ sent \in Seq(Nat) /\ msg \in Nat
  BY NumbersTyped
<1>3. \A s \in Seq(Nat) : RowsOf(Append(s, msg)) = RowsOf(s) \cup {msg}
  BY <1>2, AppendedRow
<1> QED BY <1>1, <1>2, <1>3

\* The numbers stay in their order on their way to the channel.
LEMMA OrderStep ==
  ASSUME TypeOK, SendInv, OrderInv, PublisherNext \/ ReaderNext
  PROVE  OrderInv'
<1> USE DEF OrderInv, InHand, Before
<1> wire \in Seq(Nat) /\ sent \in Seq(Nat) /\ msg \in Nat /\ published \in Nat
  BY NumbersTyped
<1>1. CASE UNCHANGED <<published, wire, msg, chan, sent>>
  BY <1>1
<1>2. CASE Publish
  <2>1. /\ published' = published + 1
        /\ UNCHANGED <<msg, sent>>
        /\ wire' = wire \/ wire' = Append(wire, published + 1)
    BY <1>2 DEF Publish, readerVars
  <2>2. CASE wire' = wire
    BY <2>1, <2>2
  <2>3. CASE wire' = Append(wire, published + 1)
    <3>1. RowsOf(wire') = RowsOf(wire) \cup {published + 1}
      BY <2>3, AppendedRow
    <3>2. Increasing(wire')
      BY <2>3, IncreasingAppend
    <3>3. \A a \in RowsOf(sent) \cup InHand \cup RowsOf(wire) :
            a \in Nat /\ a < published + 1 /\ a \in 1 .. published + 1
      <4>1. RowsOf(sent) \cup InHand \cup RowsOf(wire) \subseteq 1 .. published
        BY DEF OrderInv
      <4>2. \A a \in 1 .. published : a \in Nat /\ a < published + 1 /\ a \in 1 .. published + 1
        OBVIOUS
      <4> HIDE DEF InHand, OrderInv
      <4> QED BY <4>1, <4>2
    <3>4. /\ RowsOf(sent)' = RowsOf(sent) /\ InHand' = InHand
          /\ RowsOf(wire)' = RowsOf(wire) \cup {published + 1}
          /\ published + 1 \in 1 .. published + 1
      BY <2>1, <3>1
    <3> HIDE DEF InHand
    <3> QED BY <2>1, <3>2, <3>3, <3>4
  <2> QED BY <2>1, <2>2, <2>3
<1>3. CASE /\ wire # <<>> /\ wire' = Tail(wire)
           /\ msg = NoMessage /\ msg' \in {NoMessage, Head(wire)}
           /\ UNCHANGED <<published, chan, sent>>
  <2>1. /\ RowsOf(wire) = {Head(wire)} \cup RowsOf(wire')
        /\ Increasing(wire')
        /\ \A b \in RowsOf(wire') : Head(wire) < b
    BY <1>3, IncreasingTail
  <2> QED BY <1>3, <2>1
<1>4. CASE wire' = <<>> /\ msg' = NoMessage /\ UNCHANGED <<published, chan, sent>>
  BY <1>4 DEF RowsOf, Increasing
<1>5. CASE Send
  BY <1>5, SendShape
<1> QED BY <1>1, <1>2, <1>3, <1>4, <1>5, ReaderShapes

\* A message that is sent comes after all that the main loop has and all that
\* it will take before it.
LEMMA TakenStep ==
  ASSUME TypeOK, SendInv, OrderInv, TakenInv, PublisherNext \/ ReaderNext,
         Pushed' = Pushed
  PROVE  TakenInv'
<1> USE DEF TakenInv
<1> chan \in Seq(Nat) /\ sent \in Seq(Nat) /\ msg \in Nat
  BY NumbersTyped
<1>1. CASE Send
  <2>1. /\ chan' = Append(chan, msg) /\ msg \in InHand
        /\ RowsOf(chan') = RowsOf(chan) \cup {msg} /\ RowsOf(sent') = RowsOf(sent) \cup {msg}
    BY <1>1, SendShape
  <2>2. Before(RowsOf(sent), {msg})
    BY <2>1 DEF OrderInv, Before
  <2>3. Increasing(chan')
    BY <2>1, <2>2, IncreasingAppend DEF Before
  <2> QED BY <2>1, <2>2, <2>3 DEF Before
<1>2. CASE UNCHANGED <<chan, sent>>
  BY <1>2
<1> QED BY <1>1, <1>2, ReaderShapes DEF Publish, readerVars

-----------------------------------------------------------------------------
(* The inductive invariant.                                                 *)

LEMMA InvInit == Init => ZmqInv
<1> SUFFICES ASSUME Init PROVE ZmqInv
  OBVIOUS
<1>1. /\ published = 0 /\ wire = <<>> /\ msg = NoMessage /\ chan = <<>> /\ sent = <<>>
      /\ batches = NoRows /\ work = NoRows /\ stored = {} /\ dropped = {} /\ replayed = 0
      /\ fpc = "idle" /\ cur = 0 /\ mpc = "down"
  BY DEF Init, ZmqInit, NoZmqReader, SinkInit, SinkMemory
<1>2. RowsOf(<<>>) = {} /\ Increasing(<<>>)
  BY DEF RowsOf, Increasing
<1>3. Pushed = {} /\ InHand = {}
  BY <1>1, NoRowsNew DEF Pushed, Settled, InHand
<1>4. FlushInv /\ OrderInv /\ TakenInv /\ OnceInv /\ KeptInv /\ OffsetInv
  BY <1>1, <1>2, <1>3, NoRowsNew
  DEF FlushInv, OrderInv, TakenInv, OnceInv, KeptInv, OffsetInv, Before
<1> QED BY <1>4, TypeInit DEF ZmqInv

\* The publisher and the task.
LEMMA MessagesStep ==
  ASSUME ZmqInv, Publisher \/ Reader
  PROVE  /\ FlushInv' /\ OrderInv' /\ TakenInv' /\ OnceInv' /\ KeptInv' /\ OffsetInv'
         /\ UNCHANGED <<stored, replayed, saved>>
         /\ Promise!Publish \/ Promise!Take \/ UNCHANGED Promise!vars
<1> USE DEF ZmqInv
<1>1. /\ PublisherNext \/ ReaderNext
      /\ UNCHANGED <<fpc, batches, work, stored, dropped, replayed>>
      /\ UNCHANGED <<mpc, cur, saved, faults>>
  BY DEF Publisher, Reader, sinkVars, batchVars, flushVars, rowVars, mainVars
<1>2. Pushed' = Pushed /\ NewRows(batches)' = NewRows(batches) /\ NewRows(work)' = NewRows(work)
  BY <1>1 DEF Pushed, Settled, NewRows
<1>3. OrderInv' /\ TakenInv'
  BY <1>1, <1>2, OrderStep, TakenStep
<1>4. FlushInv' /\ OnceInv' /\ OffsetInv'
  BY <1>1, <1>2 DEF FlushInv, OnceInv, OffsetInv, FirstRun
<1>5. CASE UNCHANGED <<chan, sent>> /\ (Publish \/ UNCHANGED published)
  <2>1. KeptInv'
    BY <1>1, <1>2, <1>5 DEF KeptInv
  <2>2. Promise!Publish \/ UNCHANGED Promise!vars
    BY <1>1, <1>5 DEF Promise!Publish, Promise!vars, Publish
  <2> QED BY <1>1, <1>3, <1>4, <2>1, <2>2
<1>6. CASE Send
  <2>1. /\ sent' = Append(sent, msg) /\ msg \in InHand /\ published' = published
        /\ RowsOf(chan') = RowsOf(chan) \cup {msg} /\ RowsOf(sent') = RowsOf(sent) \cup {msg}
    BY <1>6, SendShape
  <2>2. KeptInv'
    BY <1>1, <1>2, <2>1 DEF KeptInv
  <2>3. Promise!Take
    <3>1. msg \in 1 .. published /\ \A m \in RowsOf(sent) : m < msg
      BY <2>1 DEF OrderInv, Before
    <3>2. Promise!Taken = RowsOf(sent)
      BY DEF Promise!Taken, RowsOf
    <3> QED BY <1>1, <2>1, <3>1, <3>2 DEF Promise!Take
  <2> QED BY <1>1, <1>3, <1>4, <2>2, <2>3
<1> QED BY <1>1, <1>5, <1>6, ReaderShapes DEF Publish, readerVars

\* The main loop takes a message.
LEMMA RecvMessageStep ==
  ASSUME ZmqInv, RecvMessage
  PROVE  /\ FlushInv' /\ OrderInv' /\ TakenInv' /\ OnceInv' /\ KeptInv' /\ OffsetInv'
         /\ UNCHANGED <<published, sent, stored, replayed, saved>>
<1> DEFINE n == Head(chan)
<1> USE DEF ZmqInv
<1>1. /\ Waiting /\ chan # <<>> /\ chan' = Tail(chan) /\ cur' = 0
      /\ UNCHANGED <<published, wire, msg, sent, work, stored, dropped, replayed, saved, faults>>
  BY DEF RecvMessage, OffsetOf, publisherVars, rowVars
<1>2. /\ RowsOf(chan) = {n} \cup RowsOf(chan') /\ Increasing(chan')
      /\ Before({n}, RowsOf(chan'))
  BY <1>1, NumbersTyped, IncreasingTail DEF TakenInv
<1>3. n \notin Pushed
  <2>1. n \in Nat
    BY <1>1, NumbersTyped
  <2>2. n \in Pushed => n < n
    BY <1>2 DEF TakenInv, Before
  <2> QED BY <2>1, <2>2
<1>4. /\ Pushed \subseteq Pushed' /\ Pushed' \subseteq Pushed \cup {n}
      /\ Payload[n] = "alert" => n \in Pushed'
      /\ NewRows(batches)'
  <2>1. CASE Payload[n] = "alert"
    <3>1. PushRow(TableOf[n], n)
      BY <2>1 DEF RecvMessage
    <3>2. n \in Row /\ TableOf[n] \in Table
      BY <1>1, EtlZmqAssumption DEF TypeOK, ZmqTypeOK
    <3>3. SinkTypeOK /\ NewRows(batches) /\ UNCHANGED stored
      BY <1>1 DEF TypeOK, OnceInv
    <3>4. RowsIn(batches') = RowsIn(batches) \cup {n}
      BY <3>1, <3>2, <3>3, PushKeepsRows
    <3>5. NewRows(batches)'
      BY <1>3, <3>1, <3>2, <3>3, PushNew
    <3> QED BY <1>1, <3>4, <3>5 DEF Pushed, Settled
  <2>2. CASE Payload[n] # "alert"
    BY <1>1, <2>2 DEF RecvMessage, Pushed, Settled, OnceInv, NewRows
  <2> QED BY <2>1, <2>2
<1>5. FlushInv'
  BY <1>1 DEF FlushInv, Waiting, RecvMessage, PushRow
<1>6. OrderInv' /\ OffsetInv'
  BY <1>1 DEF OrderInv, OffsetInv, InHand
<1>7. TakenInv'
  BY <1>1, <1>2, <1>4 DEF TakenInv, Before
<1>8. OnceInv'
  BY <1>1, <1>4 DEF OnceInv, NewRows
<1>9. KeptInv'
  BY <1>1, <1>2, <1>4 DEF KeptInv
<1> QED BY <1>1, <1>5, <1>6, <1>7, <1>8, <1>9

\* A step of the flush.
LEMMA ZmqFlushStep ==
  ASSUME ZmqInv, Flush
  PROVE  /\ FlushInv' /\ OrderInv' /\ TakenInv' /\ OnceInv' /\ KeptInv' /\ OffsetInv'
         /\ Promise!Store /\ UNCHANGED <<replayed, saved>>
<1> USE DEF ZmqInv
<1>1. FlushStep /\ UNCHANGED <<published, wire, msg, chan, sent, cur, saved, faults>>
  BY DEF Flush, publisherVars, readerVars, mainVars
<1>2. FlushInv' /\ Pushed' = Pushed
  BY <1>1, FlushKeepsRows DEF TypeOK
<1>3. /\ OnceInv' /\ replayed' = replayed
      /\ stored \subseteq stored' /\ stored' \subseteq stored \cup RowsIn(work)
  BY <1>1, FlushStoresNew DEF TypeOK, OnceInv
<1>4. OrderInv' /\ OffsetInv' /\ TakenInv' /\ KeptInv'
  BY <1>1, <1>2 DEF OrderInv, OffsetInv, TakenInv, KeptInv, InHand, FirstRun
<1>5. Promise!Store
  <2>1. stored' \subseteq RowsOf(sent)
    BY <1>3 DEF TakenInv, Pushed, Settled
  <2>2. Promise!Taken = RowsOf(sent)
    BY DEF Promise!Taken, RowsOf
  <2> QED BY <1>1, <1>3, <2>1, <2>2 DEF Promise!Store
<1> QED BY <1>1, <1>2, <1>3, <1>4, <1>5

\* The end of the process: rows are gone that were not stored, after a kill.
LEMMA EndStep ==
  ASSUME ZmqInv, FinalSave \/ Crash
  PROVE  /\ FlushInv' /\ OrderInv' /\ TakenInv' /\ OnceInv' /\ KeptInv' /\ OffsetInv'
         /\ UNCHANGED <<published, sent, stored, replayed>>
<1> USE DEF ZmqInv
<1>1. /\ wire' = <<>> /\ msg' = NoMessage /\ chan' = <<>> /\ cur' = 0
      /\ batches' = NoRows /\ work' = NoRows
      /\ UNCHANGED <<published, sent, stored, dropped, replayed>>
  BY DEF FinalSave, Crash, ZmqReaderDies, SinkDies, SinkMemory, rowVars
<1>2. RowsOf(<<>>) = {} /\ Increasing(<<>>)
  BY DEF RowsOf, Increasing
<1>3. Pushed' = Settled /\ Settled \subseteq Pushed
  BY <1>1, NoRowsNew DEF Pushed, Settled
<1>4. FlushInv' /\ OffsetInv'
  BY <1>1 DEF FlushInv, OffsetInv
<1>5. OrderInv'
  BY <1>1, <1>2 DEF OrderInv, Before, InHand
<1>6. TakenInv'
  BY <1>1, <1>2, <1>3 DEF TakenInv, Before
<1>7. OnceInv'
  BY <1>1 DEF OnceInv, NewRows, NoRows, RowsOf
<1>8. KeptInv'
  <2>1. CASE FinalSave
    <3>1. chan = <<>> /\ batches = NoRows /\ work = NoRows /\ faults' = faults
      BY <2>1 DEF FinalSave, FlushInv, RestInv, ChannelEnded
    <3>2. Pushed = Settled
      BY <3>1, NoRowsNew DEF Pushed
    <3> QED BY <1>1, <1>2, <1>3, <3>1, <3>2 DEF KeptInv
  <2>2. CASE Crash
    <3>1. faults'.crash # 0
      BY <2>2 DEF Crash, Once, TypeOK
    <3> QED BY <3>1 DEF KeptInv
  <2> QED BY <2>1, <2>2
<1> QED BY <1>1, <1>4, <1>5, <1>6, <1>7, <1>8

\* The rest of the main loop has no part in the messages.
LEMMA LoopStep ==
  ASSUME ZmqInv,
         StartUp \/ RecvClosed \/ FlushTick \/ Shutdown \/ SaveState \/ HotReload \/ UNCHANGED vars
  PROVE  /\ FlushInv' /\ OrderInv' /\ TakenInv' /\ OnceInv' /\ KeptInv' /\ OffsetInv'
         /\ UNCHANGED <<published, sent, stored, replayed>>
<1> USE DEF ZmqInv
<1>1. UNCHANGED <<published, wire, msg, chan, sent, batches, work, stored, dropped, replayed>>
  BY DEF StartUp, SpawnZmqReader, RecvClosed, FlushTick, Shutdown, SaveState, HotReload, vars,
         publisherVars, readerVars, sinkVars, batchVars, flushVars, rowVars
<1>2. Pushed' = Pushed
  BY <1>1 DEF Pushed, Settled
<1>3. FlushInv'
  BY <1>1 DEF FlushInv, StartUp, RecvClosed, FlushTick, StartFlush, Shutdown, SaveState,
              HotReload, Waiting, vars, sinkVars, flushVars
<1>4. OrderInv' /\ TakenInv' /\ OnceInv'
  BY <1>1, <1>2 DEF OrderInv, TakenInv, OnceInv, InHand, NewRows
<1>5. KeptInv'
  <2>1. faults'.crash = faults.crash
    BY DEF StartUp, RecvClosed, FlushTick, Shutdown, SaveState, HotReload, Once, vars,
           mainVars, TypeOK
  <2> QED BY <1>1, <1>2, <2>1 DEF KeptInv
<1>6. OffsetInv'
  <2>1. CASE StartUp
    BY <2>1 DEF StartUp, SaveOutcome, StartOffset, FirstRun, OffsetInv, NoState
  <2>2. CASE SaveState
    BY <2>2, EtlZmqAssumption
    DEF SaveState, SaveOutcome, StateToSave, FirstRun, OffsetInv, NoState
  <2>3. CASE RecvClosed \/ FlushTick \/ Shutdown \/ HotReload \/ UNCHANGED vars
    BY <2>3 DEF RecvClosed, FlushTick, Shutdown, HotReload, vars, mainVars, FirstRun, OffsetInv
  <2> QED BY <2>1, <2>2, <2>3
<1> QED BY <1>1, <1>3, <1>4, <1>5, <1>6

LEMMA InvStep ==
  ASSUME ZmqInv, [Next]_vars
  PROVE  ZmqInv'
<1>1. TypeOK' /\ SendInv' /\ RestInv'
  BY TypeStep, RestStep DEF ZmqInv
<1>2. FlushInv' /\ OrderInv' /\ TakenInv' /\ OnceInv' /\ KeptInv' /\ OffsetInv'
  BY MessagesStep, RecvMessageStep, ZmqFlushStep, EndStep, LoopStep DEF Next
<1> QED BY <1>1, <1>2 DEF ZmqInv

-----------------------------------------------------------------------------
(* The promises.                                                            *)

\* The numbers of the publisher travel in their order, from the wire over the
\* task and the channel to the rows, so that no row is stored twice.
THEOREM OrderKept == Spec => []ZmqInv
BY InvInit, InvStep, PTL DEF Spec

\* What is taken is not lost short of a kill: what was put into the channel is
\* there, in a batch, in the flush or settled, also after a signal.
THEOREM TakenKept == Spec => []TakenIsKept
<1>1. ZmqInv => TakenIsKept
  BY DEF ZmqInv, KeptInv, TakenIsKept, Pushed, InFlight
<1> QED BY <1>1, OrderKept, PTL

\* Reconnects, kills, restarts and lost replies never make ZeroMQ mode take an
\* alert again, nor an older one after a newer, and ClickHouse is given no alert
\* twice: the specification implements AtMostOnce.
THEOREM ImplementsAtMostOnce == Spec => KeepsAtMostOnce
<1>1. Init => Promise!Init
  BY DEF Init, ZmqInit, SinkInit, Promise!Init
<1>2. ZmqInv /\ [Next]_vars => [Promise!Next]_Promise!vars
  <2> SUFFICES ASSUME ZmqInv, [Next]_vars
               PROVE  Promise!Next \/ UNCHANGED Promise!vars
    OBVIOUS
  <2>1. CASE Publisher \/ Reader
    BY <2>1, MessagesStep DEF Promise!Next
  <2>2. CASE Flush
    BY <2>2, ZmqFlushStep DEF Promise!Next
  <2>3. CASE ~ (Publisher \/ Reader \/ Flush)
    BY <2>3, RecvMessageStep, EndStep, LoopStep DEF Next, Promise!vars
  <2> QED BY <2>1, <2>2, <2>3
<1> QED BY <1>1, <1>2, OrderKept, PTL DEF Spec, KeepsAtMostOnce, Promise!Spec

\* The state file ZeroMQ mode leaves behind makes file mode skip nothing: the
\* offset stays what file mode left or falls back to 0, except that the first
\* start of all may put it at the end of the file, as configured.
THEOREM FileIsNotSkipped == Spec => FileNotSkipped
<1> DEFINE NotSkipped == \/ saved'.offset \in {saved.offset, 0}
                         \/ FirstRun /\ SeekToEnd /\ saved'.offset = FileSize
<1>1. ZmqInv /\ [Next]_vars => [NotSkipped]_vars
  <2> SUFFICES ASSUME ZmqInv, Next PROVE NotSkipped
    OBVIOUS
  <2>1. CASE StartUp
    BY <2>1 DEF StartUp, SaveOutcome, StartOffset
  <2>2. CASE SaveState \/ FinalSave
    BY <2>2 DEF SaveState, FinalSave, SaveOutcome, StateToSave, ZmqInv, OffsetInv
  <2>3. CASE ~ (StartUp \/ SaveState \/ FinalSave)
    BY <2>3, MessagesStep, RecvMessageStep, ZmqFlushStep
    DEF Next, RecvClosed, FlushTick, Shutdown, Crash, HotReload, mainVars
  <2> QED BY <2>1, <2>2, <2>3
<1> QED BY <1>1, OrderKept, PTL DEF Spec, FileNotSkipped

\* A custom column is registered as known only when every table known at that
\* moment has it, failed ALTER statements and reloads included.
THEOREM ColumnsRegistered == Spec => RegisteredEverywhere
<1> DEFINE Registered == \A c \in knownCols' \ knownCols : \A t \in knownTables : c \in dbCols[t]
<1>1. Init => ColumnInv
  BY DEF Init, SinkInit, SinkMemory, ColumnInv
<1>2. TypeOK /\ ColumnInv /\ [Next]_vars => ColumnInv' /\ [Registered]_sinkVars
  <2> SUFFICES ASSUME TypeOK, ColumnInv, [Next]_vars
               PROVE  ColumnInv' /\ (Registered \/ UNCHANGED sinkVars)
    OBVIOUS
  <2>1. CASE Flush
    BY <2>1, FlushKeepsColumns DEF Flush, TypeOK
  <2>2. CASE RecvMessage \/ RecvClosed \/ FlushTick \/ SaveState
    BY <2>2 DEF RecvMessage, PushRow, RecvClosed, FlushTick, SaveState, Waiting, StartFlush,
                columnVars, ColumnInv
  <2>3. CASE FinalSave \/ Crash
    BY <2>3 DEF FinalSave, Crash, SinkDies, SinkMemory, ColumnInv
  <2>4. CASE HotReload
    BY <2>4 DEF HotReload, flushVars, ColumnInv
  <2>5. CASE StartUp \/ Shutdown \/ Publisher \/ Reader \/ UNCHANGED vars
    <3>1. UNCHANGED sinkVars
      BY <2>5 DEF StartUp, Shutdown, Publisher, Reader, vars
    <3> QED BY <3>1 DEF sinkVars, columnVars, flushVars, ColumnInv
  <2> QED BY <2>1, <2>2, <2>3, <2>4, <2>5 DEF Next
<1>3. Spec => []ColumnInv
  BY <1>1, <1>2, ZmqTypeCorrect, PTL DEF Spec
<1> QED BY <1>2, <1>3, ZmqTypeCorrect, PTL DEF Spec, RegisteredEverywhere
=============================================================================
