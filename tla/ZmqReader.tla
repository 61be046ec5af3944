------------------------------- MODULE ZmqReader -------------------------------
(***************************************************************************)
(* zmq_reader_task of src/input/zmq.rs, the reader of ZeroMQ mode: connect, *)
(* subscribe, then receive with a time-out and send every payload into the  *)
(* channel; whatever goes wrong drops the socket, and after a pause a new   *)
(* one is connected.                                                        *)
(*                                                                         *)
(* The publisher (wazuh-analysisd) is external: it numbers the alerts it    *)
(* publishes 1, 2, ... and waits for nobody.  A message reaches the socket  *)
(* only if the publisher knows of the subscription and its buffer for this  *)
(* subscriber, of HighWater messages, has room.  The channel is a sequence  *)
(* of message numbers: the offset sent with each is 0.                      *)
(***************************************************************************)
EXTENDS Naturals, Sequences

CONSTANTS
  MaxMessage,     \* how many messages are published in a behaviour
  Payload,        \* Payload[n]: what message n holds
  HighWater,      \* the messages the publisher keeps for a subscriber
  ChannelCap,     \* CHANNEL_CAP
  MaxLinkFault    \* how often a connect, a subscribe or the link fails

Message == 1 .. MaxMessage
NoMessage == 0

ASSUME ZmqAssumption ==
  /\ MaxMessage \in Nat
  /\ Payload \in [Message -> {"alert", "junk", "blank"}]
  /\ HighWater \in Nat \ {0}
  /\ ChannelCap \in Nat \ {0}
  /\ MaxLinkFault \in Nat

VARIABLES
  published,    \* how many messages have been published
  link,         \* "none": no subscription; "joining": the publisher has not
                \* heard of it; "up"; "dead": gone, and nobody has been told
  wire,         \* the messages on their way to recv(), or waiting for it
  linkFaults,   \* how many link faults there have been
  rpc,          \* the statement of the task in turn, "off" without a process
  msg,          \* the message being sent
  chan,         \* the bounded channel
  rxOpen,       \* the receiver has not been closed
  sent          \* every message put into a channel so far, oldest first

publisherVars == <<published, link, wire, linkFaults>>
readerVars == <<rpc, msg, chan, rxOpen, sent>>

ReaderPc == {"off", "connect", "subscribe", "recv", "send", "sleep", "returned"}

ZmqTypeOK ==
  /\ published \in 0 .. MaxMessage
  /\ link \in {"none", "joining", "up", "dead"}
  /\ wire \in Seq(Message) /\ Len(wire) <= HighWater
  /\ linkFaults \in 0 .. MaxLinkFault
  /\ rpc \in ReaderPc
  /\ msg \in Message \cup {NoMessage}
  /\ chan \in Seq(Message)
  /\ rxOpen \in BOOLEAN
  /\ sent \in Seq(Message)

\* The socket and the task go with the process.
NoZmqReader ==
  /\ link = "none" /\ wire = <<>>
  /\ rpc = "off" /\ msg = NoMessage /\ chan = <<>> /\ rxOpen = FALSE

ZmqInit == NoZmqReader /\ published = 0 /\ linkFaults = 0 /\ sent = <<>>

ZmqReaderDies ==
  /\ link' = "none" /\ wire' = <<>>
  /\ rpc' = "off" /\ msg' = NoMessage /\ chan' = <<>> /\ rxOpen' = FALSE
  /\ UNCHANGED <<published, linkFaults, sent>>

SpawnZmqReader ==
  /\ rpc' = "connect" /\ rxOpen' = TRUE
  /\ UNCHANGED <<publisherVars, msg, chan, sent>>

-----------------------------------------------------------------------------
(* The publisher and the network.                                           *)

Publish ==
  /\ published < MaxMessage
  /\ published' = published + 1
  /\ wire' = IF link = "up" /\ Len(wire) < HighWater
               THEN Append(wire, published + 1) ELSE wire
  /\ UNCHANGED <<link, linkFaults, readerVars>>

\* The publisher takes note of the subscription.
Join ==
  /\ link = "joining"
  /\ link' = "up"
  /\ UNCHANGED <<published, wire, linkFaults, readerVars>>

LinkFault == linkFaults < MaxLinkFault /\ linkFaults' = linkFaults + 1

\* The peer goes away and the socket stays as it is (CLOSE-WAIT).
LinkDies ==
  /\ link \in {"joining", "up"}
  /\ LinkFault
  /\ link' = "dead"
  /\ UNCHANGED <<published, wire, readerVars>>

PublisherNext == Publish \/ Join \/ LinkDies

-----------------------------------------------------------------------------
(* The task.                                                                *)

Goto(pc) == rpc' = pc /\ UNCHANGED <<msg, chan, rxOpen, sent>>

Connect ==
  /\ rpc = "connect"
  /\ \/ Goto("subscribe") /\ UNCHANGED publisherVars
     \/ Goto("sleep") /\ LinkFault /\ UNCHANGED <<published, link, wire>>

Subscribe ==
  /\ rpc = "subscribe"
  /\ \/ Goto("recv") /\ link' = "joining" /\ UNCHANGED <<published, wire, linkFaults>>
     \/ Goto("sleep") /\ LinkFault /\ UNCHANGED <<published, link, wire>>

\* (mutant) The payload is looked for in the topic frame.
TopicTaken(n) == TRUE

\* No frame is UTF-8, or nothing is left of it after trim().
Empty(n) == Payload[n] = "blank"

Recv ==
  /\ rpc = "recv"
  /\ wire # <<>>
  /\ wire' = Tail(wire)
  /\ IF Empty(Head(wire)) THEN UNCHANGED <<rpc, msg>>
     ELSE rpc' = "send" /\ msg' = Head(wire)
  /\ UNCHANGED <<published, link, linkFaults, chan, rxOpen, sent>>

\* (mutant) A time-out goes back to recv() on the same socket.
KeepSocket == Goto("recv") /\ UNCHANGED publisherVars

\* The socket is dropped, and the subscription with it.
DropSocket ==
  /\ Goto("sleep")
  /\ link' = "none" /\ wire' = <<>>
  /\ UNCHANGED <<published, linkFaults>>

\* RECV_TIMEOUT_SECS pass, be the link dead or only quiet; or recv() fails.
RecvGivesUp ==
  /\ rpc = "recv"
  /\ wire = <<>>
  /\ DropSocket

Wake ==
  /\ rpc = "sleep"
  /\ Goto("connect") /\ UNCHANGED publisherVars

\* (mutant) The message is kept after it was sent.
AfterSendAgain == rpc' = "send" /\ msg' = msg

AfterSend == rpc' = "recv" /\ msg' = NoMessage

Send ==
  /\ rpc = "send"
  /\ rxOpen
  /\ Len(chan) < ChannelCap
  /\ chan' = Append(chan, msg)
  /\ sent' = Append(sent, msg)
  /\ AfterSend
  /\ UNCHANGED <<publisherVars, rxOpen>>

\* The receiver is closed: the task returns, and drops its socket.
SendFails ==
  /\ rpc = "send"
  /\ ~ rxOpen
  /\ rpc' = "returned" /\ msg' = NoMessage
  /\ link' = "none" /\ wire' = <<>>
  /\ UNCHANGED <<published, linkFaults, chan, rxOpen, sent>>

ReaderNext ==
  \/ Connect \/ Subscribe \/ Recv \/ RecvGivesUp \/ Wake \/ Send \/ SendFails
=============================================================================
