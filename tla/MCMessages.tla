----------------------------- MODULE MCMessages -----------------------------
(***************************************************************************)
(* Every topic, payload and standard input, and every pair of a topic and  *)
(* a filter of MCTopicMatch, up to a bound, to compare what arrives with   *)
(* what was sent.  For the wire a filter is a topic like any other, and    *)
(* with an input one topic of each length will do.                         *)
(***************************************************************************)
EXTENDS MCTopicMatch, PubStdin, SubPrint, SequencesExt

CONSTANTS MaxTopic, MaxPayload, MaxInput   \* bounds on the lengths of each

VARIABLES topic, payload, input

mvars == <<pub, sub, topic, payload, input>>

MInit == Init /\ topic = <<>> /\ payload = <<>> /\ input = <<>>

GrowParts == topic = <<>> /\ payload = <<>> /\ input = <<>> /\ Next /\ UNCHANGED <<topic, payload, input>>

GrowTopic ==
  /\ pub = <<>> /\ sub = <<>> /\ payload = <<>> /\ input = <<>> /\ Len(topic) < MaxTopic
  /\ \E b \in {"/", "a"} : topic' = Append(topic, b)
  /\ UNCHANGED <<pub, sub, payload, input>>

GrowPayload ==
  /\ pub = <<>> /\ sub = <<>> /\ input = <<>> /\ Len(payload) < MaxPayload
  /\ \E b \in {NUL, "x"} : payload' = Append(payload, b)
  /\ UNCHANGED <<pub, sub, topic, input>>

GrowInput ==
  /\ pub = <<>> /\ sub = <<>> /\ payload = <<>> /\ Len(input) < MaxInput
  /\ \A i \in DOMAIN topic : topic[i] = "/"
  /\ \E b \in {NL, "x", "y"} : input' = Append(input, b)
  /\ UNCHANGED <<pub, sub, topic, payload>>

MNext == GrowParts \/ GrowTopic \/ GrowPayload \/ GrowInput
MSpec == MInit /\ [][MNext]_mvars
-----------------------------------------------------------------------------
\* What the last message left in a receiver's buffer: anything.
Stale == [i \in 1 .. MsgMax |-> "z"]

AtBroker(m) == Received(m, Cleared)
AtClient(m) == Received(m, Stale)

(***************************************************************************)
(* What psmq_publish accepts, the broker accepts, and a subscriber reads   *)
(* the topic and payload that were published, NULs in the payload and      *)
(* leftovers in its buffer notwithstanding, although only the bytes that   *)
(* psmq_real_msg_size counts cross the queues (psmq-common.h:62,           *)
(* broker.c:995-1011).                                                     *)
(***************************************************************************)
PublishArrives ==
  LET request == AtBroker(PublishMsg(0, topic, payload))
      message == AtClient(Forwarded(request))
  IN  PublishOK(topic, payload) =>
        /\ BrokerAccepts(request)
        /\ Topic(message) = topic /\ Payload(message) = payload

(***************************************************************************)
(* So do subscriptions, reply timeouts and slot numbers, whose bytes the   *)
(* same macro counts as if they were text (broker.c:257-300, 807-842).     *)
(***************************************************************************)
RequestsArrive ==
  /\ SubscribeOK(topic) =>
       LET request == AtBroker(SubscribeMsg(0, topic))
       IN  BrokerAccepts(request) /\ Topic(AtClient(SubscribeAck(request))) = topic
  /\ \A timeout \in {NUL, "x"} \X {NUL, "x"} :
       LET request == AtBroker(IoctlMsg(0, timeout))
       IN  /\ BrokerAccepts(request) /\ IoctlSets(request)
           /\ TimeoutOf(AtClient(IoctlAck(request))) = timeout
  /\ \A slot \in {NUL, "x"} : SlotGiven(AtClient(Welcome(slot))) = <<slot>>

(***************************************************************************)
(* psmq-pub publishes the lines of its input in order, each once and as a  *)
(* string that the library accepts, up to the first line that does not     *)
(* fit beside the topic (psmq-pub.c:143-189).                              *)
(***************************************************************************)
LinesArrive ==
  LET sent  == SendStdin(topic, input)
      text  == [i \in 1 .. Len(FlattenSeq(sent)) |->
                  IF FlattenSeq(sent)[i] = NUL THEN NL ELSE FlattenSeq(sent)[i]]
      rest  == SubSeq(input, Len(text) + 1, Len(input))
  IN  (LineMax(topic) >= 2 /\ topic # <<>> /\ input # <<>> /\ Last(input) = NL) =>
        /\ \A k \in DOMAIN sent :
             /\ PublishOK(topic, sent[k])
             /\ \A i \in DOMAIN sent[k] : sent[k][i] = NUL <=> i = Len(sent[k])
        /\ text \o rest = input
        /\ rest # <<>> => \A i \in DOMAIN rest : rest[i] = NL => i > LineMax(topic) - 1

(***************************************************************************)
(* With -B, however read() splits the input, it is published as a whole,   *)
(* in messages that the library accepts (psmq-pub.c:207-245).              *)
(***************************************************************************)
StreamArrives ==
  LineMax(topic) >= 1 =>
    \A sent \in SendBinary(topic, input) :
      /\ FlattenSeq(sent) = input
      /\ topic # <<>> => \A k \in DOMAIN sent : PublishOK(topic, sent[k])

\* A line that is not empty, as psmq-pub sends it.
IsLine(pl) == Len(pl) >= 2 /\ \A i \in DOMAIN pl : pl[i] = NUL <=> i = Len(pl)

(***************************************************************************)
(* psmq-sub shows what was published, all of it and nothing that an        *)
(* earlier message left in its buffer, although a string is printed up to  *)
(* its NUL and not up to its length; and a line of psmq-pub (LinesArrive)  *)
(* is shown as the text it was, unless it is empty (psmq-sub.c:108-142,    *)
(* 175-203, psmq-sub.1:89).                                                *)
(***************************************************************************)
PrintedAsSent ==
  LET o    == OnReceive(AtClient(Forwarded(AtBroker(PublishMsg(0, topic, payload)))))
      text == SubSeq(payload, 1, Len(payload) - 1)
  IN  PublishOK(topic, payload) =>
        /\ o.topic = topic /\ o.len = Len(o.shown)
        /\ o.shown = IF IsLine(payload) THEN text ELSE payload
=============================================================================
