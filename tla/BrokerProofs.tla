---------------------------- MODULE BrokerProofs ----------------------------
(***************************************************************************)
(* Proofs about Broker, for any number of clients, any queue lengths and   *)
(* any requests.                                                           *)
(*                                                                         *)
(* The safety invariants rest on one inductive invariant, TypeInv: the     *)
(* types, what the place of the broker says of the slot it serves          *)
(* (Control) and the balance of descriptors.  Eviction and cleanup add one *)
(* conjunct each; the fan-out of a publish is in ServiceProofs.            *)
(***************************************************************************)
EXTENDS Broker, FiniteSetTheorems, WellFoundedInduction, TLAPS

Publishing == pc \in {"scan", "deliver", "evict"} \/ (pc = "closing" /\ ret = "scan")
CleaningUp == pc = "cleanup" \/ (pc = "closing" /\ ret = "cleanup")

\* What the slot under service, and the caller to return to, are at each place.
Control ==
  /\ pc \in {"check", "receive"} \cup Commands => cur = 0
  /\ pc \in Commands \ {"open"} => msg.fd \in Slots
  /\ pc \in {"welcome", "reply", "closing", "deliver", "evict"} => cur \in Slots
  /\ pc \in {"welcome", "deliver", "evict"} => InUse(cur)
  /\ pc = "closing" /\ ret # "check" => InUse(cur)
  /\ ret = "scan" => Publishing
  /\ ret = "cleanup" => CleaningUp \/ pc = "exited"

\* Room was made for the CLOSE of a client under eviction, and nobody else sends to it.
RoomForClose == pc = "closing" /\ ret = "scan" => Len(mqs[Queue(cur)]) < QueueMax

\* The slots cleanup has passed are not in use.
PassedAreFree ==
  /\ CleaningUp => \A s \in Slots : s < cur => ~InUse(s)
  /\ pc = "exited" => \A s \in Slots : ~InUse(s)
-----------------------------------------------------------------------------
(* Queues and lists: what sending, receiving and list operations return.   *)

\* Sending to a queue that is not full keeps it a queue of its messages and its bound.
LEMMA SendTyped ==
  ASSUME NEW S, NEW q \in Seq(S), NEW m \in S, NEW max \in Nat, ~MqFull(q, max)
  PROVE  MqSend(q, m) \in Seq(S) /\ Len(MqSend(q, m)) <= max
BY DEF MqFull, MqSend

\* Joining two sequences.
LEMMA JoinTyped ==
  ASSUME NEW S, NEW a \in Seq(S), NEW b \in Seq(S)
  PROVE  a \o b \in Seq(S) /\ Len(a \o b) = Len(a) + Len(b)
OBVIOUS

\* A part of a sequence.
LEMMA SliceTyped ==
  ASSUME NEW S, NEW a \in Seq(S), NEW i \in 1 .. Len(a) + 1, NEW j \in i - 1 .. Len(a)
  PROVE  SubSeq(a, i, j) \in Seq(S) /\ Len(SubSeq(a, i, j)) = j - i + 1
OBVIOUS

\* Taking an element out of a sequence leaves a sequence that is one shorter.
LEMMA RemoveTyped ==
  ASSUME NEW S, NEW q \in Seq(S), NEW i \in DOMAIN q
  PROVE  /\ RemoveAt(q, i) \in Seq(S)
         /\ Len(RemoveAt(q, i)) = Len(q) - 1
<1> DEFINE a == SubSeq(q, 1, i - 1)
           b == SubSeq(q, i + 1, Len(q))
<1>1. i \in 1 .. Len(q) /\ Len(q) \in Nat
  OBVIOUS
<1>2. a \in Seq(S) /\ Len(a) = i - 1
  BY <1>1, SliceTyped
<1>3. b \in Seq(S) /\ Len(b) = Len(q) - i
  BY <1>1, SliceTyped
<1>4. RemoveAt(q, i) = a \o b
  BY DEF RemoveAt
<1> HIDE DEF a, b
<1> QED
  BY <1>1, <1>2, <1>3, <1>4, JoinTyped

\* Putting an element into a sequence makes it one longer.
LEMMA InsertTyped ==
  ASSUME NEW S, NEW q \in Seq(S), NEW e \in S, NEW i \in 1 .. Len(q) + 1
  PROVE  /\ InsertAt(q, i, e) \in Seq(S)
         /\ Len(InsertAt(q, i, e)) = Len(q) + 1
<1> DEFINE a == SubSeq(q, 1, i - 1)
           b == SubSeq(q, i, Len(q))
           c == <<e>>
<1>1. Len(q) \in Nat
  OBVIOUS
<1>2. a \in Seq(S) /\ Len(a) = i - 1
  BY <1>1, SliceTyped
<1>3. b \in Seq(S) /\ Len(b) = Len(q) - i + 1
  BY <1>1, SliceTyped
<1>4. c \in Seq(S) /\ Len(c) = 1
  OBVIOUS
<1>5. InsertAt(q, i, e) = (a \o c) \o b
  BY DEF InsertAt
<1> HIDE DEF a, b, c
<1>6. a \o c \in Seq(S) /\ Len(a \o c) = Len(a) + Len(c)
  BY <1>2, <1>4, JoinTyped
<1>7. (a \o c) \o b \in Seq(S) /\ Len((a \o c) \o b) = Len(a \o c) + Len(b)
  BY <1>3, <1>6, JoinTyped
<1> QED
  BY <1>1, <1>2, <1>3, <1>4, <1>5, <1>6, <1>7

\* A new topic makes a list one longer.
LEMMA AddTyped ==
  ASSUME NEW S, NEW list \in Seq(S), NEW t \in S
  PROVE  TlAdd(list, t) \in Seq(S) /\ Len(TlAdd(list, t)) = Len(list) + 1
<1>1. CASE list = <<>>
  BY <1>1 DEF TlAdd
<1>2. CASE list # <<>>
  <2>1. 2 \in 1 .. Len(list) + 1
    BY <1>2
  <2>2. TlAdd(list, t) = InsertAt(list, 2, t)
    BY <1>2 DEF TlAdd
  <2> QED
    BY <2>1, <2>2, InsertTyped
<1> QED
  BY <1>1, <1>2

\* A set of naturals that is not empty has a least element.
LEMMA LeastExists ==
  ASSUME NEW T, T \subseteq Nat, T # {}
  PROVE  \E x \in T : \A y \in T : x <= y
<1> DEFINE R == OpToRel(<, Nat)
<1>1. \A x, y \in Nat : <<y, x>> \in R <=> y < x
  BY DEF OpToRel
<1>2. IsWellFoundedOn(R, Nat)
  BY NatLessThanWellFounded
<1> HIDE DEF R
<1>3. PICK x \in T : \A y \in T : ~ (<<y, x>> \in R)
  BY <1>2, WFMin
<1>4. ASSUME NEW y \in T PROVE x <= y
  <2>1. x \in Nat /\ y \in Nat /\ ~ (y < x)
    BY <1>1, <1>3
  <2> QED
    BY <2>1
<1> QED
  BY <1>4

\* A topic that is on a list is found on it.
LEMMA FindsTopic ==
  ASSUME NEW S, NEW list \in Seq(S), NEW t, \E i \in DOMAIN list : list[i] = t
  PROVE  TlFind(list, t) \in DOMAIN list
<1> DEFINE T == {i \in DOMAIN list : list[i] = t}
<1>1. \E i \in T : \A j \in T : i <= j
  <2>1. T \subseteq Nat /\ T # {}
    OBVIOUS
  <2> HIDE DEF T
  <2> QED
    BY <2>1, LeastExists
<1>2. \E i \in DOMAIN list : list[i] = t /\ \A j \in DOMAIN list : list[j] = t => i <= j
  BY <1>1
<1> QED
  BY <1>2 DEF TlFind
-----------------------------------------------------------------------------
(* Types.                                                                  *)

\* The replies the broker makes up are well-typed.
LEMMA ReplyTyped ==
  ASSUME NEW cmd \in Commands \cup {"none"}, NEW data \in {"OK", "none"} \cup Errors, NEW arg \in Args
  PROVE  Reply(cmd, data, arg) \in ReplyType
<1>1. 0 \in Slots /\ 0 \in Nat
  BY BrokerAssumption DEF Slots
<1> QED
  BY <1>1 DEF Reply, ReplyType

\* The array, the queues and the locals start with their types (broker.c:862-918).
THEOREM InitTypes == Init => TypeOK
<1> SUFFICES ASSUME Init PROVE TypeOK
  OBVIOUS
<1>1. "none" \in Commands \cup {"none"} /\ "none" \in Args
  BY DEF Args
<1>2. ClientsOK
  BY BrokerAssumption DEF Init, ClientsOK, ClientType, NoClient, Timeouts
<1>3. QueuesOK
  BY BrokerAssumption DEF Init, QueuesOK
<1>4. NamesOK
  BY DEF Init, NamesOK
<1>5. NoReply \in ReplyType
  BY <1>1, ReplyTyped DEF NoReply
<1>6. PlaceOK
  BY <1>5 DEF Init, PlaceOK, NoCopies
<1> QED
  BY <1>2, <1>3, <1>4, <1>6 DEF TypeOK

\* Actions that do not write the array of clients.
ClientsKept ==
  \/ CheckShutdown \/ Receive \/ ReceiveTimesOut \/ OpenFails \/ OpenRefused \/ OpenWelcomed
  \/ SubscribeRefused \/ SubscribeFails \/ UnsubscribeFails \/ IoctlRefused \/ Wait \/ Close
  \/ Publish \/ ScanToHit \/ PublishDone \/ Evict \/ CleanupSlot \/ CleanupDone
  \/ ClientsNext \/ Signal \/ UNCHANGED vars

\* The steps listed in ClientsKept do not touch the array of clients.
LEMMA ClientsUnchanged == ClientsKept => UNCHANGED clients
BY DEF ClientsKept, CheckShutdown, Receive, ReceiveTimesOut, OpenFails, OpenRefused, OpenWelcomed,
       SubscribeRefused, SubscribeFails, UnsubscribeFails, IoctlRefused, Wait, Close, Publish,
       ScanToHit, PublishDone, Evict, CleanupSlot, CleanupDone, ClientsNext, UnlinkQueue,
       CreateQueue, SendRequest, ReadQueue, Signal, vars

\* The array keeps its type when one slot gets a well-typed record.
LEMMA PutClient ==
  ASSUME ClientsOK, NEW s \in Slots, NEW c \in ClientType, Len(c.topics) <= MaxTopics,
         clients' = [clients EXCEPT ![s] = c]
  PROVE  ClientsOK'
BY DEF ClientsOK

\* A client of which a field gets a well-typed value is well-typed, and its other fields stay.
LEMMA FieldTyped ==
  ASSUME NEW r \in ClientType
  PROVE  /\ \A q \in Queues \cup {NoQueue} : [r EXCEPT !.mq = q] \in ClientType
         /\ \A list \in Seq(Filters) : [r EXCEPT !.topics = list] \in ClientType
         /\ \A m \in 0 .. UCharMod - 1 : [r EXCEPT !.missed_pubs = m] \in ClientType
         /\ \A t \in Timeouts : [r EXCEPT !.reply_timeout = t] \in ClientType
         /\ \A v : /\ [r EXCEPT !.mq = v].topics = r.topics
                   /\ [r EXCEPT !.topics = v].topics = v
                   /\ [r EXCEPT !.missed_pubs = v].topics = r.topics
                   /\ [r EXCEPT !.reply_timeout = v].topics = r.topics
BY DEF ClientType

\* missed_pubs stays a byte when it is reset or counted (broker.c:316-324).
LEMMA MissesTyped ==
  ASSUME ClientsOK, NEW s \in Slots, ResetMissed(s) \/ CountMissed(s)
  PROVE  ClientsOK'
<1> DEFINE m == IF ResetMissed(s) THEN 0 ELSE (clients[s].missed_pubs + 1) % UCharMod
           c == [clients[s] EXCEPT !.missed_pubs = m]
<1>1. clients[s] \in ClientType /\ Len(clients[s].topics) <= MaxTopics
  BY DEF ClientsOK
<1>2. m \in 0 .. UCharMod - 1
  <2>1. clients[s].missed_pubs \in Nat /\ UCharMod \in Nat /\ UCharMod > 0
    BY <1>1, BrokerAssumption DEF ClientType
  <2> QED
    BY <2>1
<1>3. clients' = [clients EXCEPT ![s] = c]
  BY DEF ResetMissed, CountMissed
<1> HIDE DEF m
<1>4. c \in ClientType /\ c.topics = clients[s].topics
  BY <1>1, <1>2, FieldTyped
<1> HIDE DEF c
<1> QED
  BY <1>1, <1>3, <1>4, PutClient

\* Every step keeps each slot of the array well-typed and its topic list bounded.
THEOREM ClientsStep ==
  ASSUME TypeOK, Control, [Next]_vars
  PROVE  ClientsOK'
<1>1. CASE ClientsKept
  BY <1>1, ClientsUnchanged DEF TypeOK, ClientsOK
<1>2. CASE ReplySent \/ ReplyLost \/ Delivered \/ NotDelivered
  <2>1. cur \in Slots /\ (ResetMissed(cur) \/ CountMissed(cur))
    BY <1>2 DEF ReplySent, ReplyLost, Delivered, NotDelivered, Control
  <2> QED
    BY <2>1, MissesTyped DEF TypeOK
<1>3. CASE Open
  <2>1. PICK s \in Slots : clients' = [clients EXCEPT ![s].mq = names[msg.arg]]
    BY <1>3 DEF Open, FreeSlots
  <2> DEFINE c == [clients[s] EXCEPT !.mq = names[msg.arg]]
  <2>2. names[msg.arg] \in Queues \cup {NoQueue}
    BY <1>3 DEF Open, TypeOK, NamesOK
  <2>3. clients[s] \in ClientType /\ Len(clients[s].topics) <= MaxTopics
    BY DEF TypeOK, ClientsOK
  <2>4. c \in ClientType /\ c.topics = clients[s].topics
    BY <2>2, <2>3, FieldTyped
  <2>5. clients' = [clients EXCEPT ![s] = c]
    BY <2>1
  <2> HIDE DEF c
  <2> QED
    BY <2>3, <2>4, <2>5, PutClient DEF TypeOK
<1>4. CASE OpenUndone
  <2> DEFINE c == [clients[cur] EXCEPT !.mq = NoQueue]
  <2>1. cur \in Slots
    BY <1>4 DEF OpenUndone, Control
  <2>2. clients[cur] \in ClientType /\ Len(clients[cur].topics) <= MaxTopics
    BY <2>1 DEF TypeOK, ClientsOK
  <2>3. c \in ClientType /\ c.topics = clients[cur].topics
    BY <2>2, FieldTyped
  <2>4. clients' = [clients EXCEPT ![cur] = c]
    BY <1>4 DEF OpenUndone
  <2> HIDE DEF c
  <2> QED
    BY <2>1, <2>2, <2>3, <2>4, PutClient DEF TypeOK
<1>5. CASE Subscribe \/ Unsubscribe
  <2> DEFINE list == clients[msg.fd].topics
  <2>1. msg.fd \in Slots
    BY <1>5 DEF Subscribe, Unsubscribe, Control, Commands
  <2>2. clients[msg.fd] \in ClientType /\ list \in Seq(Filters) /\ Len(list) <= MaxTopics
    BY <2>1 DEF TypeOK, ClientsOK, ClientType
  <2>3. PICK new \in Seq(Filters) : /\ Len(new) <= MaxTopics
                                    /\ clients' = [clients EXCEPT ![msg.fd].topics = new]
    <3>1. CASE Subscribe
      <4>1. msg.arg \in Filters /\ Len(list) < MaxTopics /\ MaxTopics \in Nat
        BY <3>1, BrokerAssumption DEF Subscribe
      <4>2. TlAdd(list, msg.arg) \in Seq(Filters) /\ Len(TlAdd(list, msg.arg)) <= MaxTopics
        <5>1. /\ TlAdd(list, msg.arg) \in Seq(Filters)
              /\ Len(TlAdd(list, msg.arg)) = Len(list) + 1
          BY <4>1, <2>2, AddTyped
        <5> QED
          BY <4>1, <5>1, <2>2
      <4> QED
        BY <3>1, <4>2 DEF Subscribe
    <3>2. CASE Unsubscribe
      <4>1. TlFind(list, msg.arg) \in DOMAIN list
        BY <3>2, <2>2, FindsTopic DEF Unsubscribe, Subscribed
      <4>2. /\ TlDelete(list, msg.arg) \in Seq(Filters)
            /\ Len(TlDelete(list, msg.arg)) = Len(list) - 1
        BY <2>2, <4>1, RemoveTyped DEF TlDelete
      <4>3. Len(TlDelete(list, msg.arg)) <= MaxTopics
        BY <2>2, <4>2, BrokerAssumption
      <4> QED
        BY <3>2, <4>2, <4>3 DEF Unsubscribe
    <3> QED
      BY <1>5, <3>1, <3>2
  <2> DEFINE c == [clients[msg.fd] EXCEPT !.topics = new]
  <2>4. clients' = [clients EXCEPT ![msg.fd] = c]
    BY <2>3
  <2>5. c \in ClientType /\ c.topics = new
    BY <2>2, <2>3, FieldTyped
  <2> HIDE DEF c
  <2> QED
    BY <2>1, <2>3, <2>4, <2>5, PutClient DEF TypeOK
<1>6. CASE Ioctl
  <2> DEFINE c == [clients[msg.fd] EXCEPT !.reply_timeout = msg.arg]
  <2>1. msg.fd \in Slots /\ msg.arg \in Timeouts
    BY <1>6 DEF Ioctl, Control, Commands
  <2>2. clients[msg.fd] \in ClientType /\ Len(clients[msg.fd].topics) <= MaxTopics
    BY <2>1 DEF TypeOK, ClientsOK
  <2>3. c \in ClientType /\ c.topics = clients[msg.fd].topics
    BY <2>1, <2>2, FieldTyped
  <2>4. clients' = [clients EXCEPT ![msg.fd] = c]
    BY <1>6 DEF Ioctl
  <2> HIDE DEF c
  <2> QED
    BY <2>1, <2>2, <2>3, <2>4, PutClient DEF TypeOK
<1>7. CASE CloseAcked \/ CloseUnacked
  <2>1. cur \in Slots
    BY <1>7 DEF CloseAcked, CloseUnacked, Control
  <2>2. PICK m \in {0, 1} : Vacate(cur, m)
    BY <1>7 DEF CloseAcked, CloseUnacked
  <2> DEFINE c == [clients[cur] EXCEPT !.mq = NoQueue, !.topics = <<>>, !.missed_pubs = m]
  <2>3. clients[cur] \in ClientType
    BY <2>1 DEF TypeOK, ClientsOK
  <2>4. c \in ClientType /\ c.topics = <<>>
    <3>1. m \in 0 .. UCharMod - 1
      BY BrokerAssumption
    <3>2. <<>> \in Seq(Filters)
      OBVIOUS
    <3> QED
      BY <2>3, <3>1, <3>2 DEF ClientType
  <2>5. clients' = [clients EXCEPT ![cur] = c]
    BY <2>2 DEF Vacate
  <2>6. Len(<<>>) <= MaxTopics
    BY BrokerAssumption
  <2> HIDE DEF c
  <2> QED
    BY <2>1, <2>4, <2>5, <2>6, PutClient DEF TypeOK
<1> QED
  BY <1>1, <1>2, <1>3, <1>4, <1>5, <1>6, <1>7 DEF Next, BrokerNext, ClientsKept

\* The fields of the request in service are well-typed.
LEMMA MsgTyped ==
  ASSUME msg \in Requests \cup {NoRequest}
  PROVE  msg.arg \in Args /\ msg.prio \in Nat /\ msg.fd \in Nat
<1>1. CASE msg \in Requests
  BY <1>1, BrokerAssumption DEF Args
<1>2. CASE msg = NoRequest
  BY <1>2 DEF NoRequest, Args
<1> QED
  BY <1>1, <1>2

\* Actions that do not write a queue.
QueuesKept ==
  \/ CheckShutdown \/ ReceiveTimesOut \/ OpenFails \/ Open \/ OpenUndone
  \/ SubscribeRefused \/ SubscribeFails \/ Subscribe \/ Unsubscribe \/ UnsubscribeFails
  \/ Ioctl \/ IoctlRefused \/ Wait \/ ReplyLost \/ Close \/ CloseUnacked
  \/ Publish \/ ScanToHit \/ PublishDone \/ NotDelivered \/ CleanupSlot \/ CleanupDone
  \/ (\E n \in Names : UnlinkQueue(n)) \/ Signal \/ UNCHANGED vars

\* The steps listed in QueuesKept send nothing and take nothing.
LEMMA QueuesUnchanged == QueuesKept => UNCHANGED <<ctrl, mqs>>
BY DEF QueuesKept, CheckShutdown, ReceiveTimesOut, OpenFails, Open, OpenUndone, SubscribeRefused,
       SubscribeFails, Subscribe, Unsubscribe, UnsubscribeFails, Ioctl, IoctlRefused, Answer, Wait,
       ReplyLost, Close, CloseUnacked, Publish, ScanToHit, PublishDone, NotDelivered, CleanupSlot,
       CleanupDone, UnlinkQueue, Signal, vars

\* The queues keep their type and bound when one of them is replaced by a well-typed one.
LEMMA PutQueue ==
  ASSUME QueuesOK, NEW q \in Queues, NEW new \in Seq(ReplyType), Len(new) <= QueueMax,
         mqs' = [mqs EXCEPT ![q] = new], UNCHANGED ctrl
  PROVE  QueuesOK'
BY DEF QueuesOK

\* A message to a slot with room keeps all queues well-typed and within their capacity.
LEMMA SendToTyped ==
  ASSUME ClientsOK, QueuesOK, NEW s \in Slots, CanSend(s), NEW m \in ReplyType,
         SendTo(s, m), UNCHANGED ctrl
  PROVE  QueuesOK'
<1> DEFINE q == Queue(s)
           new == MqSend(mqs[q], m)
<1>1. q \in Queues
  BY DEF CanSend, InUse, ClientsOK, ClientType, Queue
<1>2. mqs[q] \in Seq(ReplyType) /\ ~MqFull(mqs[q], QueueMax) /\ QueueMax \in Nat
  BY <1>1, BrokerAssumption DEF QueuesOK, CanSend
<1>3. new \in Seq(ReplyType) /\ Len(new) <= QueueMax
  BY <1>2, SendTyped
<1>4. mqs' = [mqs EXCEPT ![q] = new]
  BY DEF SendTo
<1> HIDE DEF q, new
<1> QED
  BY <1>1, <1>3, <1>4, PutQueue

\* Taking a message off a queue keeps the queues well-typed and makes room for one.
LEMMA TakeFromTyped ==
  ASSUME QueuesOK, NEW q \in Queues, TakeFrom(q), UNCHANGED ctrl
  PROVE  QueuesOK' /\ Len(mqs'[q]) = Len(mqs[q]) - 1
<1>1. PICK i \in DOMAIN mqs[q] : mqs' = [mqs EXCEPT ![q] = MqRest(mqs[q], i)]
  BY DEF TakeFrom
<1> DEFINE new == MqRest(mqs[q], i)
<1>2. mqs[q] \in Seq(ReplyType) /\ Len(mqs[q]) <= QueueMax /\ QueueMax \in Nat
  BY BrokerAssumption DEF QueuesOK
<1>3. new \in Seq(ReplyType) /\ Len(new) = Len(mqs[q]) - 1
  BY <1>2, RemoveTyped DEF MqRest
<1>4. mqs' = [mqs EXCEPT ![q] = new]
  BY <1>1
<1> HIDE DEF new
<1>5. Len(new) <= QueueMax /\ mqs'[q] = new
  BY <1>2, <1>3, <1>4 DEF QueuesOK
<1> QED
  BY <1>3, <1>4, <1>5, PutQueue

\* Every step keeps the control queue and the client queues well-typed and within capacity.
THEOREM QueuesStep ==
  ASSUME TypeOK, Control, [Next]_vars
  PROVE  QueuesOK'
<1>1. CASE QueuesKept
  BY <1>1, QueuesUnchanged DEF TypeOK, QueuesOK
<1>2. CASE Receive
  <2>1. PICK i \in DOMAIN ctrl : ctrl' = RemoveAt(ctrl, i) /\ UNCHANGED mqs
    BY <1>2 DEF Receive, MqRest
  <2>2. ctrl \in Seq(Requests) /\ Len(ctrl) <= CtrlMax /\ CtrlMax \in Nat
    BY BrokerAssumption DEF TypeOK, QueuesOK
  <2>3. ctrl' \in Seq(Requests) /\ Len(ctrl') = Len(ctrl) - 1
    BY <2>1, <2>2, RemoveTyped
  <2> QED
    BY <2>1, <2>2, <2>3 DEF TypeOK, QueuesOK
<1>3. CASE ReplySent
  BY <1>3, SendToTyped DEF ReplySent, Control, TypeOK, PlaceOK
<1>4. CASE OpenWelcomed
  <2> DEFINE m == [Reply("open", "OK", "none") EXCEPT !.fd = cur]
  <2>1. cur \in Slots /\ CanSend(cur) /\ SendTo(cur, m) /\ UNCHANGED ctrl
    BY <1>4 DEF OpenWelcomed, Control
  <2>2. m \in ReplyType
    <3>1. Reply("open", "OK", "none") \in ReplyType
      BY ReplyTyped DEF Commands, Args
    <3> QED
      BY <2>1, <3>1 DEF ReplyType
  <2> QED
    BY <2>1, <2>2, SendToTyped DEF TypeOK
<1>5. CASE CloseAcked
  <2>1. Reply("close", "OK", "none") \in ReplyType
    BY ReplyTyped DEF Commands, Args
  <2> QED
    BY <1>5, <2>1, SendToTyped DEF CloseAcked, Control, TypeOK
<1>6. CASE Delivered
  <2>1. Publication \in ReplyType
    <3>1. msg.arg \in Args /\ msg.prio \in Nat
      BY MsgTyped DEF TypeOK, PlaceOK
    <3>2. Reply("publish", "OK", msg.arg) \in ReplyType
      BY <3>1, ReplyTyped DEF Commands
    <3> QED
      BY <3>1, <3>2 DEF Publication, ReplyType
  <2> QED
    BY <1>6, <2>1, SendToTyped DEF Delivered, Control, TypeOK
<1>7. CASE OpenRefused
  <2> DEFINE q == names[msg.arg]
             m == Reply("open", "ENOSPC", "none")
  <2>1. q \in Queues /\ UNCHANGED ctrl
    BY <1>7 DEF OpenRefused, TypeOK, NamesOK
  <2>2. m \in ReplyType
    BY ReplyTyped DEF Commands, Args, Errors
  <2>3. CASE MqFull(mqs[q], QueueMax)
    BY <1>7, <2>3 DEF OpenRefused, TypeOK, QueuesOK
  <2>4. CASE ~MqFull(mqs[q], QueueMax)
    <3> DEFINE new == MqSend(mqs[q], m)
    <3>1. mqs' = [mqs EXCEPT ![q] = new]
      BY <1>7, <2>4 DEF OpenRefused
    <3>2. mqs[q] \in Seq(ReplyType) /\ QueueMax \in Nat
      BY <2>1, BrokerAssumption DEF TypeOK, QueuesOK
    <3>3. new \in Seq(ReplyType) /\ Len(new) <= QueueMax
      BY <2>2, <2>4, <3>2, SendTyped
    <3> HIDE DEF q, new
    <3> QED
      BY <2>1, <3>1, <3>3, PutQueue DEF TypeOK
  <2> QED
    BY <2>3, <2>4
<1>8. CASE Evict
  <2>1. Queue(cur) \in Queues
    BY <1>8 DEF Evict, Control, InUse, Queue, TypeOK, ClientsOK, ClientType
  <2>2. CASE UNCHANGED mqs
    BY <1>8, <2>2 DEF Evict, TypeOK, QueuesOK
  <2>3. CASE TakeFrom(Queue(cur))
    BY <1>8, <2>1, <2>3, TakeFromTyped DEF Evict, TypeOK
  <2> QED
    BY <1>8, <2>2, <2>3 DEF Evict
<1>9. CASE \E n \in Names, q \in Queues : CreateQueue(n, q)
  <2>1. PICK q \in Queues : mqs' = [mqs EXCEPT ![q] = <<>>] /\ UNCHANGED ctrl
    BY <1>9 DEF CreateQueue
  <2>2. <<>> \in Seq(ReplyType) /\ Len(<<>>) <= QueueMax
    BY BrokerAssumption
  <2> QED
    BY <2>1, <2>2, PutQueue DEF TypeOK
<1>10. CASE \E r \in Requests : SendRequest(r)
  <2>1. PICK r \in Requests : /\ ~MqFull(ctrl, CtrlMax) /\ ctrl' = MqSend(ctrl, r)
                              /\ UNCHANGED mqs
    BY <1>10 DEF SendRequest
  <2>2. ctrl \in Seq(Requests) /\ CtrlMax \in Nat
    BY BrokerAssumption DEF TypeOK, QueuesOK
  <2> QED
    BY <2>1, <2>2, SendTyped DEF TypeOK, QueuesOK
<1>11. CASE \E q \in Queues : ReadQueue(q)
  BY <1>11, TakeFromTyped DEF ReadQueue, TypeOK
<1> QED
  BY <1>1, <1>2, <1>3, <1>4, <1>5, <1>6, <1>7, <1>8, <1>9, <1>10, <1>11
     DEF Next, BrokerNext, ClientsNext, QueuesKept

\* The handlers' answers are well-typed.
LEMMA AnswersTyped ==
  ASSUME TypeOK,
         \E cmd \in Commands, data \in {"OK"} \cup Errors : Answer(Reply(cmd, data, msg.arg))
  PROVE  out' \in ReplyType /\ cur' \in Nat
<1>1. msg.arg \in Args /\ msg.fd \in Nat
  BY MsgTyped DEF TypeOK, PlaceOK
<1>2. PICK cmd \in Commands, data \in {"OK"} \cup Errors : Answer(Reply(cmd, data, msg.arg))
  OBVIOUS
<1>3. Reply(cmd, data, msg.arg) \in ReplyType
  BY <1>1, ReplyTyped
<1> QED
  BY <1>1, <1>2, <1>3 DEF Answer

Answers ==
  \/ SubscribeRefused \/ SubscribeFails \/ Subscribe \/ Unsubscribe \/ UnsubscribeFails
  \/ Ioctl \/ IoctlRefused

\* A handler of a request that names a slot ends in psmqd_broker_reply.
LEMMA AnswersAnswer ==
  ASSUME Answers
  PROVE  /\ \E cmd \in Commands, data \in {"OK"} \cup Errors : Answer(Reply(cmd, data, msg.arg))
         /\ pc \in Commands \ {"open"}
BY DEF Answers, SubscribeRefused, SubscribeFails, Subscribe, Unsubscribe, UnsubscribeFails,
       Ioctl, IoctlRefused, Commands, Errors

\* The steps of clients and signals leave the broker where it is.
Outside == ClientsNext \/ Signal \/ UNCHANGED vars

\* Clients and signals touch neither the array of clients nor the locals of the broker.
LEMMA OutsideKeeps == Outside => UNCHANGED <<clients, pc, local, aux>>
BY DEF Outside, ClientsNext, UnlinkQueue, CreateQueue, SendRequest, ReadQueue, Signal, vars

\* The locals are well-typed when a handler has returned to the loop.
LEMMA BackTyped ==
  ASSUME PlaceOK, BackToLoop, UNCHANGED shutdown, copies' \in [Slots -> Nat], lost' \subseteq Slots
  PROVE  PlaceOK'
<1>1. NoReply \in ReplyType
  BY ReplyTyped DEF NoReply, Args
<1> QED
  BY <1>1 DEF PlaceOK, BackToLoop

\* Every step keeps the place of the broker and the locals of its handlers well-typed.
THEOREM PlaceStep ==
  ASSUME TypeOK, Control, [Next]_vars
  PROVE  PlaceOK'
<1> USE DEF TypeOK, PlaceOK
<1>1. CASE Outside
  BY <1>1, OutsideKeeps DEF local, aux, Outside, ClientsNext, UnlinkQueue, CreateQueue,
     SendRequest, ReadQueue, Signal, vars
<1>3. CASE CheckShutdown \/ ReceiveTimesOut \/ CleanupDone
  BY <1>3 DEF CheckShutdown, ReceiveTimesOut, CleanupDone, local, aux
<1>4. CASE Receive
  <2>1. msg' \in Requests \cup {NoRequest} /\ pc' \in Commands \cup {"check"}
    BY <1>4 DEF Receive, QueuesOK
  <2> QED
    BY <1>4, <2>1 DEF Receive, aux
<1>5. CASE OpenFails \/ OpenRefused \/ OpenWelcomed \/ OpenUndone \/ ReplySent \/ ReplyLost
  <2>1. BackToLoop /\ UNCHANGED <<shutdown, copies, lost>>
    BY <1>5 DEF OpenFails, OpenRefused, OpenWelcomed, OpenUndone, ReplySent, ReplyLost, aux
  <2> QED
    BY <2>1, BackTyped
<1>6. CASE Open
  BY <1>6 DEF Open, FreeSlots, Slots, aux
<1>7. CASE Answers
  <2>1. /\ pc' = "reply" /\ out' \in ReplyType /\ cur' \in Nat
        /\ UNCHANGED <<shutdown, msg, node, ret, waiting, aux>>
    BY <1>7, AnswersTyped, AnswersAnswer DEF Answer
  <2> QED
    BY <2>1 DEF aux
<1>8. CASE Wait
  BY <1>8 DEF Wait, aux
<1>9. CASE Close
  BY <1>9, MsgTyped DEF Close, StartClose, aux
<1>10. CASE CloseAcked \/ CloseUnacked
  <2>1. CloseReturns /\ UNCHANGED <<shutdown, copies, lost>>
    BY <1>10 DEF CloseAcked, CloseUnacked, aux
  <2>2. CASE ret = "check"
    BY <2>1, <2>2, BackTyped DEF CloseReturns
  <2>3. CASE ret # "check"
    <3>1. cur' \in Nat /\ node' \in Nat
      BY <2>1, <2>3 DEF CloseReturns
    <3> QED
      BY <2>1, <2>3, <3>1 DEF CloseReturns
  <2> QED
    BY <2>2, <2>3
<1>11. CASE Publish
  BY <1>11 DEF Publish, NoCopies
<1>12. CASE ScanToHit
  <2>1. PICK h \in Hits : cur' = h[1] /\ node' = h[2]
    BY <1>12 DEF ScanToHit
  <2>2. cur' \in Nat /\ node' \in Nat
    BY <2>1 DEF Hits
  <2> QED
    BY <1>12, <2>2 DEF ScanToHit, aux
<1>13. CASE PublishDone
  <2>1. copies' \in [Slots -> Nat] /\ lost' \subseteq Slots
    BY <1>13 DEF PublishDone, NoCopies
  <2> QED
    BY <1>13, <2>1, BackTyped DEF PublishDone
<1>14. CASE Delivered
  <2>1. copies' = [copies EXCEPT ![cur] = @ + 1] /\ cur \in Slots
    BY <1>14 DEF Delivered, Control
  <2>2. copies' \in [Slots -> Nat]
    BY <2>1
  <2>3. cur' \in Nat /\ node' \in Nat
    BY <1>14 DEF Delivered
  <2> QED
    BY <1>14, <2>2, <2>3 DEF Delivered
<1>15. CASE NotDelivered
  <2>1. /\ pc' \in {"evict", "scan"} /\ node' \in {node, node + 1} /\ waiting' = FALSE
        /\ lost' = lost \cup {cur} /\ UNCHANGED <<shutdown, msg, cur, ret, out, copies>>
    BY <1>15 DEF NotDelivered
  <2>2. cur \in Slots
    BY <1>15 DEF NotDelivered, Control
  <2>3. node' \in Nat
    BY <2>1
  <2> QED
    BY <2>1, <2>2, <2>3
<1>16. CASE Evict
  BY <1>16 DEF Evict, StartClose, aux
<1>17. CASE CleanupSlot
  BY <1>17 DEF CleanupSlot, SlotsToClose, StartClose, Slots, aux
<1> QED
  BY <1>1, <1>3, <1>4, <1>5, <1>6, <1>7, <1>8, <1>9, <1>10, <1>11, <1>12, <1>13, <1>14, <1>15,
     <1>16, <1>17 DEF Next, BrokerNext, Outside, Answers
-----------------------------------------------------------------------------
(* Control: where the broker is, and the slot it serves.                   *)

\* Back in the loop the broker serves no slot.
LEMMA BackControlled ==
  ASSUME BackToLoop
  PROVE  Control' /\ ~Publishing' /\ ~CleaningUp' /\ pc' = "check"
BY DEF BackToLoop, Control, Publishing, CleaningUp, Commands

\* Recording a miss, or none, leaves every slot's queue what it was.
LEMMA MissesKeepQueues ==
  ASSUME ClientsOK, NEW s \in Slots, ResetMissed(s) \/ CountMissed(s)
  PROVE  \A t \in Slots : /\ clients'[t].mq = clients[t].mq
                          /\ clients'[t].topics = clients[t].topics
<1>1. PICK m : clients' = [clients EXCEPT ![s].missed_pubs = m]
  BY DEF ResetMissed, CountMissed
<1> QED
  BY <1>1 DEF ClientsOK, ClientType

\* Every step keeps Control: the slot a handler serves exists, and is in use where it must be.
THEOREM ControlStep ==
  ASSUME TypeOK, Control, [Next]_vars
  PROVE  Control'
<1> USE DEF Control, Publishing, CleaningUp, Commands
<1>1. CASE Outside
  BY <1>1, OutsideKeeps DEF local, aux, InUse, Queue
<1>2. CASE OpenFails \/ OpenRefused \/ OpenWelcomed \/ OpenUndone \/ ReplySent \/ ReplyLost
             \/ PublishDone
  BY <1>2, BackControlled DEF OpenFails, OpenRefused, OpenWelcomed, OpenUndone, ReplySent,
     ReplyLost, PublishDone
<1>3. CASE CheckShutdown \/ ReceiveTimesOut \/ CleanupDone
  BY <1>3 DEF CheckShutdown, ReceiveTimesOut, CleanupDone, local
<1>4. CASE Receive
  <2>1. PICK m : msg' = m /\ (\/ pc' = "check"
                              \/ pc' = m.cmd /\ m.cmd \in Commands
                                             /\ (m.cmd = "open" \/ m.fd \in Slots))
    BY <1>4 DEF Receive
  <2> QED
    BY <1>4, <2>1 DEF Receive
<1>5. CASE Open
  <2>1. PICK s \in Slots : clients' = [clients EXCEPT ![s].mq = names[msg.arg]] /\ cur' = s
    BY <1>5 DEF Open, FreeSlots
  <2>2. clients'[s].mq # NoQueue
    BY <1>5, <2>1 DEF Open, TypeOK, ClientsOK, ClientType
  <2> QED
    BY <1>5, <2>1, <2>2 DEF Open, InUse, Queue
<1>6. CASE Answers
  BY <1>6, AnswersAnswer DEF Answer
<1>7. CASE Wait
  BY <1>7 DEF Wait, InUse, Queue
<1>8. CASE Close
  BY <1>8 DEF Close, StartClose
<1>9. CASE CloseAcked \/ CloseUnacked
  BY <1>9, BackControlled DEF CloseAcked, CloseUnacked, CloseReturns, TypeOK, PlaceOK
<1>10. CASE Publish
  BY <1>10 DEF Publish
<1>11. CASE ScanToHit
  <2>1. PICK h \in Hits : cur' = h[1]
    BY <1>11 DEF ScanToHit
  <2>2. cur' \in cur .. MaxClients - 1 /\ InUse(cur')
    BY <2>1 DEF Hits
  <2>3. cur' \in Slots
    BY <2>2, BrokerAssumption DEF Slots, TypeOK, PlaceOK
  <2> QED
    BY <1>11, <2>2, <2>3 DEF ScanToHit, InUse, Queue
<1>12. CASE Delivered
  BY <1>12 DEF Delivered
<1>13. CASE NotDelivered
  <2>1. cur \in Slots /\ InUse(cur) /\ CountMissed(cur) /\ UNCHANGED <<msg, cur, ret>>
    BY <1>13 DEF NotDelivered
  <2>2. InUse(cur)'
    BY <2>1, MissesKeepQueues DEF InUse, Queue, TypeOK
  <2> QED
    BY <1>13, <2>1, <2>2 DEF NotDelivered
<1>14. CASE Evict
  BY <1>14 DEF Evict, StartClose, InUse, Queue
<1>15. CASE CleanupSlot
  BY <1>15 DEF CleanupSlot, SlotsToClose, StartClose, InUse, Queue
<1> QED
  BY <1>1, <1>2, <1>3, <1>4, <1>5, <1>6, <1>7, <1>8, <1>9, <1>10, <1>11, <1>12, <1>13, <1>14,
     <1>15 DEF Next, BrokerNext, Outside, Answers
-----------------------------------------------------------------------------
(* Descriptors: counting the slots that hold a queue.                      *)

Holders(array, q) == {s \in Slots : array[s].mq = q}

\* Finitely many slots hold a queue.
LEMMA HoldersFinite ==
  \A array, q : IsFiniteSet(Holders(array, q)) /\ Cardinality(Holders(array, q)) \in Nat
<1> TAKE array, q
<1>1. IsFiniteSet(Slots)
  BY FS_Interval, BrokerAssumption DEF Slots
<1>2. Holders(array, q) \in SUBSET Slots
  BY DEF Holders
<1>3. IsFiniteSet(Holders(array, q))
  BY <1>1, <1>2, FS_Subset
<1> QED
  BY <1>3, FS_CardinalityType

\* One slot more holds q.
LEMMA HolderAdded ==
  ASSUME NEW f, NEW g, NEW s \in Slots, NEW q, f[s].mq # q, g[s].mq = q,
         \A t \in Slots \ {s} : g[t].mq = f[t].mq
  PROVE  Cardinality(Holders(g, q)) = Cardinality(Holders(f, q)) + 1
<1>1. Holders(g, q) = Holders(f, q) \cup {s} /\ s \notin Holders(f, q)
  BY DEF Holders
<1>2. IsFiniteSet(Holders(f, q))
  BY HoldersFinite
<1>3. \A S, x : IsFiniteSet(S) /\ x \notin S => Cardinality(S \cup {x}) = Cardinality(S) + 1
  BY FS_AddElement
<1> QED
  BY <1>1, <1>2, <1>3

\* One slot less holds q.
LEMMA HolderRemoved ==
  ASSUME NEW f, NEW g, NEW s \in Slots, NEW q, f[s].mq = q, g[s].mq # q,
         \A t \in Slots \ {s} : g[t].mq = f[t].mq
  PROVE  Cardinality(Holders(g, q)) = Cardinality(Holders(f, q)) - 1
<1>1. Holders(g, q) = Holders(f, q) \ {s} /\ s \in Holders(f, q)
  BY DEF Holders
<1>2. IsFiniteSet(Holders(f, q))
  BY HoldersFinite
<1>3. \A S, x : IsFiniteSet(S) /\ x \in S => Cardinality(S \ {x}) = Cardinality(S) - 1
  BY FS_RemoveElement
<1> QED
  BY <1>1, <1>2, <1>3

\* As many slots hold q as before.
LEMMA HoldersSame ==
  ASSUME NEW f, NEW g, NEW q, \A t \in Slots : g[t].mq = q <=> f[t].mq = q
  PROVE  Holders(g, q) = Holders(f, q)
BY DEF Holders

Balanced == \A q \in Queues : held[q] = Cardinality(Holders(clients, q))

\* Balanced is DescriptorsBalanced, before and after a step.
LEMMA BalancedIs == (Balanced <=> DescriptorsBalanced) /\ (Balanced' <=> DescriptorsBalanced')
BY DEF Balanced, DescriptorsBalanced, Holders, Queue

\* A free slot gets a queue, and the queue one descriptor more.
LEMMA SlotTaken ==
  ASSUME NamesOK, Balanced, NEW s \in Slots, NEW q \in Queues, clients[s].mq = NoQueue,
         clients'[s].mq = q, \A t \in Slots \ {s} : clients'[t].mq = clients[t].mq,
         held' = [held EXCEPT ![q] = @ + 1]
  PROVE  Balanced' /\ held' \in [Queues -> Nat]
<1>1. held' \in [Queues -> Nat]
  BY DEF NamesOK
<1>2. NoQueue \notin Queues
  BY BrokerAssumption
<1>3. held'[q] = Cardinality(Holders(clients', q))
  <2>1. held'[q] = held[q] + 1
    BY DEF NamesOK
  <2>2. Cardinality(Holders(clients', q)) = Cardinality(Holders(clients, q)) + 1
    <3>1. clients[s].mq # q
      BY <1>2
    <3> QED
      BY <3>1, HolderAdded
  <2> QED
    BY <2>1, <2>2 DEF Balanced
<1>4. ASSUME NEW p \in Queues \ {q} PROVE held'[p] = Cardinality(Holders(clients', p))
  <2>1. held'[p] = held[p]
    BY DEF NamesOK
  <2>2. Holders(clients', p) = Holders(clients, p)
    BY <1>2, HoldersSame
  <2> QED
    BY <2>1, <2>2 DEF Balanced
<1> QED
  BY <1>1, <1>3, <1>4 DEF Balanced

\* A slot gives up its queue, and the queue has one descriptor less.
LEMMA SlotGivenUp ==
  ASSUME ClientsOK, NamesOK, Balanced, NEW s \in Slots, clients[s].mq # NoQueue,
         clients'[s].mq = NoQueue, \A t \in Slots \ {s} : clients'[t].mq = clients[t].mq,
         held' = [held EXCEPT ![clients[s].mq] = @ - 1]
  PROVE  Balanced' /\ held' \in [Queues -> Nat]
<1> DEFINE q == clients[s].mq
<1>1. q \in Queues /\ NoQueue \notin Queues
  BY BrokerAssumption DEF ClientsOK, ClientType
<1>2. held'[q] = held[q] - 1 /\ \A p \in Queues \ {q} : held'[p] = held[p]
  BY <1>1 DEF NamesOK
<1>3. held'[q] = Cardinality(Holders(clients', q))
  <2>1. Cardinality(Holders(clients', q)) = Cardinality(Holders(clients, q)) - 1
    <3>1. clients[s].mq = q /\ clients'[s].mq # q
      BY <1>1
    <3> QED
      BY <3>1, HolderRemoved
  <2> QED
    BY <1>1, <1>2, <2>1 DEF Balanced
<1>4. ASSUME NEW p \in Queues \ {q} PROVE held'[p] = Cardinality(Holders(clients', p))
  <2>1. Holders(clients', p) = Holders(clients, p)
    BY <1>1, HoldersSame
  <2> QED
    BY <1>2, <2>1 DEF Balanced
<1>5. Balanced'
  BY <1>3, <1>4 DEF Balanced
<1>6. \A p \in Queues : held'[p] \in Nat
  BY <1>5, HoldersFinite DEF Balanced
<1>7. held' = [p \in Queues |-> held'[p]]
  BY DEF NamesOK
<1> QED
  BY <1>5, <1>6, <1>7

\* No slot gets or gives up a queue.
LEMMA SlotsKept ==
  ASSUME NamesOK, Balanced, \A t \in Slots : clients'[t].mq = clients[t].mq, UNCHANGED held
  PROVE  Balanced' /\ held' \in [Queues -> Nat]
<1>1. \A q \in Queues : Holders(clients', q) = Holders(clients, q)
  BY HoldersSame
<1> QED
  BY <1>1 DEF Balanced, NamesOK

\* Actions that open and close no descriptor.
HeldKept ==
  \/ CheckShutdown \/ Receive \/ ReceiveTimesOut \/ OpenFails \/ OpenRefused \/ OpenWelcomed
  \/ Answers \/ Wait \/ ReplySent \/ ReplyLost \/ Close
  \/ Publish \/ ScanToHit \/ PublishDone \/ Delivered \/ NotDelivered \/ Evict
  \/ CleanupSlot \/ CleanupDone \/ Outside

\* The steps listed in HeldKept open and close no descriptor.
LEMMA HeldUnchanged == HeldKept => UNCHANGED held
BY DEF HeldKept, CheckShutdown, Receive, ReceiveTimesOut, OpenFails, OpenRefused, OpenWelcomed,
       Answers, SubscribeRefused, SubscribeFails, Subscribe, Unsubscribe, UnsubscribeFails, Ioctl,
       IoctlRefused, Answer, Wait, ReplySent, ReplyLost, Close, Publish, ScanToHit, PublishDone,
       Delivered, NotDelivered, Evict, CleanupSlot, CleanupDone, Outside, ClientsNext, UnlinkQueue,
       CreateQueue, SendRequest, ReadQueue, Signal, vars

\* The steps listed in HeldKept neither give a slot a queue nor take one from it.
LEMMA QueuesOfSlotsKept ==
  ASSUME TypeOK, Control, HeldKept
  PROVE  \A t \in Slots : clients'[t].mq = clients[t].mq
<1>1. CASE ClientsKept
  BY <1>1, ClientsUnchanged
<1>2. CASE ReplySent \/ ReplyLost \/ Delivered \/ NotDelivered
  <2>1. cur \in Slots /\ (ResetMissed(cur) \/ CountMissed(cur))
    BY <1>2 DEF ReplySent, ReplyLost, Delivered, NotDelivered, Control
  <2> QED
    BY <2>1, MissesKeepQueues DEF TypeOK
<1>3. CASE Subscribe \/ Unsubscribe
  <2>1. PICK v : clients' = [clients EXCEPT ![msg.fd].topics = v]
    BY <1>3 DEF Subscribe, Unsubscribe
  <2> QED
    BY <2>1 DEF TypeOK, ClientsOK, ClientType
<1>4. CASE Ioctl
  <2>1. clients' = [clients EXCEPT ![msg.fd].reply_timeout = msg.arg]
    BY <1>4 DEF Ioctl
  <2> QED
    BY <2>1 DEF TypeOK, ClientsOK, ClientType
<1> QED
  BY <1>1, <1>2, <1>3, <1>4 DEF HeldKept, Answers, Outside, ClientsKept

\* Every step keeps a name to at most one queue.
LEMMA NamesTyped ==
  ASSUME TypeOK, [Next]_vars
  PROVE  names' \in [Names -> Queues \cup {NoQueue}]
<1>1. CASE UNCHANGED names
  BY <1>1 DEF TypeOK, NamesOK
<1>2. CASE \E n \in Names : UnlinkQueue(n) \/ \E q \in Queues : CreateQueue(n, q)
  BY <1>2 DEF UnlinkQueue, CreateQueue, TypeOK, NamesOK
<1>3. CASE BrokerNext
  BY <1>1, <1>3 DEF BrokerNext, CheckShutdown, Receive, ReceiveTimesOut, OpenFails, Open,
     OpenRefused, OpenWelcomed, OpenUndone, SubscribeRefused, SubscribeFails, Subscribe,
     Unsubscribe, UnsubscribeFails, Ioctl, IoctlRefused, Answer, Wait, ReplySent, ReplyLost,
     Close, CloseAcked, CloseUnacked, Publish, ScanToHit, PublishDone, Delivered, NotDelivered,
     Evict, CleanupSlot, CleanupDone
<1> QED
  BY <1>1, <1>2, <1>3 DEF Next, ClientsNext, SendRequest, ReadQueue, Signal, vars

\* Every step keeps the balance: mq_open with a slot taken, mq_close with a slot given up.
THEOREM BalanceStep ==
  ASSUME TypeOK, Control, Balanced, [Next]_vars
  PROVE  Balanced' /\ NamesOK'
<1>1. Balanced' /\ held' \in [Queues -> Nat]
  <2>1. CASE HeldKept
    BY <2>1, HeldUnchanged, QueuesOfSlotsKept, SlotsKept DEF TypeOK
  <2>2. CASE Open
    <3> DEFINE q == names[msg.arg]
    <3>1. PICK s \in FreeSlots : clients' = [clients EXCEPT ![s].mq = q]
      BY <2>2 DEF Open
    <3>2. q \in Queues /\ held' = [held EXCEPT ![q] = @ + 1]
      BY <2>2 DEF Open, TypeOK, NamesOK
    <3>3. s \in Slots /\ clients[s].mq = NoQueue
      BY DEF FreeSlots, InUse, Queue
    <3>4. clients'[s].mq = q /\ \A t \in Slots \ {s} : clients'[t].mq = clients[t].mq
      BY <3>1, <3>3 DEF TypeOK, ClientsOK, ClientType
    <3> HIDE DEF q
    <3> QED
      BY <3>2, <3>3, <3>4, SlotTaken DEF TypeOK
  <2>3. CASE OpenUndone
    <3>1. cur \in Slots /\ clients[cur].mq # NoQueue
      BY <2>3 DEF OpenUndone, Control, InUse, Queue
    <3>2. /\ clients' = [clients EXCEPT ![cur].mq = NoQueue]
          /\ held' = [held EXCEPT ![clients[cur].mq] = @ - 1]
      BY <2>3 DEF OpenUndone, Queue
    <3>3. clients'[cur].mq = NoQueue /\ \A t \in Slots \ {cur} : clients'[t].mq = clients[t].mq
      BY <3>1, <3>2 DEF TypeOK, ClientsOK, ClientType
    <3> QED
      BY <3>1, <3>2, <3>3, SlotGivenUp DEF TypeOK
  <2>4. CASE CloseAcked \/ CloseUnacked
    <3>1. cur \in Slots
      BY <2>4 DEF CloseAcked, CloseUnacked, Control
    <3>2. PICK m : Vacate(cur, m)
      BY <2>4 DEF CloseAcked, CloseUnacked
    <3>3. clients'[cur].mq = NoQueue /\ \A t \in Slots \ {cur} : clients'[t].mq = clients[t].mq
      BY <3>1, <3>2 DEF Vacate, TypeOK, ClientsOK, ClientType
    <3>4. CASE InUse(cur)
      <4>1. clients[cur].mq # NoQueue /\ held' = [held EXCEPT ![clients[cur].mq] = @ - 1]
        BY <3>2, <3>4 DEF Vacate, InUse, Queue
      <4> QED
        BY <3>1, <3>3, <4>1, SlotGivenUp DEF TypeOK
    <3>5. CASE ~InUse(cur)
      <4>1. clients[cur].mq = NoQueue /\ UNCHANGED held
        BY <3>2, <3>5 DEF Vacate, InUse, Queue
      <4> QED
        BY <3>3, <4>1, SlotsKept DEF TypeOK
    <3> QED
      BY <3>4, <3>5
  <2> QED
    BY <2>1, <2>2, <2>3, <2>4 DEF Next, BrokerNext, HeldKept, Answers, Outside
<1> QED
  BY <1>1, NamesTyped DEF NamesOK

\* The three together are inductive: the types rest on the counts and on where the broker is.
TypeInv == TypeOK /\ Control /\ Balanced

\* The broker starts serving no slot and with no descriptor open.
LEMMA InitControlled == Init => Control /\ Balanced
<1> SUFFICES ASSUME Init PROVE Control /\ Balanced
  OBVIOUS
<1>1. Control
  BY DEF Init, Control, Commands, Publishing, CleaningUp
<1>2. ASSUME NEW q \in Queues PROVE held[q] = Cardinality(Holders(clients, q))
  <2>1. Holders(clients, q) = {}
    BY BrokerAssumption DEF Init, Holders, NoClient
  <2> QED
    BY <2>1, FS_EmptySet DEF Init
<1> QED
  BY <1>1, <1>2 DEF Balanced

\* The inductive invariant: types, control and balance hold in every state of the broker.
THEOREM TypeInvariant == Spec => []TypeInv
<1>1. Init => TypeInv
  BY InitTypes, InitControlled DEF TypeInv
<1>2. TypeInv /\ [Next]_vars => TypeInv'
  <2> SUFFICES ASSUME TypeInv, [Next]_vars PROVE TypeInv'
    OBVIOUS
  <2>1. TypeOK /\ Control /\ Balanced
    BY DEF TypeInv
  <2> QED
    BY <2>1, ClientsStep, QueuesStep, PlaceStep, ControlStep, BalanceStep DEF TypeInv, TypeOK
<1> QED
  BY <1>1, <1>2, PTL DEF Spec

(***************************************************************************)
(* Every reachable state is well-typed.                                    *)
(***************************************************************************)
THEOREM TypeCorrect == Spec => []TypeOK
<1>1. TypeInv => TypeOK
  BY DEF TypeInv
<1> QED
  BY <1>1, TypeInvariant, PTL

(***************************************************************************)
(* No descriptor leaks, and none is closed twice (broker.c:404-442, 632,   *)
(* 713-733, 1070): at all times the broker holds each queue as often as    *)
(* slots point to it.                                                      *)
(***************************************************************************)
THEOREM DescriptorsAreBalanced == Spec => []DescriptorsBalanced
<1>1. TypeInv => DescriptorsBalanced
  BY BalancedIs DEF TypeInv
<1> QED
  BY <1>1, TypeInvariant, PTL
-----------------------------------------------------------------------------
(* Eviction: the room made for a CLOSE is still there when it is sent.     *)

\* Every step keeps the room for CLOSE: from broker.c:731 to 733 only the broker sends.
THEOREM RoomStep ==
  ASSUME TypeOK, Control, RoomForClose, [Next]_vars
  PROVE  RoomForClose'
<1> SUFFICES ASSUME pc' = "closing", ret' = "scan"
             PROVE  Len(mqs'[clients'[cur'].mq]) < QueueMax
  BY DEF RoomForClose, Queue
<1>1. QueueMax \in Nat /\ QueueMax > 0
  BY BrokerAssumption
<1>2. CASE Outside \/ Wait
  <2>1. /\ pc = "closing" /\ ret = "scan" /\ UNCHANGED <<clients, cur>>
        /\ clients[cur].mq \in Queues /\ Len(mqs[clients[cur].mq]) < QueueMax
    BY <1>2, OutsideKeeps DEF Wait, local, RoomForClose, Control, InUse, Queue, TypeOK, ClientsOK,
       ClientType
  <2> DEFINE q == clients[cur].mq
  <2>2. CASE UNCHANGED mqs
    BY <2>1, <2>2
  <2>3. CASE \E n \in Names, p \in Queues : CreateQueue(n, p)
    <3>1. PICK p \in Queues : mqs' = [mqs EXCEPT ![p] = <<>>]
      BY <2>3 DEF CreateQueue
    <3> QED
      BY <1>1, <2>1, <3>1 DEF TypeOK, QueuesOK
  <2>4. CASE \E p \in Queues : ReadQueue(p)
    <3>1. PICK p \in Queues : TakeFrom(p) /\ UNCHANGED ctrl
      BY <2>4 DEF ReadQueue
    <3>2. CASE p = q
      <4>1. Len(mqs'[p]) = Len(mqs[p]) - 1
        BY <3>1, TakeFromTyped DEF TypeOK
      <4>2. Len(mqs[p]) \in Nat
        BY DEF TypeOK, QueuesOK
      <4> QED
        BY <1>1, <2>1, <3>2, <4>1, <4>2
    <3>3. CASE p # q
      BY <2>1, <3>1, <3>3 DEF TakeFrom, TypeOK, QueuesOK
    <3> QED
      BY <3>2, <3>3
  <2> QED
    BY <1>2, <2>2, <2>3, <2>4 DEF Outside, Wait, ClientsNext, UnlinkQueue, SendRequest, Signal, vars
<1>3. CASE Evict
  <2>1. UNCHANGED <<clients, ctrl>> /\ cur' = cur /\ cur \in Slots
    BY <1>3 DEF Evict, StartClose, Control
  <2> DEFINE q == clients[cur].mq
  <2>2. q \in Queues
    BY <1>3, <2>1 DEF Evict, Control, InUse, Queue, TypeOK, ClientsOK, ClientType
  <2>3. CASE mqs[q] = <<>>
    <3>1. mqs' = mqs
      BY <1>3, <2>3 DEF Evict, Queue
    <3> QED
      BY <1>1, <2>1, <2>3, <3>1
  <2>4. CASE mqs[q] # <<>>
    <3>1. TakeFrom(q)
      BY <1>3, <2>4 DEF Evict, Queue
    <3>2. Len(mqs'[q]) = Len(mqs[q]) - 1 /\ Len(mqs[q]) \in Nat /\ Len(mqs[q]) <= QueueMax
      BY <2>1, <2>2, <3>1, TakeFromTyped DEF TypeOK, QueuesOK
    <3> QED
      BY <1>1, <2>1, <3>2
  <2> QED
    BY <2>3, <2>4
<1>4. CASE CheckShutdown \/ Receive \/ ReceiveTimesOut \/ Open \/ Answers \/ Publish \/ ScanToHit
             \/ Delivered \/ NotDelivered \/ CleanupDone
  BY <1>4, AnswersAnswer DEF CheckShutdown, Receive, ReceiveTimesOut, Open, Answer, Publish,
     ScanToHit, Delivered, NotDelivered, CleanupDone, Commands
<1>5. CASE OpenFails \/ OpenRefused \/ OpenWelcomed \/ OpenUndone \/ ReplySent \/ ReplyLost
             \/ PublishDone
  BY <1>5 DEF OpenFails, OpenRefused, OpenWelcomed, OpenUndone, ReplySent, ReplyLost, PublishDone,
     BackToLoop
<1>6. CASE Close \/ CleanupSlot
  BY <1>6 DEF Close, CleanupSlot, StartClose
<1>7. CASE CloseAcked \/ CloseUnacked
  BY <1>7 DEF CloseAcked, CloseUnacked, CloseReturns, BackToLoop, TypeOK, PlaceOK
<1> QED
  BY <1>2, <1>3, <1>4, <1>5, <1>6, <1>7 DEF Next, BrokerNext, Answers, Outside

\* The action of EvictedIsTold.
TellsEvicted ==
  \A s \in Slots :
    InUse(s) /\ ret = "scan" /\ clients'[s].mq = NoQueue
      => \E i \in DOMAIN mqs'[Queue(s)] : mqs'[Queue(s)][i].cmd = "close"

\* With room for it, the CLOSE of an eviction is on the queue when the slot is given up.
LEMMA EvictionTells ==
  ASSUME TypeOK, Control, RoomForClose, Next
  PROVE  TellsEvicted
<1> SUFFICES ASSUME NEW s \in Slots, InUse(s), ret = "scan", clients'[s].mq = NoQueue
             PROVE  \E i \in DOMAIN mqs'[Queue(s)] : mqs'[Queue(s)][i].cmd = "close"
  BY DEF TellsEvicted
<1>1. CASE HeldKept
  BY <1>1, QueuesOfSlotsKept DEF InUse, Queue
<1>2. CASE Open \/ OpenUndone
  BY <1>2 DEF Open, OpenUndone, Control, Publishing
<1>3. CASE CloseAcked \/ CloseUnacked
  <2>1. pc = "closing" /\ cur \in Slots /\ InUse(cur) /\ Len(mqs[Queue(cur)]) < QueueMax
    BY <1>3 DEF CloseAcked, CloseUnacked, Control, RoomForClose
  <2>2. Queue(cur) \in Queues
    BY <2>1 DEF InUse, Queue, TypeOK, ClientsOK, ClientType
  <2>3. mqs[Queue(cur)] \in Seq(ReplyType) /\ QueueMax \in Nat
    BY <2>2, BrokerAssumption DEF TypeOK, QueuesOK
  <2>4. CanSend(cur)
    BY <2>1, <2>3 DEF CanSend, MqFull
  <2>5. CloseAcked
    BY <1>3, <2>1, <2>4 DEF CloseUnacked, SendFails
  <2>6. s = cur
    BY <2>5, <2>1 DEF CloseAcked, Vacate, InUse, Queue, TypeOK, ClientsOK, ClientType
  <2> DEFINE m == Reply("close", "OK", "none")
             q == mqs[Queue(cur)]
  <2>7. mqs'[Queue(cur)] = Append(q, m)
    BY <2>2, <2>5 DEF CloseAcked, SendTo, MqSend, TypeOK, QueuesOK
  <2>8. m.cmd = "close"
    BY DEF Reply
  <2> HIDE DEF m, q
  <2>9. Len(q) + 1 \in DOMAIN Append(q, m) /\ Append(q, m)[Len(q) + 1] = m
    BY <2>3 DEF q
  <2> QED
    BY <2>6, <2>7, <2>8, <2>9
<1> QED
  BY <1>1, <1>2, <1>3 DEF Next, BrokerNext, HeldKept, Answers, Outside

\* There is room for the CLOSE of a client under eviction, in every state.
THEOREM RoomInvariant == Spec => [](TypeInv /\ RoomForClose)
<1>1. Init => RoomForClose
  BY DEF Init, RoomForClose
<1>2. TypeInv /\ RoomForClose /\ [Next]_vars => RoomForClose'
  BY RoomStep DEF TypeInv
<1> QED
  BY <1>1, <1>2, TypeInvariant, PTL DEF Spec

(***************************************************************************)
(* The drain of a full queue is enough (broker.c:717-733): whatever the    *)
(* other processes do meanwhile, the CLOSE of an eviction is delivered.    *)
(***************************************************************************)
THEOREM EvictedAreTold == Spec => EvictedIsTold
<1>1. TypeInv /\ RoomForClose /\ [Next]_vars => [TellsEvicted]_vars
  BY EvictionTells DEF TypeInv
<1> QED
  BY <1>1, RoomInvariant, PTL DEF Spec, EvictedIsTold, TellsEvicted
-----------------------------------------------------------------------------
(* Cleanup: the slots it has passed stay free.                             *)

\* Every step keeps the slots behind psmqd_broker_cleanup free (broker.c:1063-1075).
THEOREM PassedAreFreeStep ==
  ASSUME TypeOK, Control, PassedAreFree, [Next]_vars
  PROVE  PassedAreFree'
<1> USE DEF PassedAreFree, CleaningUp
<1>1. CASE Outside \/ Wait
  BY <1>1, OutsideKeeps DEF local, Wait, InUse, Queue
<1>2. CASE CheckShutdown
  BY <1>2 DEF CheckShutdown, local, Control, Slots
<1>3. CASE OpenFails \/ OpenRefused \/ OpenWelcomed \/ OpenUndone \/ ReplySent \/ ReplyLost
             \/ PublishDone
  BY <1>3 DEF OpenFails, OpenRefused, OpenWelcomed, OpenUndone, ReplySent, ReplyLost, PublishDone,
     BackToLoop
<1>4. CASE Receive \/ ReceiveTimesOut \/ Open \/ Answers \/ Publish \/ ScanToHit \/ Delivered
             \/ NotDelivered
  BY <1>4, AnswersAnswer DEF Receive, ReceiveTimesOut, Open, Answer, Publish, ScanToHit,
     Delivered, NotDelivered, Commands
<1>5. CASE Close \/ Evict
  BY <1>5 DEF Close, Evict, StartClose
<1>6. CASE CleanupSlot
  <2>1. PICK s \in SlotsToClose : (\A t \in SlotsToClose : s <= t) /\ cur' = s /\ UNCHANGED clients
                                  /\ pc' = "closing"
    BY <1>6 DEF CleanupSlot, StartClose
  <2>2. ASSUME NEW t \in Slots, t < s PROVE ~InUse(t)
    <3>1. t \in Nat /\ s \in Nat /\ cur \in Nat /\ ~(s <= t)
      BY <2>2 DEF SlotsToClose, Slots, TypeOK, PlaceOK
    <3>2. t \notin SlotsToClose
      BY <2>1, <3>1
    <3>3. CASE t < cur
      BY <1>6, <3>3 DEF CleanupSlot
    <3>4. CASE ~(t < cur)
      BY <3>1, <3>2, <3>4 DEF SlotsToClose
    <3> QED
      BY <3>3, <3>4
  <2> QED
    BY <2>1, <2>2 DEF InUse, Queue
<1>7. CASE CleanupDone
  <2>1. pc = "cleanup" /\ SlotsToClose = {} /\ UNCHANGED clients
    BY <1>7 DEF CleanupDone
  <2>2. ASSUME NEW t \in Slots PROVE ~InUse(t)
    <3>1. t \in Nat /\ cur \in Nat
      BY DEF Slots, TypeOK, PlaceOK
    <3> QED
      BY <2>1, <3>1 DEF SlotsToClose
  <2> QED
    BY <1>7, <2>1, <2>2 DEF CleanupDone, InUse, Queue
<1>8. CASE CloseAcked \/ CloseUnacked
  <2>1. PICK m : Vacate(cur, m) /\ CloseReturns /\ pc = "closing" /\ cur \in Slots
    BY <1>8 DEF CloseAcked, CloseUnacked, Control
  <2>2. CASE ret = "cleanup"
    <3>1. cur' = cur + 1 /\ pc' = "cleanup"
      BY <2>1, <2>2 DEF CloseReturns
    <3>2. ASSUME NEW t \in Slots, t < cur + 1 PROVE clients'[t].mq = NoQueue
      <4>1. CASE t = cur
        BY <2>1, <4>1 DEF Vacate, TypeOK, ClientsOK, ClientType
      <4>2. CASE t # cur
        <5>1. t < cur
          BY <2>1, <3>2, <4>2 DEF Slots
        <5>2. clients[t].mq = NoQueue
          BY <2>1, <2>2, <5>1 DEF InUse, Queue
        <5> QED
          BY <2>1, <4>2, <5>2 DEF Vacate, TypeOK, ClientsOK
      <4> QED
        BY <4>1, <4>2
    <3> QED
      BY <3>1, <3>2 DEF InUse, Queue
  <2>3. CASE ret # "cleanup"
    BY <2>1, <2>3 DEF CloseReturns, BackToLoop, TypeOK, PlaceOK
  <2> QED
    BY <2>2, <2>3
<1> QED
  BY <1>1, <1>2, <1>3, <1>4, <1>5, <1>6, <1>7, <1>8 DEF Next, BrokerNext, Answers, Outside

\* The slots cleanup has passed are free, in every state.
THEOREM CleanupInvariant == Spec => [](TypeInv /\ PassedAreFree)
<1>1. Init => PassedAreFree
  BY DEF Init, PassedAreFree, CleaningUp
<1>2. TypeInv /\ PassedAreFree /\ [Next]_vars => PassedAreFree'
  BY PassedAreFreeStep DEF TypeInv
<1> QED
  BY <1>1, <1>2, TypeInvariant, PTL DEF Spec

(***************************************************************************)
(* psmqd_broker_cleanup leaves no descriptor of a client's queue open      *)
(* (broker.c:1057-1081), though closing a slot it moves on by itself.      *)
(***************************************************************************)
THEOREM NothingIsHeldAtExit == Spec => []NothingHeldAtExit
<1>1. TypeInv /\ PassedAreFree => NothingHeldAtExit
  <2> SUFFICES ASSUME TypeInv, PassedAreFree, pc = "exited", NEW q \in Queues PROVE held[q] = 0
    BY DEF NothingHeldAtExit
  <2>1. Holders(clients, q) = {}
    BY BrokerAssumption DEF PassedAreFree, InUse, Queue, Holders
  <2> QED
    BY <2>1, FS_EmptySet DEF TypeInv, Balanced
<1> QED
  BY <1>1, CleanupInvariant, PTL
=============================================================================
