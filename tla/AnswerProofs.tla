---------------------------- MODULE AnswerProofs ----------------------------
(***************************************************************************)
(* Proof that the answer to the first -t of psmq-sub comes before anything *)
(* else, so that psmq-sub may insist on it.                                *)
(*                                                                         *)
(* Until a client has asked for something its queue is empty, but for the  *)
(* one answer to its OPEN; and once it has asked for its first topic,      *)
(* nothing is sent to it before that request is answered.                  *)
(***************************************************************************)
EXTENDS ProgramsProofs

\* Nothing is published with a priority.
Flat == \A i \in DOMAIN Publishes : Publishes[i][2] = 0

\* Message r is one that programs send, or the broker answers them.
Made(r) ==
  /\ r.cmd # "unsubscribe"
  /\ r.cmd = "ioctl" => r.arg = "positive"
  /\ Flat => r.prio = 0

\* Nothing else is ever on its way.
AllMade ==
  /\ \A i \in DOMAIN ctrl : Made(ctrl[i])
  /\ Made(msg) /\ Made(out) /\ pc # "unsubscribe"
  /\ \A q \in Queues : \A m \in Elems(mqs[q]) : Made(m)

\* Client c has asked for nothing since it connected.
Silent(c) == asked[c] = {} /\ ~timed[c]

\* psmq-sub asks for nothing before its first -t, and for nothing else until that is answered.
FirstTopic ==
  \A c \in Subs :
    /\ prog[c] = "ack" => opt[c] \in DOMAIN Options(c) /\ Options(c)[opt[c]].opt = "t"
    /\ prog[c] = "options" /\ ~Seen(c, "t") => Silent(c)
    /\ prog[c] = "ack" /\ ~Seen(c, "t") => ~timed[c]

\* Nothing waits for a client that has asked for nothing, except the answer to its OPEN.
Calm(c) ==
  qsub[c] # NoQueue /\ Silent(c) =>
    \/ mqs[qsub[c]] = <<>>
    \/ at[c] = "wait" /\ Len(mqs[qsub[c]]) = 1 /\ mqs[qsub[c]][1].cmd = "open"

\* The answer to a SUBSCRIBE is the first message in queue q.
AnswerIn(q) == mqs[q] # <<>> /\ mqs[q][1].cmd = "subscribe"

\* No slot with queue q has a topic.
NoTopics(q) == \A s \in Slots : Queue(s) = q => Elems(clients[s].topics) = {}

\* It will be: there is no reason yet to send anything else, or the answer is being sent.
AnswerDue(q) ==
  /\ mqs[q] = <<>>
  /\ NoTopics(q) \/ (pc = "reply" /\ Queue(cur) = q /\ out.cmd = "subscribe")

\* psmq-sub, waiting for the answer to its first -t, will find that first.
Answered(c) == prog[c] = "ack" /\ ~Seen(c, "t") => AnswerIn(qsub[c]) \/ AnswerDue(qsub[c])

\* Nobody is evicted, the broker is not on its way out, and every program waits for the
\* answer to its OPEN.
Peaceful == Flat /\ Undisturbed /\ ~unread

FirstAnswers ==
  /\ \A c \in Clients : Calm(c)
  /\ \A c \in Subs : Answered(c) /\ (prog[c] = "invalid" => Seen(c, "t"))

AnswersInv == AllMade /\ FirstTopic /\ (Peaceful => FirstAnswers)
-----------------------------------------------------------------------------
(* What is sent.                                                           *)

\* The broker sends message m to queue q.
Sent(q, m) ==
  /\ mqs' = [mqs EXCEPT ![q] = MqSend(mqs[q], m)]
  /\ \/ ReplySent /\ q = Queue(cur) /\ m = out
     \/ OpenRefused /\ q = names[msg.arg] /\ m = Reply("open", "ENOSPC", "none")
     \/ OpenWelcomed /\ q = Queue(cur) /\ m = [Reply("open", "OK", "none") EXCEPT !.fd = cur]
     \/ CloseAcked /\ q = Queue(cur) /\ m = Reply("close", "OK", "none")
     \/ Delivered /\ q = Queue(cur) /\ m = Publication

\* Unless it evicts somebody the broker sends one message, or leaves the queues alone.
LEMMA BrokerSends ==
  ASSUME TypeOK, Control, BrokerNext \/ Signal
  PROVE  UNCHANGED mqs \/ Evict \/ \E q \in Queues : \E m : Sent(q, m)
<1>1. CASE QueuesKept \/ Receive
  BY <1>1, QueuesUnchanged DEF Receive
<1>2. pc \in {"reply", "welcome", "closing", "deliver"} /\ CanSend(cur) => Queue(cur) \in Queues
  BY DEF Control, CanSend, InUse, Queue, TypeOK, ClientsOK, ClientType
<1>3. CASE ReplySent
  <2>1. Sent(Queue(cur), out)
    BY <1>3 DEF ReplySent, SendTo, Sent
  <2> QED
    BY <1>2, <1>3, <2>1 DEF ReplySent
<1>4. CASE OpenWelcomed
  <2>1. Sent(Queue(cur), [Reply("open", "OK", "none") EXCEPT !.fd = cur])
    BY <1>4 DEF OpenWelcomed, SendTo, Sent
  <2> QED
    BY <1>2, <1>4, <2>1 DEF OpenWelcomed
<1>5. CASE CloseAcked
  <2>1. Sent(Queue(cur), Reply("close", "OK", "none"))
    BY <1>5 DEF CloseAcked, SendTo, Sent
  <2> QED
    BY <1>2, <1>5, <2>1 DEF CloseAcked
<1>6. CASE Delivered
  <2>1. Sent(Queue(cur), Publication)
    BY <1>6 DEF Delivered, SendTo, Sent
  <2> QED
    BY <1>2, <1>6, <2>1 DEF Delivered
<1>7. CASE OpenRefused
  <2>1. UNCHANGED mqs \/ Sent(names[msg.arg], Reply("open", "ENOSPC", "none"))
    BY <1>7 DEF OpenRefused, Sent
  <2>2. names[msg.arg] \in Queues
    BY <1>7 DEF OpenRefused, TypeOK, NamesOK
  <2> QED
    BY <2>1, <2>2
<1> QED
  BY <1>1, <1>3, <1>4, <1>5, <1>6, <1>7 DEF BrokerNext, QueuesKept

\* A message sent is new on its queue, and nothing else is anywhere.
LEMMA SentElems ==
  ASSUME QueuesOK, NEW q \in Queues, NEW m, Sent(q, m)
  PROVE  /\ \A p \in Queues \ {q} : mqs'[p] = mqs[p]
         /\ mqs'[q] = Append(mqs[q], m)
         /\ Elems(mqs'[q]) = Elems(mqs[q]) \cup {m}
<1>1. mqs \in [Queues -> Seq(ReplyType)] /\ mqs[q] \in Seq(ReplyType)
  BY DEF QueuesOK
<1>2. mqs' = [mqs EXCEPT ![q] = MqSend(mqs[q], m)]
  BY DEF Sent
<1>3. Elems(MqSend(mqs[q], m)) = Elems(mqs[q]) \cup {m}
  BY <1>1, SendElems
<1> QED
  BY <1>1, <1>2, <1>3 DEF MqSend
-----------------------------------------------------------------------------
(* What is on its way is what programs send, and answers to it.            *)

\* The broker takes requests from the control queue and adds none.
LEMMA CtrlServed ==
  ASSUME TypeOK, BrokerNext \/ Signal
  PROVE  \A j \in DOMAIN ctrl' : \E i \in DOMAIN ctrl : ctrl'[j] = ctrl[i]
<1>1. CASE QueuesKept
  BY <1>1, QueuesUnchanged
<1>2. CASE Receive
  <2>1. PICK i \in DOMAIN ctrl : ctrl' = MqRest(ctrl, i)
    BY <1>2 DEF Receive
  <2>2. ctrl \in Seq(Requests)
    BY DEF TypeOK, QueuesOK
  <2> QED
    BY <2>1, <2>2, RestOrder
<1>3. CASE ReplySent \/ OpenRefused \/ OpenWelcomed \/ CloseAcked \/ Delivered \/ Evict
  BY <1>3 DEF ReplySent, OpenRefused, OpenWelcomed, CloseAcked, Delivered, Evict
<1> QED
  BY <1>1, <1>2, <1>3 DEF BrokerNext, QueuesKept

\* What the broker serves and answers is that as well.
LEMMA MadeReceived ==
  ASSUME TypeOK, Plain, AllMade, BrokerNext \/ Signal
  PROVE  Made(msg)' /\ Made(out)' /\ pc' # "unsubscribe"
<1>0. Made(NoRequest) /\ Made(NoReply)
  BY DEF Made, NoRequest, NoReply, Reply
<1>1. CASE Answers
  <2>1. UNCHANGED msg /\ pc' = "reply"
    BY <1>1, AnswersAnswer DEF Answer
  <2>2. PICK cmd, data : out' = Reply(cmd, data, msg.arg) /\ cmd = pc
    BY <1>1 DEF Answers, SubscribeRefused, SubscribeFails, Subscribe, Unsubscribe,
       UnsubscribeFails, Ioctl, IoctlRefused, Answer
  <2>3. out'.cmd = pc /\ out'.arg = msg.arg /\ out'.prio = 0
    BY <2>2 DEF Reply
  <2>4. pc = "ioctl" => msg.arg = "positive"
    BY DEF Plain, AllMade, Made, Settings
  <2> QED
    BY <2>1, <2>3, <2>4 DEF Made, AllMade
<1>2. CASE Receive
  <2>1. UNCHANGED out
    BY <1>2 DEF Receive
  <2>2. PICK i \in DOMAIN ctrl : \/ pc' = ctrl[i].cmd /\ msg' = ctrl[i]
                                 \/ pc' = "check" /\ msg' = NoRequest
    BY <1>2 DEF Receive
  <2>3. Made(ctrl[i])
    BY DEF AllMade
  <2> QED
    BY <1>0, <2>1, <2>2, <2>3 DEF AllMade, Made
<1>3. CASE BrokerNext /\ ~Answers /\ ~Receive
  <2>1. (BackToLoop \/ UNCHANGED <<msg, out>>) /\ pc' # "unsubscribe"
    BY <1>3 DEF BrokerNext, CheckShutdown, ReceiveTimesOut, OpenFails, Open, OpenRefused,
       OpenWelcomed, OpenUndone, Answers, Wait, ReplySent, ReplyLost, Close, StartClose, CloseAcked,
       CloseUnacked, CloseReturns, Publish, ScanToHit, PublishDone, Delivered, NotDelivered,
       Evict, CleanupSlot, CleanupDone, BackToLoop, TypeOK, PlaceOK, AllMade, local
  <2> QED
    BY <1>0, <2>1 DEF BackToLoop, AllMade, Made
<1>4. CASE Signal
  BY <1>4 DEF Signal, local, AllMade, Made
<1> QED
  BY <1>1, <1>2, <1>3, <1>4

\* Every step of the broker keeps it so.
LEMMA MadeServed ==
  ASSUME TypeOK, Control, Plain, AllMade, BrokerNext \/ Signal
  PROVE  AllMade'
<1>1. \A i \in DOMAIN ctrl' : Made(ctrl[i])'
  BY CtrlServed DEF AllMade, Made
<1>2. ASSUME NEW q \in Queues, NEW m, Sent(q, m)
      PROVE  Made(m)
  BY <1>2 DEF Sent, AllMade, Made, Reply, Publication
<1>3. ASSUME NEW p \in Queues, NEW r \in Elems(mqs'[p])
      PROVE  Made(r)
  <2>1. CASE UNCHANGED mqs
    BY <1>3, <2>1 DEF AllMade
  <2>2. CASE Evict
    <3>1. UNCHANGED mqs \/ \E q \in Queues : TakeFrom(q)
      BY <2>2 DEF Evict, Control, InUse, Queue, TypeOK, ClientsOK, ClientType
    <3>2. Elems(mqs'[p]) \subseteq Elems(mqs[p])
      BY <3>1, TakenFrom DEF TypeOK
    <3> QED
      BY <1>3, <3>2 DEF AllMade
  <2>3. CASE \E q \in Queues : \E m : Sent(q, m)
    <3>1. PICK q \in Queues : \E m : Sent(q, m)
      BY <2>3
    <3>2. PICK m : Sent(q, m)
      BY <3>1
    <3>3. r \in Elems(mqs[p]) \/ r = m
      BY <1>3, <3>2, SentElems DEF TypeOK
    <3> QED
      BY <1>2, <3>2, <3>3 DEF AllMade
  <2> QED
    BY <2>1, <2>2, <2>3, BrokerSends
<1>4. Made(msg)' /\ Made(out)' /\ pc' # "unsubscribe"
  BY MadeReceived
<1> QED
  BY <1>1, <1>3, <1>4 DEF AllMade, Made

\* A client takes a message from its queue, or makes a queue, or leaves all queues alone.
LEMMA QueuesLeft ==
  ASSUME SInv, NEW c \in Clients, ClientStep(c)
  PROVE  \/ UNCHANGED mqs
         \/ InitCreate(c)
         \/ (InitReceive(c) \/ CallReceive(c)) /\ qsub[c] \in Queues /\ TakeFrom(qsub[c])
<1>1. CASE InitReceive(c) \/ CallReceive(c)
  BY <1>1 DEF InitReceive, CallReceive, CanCall, ReadQueue, SInv, OwnOK, HasQueue
<1>2. CASE InitCreate(c)
  BY <1>2
<1>3. CASE ~InitCreate(c) /\ ~InitReceive(c) /\ ~CallReceive(c)
  BY <1>3 DEF ClientStep, ClientNext, InitStep, InitUnlink, InitCreateFails, InitConnect,
     InitTimesOut, InitGivesUp, InitSendOpen, CallSubscribe, CallUnsubscribe, CallPublish,
     CallIoctl, CallCleanup, CleanupSendsClose, AppUnlink, InitInterrupted, CleanupInterrupted,
     Crash, Sends, UnlinkQueue, SendRequest, vars
<1> QED
  BY <1>1, <1>2, <1>3

\* Clients put nothing into a queue that programs read.
LEMMA QueuesShrink ==
  ASSUME SInv, NEW c \in Clients, ClientStep(c)
  PROVE  \A q \in Queues : Elems(mqs'[q]) \subseteq Elems(mqs[q])
<1>0. TypeOK
  BY DEF SInv, TypeInv
<1>1. CASE UNCHANGED mqs
  BY <1>1
<1>2. CASE InitCreate(c)
  <2>1. PICK q \in Queues : mqs' = [mqs EXCEPT ![q] = <<>>]
    BY <1>2 DEF InitCreate, CreateQueue
  <2> QED
    BY <1>0, <2>1 DEF TypeOK, QueuesOK, Elems
<1>3. CASE qsub[c] \in Queues /\ TakeFrom(qsub[c])
  BY <1>0, <1>3, TakenFrom DEF TypeOK
<1> QED
  BY <1>1, <1>2, <1>3, QueuesLeft

\* A program sends what programs send, or nothing.
LEMMA ProgramMakes ==
  ASSUME PInv, NEW c \in Clients, Moves(c) \/ SendsRequest(c) \/ Happens(c)
  PROVE  ctrl' = ctrl \/ \E r : Made(r) /\ ctrl' = Append(ctrl, r)
<1>1. ASSUME NEW cmd, NEW arg, NEW prio, Sends(c, cmd, arg, prio),
             cmd # "unsubscribe", cmd = "ioctl" => arg = "positive", Flat => prio = 0
      PROVE  \E r : Made(r) /\ ctrl' = Append(ctrl, r)
  <2> DEFINE r == [cmd |-> cmd, fd |-> fd[c], arg |-> arg, prio |-> prio]
  <2>1. Made(r) /\ ctrl' = Append(ctrl, r)
    BY <1>1 DEF Sends, SendRequest, MqSend, Made
  <2> HIDE DEF r
  <2> QED
    BY <2>1
<1>2. CASE ConnectingSends(c)
  <2> DEFINE r == [cmd |-> "open", fd |-> 0, arg |-> c, prio |-> 0]
  <2>1. Made(r) /\ ctrl' = Append(ctrl, r)
    BY <1>2 DEF ConnectingSends, InitSendOpen, SendRequest, MqSend, Made
  <2> HIDE DEF r
  <2> QED
    BY <2>1
<1>3. CASE SendsClose(c)
  BY <1>1, <1>3 DEF SendsClose, CleanupSendsClose
<1>4. CASE SubSubscribes(c)
  BY <1>1, <1>4 DEF SubSubscribes, CallSubscribe
<1>5. CASE SubSetsTimeout(c)
  BY <1>1, <1>5 DEF SubSetsTimeout, CallIoctl
<1>6. CASE c \in Pubs /\ PubPublishes(c)
  <2>1. runs[c] \in DOMAIN Publishes
    BY <1>6 DEF PInv, AtWork, PubPublishes
  <2>2. Flat => Publishes[runs[c]][2] = 0
    BY <2>1 DEF Flat
  <2>3. Sends(c, "publish", Publishes[runs[c]][1], Publishes[runs[c]][2])
    BY <1>6 DEF PubPublishes, CallPublish
  <2> QED
    BY <1>1, <2>2, <2>3
<1>7. CASE \/ Moves(c) \/ Happens(c)
  BY <1>7 DEF Moves, SubMoves, Happens, Connecting, CleansUp, Unlinks, SubConnects,
     SubConnectsNoMore, SubLogs, SubQuits, SubAcked, SubHasNoTopic, SubChecksRun, SubReceives,
     ConnectingFails, CloseInterrupted, Killed, SubStarts, SubInitialises, SubSignal,
     ReceiveInterrupted, SetupInterrupted, PubStarts, PubInterrupted, NoCall, InitUnlink, InitCreate,
     InitCreateFails, InitConnect, InitReceive, InitTimesOut, InitGivesUp, InitInterrupted,
     CallReceive, CallCleanup, AppUnlink, CleanupInterrupted, Crash, UnlinkQueue, CreateQueue,
     ReadQueue, vars
<1> QED
  BY <1>2, <1>3, <1>4, <1>5, <1>6, <1>7 DEF SendsRequest

\* Whatever a program does, what is on its way stays of that kind.
LEMMA MadeSent ==
  ASSUME SInv, PInv, Plain, AllMade, NEW c \in Clients, Moves(c) \/ SendsRequest(c) \/ Happens(c)
  PROVE  AllMade'
<1>0. STypeOK /\ PTypeOK /\ InLibrary /\ AtWork /\ ctrl \in Seq(Requests)
  BY DEF SInv, TypeInv, TypeOK, QueuesOK, PInv
<1>1. ClientStep(c) \/ UNCHANGED svars
  BY <1>0, ProgramImplements
<1>2. BrokerStays
  BY <1>1, ClientStays DEF svars, vars, local, BrokerStays
<1>3. \A i \in DOMAIN ctrl' : Made(ctrl'[i])
  <2>1. CASE ctrl' = ctrl
    BY <2>1 DEF AllMade
  <2>2. ASSUME NEW r, Made(r), ctrl' = Append(ctrl, r)
        PROVE  \A i \in DOMAIN ctrl' : Made(ctrl'[i])
    <3>1. \A i \in DOMAIN ctrl' : ctrl'[i] = r \/ (i \in DOMAIN ctrl /\ ctrl'[i] = ctrl[i])
      BY <1>0, <2>2
    <3> QED
      BY <2>2, <3>1 DEF AllMade
  <2> QED
    BY <2>1, <2>2, ProgramMakes
<1>4. \A q \in Queues : Elems(mqs'[q]) \subseteq Elems(mqs[q])
  BY <1>1, QueuesShrink DEF svars, vars
<1> QED
  BY <1>2, <1>3, <1>4 DEF BrokerStays, AllMade, Made
-----------------------------------------------------------------------------
(* The first -t.                                                           *)

\* How psmq-sub comes to be among its options, waiting for an answer, or disappointed by it.
LEMMA ComesFrom ==
  ASSUME PTypeOK, NEW c \in Subs, c \in Clients, Moves(c) \/ SendsRequest(c) \/ Happens(c)
  PROVE  /\ prog'[c] = "options" =>
              \/ SubInitialises(c) \/ Connecting(c) \/ SubConnectsNoMore(c) \/ SubLogs(c)
              \/ SubAcked(c)
              \/ prog[c] = "options" /\ SubSignal(c)
         /\ prog'[c] = "ack" => SubSubscribes(c) \/ (prog[c] = "ack" /\ SubSignal(c))
         /\ prog'[c] = "invalid" => SubAcked(c) \/ (prog[c] = "invalid" /\ SubSignal(c))
<1>0. \A p : MovesTo(c, p) => prog'[c] = p
  BY DEF PTypeOK, MovesTo
<1>1. CASE ConnectingSends(c) \/ ConnectingFails(c)
  BY <1>1 DEF ConnectingSends, ConnectingFails, pown
<1>2. CASE CleansUp(c) \/ SendsClose(c) \/ CloseInterrupted(c) \/ Killed(c) \/ Unlinks(c)
  BY <1>0, <1>2 DEF CleansUp, SendsClose, CloseInterrupted, Killed, Unlinks, CleanedUp
<1>3. CASE \/ SubConnects(c) \/ SubQuits(c) \/ SubHasNoTopic(c) \/ SubChecksRun(c)
           \/ SubSetsTimeout(c) \/ SubReceives(c)
  BY <1>0, <1>3 DEF SubConnects, SubQuits, SubHasNoTopic, SubChecksRun, SubSetsTimeout,
                    SubReceives, AfterMessage
<1>4. CASE ReceiveInterrupted(c) \/ SetupInterrupted(c)
  BY <1>0, <1>4 DEF ReceiveInterrupted, SetupInterrupted
<1>5. CASE Connecting(c)
  <2>1. prog'[c] \in {"options", "publish", "off", "connecting"}
    BY <1>0, <1>5 DEF Connecting, Connects
  <2> QED
    BY <1>5, <2>1
<1>6. CASE SubStarts(c) \/ SubInitialises(c) \/ SubConnectsNoMore(c) \/ SubLogs(c)
  BY <1>0, <1>6 DEF SubStarts, SubInitialises, SubConnectsNoMore, SubLogs, NextOption, AtOption
<1>7. CASE SubSubscribes(c)
  BY <1>0, <1>7 DEF SubSubscribes
<1>8. CASE SubAcked(c)
  BY <1>0, <1>8 DEF SubAcked
<1>9. CASE SubSignal(c)
  BY <1>9 DEF SubSignal
<1> QED
  BY <1>1, <1>2, <1>3, <1>4, <1>5, <1>6, <1>7, <1>8, <1>9
     DEF Moves, SubMoves, SendsRequest, Happens, Pubs

\* What psmq-sub has seen it still has seen when it goes on to the next option, and that one too.
LEMMA SeenMore ==
  ASSUME PTypeOK, NEW c \in Subs, NEW o, NextOption(c) \/ opt' = [opt EXCEPT ![c] = @ + 1],
         argv'[c] = argv[c]
  PROVE  /\ Seen(c, o) => Seen(c, o)'
         /\ Options(c)[opt[c]].opt = o /\ opt[c] \in DOMAIN Options(c) => Seen(c, o)'
<1>1. opt'[c] = opt[c] + 1 /\ opt[c] \in Nat
  BY DEF PTypeOK, NextOption
<1>2. opt[c] \in DOMAIN Options(c) => opt[c] \in 1 .. opt'[c] - 1
  BY <1>1 DEF PTypeOK
<1>3. \A i \in 1 .. opt[c] - 1 : i \in 1 .. opt'[c] - 1
  BY <1>1
<1> QED
  BY <1>2, <1>3 DEF Seen, Options

\* A flag that is set changes nothing else.
LEMMA SignalChangesNothing ==
  ASSUME NEW c \in Clients, SubSignal(c)
  PROVE  UNCHANGED <<vars, own, prog, opt, argv>>
BY DEF SubSignal, NoCall, OtherwiseAs

\* The first topic of one psmq-sub.
LEMMA FirstTopicOf ==
  ASSUME STypeOK, PTypeOK, InLibrary, FirstTopic, NEW c \in Subs, c \in Clients,
         Moves(c) \/ SendsRequest(c) \/ Happens(c)
  PROVE  /\ prog'[c] = "ack" => opt'[c] \in DOMAIN argv'[c] /\ argv'[c][opt'[c]].opt = "t"
         /\ prog'[c] = "options" /\ ~Seen(c, "t")' => Silent(c)'
         /\ prog'[c] = "ack" /\ ~Seen(c, "t")' => ~timed'[c]
<1>1. prog'[c] = "options" => \/ SubInitialises(c) \/ Connecting(c) \/ SubConnectsNoMore(c)
                              \/ SubLogs(c) \/ SubAcked(c)
                              \/ prog[c] = "options" /\ SubSignal(c)
  BY ComesFrom
<1>2. prog'[c] = "ack" => SubSubscribes(c) \/ (prog[c] = "ack" /\ SubSignal(c))
  BY ComesFrom
<1>3. CASE prog[c] \in {"ack", "options"} /\ SubSignal(c)
  <2>1. UNCHANGED <<asked, timed, prog, opt, argv>>
    BY <1>3, SignalChangesNothing DEF own
  <2>2. Seen(c, "t")' <=> Seen(c, "t")
    BY <2>1 DEF Seen, Options
  <2> QED
    BY <2>1, <2>2 DEF FirstTopic, Silent, Options
<1>4. CASE SubSubscribes(c)
  <2>1. /\ prog[c] = "options" /\ opt[c] \in DOMAIN argv[c] /\ argv[c][opt[c]].opt = "t"
        /\ UNCHANGED <<opt, argv, timed>>
    BY <1>4 DEF SubSubscribes, AtOption, Options, SubAsBefore, OtherwiseAs, CallSubscribe
  <2>2. Seen(c, "t")' <=> Seen(c, "t")
    BY <2>1 DEF Seen, Options
  <2>3. prog'[c] = "ack"
    BY <1>4 DEF SubSubscribes, MovesTo, PTypeOK
  <2> QED
    BY <2>1, <2>2, <2>3 DEF FirstTopic, Silent
<1>5. CASE SubInitialises(c)
  <2>1. at[c] = "idle" /\ UNCHANGED own
    BY <1>5 DEF SubInitialises, InLibrary, PlaceOf, NoCall
  <2>2. Silent(c)'
    BY <2>1 DEF InLibrary, Cleared, Ready, Silent, own
  <2>3. prog'[c] = "options"
    BY <1>5 DEF SubInitialises, MovesTo, PTypeOK
  <2> QED
    BY <2>2, <2>3
<1>6. CASE Connecting(c) /\ prog'[c] = "options"
  <2>1. prog[c] = "connecting" /\ at'[c] = "ready"
    BY <1>6 DEF Connecting, Connects, MovesTo, PTypeOK
  <2>2. InitReceive(c)
    BY <1>6, <2>1 DEF Connecting, InitCreate, InitCreateFails, InitConnect, InitGivesUp,
                      EndsSession, Goes, STypeOK
  <2>3. at[c] = "wait" /\ UNCHANGED <<asked, timed>>
    BY <2>2 DEF InitReceive
  <2>4. Silent(c)'
    BY <2>3 DEF InLibrary, Cleared, Ready, Silent
  <2> QED
    BY <1>6, <2>4
<1>7. CASE (SubConnectsNoMore(c) \/ SubLogs(c)) /\ prog'[c] = "options"
  <2>1. prog[c] = "options" /\ NextOption(c) /\ UNCHANGED <<argv, own>>
    BY <1>7 DEF SubConnectsNoMore, SubLogs, AtOption, OtherwiseAs, NoCall, MovesTo, PTypeOK
  <2>2. Seen(c, "t") => Seen(c, "t")'
    BY <2>1, SeenMore
  <2> QED
    BY <1>7, <2>1, <2>2 DEF FirstTopic, Silent, own
<1>8. CASE SubAcked(c) /\ prog'[c] = "options"
  <2>1. prog[c] = "ack" /\ opt' = [opt EXCEPT ![c] = @ + 1] /\ UNCHANGED argv
    BY <1>8 DEF SubAcked, OtherwiseAs, MovesTo, PTypeOK
  <2>2. Seen(c, "t")'
    BY <2>1, SeenMore DEF FirstTopic
  <2> QED
    BY <1>8, <2>2
<1> QED
  BY <1>1, <1>2, <1>3, <1>4, <1>5, <1>6, <1>7, <1>8

\* What another client does is nothing to client d.
LEMMA OthersAsBefore ==
  ASSUME STypeOK, PTypeOK, InLibrary, AtWork, NEW c \in Clients,
         Moves(c) \/ SendsRequest(c) \/ Happens(c), NEW d \in Clients, d # c
  PROVE  /\ prog'[d] = prog[d] /\ at'[d] = at[d] /\ qsub'[d] = qsub[d]
         /\ Silent(d)' <=> Silent(d)
         /\ timed'[d] = timed[d]
         /\ d \in Subs => /\ argv'[d] = argv[d] /\ opt'[d] = opt[d]
                          /\ Seen(d, "t")' <=> Seen(d, "t")
<1>1. ClientStep(c) \/ UNCHANGED svars
  BY ProgramImplements
<1>2. at'[d] = at[d] /\ qsub'[d] = qsub[d] /\ asked'[d] = asked[d] /\ timed'[d] = timed[d]
  BY <1>1, OthersKeep DEF ClientStep, svars, own
<1>3. prog'[d] = prog[d] /\ (d \in Subs => argv'[d] = argv[d] /\ opt'[d] = opt[d])
  BY OtherPrograms
<1> QED
  BY <1>2, <1>3 DEF Silent, Seen, Options

\* Every program's step keeps psmq-sub to asking for its first topic first.
LEMMA FirstTopicKept ==
  ASSUME STypeOK, PTypeOK, InLibrary, AtWork, FirstTopic, NEW c \in Clients,
         Moves(c) \/ SendsRequest(c) \/ Happens(c)
  PROVE  FirstTopic'
<1>1. ASSUME NEW d \in Subs
      PROVE  /\ prog'[d] = "ack" => opt'[d] \in DOMAIN argv'[d] /\ argv'[d][opt'[d]].opt = "t"
             /\ prog'[d] = "options" /\ ~Seen(d, "t")' => Silent(d)'
             /\ prog'[d] = "ack" /\ ~Seen(d, "t")' => ~timed'[d]
  <2>1. d \in Clients
    BY ProgramsAssumption
  <2>2. CASE d # c
    BY <2>1, <2>2, OthersAsBefore DEF FirstTopic, Options
  <2> QED
    BY <2>1, <2>2, FirstTopicOf
<1> QED
  BY <1>1 DEF FirstTopic, Options
-----------------------------------------------------------------------------
(* What the broker sends to a client, and why.                             *)

\* What is known of each state in which nobody was disturbed.
Known ==
  /\ SInv /\ PInv /\ Plain /\ FanOut /\ Sessions /\ Opening
  /\ AllMade /\ FirstTopic

\* A message sent to client d answers its OPEN, is for a topic of a slot with its queue, or
\* answers what it asked for.
LEMMA WhatReaches ==
  ASSUME Known, NEW d \in Clients, qsub[d] \in Queues, NEW m, Sent(qsub[d], m)
  PROVE  \/ m.cmd = "open" /\ at[d] = "wait" /\ AnswersTo(d) = {}
         \/ m.cmd = "publish" /\ asked[d] # {} /\ ~NoTopics(qsub[d])
         \/ m.cmd = "subscribe" /\ asked[d] # {}
         \/ m.cmd = "ioctl" /\ timed[d]
<1>0. TypeOK /\ Control /\ STypeOK /\ OwnOK /\ NamesOK /\ NoQueue \notin Queues
  BY BrokerAssumption DEF Known, SInv, TypeInv, TypeOK
<1>1. \A c \in Clients : qsub[c] = qsub[d] => c = d
  BY <1>0 DEF Known, Plain
<1>2. CASE ReplySent /\ qsub[d] = Queue(cur) /\ m = out
  <2>1. pc = "reply" /\ out.cmd \in {"subscribe", "unsubscribe", "ioctl"} /\ Made(out)
    BY <1>2 DEF ReplySent, Known, Plain, AllMade
  <2>2. out.cmd \in Settings
    BY <2>1 DEF Made, Settings
  <2>3. Wanted(d, out)
    BY <1>2, <2>1, <2>2 DEF Known, Sessions, RequestsOwn, AskedBy
  <2> QED
    BY <1>2, <2>1, <2>2, <2>3 DEF Wanted, Made, Settings
<1>3. CASE OpenRefused /\ qsub[d] = names[msg.arg] /\ m = Reply("open", "ENOSPC", "none")
  <2>1. pc = "open" /\ msg.arg \in Names /\ m.cmd = "open"
    BY <1>3 DEF OpenRefused, Reply
  <2>2. /\ msg.arg \in Clients /\ at[msg.arg] = "wait" /\ NotAnswered(msg.arg)
        /\ names[msg.arg] = qsub[msg.arg]
    BY <2>1 DEF Known, Opening, Connect, Opens, Clients
  <2>3. msg.arg = d
    BY <1>1, <1>3, <2>2
  <2> QED
    BY <2>1, <2>2, <2>3 DEF NotAnswered
<1>4. CASE OpenWelcomed /\ qsub[d] = Queue(cur) /\ m = [Reply("open", "OK", "none") EXCEPT !.fd = cur]
  <2>1. pc = "welcome" /\ m.cmd = "open"
    BY <1>4 DEF OpenWelcomed, Reply
  <2>2. PICK c \in Clients : at[c] = "wait" /\ AnswersTo(c) = {} /\ qsub[c] = Queue(cur)
    BY <2>1 DEF Known, Opening, Welcome
  <2> QED
    BY <1>1, <1>4, <2>1, <2>2
<1>5. ~(CloseAcked /\ qsub[d] = Queue(cur))
  <2>1. CloseAcked => CloseAsked(cur) /\ cur \in Slots
    BY <1>0 DEF CloseAcked, CloseAsked, Closes, Control
  <2> QED
    BY <2>1 DEF Known, Sessions, ClosesOver
<1>6. CASE Delivered /\ qsub[d] = Queue(cur) /\ m = Publication
  <2>1. pc = "deliver" /\ m.cmd = "publish" /\ cur \in Slots /\ InUse(cur)
    BY <1>0, <1>6 DEF Delivered, Publication, Reply, Control
  <2>2. node \in DOMAIN clients[cur].topics
    BY <2>1 DEF Known, FanOut
  <2>3. clients[cur].topics[node] \in Elems(clients[cur].topics)
    BY <2>2 DEF Elems
  <2>4. Elems(clients[cur].topics) \subseteq asked[d]
    BY <1>6, <2>1 DEF Known, Sessions, ListsOwn
  <2>5. ~NoTopics(qsub[d])
    BY <1>6, <2>1, <2>3 DEF NoTopics
  <2> QED
    BY <2>1, <2>3, <2>4, <2>5
<1> QED
  BY <1>2, <1>3, <1>4, <1>5, <1>6 DEF Sent

\* A client that has asked for nothing gets nothing but the answer to its OPEN.
LEMMA CalmServed ==
  ASSUME Known, Undisturbed', BrokerStep \/ SignalStep, NEW d \in Clients, Calm(d)
  PROVE  Calm(d)'
<1>0. TypeOK /\ Control /\ STypeOK /\ QueuesOK /\ NoQueue \notin Queues
  BY BrokerAssumption DEF Known, SInv, TypeInv, TypeOK
<1>1. ~Evict /\ (BrokerNext \/ Signal) /\ UNCHANGED <<at, qsub, asked, timed>>
  BY DEF Undisturbed, BrokerStep, SignalStep, Signal, Evict, StartClose, own
<1>2. SUFFICES ASSUME qsub[d] # NoQueue, Silent(d)
               PROVE  Calm(d)'
  BY <1>1 DEF Calm, Silent
<1>3. PICK q \in Queues : q = qsub[d]
  BY <1>0, <1>2 DEF STypeOK
<1>4. CASE mqs'[q] = mqs[q]
  BY <1>1, <1>3, <1>4 DEF Calm, Silent
<1>5. ASSUME NEW m, Sent(q, m)
      PROVE  Calm(d)'
  <2>1. m.cmd = "open" /\ at[d] = "wait" /\ AnswersTo(d) = {}
    BY <1>2, <1>3, <1>5, WhatReaches DEF Silent
  <2>2. mqs[q] = <<>>
    <3>1. SUFFICES ASSUME Len(mqs[q]) = 1, mqs[q][1].cmd = "open"
                   PROVE  FALSE
      BY <1>2, <1>3 DEF Calm
    <3>2. 1 \in DOMAIN mqs[q]
      BY <1>0, <3>1 DEF QueuesOK
    <3>3. mqs[q][1] \in AnswersTo(d)
      BY <1>3, <3>1, <3>2 DEF AnswersTo, AnswersIn, Elems
    <3> QED
      BY <2>1, <3>3
  <2>3. mqs'[q] = Append(<<>>, m)
    BY <1>0, <1>5, <2>2, SentElems
  <2>4. Len(mqs'[q]) = 1 /\ mqs'[q][1] = m
    BY <2>3
  <2> QED
    BY <1>1, <1>3, <2>1, <2>4 DEF Calm
<1>6. CASE \E p \in Queues : \E m : Sent(p, m)
  <2>1. PICK p \in Queues : \E m : Sent(p, m)
    BY <1>6
  <2>2. PICK m : Sent(p, m)
    BY <2>1
  <2> QED
    BY <1>0, <1>4, <1>5, <2>2, SentElems
<1> QED
  BY <1>0, <1>1, <1>4, <1>6, BrokerSends

\* A client that stays calm: its queue is left alone, and it asks for nothing.
LEMMA CalmStays ==
  ASSUME NEW d \in Clients, Calm(d), qsub'[d] = qsub[d], Silent(d)' => Silent(d),
         mqs'[qsub[d]] = mqs[qsub[d]], at[d] = "wait" => at'[d] = "wait"
  PROVE  Calm(d)'
BY DEF Calm

\* A client that takes the only message of its queue leaves it empty.
LEMMA OnlyTaken ==
  ASSUME QueuesOK, NEW q \in Queues, TakeFrom(q), Len(mqs[q]) = 1
  PROVE  mqs'[q] = <<>>
<1>1. PICK i \in DOMAIN mqs[q] : mqs' = [mqs EXCEPT ![q] = MqRest(mqs[q], i)]
  BY DEF TakeFrom
<1>2. mqs[q] \in Seq(ReplyType) /\ mqs \in [Queues -> Seq(ReplyType)]
  BY DEF QueuesOK
<1>3. MqRest(mqs[q], i) \in Seq(ReplyType) /\ Len(MqRest(mqs[q], i)) = 0
  BY <1>2, RemoveTyped DEF MqRest
<1>4. MqRest(mqs[q], i) = <<>>
  BY <1>3
<1> QED
  BY <1>1, <1>2, <1>4

\* No client touches the queue of another.
LEMMA OtherQueues ==
  ASSUME SInv, Plain, NEW c \in Clients, ClientStep(c), NEW d \in Clients, d # c,
         qsub[d] # NoQueue
  PROVE  mqs'[qsub[d]] = mqs[qsub[d]]
<1>0. qsub[d] \in Queues /\ mqs \in [Queues -> Seq(ReplyType)] /\ qsub[c] # qsub[d]
  BY DEF SInv, TypeInv, TypeOK, QueuesOK, STypeOK, Plain
<1>1. CASE UNCHANGED mqs
  BY <1>1
<1>2. CASE InitCreate(c)
  <2>1. PICK q \in Queues : (\A e \in Clients : qsub[e] # q) /\ mqs' = [mqs EXCEPT ![q] = <<>>]
    BY <1>2 DEF InitCreate, CreateQueue
  <2> QED
    BY <1>0, <2>1
<1>3. CASE qsub[c] \in Queues /\ TakeFrom(qsub[c])
  BY <1>0, <1>3 DEF TakeFrom
<1> QED
  BY <1>1, <1>2, <1>3, QueuesLeft

\* A client that creates a queue, reads from its own, or does neither, stays calm.
LEMMA CalmCalled ==
  ASSUME SInv, InLibrary, NEW c \in Clients, Calm(c), Orderly(c)
  PROVE  Calm(c)'
<1>0. STypeOK /\ QueuesOK /\ OwnOK /\ NoQueue \notin Queues /\ Cleared(c)
  BY BrokerAssumption DEF SInv, TypeInv, TypeOK, InLibrary
<1>1. CASE EndsSession(c)
  <2>1. qsub'[c] = NoQueue
    BY <1>0, <1>1 DEF EndsSession, STypeOK
  <2> QED
    BY <2>1 DEF Calm
<1>2. CASE InitCreate(c)
  <2>1. PICK q \in Queues : mqs' = [mqs EXCEPT ![q] = <<>>] /\ qsub' = [qsub EXCEPT ![c] = q]
    BY <1>2 DEF InitCreate, CreateQueue
  <2>2. qsub'[c] = q /\ mqs'[q] = <<>>
    BY <1>0, <2>1 DEF STypeOK, QueuesOK
  <2> QED
    BY <2>2 DEF Calm
<1>3. CASE InitReceive(c) \/ CallReceive(c)
  <2>1. qsub[c] \in Queues /\ TakeFrom(qsub[c]) /\ UNCHANGED <<qsub, asked, timed>>
    BY <1>0, <1>3 DEF InitReceive, CallReceive, CanCall, ReadQueue, OwnOK, HasQueue, own
  <2>2. mqs[qsub[c]] # <<>>
    BY <2>1 DEF TakeFrom
  <2>3. Silent(c) => Len(mqs[qsub[c]]) = 1
    BY <1>0, <2>1, <2>2 DEF Calm
  <2>4. Silent(c) => mqs'[qsub[c]] = <<>>
    BY <1>0, <2>1, <2>3, OnlyTaken
  <2> QED
    BY <2>1, <2>4 DEF Calm, Silent
<1>4. CASE \/ InitUnlink(c) \/ InitCreateFails(c) \/ InitConnect(c) \/ InitSendOpen(c)
           \/ CallCleanup(c) \/ AppUnlink(c)
           \/ \E topic \in Topics, prio \in Prios : CallPublish(c, topic, prio)
  <2>1. EndsSession(c) \/ (UNCHANGED <<mqs, qsub, asked, timed>> /\ at[c] # "wait")
    BY <1>4 DEF InitUnlink, InitCreateFails, InitConnect, InitSendOpen, CallCleanup, AppUnlink,
                CallPublish, CanCall, Sends, SendRequest, UnlinkQueue, vars, own
  <2> QED
    BY <1>1, <2>1, CalmStays DEF Silent
<1>5. CASE \E f \in Filters : CallSubscribe(c, f)
  <2>1. asked'[c] # {}
    BY <1>0, <1>5 DEF CallSubscribe, STypeOK
  <2> QED
    BY <2>1 DEF Calm, Silent
<1>6. CASE \E timeout \in Timeouts : CallIoctl(c, timeout)
  <2>1. PICK timeout \in Timeouts : CallIoctl(c, timeout)
    BY <1>6
  <2>2. UNCHANGED <<mqs, qsub, asked>> /\ at[c] # "wait"
    BY <2>1 DEF CallIoctl, CanCall, Sends, SendRequest
  <2>3. timed[c] => timed'[c]
    BY <1>0, <2>1 DEF CallIoctl, STypeOK
  <2> QED
    BY <2>2, <2>3, CalmStays DEF Silent
<1>7. CASE InitGivesUp(c) \/ CleanupSendsClose(c)
  BY <1>1, <1>7 DEF InitGivesUp, CleanupSendsClose
<1> QED
  BY <1>2, <1>3, <1>4, <1>5, <1>6, <1>7 DEF Orderly

\* So does every client, whatever a program does, as long as it waits for the answer to its OPEN.
LEMMA CalmKept ==
  ASSUME Known, NEW c \in Clients, Moves(c) \/ SendsRequest(c) \/ Happens(c), ~unread',
         \A d \in Clients : Calm(d)
  PROVE  \A d \in Clients : Calm(d)'
<1>0. STypeOK /\ PTypeOK /\ InLibrary /\ AtWork /\ SInv /\ Plain
  BY DEF Known, SInv, PInv
<1>1. ClientStep(c) \/ UNCHANGED svars
  BY <1>0, ProgramImplements
<1>2. CASE UNCHANGED svars
  BY <1>2 DEF svars, vars, own, Calm, Silent
<1>3. ASSUME NEW d \in Clients, d # c, ClientStep(c)
      PROVE  Calm(d)'
  <2>1. qsub'[d] = qsub[d] /\ at'[d] = at[d] /\ (Silent(d)' <=> Silent(d))
    BY <1>0, <1>3, OthersAsBefore
  <2>2. qsub[d] # NoQueue => mqs'[qsub[d]] = mqs[qsub[d]]
    BY <1>0, <1>3, OtherQueues
  <2> QED
    BY <2>1, <2>2, CalmStays DEF Calm
<1>4. Calm(c)'
  <2>1. CASE Orderly(c)
    BY <1>0, <2>1, CalmCalled
  <2>2. CASE Leaves(c)
    <3>1. CASE EndsSession(c)
      <4>1. qsub'[c] = NoQueue
        BY <1>0, <3>1 DEF EndsSession, STypeOK
      <4> QED
        BY <4>1 DEF Calm
    <3>2. CASE at[c] = "opening" /\ UNCHANGED <<vars, qsub>>
      <4>1. Silent(c)
        BY <1>0, <3>2 DEF InLibrary, Cleared, Ready, Silent
      <4>2. mqs' = mqs
        BY <3>2 DEF vars
      <4> QED
        BY <3>2, <4>1, <4>2, CalmStays
    <3> QED
      BY <2>2, <3>1, <3>2 DEF Leaves
  <2> QED
    BY <1>0, <1>2, <2>1, <2>2, OrderlyStep
<1> QED
  BY <1>1, <1>2, <1>3, <1>4
-----------------------------------------------------------------------------
(* The answer to the first topic comes before anything else.               *)

\* Only a SUBSCRIBE adds to the topics of a queue.
LEMMA TopicsServed ==
  ASSUME Known, Undisturbed', BrokerStep \/ SignalStep, NEW s \in Slots
  PROVE  \/ Subscribe /\ s = msg.fd /\ Queue(s)' = Queue(s)
         \/ Elems(clients'[s].topics) = {}
         \/ Queue(s)' = Queue(s) /\ Elems(clients'[s].topics) \subseteq Elems(clients[s].topics)
<1>0. TypeOK /\ Control /\ STypeOK /\ Plain /\ Sessions /\ UNCHANGED own
  BY DEF Known, SInv, TypeInv, BrokerStep, SignalStep
<1>1. /\ BrokerNext \/ Signal
      /\ ~Evict /\ ~CleanupSlot /\ ~CleanupDone
  BY DEF Undisturbed, Working, BrokerStep, SignalStep, Signal, Evict, StartClose, CleanupSlot, CleanupDone
<1>2. CASE Steady
  BY <1>0, <1>2, SteadyIsStill DEF Still, Queue
<1>3. CASE Receive \/ OpenWelcomed \/ Signal
  BY <1>3 DEF Receive, OpenWelcomed, Signal, Queue
<1>4. CASE Open
  <2>1. PICK t \in FreeSlots : clients' = [clients EXCEPT ![t].mq = names[msg.arg]]
    BY <1>4 DEF Open
  <2>2. t \in Slots /\ ~InUse(t)
    BY <2>1 DEF FreeSlots
  <2>3. clients'[s].topics = clients[s].topics /\ (s # t => Queue(s)' = Queue(s))
    BY <1>0, <2>1, <2>2 DEF TypeOK, ClientsOK, ClientType, Queue
  <2>4. s = t => Elems(clients[s].topics) = {}
    BY <1>0, <2>2 DEF Sessions, ListsOwn
  <2> QED
    BY <2>3, <2>4
<1>5. CASE OpenUndone
  <2>1. clients' = [clients EXCEPT ![cur].mq = NoQueue] /\ pc = "welcome" /\ cur \in Slots
    BY <1>0, <1>5 DEF OpenUndone, Control
  <2>2. clients'[s].topics = clients[s].topics /\ (s # cur => Queue(s)' = Queue(s))
    BY <1>0, <2>1 DEF TypeOK, ClientsOK, ClientType, Queue
  <2>3. s = cur => Elems(clients[s].topics) = {}
    BY <1>0, <2>1 DEF Sessions, ListsOwn
  <2> QED
    BY <2>2, <2>3
<1>6. CASE CloseAcked \/ CloseUnacked
  <2>1. PICK missed : Vacate(cur, missed)
    BY <1>6 DEF CloseAcked, CloseUnacked
  <2>2. cur \in Slots
    BY <1>0, <1>6 DEF CloseAcked, CloseUnacked, Control
  <2>3. s = cur => clients'[s].topics = <<>>
    BY <1>0, <2>1, <2>2 DEF Vacate, TypeOK, ClientsOK, ClientType
  <2>4. s # cur => clients'[s] = clients[s]
    BY <1>0, <2>1, <2>2 DEF Vacate, TypeOK, ClientsOK
  <2>5. Elems(<<>>) = {}
    BY DEF Elems
  <2> QED
    BY <2>3, <2>4, <2>5 DEF Queue
<1>7. CASE Subscribe
  <2>1. /\ clients' = [clients EXCEPT ![msg.fd].topics = TlAdd(clients[msg.fd].topics, msg.arg)]
        /\ msg.fd \in Slots
    BY <1>0, <1>7 DEF Subscribe, Control, Commands
  <2>2. Queue(s)' = Queue(s) /\ (s # msg.fd => clients'[s].topics = clients[s].topics)
    BY <1>0, <2>1 DEF TypeOK, ClientsOK, ClientType, Queue
  <2> QED
    BY <1>7, <2>2
<1> QED
  BY <1>1, <1>2, <1>3, <1>4, <1>5, <1>6, <1>7 DEF BrokerNext, Steady

\* A psmq-sub that waits for the answer to a SUBSCRIBE has a queue.
LEMMA AckHasQueue ==
  ASSUME Known, NEW c \in Subs, prog[c] \in {"ack", "options"}, Ready(c)
  PROVE  c \in Clients /\ qsub[c] \in Queues
BY ProgramsAssumption DEF Known, SInv, OwnOK, Ready, HasQueue

\* A message sent to a queue that has none is the first.
LEMMA FirstSent ==
  ASSUME QueuesOK, NEW q \in Queues, NEW m, Sent(q, m), m.cmd = "subscribe", mqs[q] = <<>>
  PROVE  AnswerIn(q)'
<1>1. mqs'[q] = Append(<<>>, m)
  BY SentElems
<1>2. mqs'[q] # <<>> /\ mqs'[q][1] = m
  BY <1>1
<1> QED
  BY <1>2 DEF AnswerIn

\* What is first stays first when messages are sent.
LEMMA FirstStays ==
  ASSUME QueuesOK, NEW q \in Queues, NEW m, Sent(q, m), AnswerIn(q)
  PROVE  AnswerIn(q)'
<1>1. mqs'[q] = Append(mqs[q], m) /\ mqs[q] \in Seq(ReplyType)
  BY SentElems DEF QueuesOK
<1>2. mqs'[q] # <<>> /\ (mqs[q] # <<>> => mqs'[q][1] = mqs[q][1])
  BY <1>1
<1> QED
  BY <1>2 DEF AnswerIn

\* Whatever the broker does, the answer to the first topic is the first message, or will be.
LEMMA AnsweredServed ==
  ASSUME Known, Undisturbed', BrokerStep \/ SignalStep, UNCHANGED pown,
         NEW c \in Subs, Answered(c)
  PROVE  Answered(c)'
<1>0. /\ TypeOK /\ Control /\ STypeOK /\ QueuesOK /\ UNCHANGED <<own, prog, opt, argv>>
      /\ NoQueue \notin Queues /\ QueueMax \in Nat \ {0} /\ c \in Clients
  BY BrokerAssumption, ProgramsAssumption DEF Known, SInv, TypeInv, TypeOK, BrokerStep, SignalStep, pown
<1>1. SUFFICES ASSUME prog[c] = "ack", ~Seen(c, "t")
               PROVE  AnswerIn(qsub[c])' \/ AnswerDue(qsub[c])'
  BY <1>0 DEF Answered, Seen, Options
<1>2. at[c] = "ready" /\ ~timed[c]
  BY <1>0, <1>1 DEF Known, PInv, InLibrary, PlaceOf, FirstTopic
<1>3. PICK q \in Queues : q = qsub[c]
  BY <1>0, <1>1, <1>2, AckHasQueue DEF Ready
<1>4. AnswerIn(q) \/ AnswerDue(q)
  BY <1>1, <1>3 DEF Answered
<1>5. ~Evict /\ (BrokerNext \/ Signal) /\ qsub' = qsub
  BY <1>0 DEF Undisturbed, BrokerStep, SignalStep, Signal, Evict, StartClose, own
<1>6. ASSUME NEW m, Sent(q, m)
      PROVE  AnswerIn(q)'
  <2>1. CASE AnswerIn(q)
    BY <1>0, <1>6, <2>1, FirstStays
  <2>2. CASE mqs[q] = <<>> /\ NoTopics(q)
    <3>1. m.cmd = "subscribe"
      BY <1>0, <1>2, <1>3, <1>6, <2>2, WhatReaches
    <3> QED
      BY <1>0, <1>6, <2>2, <3>1, FirstSent
  <2>3. CASE mqs[q] = <<>> /\ pc = "reply" /\ out.cmd = "subscribe"
    <3>1. m.cmd = "subscribe"
      BY <1>6, <2>3 DEF Sent, OpenRefused, OpenWelcomed, CloseAcked, Delivered
    <3> QED
      BY <1>0, <1>6, <2>3, <3>1, FirstSent
  <2> QED
    BY <1>4, <2>1, <2>2, <2>3 DEF AnswerDue
<1>7. CASE mqs'[q] = mqs[q]
  <2>1. CASE AnswerIn(q)
    BY <1>7, <2>1, <1>3, <1>5 DEF AnswerIn
  <2>2. CASE mqs[q] = <<>> /\ NoTopics(q)
    <3>1. CASE Subscribe /\ Queue(msg.fd)' = q
      BY <1>3, <1>5, <1>7, <2>2, <3>1 DEF Subscribe, Answer, Reply, AnswerDue, Queue
    <3>2. CASE ~(Subscribe /\ Queue(msg.fd)' = q)
      <4>1. ASSUME NEW s \in Slots, Queue(s)' = q
            PROVE  Elems(clients'[s].topics) = {}
        BY <2>2, <3>2, <4>1, TopicsServed DEF NoTopics, Subscribe, Answer, Queue
      <4> QED
        BY <1>3, <1>5, <1>7, <2>2, <4>1 DEF AnswerDue, NoTopics
    <3> QED
      BY <3>1, <3>2
  <2>3. CASE mqs[q] = <<>> /\ pc = "reply" /\ Queue(cur) = q /\ out.cmd = "subscribe"
    <3>1. CanSend(cur)
      BY <1>0, <2>3 DEF CanSend, InUse, MqFull
    <3>2. CASE ReplySent
      <4>1. Sent(q, out)
        BY <2>3, <3>2 DEF ReplySent, SendTo, Sent
      <4> QED
        BY <1>3, <1>5, <1>6, <4>1
    <3>3. CASE Signal
      BY <1>3, <1>5, <1>7, <2>3, <3>3 DEF Signal, AnswerDue, Queue, local
    <3> QED
      BY <1>5, <2>3, <3>1, <3>2, <3>3 DEF BrokerNext, CheckShutdown, Receive, ReceiveTimesOut,
         OpenFails, Open, OpenRefused, OpenWelcomed, OpenUndone, SubscribeRefused, SubscribeFails,
         Subscribe, Unsubscribe, UnsubscribeFails, Ioctl, IoctlRefused, Wait, ReplyLost,
         SendFails, CanSend, Close, CloseAcked, CloseUnacked, Publish, ScanToHit, PublishDone,
         Delivered, NotDelivered, CleanupSlot, CleanupDone
  <2> QED
    BY <1>4, <2>1, <2>2, <2>3 DEF AnswerDue
<1>8. CASE \E p \in Queues : \E m : Sent(p, m)
  <2>1. PICK p \in Queues : \E m : Sent(p, m)
    BY <1>8
  <2>2. PICK m : Sent(p, m)
    BY <2>1
  <2>3. CASE p = q
    BY <1>3, <1>5, <1>6, <2>2, <2>3
  <2>4. CASE p # q
    BY <1>0, <1>7, <2>2, <2>4, SentElems
  <2> QED
    BY <2>3, <2>4
<1> QED
  BY <1>0, <1>5, <1>7, <1>8, BrokerSends

\* When psmq-sub sends its first SUBSCRIBE its queue is empty, and its slot has no topic.
LEMMA AnsweredBegins ==
  ASSUME Known, NEW c \in Subs, c \in Clients, BrokerStays, SubSubscribes(c), Calm(c), ~Seen(c, "t")
  PROVE  AnswerDue(qsub[c])'
<1>0. TypeOK /\ STypeOK /\ NoQueue \notin Queues
  BY BrokerAssumption DEF Known, SInv, TypeInv
<1>1. /\ prog[c] = "options" /\ at[c] = "ready"
      /\ UNCHANGED <<mqs, clients, pc, cur, out, qsub>>
  BY DEF SubSubscribes, AtOption, CallSubscribe, CanCall, Sends, SendRequest, BrokerStays
<1>2. Silent(c) /\ asked[c] = {}
  BY <1>1 DEF Known, FirstTopic, Silent
<1>3. PICK q \in Queues : q = qsub[c]
  BY <1>1, AckHasQueue DEF Ready
<1>4. mqs[q] = <<>>
  BY <1>0, <1>1, <1>2, <1>3 DEF Calm
<1>5. NoTopics(q)
  <2>1. ASSUME NEW s \in Slots, Queue(s) = q
        PROVE  Elems(clients[s].topics) = {}
    <3>1. InUse(s)
      BY <1>0, <2>1 DEF InUse
    <3>2. Elems(clients[s].topics) \subseteq asked[c]
      BY <1>3, <2>1, <3>1 DEF Known, Sessions, ListsOwn
    <3> QED
      BY <1>2, <3>2
  <2> QED
    BY <2>1 DEF NoTopics
<1> QED
  BY <1>1, <1>3, <1>4, <1>5 DEF AnswerDue, NoTopics, Queue

\* Whatever a program does, the answer to the first topic is the first message, or will be.
LEMMA AnsweredKept ==
  ASSUME Known, NEW c \in Clients, Moves(c) \/ SendsRequest(c) \/ Happens(c),
         NEW d \in Subs, Calm(d), Answered(d)
  PROVE  Answered(d)'
<1>0. /\ STypeOK /\ PTypeOK /\ InLibrary /\ AtWork /\ SInv /\ Plain /\ d \in Clients
      /\ NoQueue \notin Queues
  BY BrokerAssumption, ProgramsAssumption DEF Known, SInv, PInv
<1>1. ClientStep(c) \/ UNCHANGED svars
  BY <1>0, ProgramImplements
<1>2. BrokerStays
  BY <1>0, <1>1, ClientStays DEF svars, vars, local, BrokerStays
<1>3. ASSUME prog[d] = "ack", ~Seen(d, "t"), qsub'[d] = qsub[d], mqs'[qsub[d]] = mqs[qsub[d]]
      PROVE  AnswerIn(qsub[d])' \/ AnswerDue(qsub[d])'
  <2>1. PICK q : q = qsub[d]
    OBVIOUS
  <2>2. AnswerIn(q)' \/ AnswerDue(q)'
    BY <1>2, <1>3, <2>1 DEF Answered, AnswerIn, AnswerDue, NoTopics, Queue, BrokerStays
  <2> QED
    BY <1>3, <2>1, <2>2
<1>4. CASE d # c
  <2>1. SUFFICES ASSUME prog[d] = "ack", ~Seen(d, "t")
                 PROVE  AnswerIn(qsub[d])' \/ AnswerDue(qsub[d])'
    BY <1>0, <1>4, OthersAsBefore DEF Answered
  <2>2. qsub'[d] = qsub[d]
    BY <1>0, <1>4, OthersAsBefore
  <2>3. qsub[d] # NoQueue
    BY <1>0, <2>1, AckHasQueue DEF InLibrary, PlaceOf, Ready
  <2>4. mqs'[qsub[d]] = mqs[qsub[d]]
    BY <1>0, <1>1, <1>4, <2>3, OtherQueues DEF svars, vars
  <2> QED
    BY <1>3, <2>1, <2>2, <2>4
<1>5. CASE d = c
  <2>1. SUFFICES ASSUME prog'[c] = "ack", ~Seen(c, "t")'
                 PROVE  AnswerIn(qsub[c])' \/ AnswerDue(qsub[c])'
    BY <1>5 DEF Answered
  <2>2. CASE SubSubscribes(c)
    <3>1. UNCHANGED <<opt, argv, qsub>>
      BY <2>2 DEF SubSubscribes, SubAsBefore, OtherwiseAs, CallSubscribe
    <3>2. ~Seen(c, "t")
      BY <2>1, <3>1 DEF Seen, Options
    <3>3. AnswerDue(qsub[c])'
      BY <1>0, <1>2, <1>5, <2>2, <3>2, AnsweredBegins
    <3> QED
      BY <3>3
  <2>3. CASE prog[c] = "ack" /\ SubSignal(c)
    <3>1. UNCHANGED <<mqs, qsub, opt, argv>>
      BY <2>3, SignalChangesNothing DEF vars, own
    <3>2. ~Seen(c, "t")
      BY <2>1, <3>1 DEF Seen, Options
    <3> QED
      BY <1>3, <1>5, <2>3, <3>1, <3>2
  <2> QED
    BY <1>0, <1>5, <2>1, <2>2, <2>3, ComesFrom
<1> QED
  BY <1>4, <1>5

\* Without priorities a reader gets the first message of the queue.
LEMMA FlatHead ==
  ASSUME QueuesOK, AllMade, Flat, NEW q \in Queues, mqs[q] # <<>>
  PROVE  MqHead(mqs[q]) = mqs[q][1]
<1>1. mqs[q] \in Seq(ReplyType)
  BY DEF QueuesOK
<1>2. \A i \in DOMAIN mqs[q] : mqs[q][i].prio = 0
  BY DEF AllMade, Made, Elems
<1>3. DOMAIN mqs[q] = 1 .. Len(mqs[q]) /\ Len(mqs[q]) \in Nat \ {0}
  BY <1>1
<1>4. IsMqNext(mqs[q], 1)
  BY <1>2, <1>3 DEF IsMqNext
<1>5. \A j : IsMqNext(mqs[q], j) => j = 1
  <2>1. \A i \in DOMAIN mqs[q] : mqs[q][i].prio \in Nat
    BY <1>2
  <2> QED
    BY <1>1, <1>4, <2>1, OneNext
<1> DEFINE k == CHOOSE j \in DOMAIN mqs[q] : IsMqNext(mqs[q], j)
<1>6. IsMqNext(mqs[q], k)
  BY <1>3, <1>4
<1>7. MqHead(mqs[q]) = mqs[q][k]
  BY DEF MqHead
<1> HIDE DEF k
<1> QED
  BY <1>5, <1>6, <1>7

\* Nothing but the answer to its first topic is taken for it.
LEMMA NeverInvalid ==
  ASSUME Known, Flat, NEW c \in Clients, Moves(c) \/ SendsRequest(c) \/ Happens(c),
         NEW d \in Subs, Answered(d), prog[d] = "invalid" => Seen(d, "t")
  PROVE  prog'[d] = "invalid" => Seen(d, "t")'
<1>0. /\ STypeOK /\ PTypeOK /\ InLibrary /\ AtWork /\ SInv /\ QueuesOK /\ AllMade /\ d \in Clients
  BY ProgramsAssumption DEF Known, SInv, PInv, TypeInv, TypeOK
<1>1. CASE d # c
  BY <1>0, <1>1, OthersAsBefore
<1>2. CASE d = c
  <2>1. SUFFICES ASSUME prog'[c] = "invalid"
                 PROVE  Seen(c, "t")'
    BY <1>2
  <2>2. CASE prog[c] = "invalid" /\ SubSignal(c)
    <3>1. UNCHANGED <<opt, argv>>
      BY <2>2, SignalChangesNothing
    <3> QED
      BY <1>2, <2>2, <3>1 DEF Seen, Options
  <2>3. CASE SubAcked(c)
    <3>1. /\ prog[c] = "ack" /\ CallReceive(c) /\ UNCHANGED argv
          /\ MqHead(mqs[qsub[c]]).cmd # "subscribe" /\ UNCHANGED opt
      BY <1>0, <2>1, <2>3 DEF SubAcked, AckAccepted, MovesTo, PTypeOK, OtherwiseAs
    <3>2. Seen(c, "t")' <=> Seen(c, "t")
      BY <3>1 DEF Seen, Options
    <3>3. qsub[c] \in Queues
      BY <1>2, <3>1, AckHasQueue DEF CallReceive, CanCall, Ready
    <3>4. mqs[qsub[c]] # <<>>
      BY <3>1 DEF CallReceive, ReadQueue, TakeFrom
    <3>5. MqHead(mqs[qsub[c]]) = mqs[qsub[c]][1]
      BY <1>0, <3>3, <3>4, FlatHead
    <3> QED
      BY <1>2, <3>1, <3>2, <3>4, <3>5 DEF Answered, AnswerIn, AnswerDue
  <2> QED
    BY <1>0, <1>2, <2>1, <2>2, <2>3, ComesFrom
<1> QED
  BY <1>1, <1>2
-----------------------------------------------------------------------------
(* The invariant.                                                          *)

LEMMA AnswersInit == PInit => AnswersInv
<1> SUFFICES ASSUME PInit PROVE AnswersInv
  OBVIOUS
<1>1. /\ ctrl = <<>> /\ pc = "check" /\ msg = NoRequest /\ out = NoReply
      /\ \A q \in Queues : mqs[q] = <<>>
      /\ \A c \in Clients : prog[c] = "off" /\ qsub[c] = NoQueue
  BY DEF PInit, SInit, Init
<1>2. AllMade
  BY <1>1 DEF AllMade, Made, NoRequest, NoReply, Reply, Elems
<1>3. FirstTopic /\ FirstAnswers
  BY <1>1, ProgramsAssumption DEF FirstTopic, FirstAnswers, Calm, Answered
<1> QED
  BY <1>2, <1>3 DEF AnswersInv

\* Steps that change nothing of all this.
LEMMA AnswersStill ==
  ASSUME AnswersInv, UNCHANGED pvars
  PROVE  AnswersInv'
<1>1. UNCHANGED <<clients, ctrl, mqs, pc, msg, cur, ret, out, own, evicted, prog, opt, argv, unread>>
  BY DEF pvars, svars, vars, local, pown
<1>2. AllMade' /\ FirstTopic'
  BY <1>1 DEF AnswersInv, AllMade, Made, FirstTopic, Options, Seen, Silent, own
<1>3. Peaceful' => Peaceful
  BY <1>1 DEF Peaceful, Undisturbed, Working
<1>4. FirstAnswers => FirstAnswers'
  BY <1>1 DEF FirstAnswers, Calm, Silent, Answered, Seen, Options, AnswerIn, AnswerDue, NoTopics,
              Queue, own
<1> QED
  BY <1>2, <1>3, <1>4 DEF AnswersInv

\* Who was evicted, told to stop, or left too early, stays so.
LEMMA PeaceEnds ==
  ASSUME SInv, PInv, [PNext]_pvars
  PROVE  Peaceful' => Peaceful
<1>0. TypeOK /\ Control /\ STypeOK /\ OwnOK /\ PTypeOK /\ InLibrary /\ AtWork
  BY DEF SInv, TypeInv, PInv
<1>1. [SNext]_svars
  BY ProgramsAllowed
<1>2. evicted => evicted'
  BY <1>1 DEF SNext, BrokerStep, SignalStep, ClientStep, svars
<1>3. Working' => Working
  BY <1>0, <1>1, StepImplements, WorkingStep
<1>4. unread => unread'
  <2>1. CASE UNCHANGED pown \/ UNCHANGED pvars
    BY <2>1 DEF pown, pvars
  <2>2. ASSUME NEW c \in Clients, Moves(c) \/ SendsRequest(c) \/ Happens(c)
        PROVE  unread => unread'
    BY <1>0, <2>2, OrderlyStep
  <2> QED
    BY <2>1, <2>2 DEF PNext
<1> QED
  BY <1>2, <1>3, <1>4 DEF Peaceful, Undisturbed, Flat

\* Every step keeps the answers first.
LEMMA AnswersStep ==
  ASSUME SInv, PInv, FanOut, SessionsInv, ClaimsInv, AnswersInv, [PNext]_pvars
  PROVE  AnswersInv'
<1>0. /\ TypeOK /\ Control /\ STypeOK /\ PTypeOK /\ InLibrary /\ AtWork /\ Plain
      /\ AllMade /\ FirstTopic
  BY DEF SInv, TypeInv, PInv, SessionsInv, AnswersInv
<1>1. Peaceful' => Known /\ FirstAnswers /\ Flat /\ Undisturbed' /\ ~unread'
  <2>1. Peaceful' => Peaceful
    BY PeaceEnds
  <2>2. Peaceful => Known /\ FirstAnswers
    BY <1>0 DEF Peaceful, Known, SessionsInv, ClaimsInv, Claims, AnswersInv
  <2>3. Peaceful' => Flat /\ Undisturbed' /\ ~unread'
    BY DEF Peaceful, Flat
  <2> QED
    BY <2>1, <2>2, <2>3
<1>2. CASE (BrokerStep \/ SignalStep) /\ UNCHANGED pown
  <2>1. (BrokerNext \/ Signal) /\ UNCHANGED <<asked, timed, prog, opt, argv>>
    BY <1>2 DEF BrokerStep, SignalStep, own, pown
  <2>2. AllMade'
    BY <1>0, <2>1, MadeServed
  <2>3. FirstTopic'
    BY <1>0, <2>1 DEF FirstTopic, Options, Seen, Silent
  <2>4. ASSUME Peaceful' PROVE FirstAnswers'
    <3>1. \A c \in Clients : Calm(c)'
      BY <1>1, <1>2, <2>4, CalmServed DEF FirstAnswers
    <3>2. \A c \in Subs : Answered(c)'
      BY <1>1, <1>2, <2>4, AnsweredServed DEF FirstAnswers
    <3>3. \A c \in Subs : prog'[c] = "invalid" => Seen(c, "t")'
      BY <1>1, <2>1, <2>4 DEF FirstAnswers, Seen, Options
    <3> QED
      BY <3>1, <3>2, <3>3 DEF FirstAnswers
  <2> QED
    BY <2>2, <2>3, <2>4 DEF AnswersInv
<1>3. ASSUME NEW c \in Clients, Moves(c) \/ SendsRequest(c) \/ Happens(c)
      PROVE  AnswersInv'
  <2>1. AllMade'
    BY <1>0, <1>3, MadeSent
  <2>2. FirstTopic'
    BY <1>0, <1>3, FirstTopicKept
  <2>3. ASSUME Peaceful' PROVE FirstAnswers'
    <3>0. Known /\ FirstAnswers /\ Flat /\ ~unread'
      BY <1>1, <2>3
    <3>1. \A d \in Clients : Calm(d)'
      BY <1>3, <3>0, CalmKept DEF FirstAnswers
    <3>2. ASSUME NEW d \in Subs
          PROVE  Answered(d)' /\ (prog'[d] = "invalid" => Seen(d, "t")')
      <4>1. Calm(d) /\ Answered(d) /\ (prog[d] = "invalid" => Seen(d, "t"))
        BY <3>0, ProgramsAssumption DEF FirstAnswers
      <4> QED
        BY <1>3, <3>0, <4>1, AnsweredKept, NeverInvalid
    <3> QED
      BY <3>1, <3>2 DEF FirstAnswers
  <2> QED
    BY <2>1, <2>2, <2>3 DEF AnswersInv
<1>4. CASE UNCHANGED pvars
  BY <1>4, AnswersStill
<1> QED
  BY <1>2, <1>3, <1>4 DEF PNext

\* What is on its way to the programs, and what each may rely on, in every state.
THEOREM AnswersInvariant == PSpec => [](Plain /\ AnswersInv)
<1>1. SInv /\ SessionsInv => SessionsInv /\ Plain
  BY DEF SessionsInv
<1>2. SSpec => []FanOut
  <2>1. FanInv => FanOut
    BY DEF FanInv
  <2> QED
    BY <2>1, SystemIsBroker, FanOutInvariant, PTL
<1> QED
  BY <1>1, <1>2, AnswersInit, AnswersStep, ClaimsInvariant, SessionsInvariant, ProgramsAreClients,
     PTL DEF PSpec

(***************************************************************************)
(* When nothing is published with a priority, psmq-sub finds the answer to *)
(* its first -t before anything else, as long as nobody was evicted, the   *)
(* broker was not told to stop and every program waited for the answer to  *)
(* its OPEN (psmq-sub.c:378-391).                                          *)
(***************************************************************************)
THEOREM FirstAnswerAlwaysFirst == PSpec => []FirstAnswerFirst
<1>1. Plain /\ AnswersInv => FirstAnswerFirst
  BY DEF Plain, AnswersInv, Peaceful, Undisturbed, Flat, FirstAnswers, FirstAnswerFirst
<1> QED
  BY <1>1, AnswersInvariant, PTL
=============================================================================
