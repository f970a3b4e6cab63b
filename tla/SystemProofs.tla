---------------------------- MODULE SystemProofs ----------------------------
(***************************************************************************)
(* Proofs about System: its types, and that a client which waits or is     *)
(* connected has a queue.  What is proved of Broker is true of System,     *)
(* whose clients take the steps Broker allows any client.                  *)
(***************************************************************************)
EXTENDS System, BrokerProofs

\* A client has a queue of its own while it connects and while it is connected.
HasQueue(c) == at[c] \notin {"idle", "create"}

OwnOK == \A c \in Clients : HasQueue(c) => qsub[c] \in Queues

SInv == TypeInv /\ STypeOK /\ OwnOK

\* The calls that send a request.
Sending(c) ==
  \/ InitSendOpen(c) \/ CleanupSendsClose(c)
  \/ \E f \in Filters : CallSubscribe(c, f) \/ CallUnsubscribe(c, f)
  \/ \E topic \in Topics, prio \in Prios : CallPublish(c, topic, prio)
  \/ \E timeout \in Timeouts : CallIoctl(c, timeout)

\* What they send is what libpsmq makes up: an OPEN, or a request for the client's slot.
LEMMA ClientSends ==
  ASSUME STypeOK, OwnOK, NEW c \in Clients, Sending(c)
  PROVE  \E r \in ClientRequests : SendRequest(r)
<1>0. fd[c] \in Slots
  BY DEF STypeOK
<1>1. ASSUME NEW cmd, NEW arg, NEW prio, Sends(c, cmd, arg, prio),
             [cmd |-> cmd, fd |-> fd[c], arg |-> arg, prio |-> prio] \in ClientRequests
      PROVE  \E r \in ClientRequests : SendRequest(r)
  BY <1>1 DEF Sends
<1>2. CASE InitSendOpen(c)
  <2>1. [cmd |-> "open", fd |-> 0, arg |-> c, prio |-> 0] \in ClientRequests
    BY DEF ClientRequests
  <2> QED
    BY <1>2, <2>1 DEF InitSendOpen
<1>3. CASE CleanupSendsClose(c)
  <2>1. [cmd |-> "close", fd |-> fd[c], arg |-> "none", prio |-> 0] \in ClientRequests
    BY <1>0 DEF ClientRequests
  <2> QED
    BY <1>1, <1>3, <2>1 DEF CleanupSendsClose
<1>4. ASSUME NEW f \in Filters, CallSubscribe(c, f) \/ CallUnsubscribe(c, f)
      PROVE  \E r \in ClientRequests : SendRequest(r)
  <2>1. /\ [cmd |-> "subscribe", fd |-> fd[c], arg |-> f, prio |-> 0] \in ClientRequests
        /\ [cmd |-> "unsubscribe", fd |-> fd[c], arg |-> f, prio |-> 0] \in ClientRequests
    BY <1>0 DEF ClientRequests
  <2> QED
    BY <1>1, <1>4, <2>1 DEF CallSubscribe, CallUnsubscribe
<1>5. ASSUME NEW topic \in Topics, NEW prio \in Prios, CallPublish(c, topic, prio)
      PROVE  \E r \in ClientRequests : SendRequest(r)
  <2>1. [cmd |-> "publish", fd |-> fd[c], arg |-> topic, prio |-> prio] \in ClientRequests
    BY <1>0 DEF ClientRequests
  <2> QED
    BY <1>1, <1>5, <2>1 DEF CallPublish
<1>6. ASSUME NEW timeout \in Timeouts, CallIoctl(c, timeout)
      PROVE  \E r \in ClientRequests : SendRequest(r)
  <2>1. [cmd |-> "ioctl", fd |-> fd[c], arg |-> timeout, prio |-> 0] \in ClientRequests
    BY <1>0 DEF ClientRequests
  <2> QED
    BY <1>1, <1>6, <2>1 DEF CallIoctl
<1> QED
  BY <1>2, <1>3, <1>4, <1>5, <1>6 DEF Sending

\* A client's step is a step Broker allows clients, or none of the broker's business.
LEMMA ClientImplements ==
  ASSUME STypeOK, OwnOK, NEW c \in Clients, ClientNext(c)
  PROVE  [Next]_vars
<1> USE DEF Clients
<1>0. fd[c] \in Slots /\ c \in Names
  BY DEF STypeOK
<1>1. CASE InitUnlink(c) \/ InitGivesUp(c) \/ AppUnlink(c)
  BY <1>0, <1>1 DEF InitUnlink, InitGivesUp, AppUnlink, Next, ClientsNext
<1>2. CASE InitCreate(c)
  BY <1>0, <1>2 DEF InitCreate, Next, ClientsNext
<1>3. CASE \/ InitCreateFails(c) \/ InitConnect(c) \/ InitTimesOut(c) \/ InitInterrupted(c)
           \/ CallCleanup(c) \/ CleanupInterrupted(c) \/ Crash(c)
  BY <1>3 DEF InitCreateFails, InitConnect, InitTimesOut, InitInterrupted, CallCleanup,
              CleanupInterrupted, Crash
<1>4. CASE InitReceive(c) \/ CallReceive(c)
  <2>1. qsub[c] \in Queues /\ ReadQueue(qsub[c])
    BY <1>4 DEF InitReceive, CallReceive, CanCall, OwnOK, HasQueue
  <2> QED
    BY <2>1 DEF Next, ClientsNext
<1>5. CASE Sending(c)
  BY <1>5, ClientSends, SystemAssumption DEF Next, ClientsNext
<1> QED
  BY <1>1, <1>2, <1>3, <1>4, <1>5 DEF ClientNext, InitStep, Sending

\* Every step of the system is a step of Broker, or leaves its variables alone.
LEMMA StepImplements ==
  ASSUME STypeOK, OwnOK, [SNext]_svars
  PROVE  [Next]_vars
<1>1. CASE BrokerStep \/ SignalStep
  BY <1>1 DEF BrokerStep, SignalStep, Next
<1>2. CASE \E c \in Clients : ClientStep(c)
  BY <1>2, ClientImplements DEF ClientStep
<1> QED
  BY <1>1, <1>2 DEF SNext, svars
-----------------------------------------------------------------------------
(* What a client knows of itself.                                          *)

\* The next message of a queue is one of its messages.
LEMMA HeadTyped ==
  ASSUME NEW S, NEW q \in Seq(S), \E i \in DOMAIN q : IsMqNext(q, i)
  PROVE  MqHead(q) \in S
<1> DEFINE i == CHOOSE j \in DOMAIN q : IsMqNext(q, j)
<1>1. i \in DOMAIN q
  OBVIOUS
<1>2. MqHead(q) = q[i]
  BY DEF MqHead
<1> HIDE DEF i
<1> QED
  BY <1>1, <1>2

\* A session that ends leaves the client well-typed and without a queue.
LEMMA EndsSessionTyped ==
  ASSUME STypeOK, OwnOK, NEW c \in Clients, EndsSession(c), UNCHANGED evicted
  PROVE  STypeOK' /\ OwnOK'
<1>1. 0 \in Slots
  BY BrokerAssumption DEF Slots
<1>2. STypeOK'
  BY <1>1 DEF EndsSession, Goes, STypeOK
<1>3. OwnOK'
  BY DEF EndsSession, Goes, STypeOK, OwnOK, HasQueue, Ready
<1> QED
  BY <1>2, <1>3

\* A client that moves on within the library and changes nothing else of its own.
LEMMA GoesTyped ==
  ASSUME STypeOK, OwnOK, NEW c \in Clients, NEW to, Goes(c, to),
         to \in {"idle", "create", "giveup", "opening", "wait", "closing"},
         to \in {"giveup", "opening", "wait"} => HasQueue(c) /\ ~Ready(c),
         to \in {"idle", "create"} => ~Ready(c),
         to = "closing" => Ready(c),
         UNCHANGED <<qsub, fd, asked, timed, evicted>>
  PROVE  STypeOK' /\ OwnOK'
<1>1. STypeOK'
  BY DEF STypeOK, Goes
<1>2. OwnOK'
  BY DEF STypeOK, OwnOK, Goes, HasQueue, Ready
<1> QED
  BY <1>1, <1>2

\* Every call of the library leaves the client well-typed, with a queue where it needs one.
LEMMA ClientKeepsOwn ==
  ASSUME TypeInv, STypeOK, OwnOK, NEW c \in Clients, ClientStep(c)
  PROVE  STypeOK' /\ OwnOK'
<1>0. UNCHANGED evicted
  BY DEF ClientStep
<1>1. CASE EndsSession(c)
  BY <1>0, <1>1, EndsSessionTyped
<1>2. CASE InitUnlink(c) \/ InitCreateFails(c)
  BY <1>0, <1>2, GoesTyped DEF InitUnlink, InitCreateFails, Ready
<1>3. CASE InitCreate(c)
  <2>1. PICK q \in Queues : qsub' = [qsub EXCEPT ![c] = q]
    BY <1>3 DEF InitCreate
  <2>2. at[c] = "create" /\ Goes(c, "connect") /\ UNCHANGED <<fd, asked, timed>>
    BY <1>3 DEF InitCreate
  <2>3. STypeOK'
    BY <1>0, <2>1, <2>2 DEF STypeOK, Goes
  <2>4. OwnOK'
    BY <2>1, <2>2 DEF STypeOK, OwnOK, Goes, HasQueue, Ready
  <2> QED
    BY <2>3, <2>4
<1>4. CASE InitConnect(c)
  <2>1. at[c] = "connect"
    BY <1>4 DEF InitConnect
  <2>2. EndsSession(c) \/ (Goes(c, "opening") /\ UNCHANGED <<qsub, fd, asked, timed>>)
    BY <1>4 DEF InitConnect
  <2> QED
    BY <1>0, <1>1, <2>1, <2>2, GoesTyped DEF HasQueue, Ready
<1>5. CASE InitSendOpen(c)
  BY <1>0, <1>5, GoesTyped DEF InitSendOpen, HasQueue, Ready
<1>6. CASE InitTimesOut(c) \/ InitInterrupted(c)
  BY <1>0, <1>6, GoesTyped DEF InitTimesOut, InitInterrupted, HasQueue, Ready
<1>7. CASE InitReceive(c)
  <2> DEFINE q == mqs[qsub[c]]
             m == MqHead(q)
  <2>1. at[c] = "wait" /\ UNCHANGED <<qsub, asked, timed>>
    BY <1>7 DEF InitReceive
  <2>2. \/ UNCHANGED <<at, fd>>
        \/ Goes(c, "giveup") /\ UNCHANGED fd
        \/ Goes(c, "ready") /\ fd' = [fd EXCEPT ![c] = m.fd]
    BY <1>7 DEF InitReceive
  <2>3. CASE UNCHANGED <<at, fd>>
    BY <1>0, <2>1, <2>3 DEF STypeOK, OwnOK, HasQueue, Ready
  <2>4. CASE Goes(c, "giveup") /\ UNCHANGED fd
    BY <1>0, <2>1, <2>4, GoesTyped DEF HasQueue, Ready
  <2>5. CASE Goes(c, "ready") /\ fd' = [fd EXCEPT ![c] = m.fd]
    <3>1. qsub[c] \in Queues
      BY <2>1 DEF OwnOK, HasQueue
    <3>2. q \in Seq(ReplyType) /\ \E i \in DOMAIN q : IsMqNext(q, i)
      BY <1>7, <3>1 DEF InitReceive, ReadQueue, TakeFrom, TypeInv, TypeOK, QueuesOK
    <3>3. m \in ReplyType
      BY <3>2, HeadTyped
    <3>4. m.fd \in Slots
      BY <3>3 DEF ReplyType
    <3> HIDE DEF m, q
    <3>5. STypeOK'
      BY <1>0, <2>1, <2>5, <3>4 DEF STypeOK, Goes
    <3>6. OwnOK'
      BY <2>1, <2>5, <3>1 DEF STypeOK, OwnOK, Goes, HasQueue, Ready
    <3> QED
      BY <3>5, <3>6
  <2> QED
    BY <2>2, <2>3, <2>4, <2>5
<1>8. CASE \E f \in Filters : CallSubscribe(c, f) \/ CallUnsubscribe(c, f)
  <2>1. PICK f \in Filters : CallSubscribe(c, f) \/ CallUnsubscribe(c, f)
    BY <1>8
  <2>2. STypeOK'
    BY <1>0, <2>1 DEF CallSubscribe, CallUnsubscribe, STypeOK, own
  <2>3. OwnOK'
    BY <2>1 DEF CallSubscribe, CallUnsubscribe, OwnOK, HasQueue, Ready, own
  <2> QED
    BY <2>2, <2>3
<1>9. CASE \E timeout \in Timeouts : CallIoctl(c, timeout)
  <2>1. PICK timeout \in Timeouts : CallIoctl(c, timeout)
    BY <1>9
  <2>2. timed' \in [Clients -> BOOLEAN]
    BY <2>1 DEF CallIoctl, STypeOK
  <2>3. UNCHANGED <<at, qsub, fd, asked>>
    BY <2>1 DEF CallIoctl
  <2> QED
    BY <1>0, <2>2, <2>3 DEF STypeOK, OwnOK, HasQueue, Ready
<1>10. CASE \/ CallReceive(c) \/ AppUnlink(c)
            \/ \E topic \in Topics, prio \in Prios : CallPublish(c, topic, prio)
  BY <1>0, <1>10 DEF CallReceive, AppUnlink, CallPublish, STypeOK, OwnOK, HasQueue, Ready, own
<1>11. CASE CallCleanup(c)
  BY <1>0, <1>11, GoesTyped DEF CallCleanup, CanCall, Ready
<1>12. CASE InitGivesUp(c) \/ CleanupSendsClose(c) \/ CleanupInterrupted(c) \/ Crash(c)
  BY <1>1, <1>12 DEF InitGivesUp, CleanupSendsClose, CleanupInterrupted, Crash
<1> QED
  BY <1>2, <1>3, <1>4, <1>5, <1>6, <1>7, <1>8, <1>9, <1>10, <1>11, <1>12
     DEF ClientStep, ClientNext, InitStep

\* The system starts in SInv.
LEMMA SInvInit == SInit => SInv
<1> SUFFICES ASSUME SInit PROVE SInv
  OBVIOUS
<1>1. TypeInv
  BY InitTypes, InitControlled DEF SInit, TypeInv
<1>2. 0 \in Slots
  BY BrokerAssumption DEF Slots
<1>3. STypeOK /\ OwnOK
  BY <1>2 DEF SInit, STypeOK, OwnOK, HasQueue, Ready
<1> QED
  BY <1>1, <1>3 DEF SInv

\* Every step of the system keeps SInv.
LEMMA SInvStep == SInv /\ [SNext]_svars => SInv'
<1> SUFFICES ASSUME SInv, [SNext]_svars PROVE SInv'
  OBVIOUS
<1>1. TypeOK /\ Control /\ Balanced /\ STypeOK /\ OwnOK
  BY DEF SInv, TypeInv
<1>2. TypeInv'
  BY <1>1, StepImplements, ClientsStep, QueuesStep, PlaceStep, ControlStep, BalanceStep
     DEF TypeInv, TypeOK
<1>3. STypeOK' /\ OwnOK'
  <2>1. CASE \E c \in Clients : ClientStep(c)
    BY <1>1, <2>1, ClientKeepsOwn DEF TypeInv
  <2>2. CASE BrokerStep \/ SignalStep \/ UNCHANGED svars
    <3>1. UNCHANGED <<at, qsub, fd, asked, timed>> /\ evicted' \in BOOLEAN
      BY <1>1, <2>2 DEF BrokerStep, SignalStep, svars, own, STypeOK
    <3> QED
      BY <1>1, <3>1 DEF STypeOK, OwnOK, HasQueue, Ready
  <2> QED
    BY <2>1, <2>2 DEF SNext
<1> QED
  BY <1>2, <1>3 DEF SInv

\* The types, and that a client that waits or is connected has a queue, hold in every state.
THEOREM SystemInvariant == SSpec => []SInv
BY SInvInit, SInvStep, PTL DEF SSpec

(***************************************************************************)
(* In the system with libpsmq's clients every reachable state is           *)
(* well-typed: among others, a client never takes for its slot what is     *)
(* none, whatever it finds on its queue (psmq.c:407-446).                  *)
(***************************************************************************)
THEOREM SystemTypeCorrect == SSpec => []STypeOK
<1>1. SInv => STypeOK
  BY DEF SInv
<1> QED
  BY <1>1, SystemInvariant, PTL

\* The clients of System do what Broker lets any client do, as System is built: what is
\* proved of Broker can be cited for psmqd with clients of libpsmq.
LEMMA SystemIsBroker == SSpec => Spec
<1>1. SInit => Init
  BY DEF SInit
<1>2. SInv /\ [SNext]_svars => [Next]_vars
  BY StepImplements DEF SInv
<1> QED
  BY <1>1, <1>2, SystemInvariant, PTL DEF SSpec, Spec
=============================================================================
