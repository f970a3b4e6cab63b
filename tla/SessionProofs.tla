---------------------------- MODULE SessionProofs ----------------------------
(***************************************************************************)
(* Proofs about the sessions of System: the slot a client holds is its     *)
(* own, and it receives nothing that was meant for anybody else, for any   *)
(* number of clients, slots and queue places, with crashes, signals,       *)
(* timeouts and retries.                                                   *)
(*                                                                         *)
(* What makes it true is in flight: requests for a slot that were sent     *)
(* before the slot changed hands.  The inductive invariant says of each    *)
(* CLOSE, SUBSCRIBE and IOCTL that waits in the control queue, and of each *)
(* slot offered in a client's queue, whose it is.                          *)
(***************************************************************************)
EXTENDS SystemProofs, ServiceProofs

-----------------------------------------------------------------------------
(* What is in a sequence.                                                  *)

Elems(q) == {q[i] : i \in DOMAIN q}

\* What is in a sequence made of two is in one of them.
LEMMA JoinElems ==
  ASSUME NEW S, NEW a \in Seq(S), NEW b \in Seq(S)
  PROVE  Elems(a \o b) = Elems(a) \cup Elems(b)
<1>1. \A i \in DOMAIN a : i \in DOMAIN (a \o b) /\ (a \o b)[i] = a[i]
  OBVIOUS
<1>2. \A i \in DOMAIN b : Len(a) + i \in DOMAIN (a \o b) /\ (a \o b)[Len(a) + i] = b[i]
  OBVIOUS
<1>3. \A i \in DOMAIN (a \o b) :
        \/ i \in DOMAIN a /\ (a \o b)[i] = a[i]
        \/ i - Len(a) \in DOMAIN b /\ (a \o b)[i] = b[i - Len(a)]
  OBVIOUS
<1>4. Elems(a \o b) \subseteq Elems(a) \cup Elems(b)
  BY <1>3 DEF Elems
<1>5. Elems(a) \subseteq Elems(a \o b)
  BY <1>1 DEF Elems
<1>6. Elems(b) \subseteq Elems(a \o b)
  BY <1>2 DEF Elems
<1> QED
  BY <1>4, <1>5, <1>6

\* What is in a part of a sequence.
LEMMA SliceElems ==
  ASSUME NEW S, NEW q \in Seq(S), NEW i \in 1 .. Len(q) + 1, NEW j \in i - 1 .. Len(q)
  PROVE  Elems(SubSeq(q, i, j)) = {q[k] : k \in i .. j}
<1>1. DOMAIN SubSeq(q, i, j) = 1 .. j - i + 1
  OBVIOUS
<1>2. \A k \in 1 .. j - i + 1 : SubSeq(q, i, j)[k] = q[k + i - 1] /\ k + i - 1 \in i .. j
  OBVIOUS
<1>3. \A k \in i .. j : k - i + 1 \in 1 .. j - i + 1 /\ (k - i + 1) + i - 1 = k
  OBVIOUS
<1> DEFINE a == SubSeq(q, i, j)
<1>4. \A k \in i .. j : k - i + 1 \in DOMAIN a /\ a[k - i + 1] = q[k]
  BY <1>1, <1>2, <1>3
<1>5. \A k \in DOMAIN a : k + i - 1 \in i .. j /\ a[k] = q[k + i - 1]
  BY <1>1, <1>2
<1> HIDE DEF a
<1>6. Elems(a) \subseteq {q[k] : k \in i .. j}
  BY <1>5 DEF Elems
<1>7. {q[k] : k \in i .. j} \subseteq Elems(a)
  BY <1>4 DEF Elems
<1>8. Elems(a) = {q[k] : k \in i .. j}
  BY <1>6, <1>7
<1> QED
  BY <1>8 DEF a

\* Taking an element out leaves the others; its value may be there a second time.
LEMMA RemoveElems ==
  ASSUME NEW S, NEW q \in Seq(S), NEW i \in DOMAIN q
  PROVE  Elems(RemoveAt(q, i)) \in {Elems(q), Elems(q) \ {q[i]}}
<1> DEFINE a == SubSeq(q, 1, i - 1)
           b == SubSeq(q, i + 1, Len(q))
<1>1. i \in 1 .. Len(q) /\ Len(q) \in Nat /\ DOMAIN q = 1 .. Len(q)
  OBVIOUS
<1>2. a \in Seq(S) /\ b \in Seq(S)
  BY <1>1, SliceTyped
<1>3. Elems(a) = {q[k] : k \in 1 .. i - 1} /\ Elems(b) = {q[k] : k \in i + 1 .. Len(q)}
  BY <1>1, SliceElems
<1>4. Elems(RemoveAt(q, i)) = Elems(a) \cup Elems(b)
  <2>1. RemoveAt(q, i) = a \o b
    BY DEF RemoveAt
  <2> HIDE DEF a, b
  <2> QED
    BY <1>2, <2>1, JoinElems
<1>5. \A k \in DOMAIN q : k \in 1 .. i - 1 \/ k = i \/ k \in i + 1 .. Len(q)
  BY <1>1
<1>6. 1 .. i - 1 \subseteq DOMAIN q /\ i + 1 .. Len(q) \subseteq DOMAIN q
  BY <1>1
<1>7. Elems(q) = Elems(a) \cup Elems(b) \cup {q[i]}
  <2>1. Elems(q) \subseteq Elems(a) \cup Elems(b) \cup {q[i]}
    BY <1>3, <1>5 DEF Elems
  <2>2. Elems(a) \subseteq Elems(q) /\ Elems(b) \subseteq Elems(q) /\ q[i] \in Elems(q)
    BY <1>3, <1>6 DEF Elems
  <2> QED
    BY <2>1, <2>2
<1> HIDE DEF a, b
<1> QED
  BY <1>4, <1>7

\* Putting an element in keeps the others.
LEMMA InsertElems ==
  ASSUME NEW S, NEW q \in Seq(S), NEW e \in S, NEW i \in 1 .. Len(q) + 1
  PROVE  Elems(InsertAt(q, i, e)) = Elems(q) \cup {e}
<1> DEFINE a == SubSeq(q, 1, i - 1)
           b == SubSeq(q, i, Len(q))
           c == <<e>>
<1>1. i \in 1 .. Len(q) + 1 /\ Len(q) \in Nat /\ DOMAIN q = 1 .. Len(q)
  OBVIOUS
<1>2. a \in Seq(S) /\ b \in Seq(S) /\ c \in Seq(S)
  BY <1>1, SliceTyped
<1>3. Elems(a) = {q[k] : k \in 1 .. i - 1} /\ Elems(b) = {q[k] : k \in i .. Len(q)}
  BY <1>1, SliceElems
<1>4. Elems(c) = {e}
  BY DEF Elems
<1>5. Elems(q) = Elems(a) \cup Elems(b)
  <2>1. \A k \in DOMAIN q : k \in 1 .. i - 1 \/ k \in i .. Len(q)
    BY <1>1
  <2>2. 1 .. i - 1 \subseteq DOMAIN q /\ i .. Len(q) \subseteq DOMAIN q
    BY <1>1
  <2> QED
    BY <1>3, <2>1, <2>2 DEF Elems
<1>6. InsertAt(q, i, e) = (a \o c) \o b
  BY DEF InsertAt
<1> DEFINE d == a \o c
<1> HIDE DEF a, b, c
<1>7. d \in Seq(S) /\ Elems(d) = Elems(a) \cup Elems(c)
  BY <1>2, JoinTyped, JoinElems
<1> HIDE DEF d
<1>8. Elems(d \o b) = Elems(d) \cup Elems(b)
  BY <1>2, <1>7, JoinElems
<1> QED
  BY <1>4, <1>5, <1>6, <1>7, <1>8 DEF d

\* A new topic joins those of the list.
LEMMA AddElems ==
  ASSUME NEW S, NEW list \in Seq(S), NEW t \in S
  PROVE  Elems(TlAdd(list, t)) = Elems(list) \cup {t}
<1>1. CASE list = <<>>
  BY <1>1 DEF TlAdd, Elems
<1>2. CASE list # <<>>
  <2>1. 2 \in 1 .. Len(list) + 1
    BY <1>2
  <2>2. TlAdd(list, t) = InsertAt(list, 2, t)
    BY <1>2 DEF TlAdd
  <2> QED
    BY <2>1, <2>2, InsertElems
<1> QED
  BY <1>1, <1>2
-----------------------------------------------------------------------------
(* The invariant.                                                          *)

\* The broker serves requests, it is not on its way out.
Working == pc \notin {"cleanup", "exited"} /\ ret # "cleanup"

\* Slots change hands by OPEN and CLOSE alone.
Undisturbed == ~evicted /\ Working

\* Request i of the control queue is cmd, for slot s.
Asks(i, cmd, s) == i \in DOMAIN ctrl /\ ctrl[i].cmd = cmd /\ ctrl[i].fd = s

\* Requests that set something for whoever reads the slot's queue.
Settings == {"subscribe", "ioctl"}

\* Request i of the control queue is one of those, for slot s.
AsksFor(i, s) == \E cmd \in Settings : Asks(i, cmd, s)

\* The CLOSE of slot s is being served.
Closes(s) == (pc = "close" /\ msg.fd = s) \/ (pc = "closing" /\ cur = s)

\* The CLOSE of slot s is on its way, or being served.
CloseAsked(s) == Closes(s) \/ \E i \in DOMAIN ctrl : Asks(i, "close", s)

\* The slots that queue q tells its reader to be given.
Offered(q) == {m.fd : m \in {r \in Elems(mqs[q]) : r.cmd = "open" /\ r.data = "OK"}}

\* Facts about the program text, true whatever happens.
Plain ==
  /\ ~shutdown => Working
  /\ ~evicted => ret # "scan"
  /\ pc = "reply" => out.cmd \in {"subscribe", "unsubscribe", "ioctl"}
  /\ pc \in Settings => msg.cmd = pc
  /\ \A i \in DOMAIN ctrl : ctrl[i] \in ClientRequests
  /\ \A c, d \in Clients : qsub[c] = qsub[d] /\ qsub[c] # NoQueue => c = d

\* A CLOSE is for a slot in use, whose session is over; there is never a second one.
ClosesOver ==
  \A s \in Slots :
    /\ CloseAsked(s) => InUse(s) /\ \A c \in Clients : qsub[c] # Queue(s)
    /\ \A i, j \in DOMAIN ctrl : Asks(i, "close", s) /\ Asks(j, "close", s) => i = j
    /\ Closes(s) => \A i \in DOMAIN ctrl : ~Asks(i, "close", s)

\* What a client is told, and believes, to be its slot has its queue.
SlotsTold ==
  \A c \in Clients :
    /\ Ready(c) => Queue(fd[c]) = qsub[c]
    /\ qsub[c] # NoQueue => \A s \in Offered(qsub[c]) : Queue(s) = qsub[c]

\* Before it is offered, a slot is nobody's: nothing is on its way for it.
SlotFresh ==
  pc = "welcome" =>
    /\ \A i \in DOMAIN ctrl : ~Asks(i, "close", cur) /\ ~AsksFor(i, cur)
    /\ \A c \in Clients : /\ Ready(c) => fd[c] # cur
                          /\ qsub[c] # NoQueue => cur \notin Offered(qsub[c])

\* Client c made request r in this session.  (It need not for a timeout of zero.)
Wanted(c, r) ==
  /\ r.cmd = "subscribe" => r.arg \in asked[c]
  /\ r.cmd = "ioctl" /\ r.arg # "zero" => timed[c]

\* Slot s is in use, and r was made by whoever reads its queue.
AskedBy(s, r) == InUse(s) /\ \A c \in Clients : qsub[c] = Queue(s) => Wanted(c, r)

\* SUBSCRIBE and IOCTL are for a slot in use that is not closed before they are served,
\* and made by its reader, who gets the answer.
RequestsOwn ==
  /\ \A s \in Slots, i \in DOMAIN ctrl : AsksFor(i, s) =>
       /\ AskedBy(s, ctrl[i]) /\ ~Closes(s)
       /\ \A j \in DOMAIN ctrl : Asks(j, "close", s) => i < j
  /\ pc \in Settings => AskedBy(msg.fd, msg)
  /\ pc = "reply" /\ out.cmd \in Settings => AskedBy(cur, out)

\* A list of topics holds what the reader of the slot's queue asked for.
ListsOwn ==
  \A s \in Slots :
    /\ ~InUse(s) \/ (pc = "welcome" /\ s = cur) => Elems(clients[s].topics) = {}
    /\ InUse(s) => \A c \in Clients : qsub[c] = Queue(s) => Elems(clients[s].topics) \subseteq asked[c]

\* The publishes that wait for a reader are ones it asked for.
QueuesOwn ==
  \A c \in Clients : qsub[c] # NoQueue =>
    \A m \in Elems(mqs[qsub[c]]) :
      m.cmd = "publish" => \E f \in asked[c] : <<m.arg, f>> \in Matching

Sessions == ClosesOver /\ SlotsTold /\ SlotFresh /\ RequestsOwn /\ ListsOwn

SessionsInv == /\ Plain
               /\ Undisturbed => Sessions
               /\ ~evicted => QueuesOwn
-----------------------------------------------------------------------------
(* Queues: what a message sent, or taken off, changes.                     *)

\* A message that is sent joins those of the queue.
LEMMA SendElems ==
  ASSUME NEW S, NEW q \in Seq(S), NEW m
  PROVE  Elems(MqSend(q, m)) = Elems(q) \cup {m}
<1> DEFINE new == MqSend(q, m)
<1>1. DOMAIN new = 1 .. Len(q) + 1 /\ DOMAIN q = 1 .. Len(q) /\ Len(q) \in Nat
  BY DEF MqSend
<1>2. \A i \in DOMAIN q : new[i] = q[i]
  BY DEF MqSend
<1>3. new[Len(q) + 1] = m
  BY DEF MqSend
<1> HIDE DEF new
<1> QED
  BY <1>1, <1>2, <1>3 DEF Elems, new

\* What is in a queue a message was taken from was in it before.
LEMMA RestElems ==
  ASSUME NEW S, NEW q \in Seq(S), NEW i \in DOMAIN q
  PROVE  Elems(MqRest(q, i)) \subseteq Elems(q)
BY RemoveElems DEF MqRest

\* Taking a message out keeps the others in their order.
LEMMA RestOrder ==
  ASSUME NEW S, NEW q \in Seq(S), NEW i \in DOMAIN q
  PROVE  \A j \in DOMAIN MqRest(q, i) :
           LET k == IF j < i THEN j ELSE j + 1
           IN  k \in DOMAIN q \ {i} /\ MqRest(q, i)[j] = q[k]
<1> DEFINE a == SubSeq(q, 1, i - 1)
           b == SubSeq(q, i + 1, Len(q))
<1>1. i \in 1 .. Len(q) /\ Len(q) \in Nat /\ DOMAIN q = 1 .. Len(q)
  OBVIOUS
<1>2. a \in Seq(S) /\ Len(a) = i - 1 /\ b \in Seq(S) /\ Len(b) = Len(q) - i
  BY <1>1, SliceTyped
<1>3. \A j \in 1 .. i - 1 : a[j] = q[j]
  BY <1>1
<1>4. \A j \in 1 .. Len(q) - i : b[j] = q[j + i]
  BY <1>1
<1>5. MqRest(q, i) = a \o b
  BY DEF MqRest, RemoveAt
<1> HIDE DEF a, b
<1>6. DOMAIN (a \o b) = 1 .. Len(q) - 1
  <2>1. a \o b \in Seq(S) /\ Len(a \o b) = (i - 1) + (Len(q) - i)
    BY <1>2, JoinTyped
  <2>2. (i - 1) + (Len(q) - i) = Len(q) - 1
    BY <1>1
  <2>3. Len(a \o b) = Len(q) - 1
    BY <2>1, <2>2
  <2> DEFINE w == a \o b
  <2>4. w \in Seq(S)
    BY <2>1
  <2> HIDE DEF w
  <2>5. DOMAIN w = 1 .. Len(w)
    BY <2>4
  <2> QED
    BY <2>3, <2>5 DEF w
<1>7. ASSUME NEW j \in 1 .. Len(q) - 1
      PROVE  (a \o b)[j] = q[IF j < i THEN j ELSE j + 1]
  <2>1. CASE j < i
    BY <1>1, <1>2, <1>3, <2>1
  <2>2. CASE j >= i
    <3>1. (a \o b)[j] = b[j - (i - 1)]
      BY <1>1, <1>2, <2>2
    <3>2. j - (i - 1) \in 1 .. Len(q) - i /\ (j - (i - 1)) + i = j + 1
      BY <1>1, <2>2
    <3> QED
      BY <1>4, <2>2, <3>1, <3>2
  <2>3. j < i \/ (j >= i /\ ~(j < i))
    BY <1>1
  <2> QED
    BY <2>1, <2>2, <2>3
<1>8. ASSUME NEW j \in 1 .. Len(q) - 1
      PROVE  (IF j < i THEN j ELSE j + 1) \in DOMAIN q \ {i}
  BY <1>1
<1> QED
  BY <1>5, <1>6, <1>7, <1>8

\* The next message is one of those in the queue.
LEMMA HeadElem ==
  ASSUME NEW q, \E i \in DOMAIN q : IsMqNext(q, i)
  PROVE  MqHead(q) \in Elems(q)
<1> DEFINE i == CHOOSE j \in DOMAIN q : IsMqNext(q, j)
<1>1. i \in DOMAIN q
  OBVIOUS
<1>2. MqHead(q) = q[i]
  BY DEF MqHead
<1> HIDE DEF i
<1> QED
  BY <1>1, <1>2 DEF Elems

\* After a send its message is on the queue of the slot, and nothing else is new anywhere.
LEMMA SentTo ==
  ASSUME ClientsOK, QueuesOK, NEW s \in Slots, CanSend(s), NEW m, SendTo(s, m)
  PROVE  /\ Queue(s) \in Queues
         /\ \A q \in Queues : Elems(mqs'[q]) = IF q = Queue(s) THEN Elems(mqs[q]) \cup {m}
                                               ELSE Elems(mqs[q])
<1>1. Queue(s) \in Queues
  BY DEF CanSend, InUse, ClientsOK, ClientType, Queue
<1>2. mqs' = [mqs EXCEPT ![Queue(s)] = MqSend(mqs[Queue(s)], m)]
  BY DEF SendTo
<1>3. mqs[Queue(s)] \in Seq(ReplyType) /\ mqs \in [Queues -> Seq(ReplyType)]
  BY <1>1 DEF QueuesOK
<1>4. Elems(MqSend(mqs[Queue(s)], m)) = Elems(mqs[Queue(s)]) \cup {m}
  BY <1>3, SendElems
<1> QED
  BY <1>1, <1>2, <1>3, <1>4

\* Nothing is new on any queue when a message was taken off one.
LEMMA TakenFrom ==
  ASSUME QueuesOK, NEW p \in Queues, TakeFrom(p)
  PROVE  \A q \in Queues : Elems(mqs'[q]) \subseteq Elems(mqs[q])
<1>1. PICK i \in DOMAIN mqs[p] : mqs' = [mqs EXCEPT ![p] = MqRest(mqs[p], i)]
  BY DEF TakeFrom
<1>2. mqs[p] \in Seq(ReplyType) /\ mqs \in [Queues -> Seq(ReplyType)]
  BY DEF QueuesOK
<1>3. Elems(MqRest(mqs[p], i)) \subseteq Elems(mqs[p])
  BY <1>2, RestElems
<1> QED
  BY <1>1, <1>2, <1>3

\* At most message m is new on any queue.
Adds(m) == \A q \in Queues : Elems(mqs'[q]) \subseteq Elems(mqs[q]) \cup {m}

\* Only OpenWelcomed offers a slot, and only Delivered sends a publish.
LEMMA WhatIsSent ==
  ASSUME TypeOK, Control, Plain, [Next]_vars
  PROVE  \E m : /\ Adds(m)
                /\ m.cmd = "open" /\ m.data = "OK" => OpenWelcomed
                /\ m.cmd = "publish" => Delivered
<1> DEFINE Goal == \E m : /\ Adds(m)
                          /\ m.cmd = "open" /\ m.data = "OK" => OpenWelcomed
                          /\ m.cmd = "publish" => Delivered
<1>0. ASSUME \A q \in Queues : Elems(mqs'[q]) \subseteq Elems(mqs[q])
      PROVE  Goal
  <2>1. Adds(NoReply) /\ NoReply.cmd = "none"
    BY <1>0 DEF Adds, NoReply, Reply
  <2> QED
    BY <2>1
<1>1. ASSUME NEW s \in Slots, NEW m, CanSend(s), SendTo(s, m)
      PROVE  Adds(m)
  BY <1>1, SentTo DEF Adds, TypeOK
<1>2. CASE QueuesKept \/ Receive \/ \E r \in Requests : SendRequest(r)
  <2>1. UNCHANGED mqs
    BY <1>2, QueuesUnchanged DEF Receive, SendRequest
  <2> QED
    BY <1>0, <2>1
<1>3. CASE ReplySent
  <2>1. Adds(out) /\ out.cmd \notin {"open", "publish"}
    BY <1>1, <1>3 DEF ReplySent, Control, Plain
  <2> QED
    BY <2>1
<1>4. CASE OpenWelcomed
  <2> DEFINE m == [Reply("open", "OK", "none") EXCEPT !.fd = cur]
  <2>1. Adds(m) /\ m.cmd = "open"
    BY <1>1, <1>4 DEF OpenWelcomed, Control, Reply
  <2> HIDE DEF m
  <2> QED
    BY <1>4, <2>1
<1>5. CASE OpenRefused
  <2> DEFINE m == Reply("open", "ENOSPC", "none")
             q == names[msg.arg]
  <2>1. m.cmd = "open" /\ m.data = "ENOSPC"
    BY DEF Reply
  <2>2. q \in Queues /\ mqs[q] \in Seq(ReplyType) /\ mqs \in [Queues -> Seq(ReplyType)]
    BY <1>5 DEF OpenRefused, TypeOK, NamesOK, QueuesOK
  <2>3. mqs' = mqs \/ mqs' = [mqs EXCEPT ![q] = MqSend(mqs[q], m)]
    BY <1>5 DEF OpenRefused
  <2>4. Elems(MqSend(mqs[q], m)) = Elems(mqs[q]) \cup {m}
    BY <2>2, SendElems
  <2> HIDE DEF m, q
  <2>5. Adds(m)
    BY <2>2, <2>3, <2>4 DEF Adds
  <2> QED
    BY <2>1, <2>5
<1>6. CASE CloseAcked
  <2> DEFINE m == Reply("close", "OK", "none")
  <2>1. Adds(m) /\ m.cmd = "close"
    BY <1>1, <1>6 DEF CloseAcked, Control, Reply
  <2> HIDE DEF m
  <2> QED
    BY <2>1
<1>7. CASE Delivered
  <2> DEFINE m == Publication
  <2>1. Adds(m) /\ m.cmd = "publish"
    BY <1>1, <1>7 DEF Delivered, Control, Publication, Reply
  <2> HIDE DEF m
  <2> QED
    BY <1>7, <2>1
<1>8. CASE Evict \/ \E q \in Queues : ReadQueue(q)
  <2>1. UNCHANGED mqs \/ \E q \in Queues : TakeFrom(q)
    BY <1>8 DEF Evict, ReadQueue, Control, InUse, Queue, TypeOK, ClientsOK, ClientType
  <2> QED
    BY <1>0, <2>1, TakenFrom DEF TypeOK
<1>9. CASE \E n \in Names, q \in Queues : CreateQueue(n, q)
  <2>1. PICK q \in Queues : mqs' = [mqs EXCEPT ![q] = <<>>]
    BY <1>9 DEF CreateQueue
  <2>2. \A p \in Queues : mqs'[p] = mqs[p] \/ Elems(mqs'[p]) = {}
    BY <2>1 DEF TypeOK, QueuesOK, Elems
  <2> QED
    BY <1>0, <2>2
<1> QED
  BY <1>2, <1>3, <1>4, <1>5, <1>6, <1>7, <1>8, <1>9
     DEF Next, BrokerNext, ClientsNext, QueuesKept

\* No slot is newly offered to anybody.
NoOffers == \A q \in Queues : Offered(q)' \subseteq Offered(q)

\* No publish is newly queued for anybody.
NoPublishes ==
  \A q \in Queues : \A m \in Elems(mqs'[q]) : m.cmd = "publish" => m \in Elems(mqs[q])

\* Except in OpenWelcomed no slot is offered, and except in Delivered no publish is sent.
LEMMA NothingSent ==
  ASSUME TypeOK, Control, Plain, [Next]_vars
  PROVE  (~OpenWelcomed => NoOffers) /\ (~Delivered => NoPublishes)
<1>1. PICK m : /\ Adds(m)
               /\ m.cmd = "open" /\ m.data = "OK" => OpenWelcomed
               /\ m.cmd = "publish" => Delivered
  BY WhatIsSent
<1>2. ~Delivered => NoPublishes
  BY <1>1 DEF NoPublishes, Adds
<1>3. ~OpenWelcomed => NoOffers
  BY <1>1 DEF NoOffers, Offered, Adds
<1> QED
  BY <1>2, <1>3
-----------------------------------------------------------------------------
(* Steps of the broker.                                                    *)

\* No slot changes hands, no list grows, no request is taken or newly in service.
Still ==
  /\ \A s \in Slots : /\ clients'[s].mq = clients[s].mq
                      /\ Elems(clients'[s].topics) \subseteq Elems(clients[s].topics)
                      /\ Closes(s)' => Closes(s)
  /\ pc' = "welcome" => pc = "welcome" /\ cur' = cur
  /\ pc' \in Settings => pc' = pc /\ msg' = msg
  /\ pc' = "reply" /\ out'.cmd \in Settings =>
       \/ pc = "reply" /\ cur' = cur /\ out' = out
       \/ pc \in Settings /\ cur' = msg.fd /\ out'.cmd = msg.cmd /\ out'.arg = msg.arg
  /\ NoOffers
  /\ UNCHANGED <<ctrl, own>>

\* A slot that is kept in use is one of the slots.
LEMMA TheSlots ==
  ASSUME TypeOK, Control, STypeOK
  PROVE  /\ \A c \in Clients : fd[c] \in Slots /\ qsub[c] \in Queues \cup {NoQueue}
         /\ pc = "welcome" => cur \in Slots
         /\ pc \in Settings => msg.fd \in Slots
         /\ pc = "reply" => cur \in Slots
         /\ NoQueue \notin Queues
         /\ \A q \in Queues : Offered(q) \subseteq Slots
<1>1. \A q \in Queues : \A m \in Elems(mqs[q]) : m \in ReplyType
  BY DEF Elems, TypeOK, QueuesOK
<1>2. \A q \in Queues : Offered(q) \subseteq Slots
  BY <1>1 DEF Offered, ReplyType
<1>3. pc \in Settings => msg.fd \in Slots
  BY DEF Settings, Control, Commands
<1> QED
  BY <1>2, <1>3, BrokerAssumption DEF STypeOK, Control

\* Steps of that kind disturb no session.
LEMMA StillStep ==
  ASSUME TypeOK, Control, STypeOK, Sessions, Still
  PROVE  Sessions'
<1>1. \A s \in Slots : Queue(s)' = Queue(s) /\ (InUse(s)' <=> InUse(s))
  BY DEF Still, Queue, InUse
<1>2. UNCHANGED <<ctrl, at, qsub, fd, asked, timed>>
  BY DEF Still, own
<1>3. \A i, cmd, s : Asks(i, cmd, s)' <=> Asks(i, cmd, s)
  BY <1>2 DEF Asks
<1>4. \A s \in Slots : Closes(s)' => Closes(s)
  BY DEF Still
<1>5. ClosesOver'
  <2>1. \A s \in Slots : CloseAsked(s)' => CloseAsked(s)
    BY <1>2, <1>3, <1>4 DEF CloseAsked
  <2> QED
    BY <1>1, <1>2, <1>3, <1>4, <2>1 DEF ClosesOver, Sessions
<1>6. SlotsTold'
  BY <1>1, <1>2, TheSlots DEF SlotsTold, Sessions, Still, NoOffers, Ready
<1>7. SlotFresh'
  BY <1>2, <1>3, TheSlots DEF SlotFresh, Sessions, Still, NoOffers, Ready, AsksFor
<1>8. RequestsOwn'
  <2>1. ASSUME NEW s \in Slots, NEW r, AskedBy(s, r)
        PROVE  AskedBy(s, r)'
    BY <1>1, <1>2, <2>1 DEF AskedBy, Wanted
  <2>2. pc' \in Settings => AskedBy(msg.fd, msg)'
    BY <2>1, TheSlots DEF Still, Sessions, RequestsOwn
  <2>3. pc' = "reply" /\ out'.cmd \in Settings => AskedBy(cur, out)'
    <3>1. CASE pc = "reply" /\ cur' = cur /\ out' = out /\ out.cmd \in Settings
      <4>1. AskedBy(cur, out) /\ cur \in Slots
        BY <3>1, TheSlots DEF Sessions, RequestsOwn
      <4> QED
        BY <1>1, <1>2, <3>1, <4>1 DEF AskedBy, Wanted
    <3>2. CASE pc \in Settings /\ cur' = msg.fd /\ out'.cmd = msg.cmd /\ out'.arg = msg.arg
      <4>1. AskedBy(msg.fd, msg) /\ msg.fd \in Slots
        BY <3>2, TheSlots DEF Sessions, RequestsOwn
      <4> QED
        BY <1>1, <1>2, <3>2, <4>1 DEF AskedBy, Wanted
    <3> QED
      BY <3>1, <3>2 DEF Still
  <2>4. \A i, s : AsksFor(i, s)' <=> AsksFor(i, s)
    BY <1>3 DEF AsksFor
  <2> QED
    BY <1>2, <1>3, <1>4, <2>1, <2>2, <2>3, <2>4 DEF RequestsOwn, Sessions
<1>9. ListsOwn'
  BY <1>1, <1>2 DEF ListsOwn, Sessions, Still
<1> QED
  BY <1>5, <1>6, <1>7, <1>8, <1>9 DEF Sessions

\* The broker's steps that are of that kind.
Steady ==
  \/ CheckShutdown \/ ReceiveTimesOut \/ OpenFails \/ OpenRefused
  \/ SubscribeRefused \/ SubscribeFails \/ Unsubscribe \/ UnsubscribeFails
  \/ Ioctl \/ IoctlRefused \/ Wait \/ ReplySent \/ ReplyLost \/ Close
  \/ Publish \/ ScanToHit \/ PublishDone \/ Delivered \/ NotDelivered

\* None of them adds to a list of topics.
LEMMA SteadyLists ==
  ASSUME TypeOK, Control, Steady
  PROVE  \A s \in Slots : Elems(clients'[s].topics) \subseteq Elems(clients[s].topics)
<1>1. CASE ClientsKept
  BY <1>1, ClientsUnchanged
<1>2. CASE ReplySent \/ ReplyLost \/ Delivered \/ NotDelivered
  <2>1. cur \in Slots /\ (ResetMissed(cur) \/ CountMissed(cur))
    BY <1>2 DEF ReplySent, ReplyLost, Delivered, NotDelivered, Control
  <2> QED
    BY <2>1, MissesKeepQueues DEF TypeOK
<1>3. CASE Unsubscribe
  <2> DEFINE list == clients[msg.fd].topics
  <2>1. msg.fd \in Slots /\ Subscribed(msg.fd, msg.arg)
    BY <1>3 DEF Unsubscribe, Control, Commands
  <2>2. list \in Seq(Filters)
    BY <2>1 DEF TypeOK, ClientsOK, ClientType
  <2>3. TlFind(list, msg.arg) \in DOMAIN list
    BY <2>1, <2>2, FindsTopic DEF Subscribed
  <2>4. Elems(TlDelete(list, msg.arg)) \subseteq Elems(list)
    BY <2>2, <2>3, RemoveElems DEF TlDelete
  <2>5. clients' = [clients EXCEPT ![msg.fd].topics = TlDelete(list, msg.arg)]
    BY <1>3 DEF Unsubscribe
  <2> HIDE DEF list
  <2>6. \A s \in Slots : clients'[s].topics = IF s = msg.fd THEN TlDelete(list, msg.arg)
                                              ELSE clients[s].topics
    BY <2>1, <2>5 DEF TypeOK, ClientsOK, ClientType
  <2> QED
    BY <2>4, <2>6 DEF list
<1>4. CASE Ioctl
  <2>1. clients' = [clients EXCEPT ![msg.fd].reply_timeout = msg.arg]
    BY <1>4 DEF Ioctl
  <2> QED
    BY <2>1 DEF TypeOK, ClientsOK, ClientType
<1> QED
  BY <1>1, <1>2, <1>3, <1>4 DEF Steady, ClientsKept

\* And none of them gives out a slot or takes a request.
LEMMA SteadyIsStill ==
  ASSUME TypeOK, Control, Plain, Steady, UNCHANGED own
  PROVE  Still
<1>1. HeldKept /\ ~OpenWelcomed /\ BrokerNext
  <2>1. HeldKept /\ BrokerNext
    BY DEF Steady, HeldKept, Answers, BrokerNext
  <2>2. ~OpenWelcomed
    <3>1. pc # "welcome"
      BY DEF Steady, CheckShutdown, ReceiveTimesOut, OpenFails, OpenRefused, SubscribeRefused,
         SubscribeFails, Unsubscribe, UnsubscribeFails, Ioctl, IoctlRefused, Wait, ReplySent,
         ReplyLost, Close, Publish, ScanToHit, PublishDone, Delivered, NotDelivered
    <3> QED
      BY <3>1 DEF OpenWelcomed
  <2> QED
    BY <2>1, <2>2
<1>2. \A s \in Slots : clients'[s].mq = clients[s].mq
  BY <1>1, QueuesOfSlotsKept
<1>3. NoOffers
  BY <1>1, NothingSent DEF Next
<1>4. UNCHANGED ctrl
  BY DEF Steady, CheckShutdown, ReceiveTimesOut, OpenFails, OpenRefused, SubscribeRefused,
     SubscribeFails, Unsubscribe, UnsubscribeFails, Ioctl, IoctlRefused, Answer, Wait, ReplySent,
     ReplyLost, Close, Publish, ScanToHit, PublishDone, Delivered, NotDelivered
<1>5. /\ pc' # "welcome" /\ pc' \notin Settings
      /\ \A s \in Slots : Closes(s)' => Closes(s)
  <2>1. CASE Wait
    BY <2>1 DEF Wait, Closes, Settings
  <2>2. CASE Close
    BY <2>2 DEF Close, StartClose, Closes, Settings
  <2>3. CASE ~Wait /\ ~Close
    <3>1. pc' \in {"check", "cleanup", "receive", "reply", "scan", "deliver", "evict"}
      BY <2>3 DEF Steady, CheckShutdown, ReceiveTimesOut, OpenFails, OpenRefused,
         SubscribeRefused, SubscribeFails, Unsubscribe, UnsubscribeFails, Ioctl, IoctlRefused,
         Answer, ReplySent, ReplyLost, Publish, ScanToHit, PublishDone, Delivered,
         NotDelivered, BackToLoop
    <3> QED
      BY <3>1 DEF Closes, Settings
  <2> QED
    BY <2>1, <2>2, <2>3
<1>6. ASSUME pc' = "reply", out'.cmd \in Settings
      PROVE  \/ pc = "reply" /\ cur' = cur /\ out' = out
             \/ pc \in Settings /\ cur' = msg.fd /\ out'.cmd = msg.cmd /\ out'.arg = msg.arg
  <2>1. CASE Wait
    BY <1>6, <2>1 DEF Wait
  <2>2. CASE SubscribeRefused \/ SubscribeFails
    BY <2>2 DEF SubscribeRefused, SubscribeFails, Answer, Reply, Settings, Plain
  <2>3. CASE Ioctl \/ IoctlRefused
    BY <2>3 DEF Ioctl, IoctlRefused, Answer, Reply, Settings, Plain
  <2>4. CASE Unsubscribe \/ UnsubscribeFails
    BY <1>6, <2>4 DEF Unsubscribe, UnsubscribeFails, Answer, Reply, Settings
  <2>5. CASE \/ CheckShutdown \/ ReceiveTimesOut \/ OpenFails \/ OpenRefused \/ ReplySent
             \/ ReplyLost \/ Close \/ Publish \/ ScanToHit \/ PublishDone \/ Delivered
             \/ NotDelivered
    BY <1>6, <2>5 DEF CheckShutdown, ReceiveTimesOut, OpenFails, OpenRefused,
       ReplySent, ReplyLost, Close, StartClose, Publish, ScanToHit, PublishDone, Delivered,
       NotDelivered, BackToLoop
  <2> QED
    BY <2>1, <2>2, <2>3, <2>4, <2>5 DEF Steady
<1> QED
  BY <1>2, <1>3, <1>4, <1>5, <1>6, SteadyLists DEF Still

\* Requests that are no publish have priority 0, so each is served in its turn.
LEMMA InTurn ==
  ASSUME Plain, NEW i \in DOMAIN ctrl, IsMqNext(ctrl, i), NEW j \in DOMAIN ctrl, j < i,
         ctrl[i].cmd = "close"
  PROVE  ctrl[j].cmd \notin Settings
<1>1. ctrl[i] \in ClientRequests /\ ctrl[j] \in ClientRequests
  BY DEF Plain
<1>2. ctrl[i].prio = 0
  BY <1>1 DEF ClientRequests
<1>3. ctrl[j].cmd \in Settings => ctrl[j].prio = 0
  BY <1>1 DEF ClientRequests, Settings
<1>4. ctrl[j].prio < ctrl[i].prio
  BY DEF IsMqNext
<1> QED
  BY <1>2, <1>3, <1>4

\* A request is taken: it is in service, and the others keep their order.
LEMMA ReceiveStep ==
  ASSUME TypeOK, Control, STypeOK, Plain, Sessions, Receive, UNCHANGED own
  PROVE  Sessions'
<1>0. UNCHANGED <<clients, mqs, at, qsub, fd, asked, timed, cur>> /\ pc = "receive"
  BY DEF Receive, own
<1>1. PICK i \in DOMAIN ctrl :
        /\ IsMqNext(ctrl, i) /\ ctrl' = MqRest(ctrl, i)
        /\ \/ pc' = ctrl[i].cmd /\ msg' = ctrl[i] /\ pc' \in Commands
           \/ pc' = "check" /\ msg' = NoRequest
  BY DEF Receive
<1>2. ctrl \in Seq(Requests) /\ DOMAIN ctrl \subseteq Nat
  BY DEF TypeOK, QueuesOK
<1> DEFINE old(j) == IF j < i THEN j ELSE j + 1
<1>3. \A j \in DOMAIN ctrl' : old(j) \in DOMAIN ctrl \ {i} /\ ctrl'[j] = ctrl[old(j)]
  BY <1>1, <1>2, RestOrder
<1>4. \A j, cmd, s : Asks(j, cmd, s)' => Asks(old(j), cmd, s) /\ old(j) # i
  BY <1>3 DEF Asks
<1>5. DOMAIN ctrl' \subseteq Nat
  <2>1. MqRest(ctrl, i) \in Seq(Requests)
    BY <1>2, RemoveTyped DEF MqRest
  <2> QED
    BY <1>1, <2>1
<1>6. \A j, k \in DOMAIN ctrl' : (old(j) = old(k) => j = k) /\ (old(j) < old(k) => j < k)
  BY <1>2, <1>5
<1>7. \A s : Closes(s)' => Asks(i, "close", s)
  BY <1>0, <1>1 DEF Closes, Asks, Commands, NoRequest
<1>8. \A s : (Queue(s)' = Queue(s)) /\ (InUse(s)' <=> InUse(s))
  BY <1>0 DEF Queue, InUse
<1> HIDE DEF old
<1>9. ClosesOver'
  <2>1. \A s : CloseAsked(s)' => CloseAsked(s)
    BY <1>4, <1>7 DEF CloseAsked, Asks
  <2>2. \A s \in Slots, j, k \in DOMAIN ctrl' : Asks(j, "close", s)' /\ Asks(k, "close", s)' => j = k
    BY <1>3, <1>4, <1>6 DEF ClosesOver, Sessions
  <2>3. \A s \in Slots : Closes(s)' => \A j \in DOMAIN ctrl' : ~Asks(j, "close", s)'
    BY <1>3, <1>4, <1>7 DEF ClosesOver, Sessions
  <2> QED
    BY <1>0, <1>8, <2>1, <2>2, <2>3 DEF ClosesOver, Sessions
<1>10. SlotsTold'
  BY <1>0, <1>8 DEF SlotsTold, Sessions, Offered, Ready
<1>11. SlotFresh'
  BY <1>1 DEF SlotFresh, Commands
<1>12. RequestsOwn'
  <2>1. ASSUME NEW s \in Slots, NEW j \in DOMAIN ctrl', AsksFor(j, s)'
        PROVE  /\ AskedBy(s, ctrl[j])' /\ ~Closes(s)'
               /\ \A k \in DOMAIN ctrl' : Asks(k, "close", s)' => j < k
    <3>1. AsksFor(old(j), s) /\ old(j) \in DOMAIN ctrl /\ ctrl'[j] = ctrl[old(j)]
      BY <1>3, <1>4, <2>1 DEF AsksFor
    <3>2. /\ AskedBy(s, ctrl[old(j)])
          /\ \A k \in DOMAIN ctrl : Asks(k, "close", s) => old(j) < k
      BY <3>1 DEF Sessions, RequestsOwn
    <3>3. ~Closes(s)'
      <4>1. SUFFICES ASSUME Asks(i, "close", s) PROVE FALSE
        BY <1>7
      <4>2. old(j) < i
        BY <3>2, <4>1
      <4> QED
        BY <1>1, <3>1, <4>1, <4>2, InTurn DEF AsksFor, Asks
    <3>4. \A k \in DOMAIN ctrl' : Asks(k, "close", s)' => j < k
      BY <1>3, <1>4, <1>6, <2>1, <3>2
    <3>5. AskedBy(s, ctrl[j])'
      BY <1>0, <1>8, <3>1, <3>2 DEF AskedBy, Wanted
    <3> QED
      BY <3>3, <3>4, <3>5
  <2>2. pc' \in Settings => AskedBy(msg.fd, msg)'
    <3>1. SUFFICES ASSUME pc' \in Settings PROVE AskedBy(msg'.fd, msg')
      BY <1>0, <1>8 DEF AskedBy, Wanted
    <3>2. msg' = ctrl[i] /\ ctrl[i].cmd \in Settings
      BY <1>1, <3>1 DEF Settings
    <3>3. ctrl[i].fd \in Slots
      BY <3>2 DEF Plain, ClientRequests, Settings
    <3>4. AsksFor(i, ctrl[i].fd)
      BY <3>2 DEF AsksFor, Asks
    <3> QED
      BY <3>2, <3>3, <3>4 DEF Sessions, RequestsOwn
  <2>3. pc' # "reply"
    BY <1>1 DEF Commands
  <2> QED
    BY <2>1, <2>2, <2>3 DEF RequestsOwn, AsksFor, Asks
<1>13. ListsOwn'
  BY <1>0, <1>1, <1>8 DEF ListsOwn, Sessions, Commands
<1> QED
  BY <1>9, <1>10, <1>11, <1>12, <1>13 DEF Sessions

\* A free slot is given a queue: nothing is on its way for it, and nobody takes it for its own.
LEMMA OpenStep ==
  ASSUME TypeOK, Control, STypeOK, OwnOK, Sessions, Open, UNCHANGED own
  PROVE  Sessions'
<1>0. UNCHANGED <<ctrl, mqs, at, qsub, fd, asked, timed, msg>> /\ pc = "open" /\ pc' = "welcome"
  BY DEF Open, own
<1> DEFINE q == names[msg.arg]
<1>1. PICK s \in FreeSlots : clients' = [clients EXCEPT ![s].mq = q] /\ cur' = s
  BY DEF Open
<1>2. s \in Slots /\ Queue(s) = NoQueue /\ q \in Queues /\ NoQueue \notin Queues
  BY <1>1, BrokerAssumption DEF FreeSlots, InUse, Open, TypeOK, NamesOK
<1>3. /\ \A t \in Slots : Queue(t)' = (IF t = s THEN q ELSE Queue(t))
      /\ \A t \in Slots : clients'[t].topics = clients[t].topics
  BY <1>1, <1>2 DEF Queue, TypeOK, ClientsOK, ClientType
<1>4. \A i, cmd, t : Asks(i, cmd, t)' <=> Asks(i, cmd, t)
  BY <1>0 DEF Asks
<1>5. \A t : ~Closes(t)'
  BY <1>0 DEF Closes
<1>6. \A i : ~Asks(i, "close", s) /\ ~AsksFor(i, s)
  BY <1>2 DEF Sessions, ClosesOver, CloseAsked, RequestsOwn, AskedBy, InUse, AsksFor, Asks
<1>7. \A c \in Clients : /\ Ready(c) => fd[c] # s
                         /\ qsub[c] # NoQueue => s \notin Offered(qsub[c])
  <2>1. \A c \in Clients : Ready(c) => qsub[c] \in Queues
    BY DEF OwnOK, Ready, HasQueue
  <2> QED
    BY <1>2, <2>1 DEF Sessions, SlotsTold
<1> HIDE DEF q
<1>8. ClosesOver'
  <2>1. \A t : CloseAsked(t)' => CloseAsked(t) /\ t # s
    BY <1>0, <1>4, <1>5, <1>6 DEF CloseAsked
  <2>2. \A t \in Slots : CloseAsked(t)' => InUse(t)' /\ \A c \in Clients : qsub'[c] # Queue(t)'
    BY <1>0, <1>3, <2>1 DEF Sessions, ClosesOver, InUse
  <2> QED
    BY <1>0, <1>4, <1>5, <2>2 DEF Sessions, ClosesOver
<1>9. SlotsTold'
  BY <1>0, <1>3, <1>7, TheSlots DEF Sessions, SlotsTold, Ready, Offered
<1>10. SlotFresh'
  BY <1>0, <1>1, <1>4, <1>6, <1>7 DEF SlotFresh, Ready, Offered, AsksFor, Asks
<1>11. RequestsOwn'
  <2>1. ASSUME NEW t \in Slots, NEW r, AskedBy(t, r), t # s
        PROVE  AskedBy(t, r)'
    BY <1>0, <1>3, <2>1 DEF AskedBy, Wanted, InUse
  <2>2. \A i, t : AsksFor(i, t)' <=> AsksFor(i, t)
    BY <1>4 DEF AsksFor
  <2> QED
    BY <1>0, <1>4, <1>5, <1>6, <2>1, <2>2 DEF Sessions, RequestsOwn, Settings
<1>12. ListsOwn'
  BY <1>0, <1>1, <1>2, <1>3 DEF Sessions, ListsOwn, InUse
<1> QED
  BY <1>8, <1>9, <1>10, <1>11, <1>12 DEF Sessions

\* The new client is told its slot, on the slot's queue.
LEMMA WelcomedStep ==
  ASSUME TypeOK, Control, STypeOK, Sessions, OpenWelcomed, UNCHANGED own
  PROVE  Sessions'
<1> DEFINE m == [Reply("open", "OK", "none") EXCEPT !.fd = cur]
<1>0. /\ UNCHANGED <<clients, ctrl, at, qsub, fd, asked, timed>>
      /\ pc' = "check" /\ cur \in Slots /\ CanSend(cur) /\ SendTo(cur, m)
  BY DEF OpenWelcomed, BackToLoop, Control, own
<1>1. \A s : (Queue(s)' = Queue(s)) /\ (InUse(s)' <=> InUse(s)) /\ ~Closes(s)'
  BY <1>0 DEF Queue, InUse, Closes
<1>2. \A i, cmd, s : Asks(i, cmd, s)' <=> Asks(i, cmd, s)
  BY <1>0 DEF Asks
<1>3. \A q \in Queues : \A s \in Offered(q)' : s \in Offered(q) \/ (s = cur /\ q = Queue(cur))
  <2>1. \A q \in Queues : Elems(mqs'[q]) = IF q = Queue(cur) THEN Elems(mqs[q]) \cup {m}
                                           ELSE Elems(mqs[q])
    BY <1>0, SentTo DEF TypeOK
  <2>2. m.fd = cur
    BY DEF Reply
  <2> HIDE DEF m
  <2> QED
    BY <2>1, <2>2 DEF Offered
<1>4. ClosesOver'
  BY <1>0, <1>1, <1>2 DEF Sessions, ClosesOver, CloseAsked
<1>5. SlotsTold'
  BY <1>0, <1>1, <1>3, TheSlots DEF Sessions, SlotsTold, Ready
<1>6. SlotFresh'
  BY <1>0 DEF SlotFresh
<1>7. RequestsOwn'
  <2>1. ASSUME NEW s \in Slots, NEW r, AskedBy(s, r)
        PROVE  AskedBy(s, r)'
    BY <1>0, <1>1, <2>1 DEF AskedBy, Wanted
  <2>2. \A i, s : AsksFor(i, s)' <=> AsksFor(i, s)
    BY <1>2 DEF AsksFor
  <2> QED
    BY <1>0, <1>1, <1>2, <2>1, <2>2 DEF Sessions, RequestsOwn, Settings
<1>8. ListsOwn'
  BY <1>0, <1>1 DEF Sessions, ListsOwn
<1> QED
  BY <1>4, <1>5, <1>6, <1>7, <1>8 DEF Sessions

\* A slot for which nothing is on its way, and nobody's, is emptied.
LEMMA SlotEmptied ==
  ASSUME TypeOK, Control, STypeOK, Sessions, NoOffers, NEW s \in Slots,
         UNCHANGED <<ctrl, own>>, pc' = "check",
         \A t \in Slots \ {s} : clients'[t] = clients[t],
         clients'[s].mq = NoQueue, Elems(clients'[s].topics) = {},
         \A i \in DOMAIN ctrl : ~Asks(i, "close", s) /\ ~AsksFor(i, s),
         \A c \in Clients : /\ Ready(c) => fd[c] # s
                            /\ qsub[c] # NoQueue => s \notin Offered(qsub[c])
  PROVE  Sessions'
<1>0. UNCHANGED <<ctrl, at, qsub, fd, asked, timed>>
  BY DEF own
<1>1. \A t \in Slots \ {s} : (Queue(t)' = Queue(t)) /\ (InUse(t)' <=> InUse(t))
  BY DEF Queue, InUse
<1>2. \A i, cmd, t : Asks(i, cmd, t)' <=> Asks(i, cmd, t)
  BY <1>0 DEF Asks
<1>3. \A t : ~Closes(t)'
  BY DEF Closes
<1>4. ClosesOver'
  <2>1. \A t : CloseAsked(t)' => CloseAsked(t) /\ t # s
    BY <1>0, <1>2, <1>3 DEF CloseAsked
  <2> QED
    BY <1>0, <1>1, <1>2, <1>3, <2>1 DEF Sessions, ClosesOver
<1>5. SlotsTold'
  BY <1>0, <1>1, TheSlots DEF Sessions, SlotsTold, Ready, NoOffers
<1>6. SlotFresh'
  BY DEF SlotFresh
<1>7. RequestsOwn'
  <2>1. ASSUME NEW t \in Slots \ {s}, NEW r, AskedBy(t, r)
        PROVE  AskedBy(t, r)'
    BY <1>0, <1>1, <2>1 DEF AskedBy, Wanted
  <2>2. \A i, t : AsksFor(i, t)' <=> AsksFor(i, t)
    BY <1>2 DEF AsksFor
  <2> QED
    BY <1>0, <1>2, <1>3, <2>1, <2>2 DEF Sessions, RequestsOwn, Settings
<1>8. ListsOwn'
  BY <1>0, <1>1 DEF Sessions, ListsOwn, InUse, Queue
<1> QED
  BY <1>4, <1>5, <1>6, <1>7, <1>8 DEF Sessions

\* The new client cannot be told: the slot is free again, as if nothing had happened.
LEMMA UndoneStep ==
  ASSUME TypeOK, Control, STypeOK, Plain, Sessions, OpenUndone, UNCHANGED own
  PROVE  Sessions'
<1>1. /\ pc = "welcome" /\ pc' = "check" /\ cur \in Slots /\ UNCHANGED ctrl
      /\ clients' = [clients EXCEPT ![cur].mq = NoQueue]
  BY DEF OpenUndone, BackToLoop, Control
<1>2. NoOffers
  <2>1. [Next]_vars /\ ~OpenWelcomed
    BY DEF Next, BrokerNext, OpenUndone, OpenWelcomed
  <2> QED
    BY <2>1, NothingSent
<1>3. /\ \A t \in Slots \ {cur} : clients'[t] = clients[t]
      /\ clients'[cur].mq = NoQueue /\ clients'[cur].topics = clients[cur].topics
  BY <1>1 DEF TypeOK, ClientsOK, ClientType
<1>4. Elems(clients'[cur].topics) = {}
  BY <1>1, <1>3 DEF Sessions, ListsOwn
<1>5. /\ \A i \in DOMAIN ctrl : ~Asks(i, "close", cur) /\ ~AsksFor(i, cur)
      /\ \A c \in Clients : /\ Ready(c) => fd[c] # cur
                            /\ qsub[c] # NoQueue => cur \notin Offered(qsub[c])
  BY <1>1 DEF Sessions, SlotFresh
<1> QED
  BY <1>1, <1>2, <1>3, <1>4, <1>5, SlotEmptied

\* A CLOSE is served: its session is over, and no request of that session is left.
LEMMA ClosedStep ==
  ASSUME TypeOK, Control, STypeOK, OwnOK, Plain, Undisturbed, Sessions, CloseAcked \/ CloseUnacked,
         UNCHANGED own
  PROVE  Sessions'
<1>1. pc = "closing" /\ cur \in Slots /\ UNCHANGED ctrl /\ pc' = "check"
  <2>1. ret = "check"
    BY DEF TypeOK, PlaceOK, Plain, Undisturbed, Working
  <2> QED
    BY <2>1 DEF CloseAcked, CloseUnacked, CloseReturns, BackToLoop, Control
<1>2. NoOffers
  <2>1. [Next]_vars /\ ~OpenWelcomed
    BY DEF Next, BrokerNext, CloseAcked, CloseUnacked, OpenWelcomed
  <2> QED
    BY <2>1, NothingSent
<1>3. /\ \A t \in Slots \ {cur} : clients'[t] = clients[t]
      /\ clients'[cur].mq = NoQueue /\ clients'[cur].topics = <<>>
  <2>1. PICK n : Vacate(cur, n)
    BY DEF CloseAcked, CloseUnacked
  <2> QED
    BY <1>1, <2>1 DEF Vacate, TypeOK, ClientsOK, ClientType
<1>4. Elems(clients'[cur].topics) = {}
  BY <1>3 DEF Elems
<1>5. Closes(cur) /\ CloseAsked(cur)
  BY <1>1 DEF Closes, CloseAsked
<1>6. \A i \in DOMAIN ctrl : ~Asks(i, "close", cur) /\ ~AsksFor(i, cur)
  BY <1>1, <1>5 DEF Sessions, ClosesOver, RequestsOwn
<1>7. \A c \in Clients : /\ Ready(c) => fd[c] # cur
                         /\ qsub[c] # NoQueue => cur \notin Offered(qsub[c])
  BY <1>1, <1>5 DEF Sessions, ClosesOver, SlotsTold
<1> QED
  BY <1>1, <1>2, <1>3, <1>4, <1>6, <1>7, SlotEmptied

\* A SUBSCRIBE is served: the topic is one the reader of the slot's queue asked for.
LEMMA SubscribedStep ==
  ASSUME TypeOK, Control, STypeOK, Plain, Sessions, Subscribe, UNCHANGED own
  PROVE  Sessions'
<1> DEFINE s == msg.fd
           list == clients[s].topics
<1>0. /\ UNCHANGED <<ctrl, mqs, at, qsub, fd, asked, timed>> /\ pc = "subscribe" /\ pc' = "reply"
      /\ s \in Slots /\ msg.arg \in Filters
      /\ clients' = [clients EXCEPT ![s].topics = TlAdd(list, msg.arg)]
  BY DEF Subscribe, Answer, Control, Commands, own
<1>1. list \in Seq(Filters)
  BY <1>0 DEF TypeOK, ClientsOK, ClientType
<1>2. Elems(TlAdd(list, msg.arg)) = Elems(list) \cup {msg.arg}
  BY <1>0, <1>1, AddElems
<1>3. AskedBy(s, msg) /\ msg.cmd = "subscribe"
  BY <1>0 DEF Sessions, RequestsOwn, Plain, Settings
<1>14. cur' = s /\ out'.cmd = "subscribe" /\ out'.arg = msg.arg
  BY DEF Subscribe, Answer, Reply
<1> HIDE DEF s, list
<1>4. /\ \A t \in Slots : clients'[t].mq = clients[t].mq
      /\ \A t \in Slots \ {s} : clients'[t].topics = clients[t].topics
      /\ clients'[s].topics = TlAdd(list, msg.arg)
  BY <1>0 DEF TypeOK, ClientsOK, ClientType
<1>5. \A t \in Slots : (Queue(t)' = Queue(t)) /\ (InUse(t)' <=> InUse(t)) /\ ~Closes(t)'
  BY <1>0, <1>4 DEF Queue, InUse, Closes
<1>6. \A i, cmd, t : Asks(i, cmd, t)' <=> Asks(i, cmd, t)
  BY <1>0 DEF Asks
<1>7. ClosesOver'
  BY <1>0, <1>5, <1>6 DEF Sessions, ClosesOver, CloseAsked
<1>8. SlotsTold'
  BY <1>0, <1>5, TheSlots DEF Sessions, SlotsTold, Ready, Offered
<1>9. SlotFresh'
  BY <1>0 DEF SlotFresh
<1>10. RequestsOwn'
  <2>1. ASSUME NEW t \in Slots, NEW r, AskedBy(t, r)
        PROVE  AskedBy(t, r)'
    BY <1>0, <1>5, <2>1 DEF AskedBy, Wanted
  <2>2. \A i, t : AsksFor(i, t)' <=> AsksFor(i, t)
    BY <1>6 DEF AsksFor
  <2>3. AskedBy(cur, out)'
    BY <1>0, <1>3, <1>5, <1>14 DEF AskedBy, Wanted
  <2> QED
    BY <1>0, <1>5, <1>6, <2>1, <2>2, <2>3 DEF Sessions, RequestsOwn, Settings
<1>11. ListsOwn'
  <2>1. ASSUME NEW t \in Slots, ~InUse(t)
        PROVE  Elems(clients'[t].topics) = {}
    BY <1>3, <1>4, <2>1 DEF Sessions, ListsOwn, AskedBy
  <2>2. ASSUME NEW t \in Slots, InUse(t), NEW c \in Clients, qsub[c] = Queue(t)
        PROVE  Elems(clients'[t].topics) \subseteq asked[c]
    <3>1. Elems(clients[t].topics) \subseteq asked[c]
      BY <2>2 DEF Sessions, ListsOwn
    <3>2. t = s => msg.arg \in asked[c]
      BY <1>3, <2>2 DEF AskedBy, Wanted
    <3> QED
      BY <1>2, <1>4, <3>1, <3>2 DEF list
  <2> QED
    BY <1>0, <1>5, <2>1, <2>2 DEF ListsOwn
<1> QED
  BY <1>7, <1>8, <1>9, <1>10, <1>11 DEF Sessions

\* Every step of the broker but an eviction and its cleanup keeps the sessions apart.
LEMMA BrokerKeepsSessions ==
  ASSUME SInv, Plain, Undisturbed, Sessions, BrokerStep, Undisturbed'
  PROVE  Sessions'
<1>1. TypeOK /\ Control /\ STypeOK /\ OwnOK /\ UNCHANGED own /\ BrokerNext
  BY DEF SInv, TypeInv, BrokerStep
<1>2. ~Evict
  BY DEF Undisturbed, BrokerStep, Evict
<1>3. ~CleanupSlot /\ ~CleanupDone
  BY DEF Undisturbed, Working, CleanupSlot, CleanupDone
<1>4. CASE Steady
  BY <1>1, <1>4, SteadyIsStill, StillStep
<1> QED
  BY <1>1, <1>2, <1>3, <1>4, ReceiveStep, OpenStep, WelcomedStep, UndoneStep, ClosedStep,
     SubscribedStep DEF BrokerNext, Steady
-----------------------------------------------------------------------------
(* Steps of clients.                                                       *)

\* Clients and signals leave the broker where it is.
BrokerStays == UNCHANGED <<clients, pc, msg, cur, ret, out>>

\* No client gets a queue or a slot, or forgets what it asked for while it keeps its queue.
NoGain ==
  \A c \in Clients :
    /\ Ready(c)' => Ready(c) /\ fd'[c] = fd[c] /\ qsub'[c] = qsub[c]
    /\ qsub'[c] # NoQueue =>
         qsub'[c] = qsub[c] /\ asked[c] \subseteq asked'[c] /\ (timed[c] => timed'[c])

\* Nothing is on its way for slot s, which is not being given out.
Settled(s) == ~CloseAsked(s) /\ ~(pc = "welcome" /\ cur = s)

\* The request closes a slot in use whose session is over, or sets something for its reader.
Fair(r) ==
  /\ r.cmd = "close" => InUse(r.fd) /\ Settled(r.fd) /\ \A c \in Clients : qsub'[c] # Queue(r.fd)
  /\ r.cmd \in Settings =>
       /\ InUse(r.fd) /\ Settled(r.fd)
       /\ \A c \in Clients : qsub'[c] = Queue(r.fd) =>
            /\ r.cmd = "subscribe" => r.arg \in asked'[c]
            /\ r.cmd = "ioctl" /\ r.arg # "zero" => timed'[c]

\* Sending such a request, or none, disturbs no session.
LEMMA RequestStep ==
  ASSUME TypeOK, Control, STypeOK, Sessions, BrokerStays, NoOffers, NoGain,
         NEW r, Fair(r), ctrl' = ctrl \/ ctrl' = Append(ctrl, r)
  PROVE  Sessions'
<1> DEFINE new == Len(ctrl) + 1
<1>1. ctrl \in Seq(Requests) /\ DOMAIN ctrl = 1 .. Len(ctrl) /\ Len(ctrl) \in Nat
  BY DEF TypeOK, QueuesOK
<1>2. /\ DOMAIN ctrl' \subseteq DOMAIN ctrl \cup {new}
      /\ \A i \in DOMAIN ctrl' : \/ i \in DOMAIN ctrl /\ ctrl'[i] = ctrl[i]
                                 \/ i = new /\ ctrl'[i] = r
  BY <1>1
<1>3. \A i \in DOMAIN ctrl : i < new
  BY <1>1
<1> HIDE DEF new
<1>4. \A i, cmd, s : Asks(i, cmd, s)' => \/ Asks(i, cmd, s) /\ ctrl'[i] = ctrl[i]
                                         \/ i = new /\ r.cmd = cmd /\ r.fd = s /\ ctrl'[i] = r
  BY <1>2 DEF Asks
<1>12. \A i, s : AsksFor(i, s)' => \/ AsksFor(i, s) /\ ctrl'[i] = ctrl[i]
                                   \/ i = new /\ r.cmd \in Settings /\ r.fd = s /\ ctrl'[i] = r
  BY <1>4 DEF AsksFor
<1>5. \A s : (Queue(s)' = Queue(s)) /\ (InUse(s)' <=> InUse(s)) /\ (Closes(s)' <=> Closes(s))
  BY DEF BrokerStays, Queue, InUse, Closes
<1>6. \A c \in Clients : qsub[c] \in Queues \cup {NoQueue}
  BY TheSlots
<1>7. ClosesOver'
  <2>1. ASSUME NEW s \in Slots, CloseAsked(s)'
        PROVE  InUse(s) /\ \A c \in Clients : qsub'[c] # Queue(s)
    <3>1. CASE CloseAsked(s)
      <4>1. InUse(s) /\ \A c \in Clients : qsub[c] # Queue(s)
        BY <3>1 DEF Sessions, ClosesOver
      <4> QED
        BY <4>1 DEF NoGain, InUse
    <3>2. CASE ~CloseAsked(s)
      <4>1. r.cmd = "close" /\ r.fd = s
        BY <1>4, <1>5, <2>1, <3>2 DEF CloseAsked, Asks
      <4> QED
        BY <4>1 DEF Fair
    <3> QED
      BY <3>1, <3>2
  <2>2. ASSUME NEW s \in Slots, NEW i \in DOMAIN ctrl', NEW j \in DOMAIN ctrl',
               Asks(i, "close", s)', Asks(j, "close", s)'
        PROVE  i = j
    <3>1. r.cmd = "close" /\ r.fd = s => ~Asks(i, "close", s) /\ ~Asks(j, "close", s)
      BY DEF Fair, Settled, CloseAsked, Asks
    <3>2. Asks(i, "close", s) /\ Asks(j, "close", s) => i = j
      BY DEF Sessions, ClosesOver, Asks
    <3> QED
      BY <1>4, <2>2, <3>1, <3>2
  <2>3. ASSUME NEW s \in Slots, Closes(s)', NEW i \in DOMAIN ctrl'
        PROVE  ~Asks(i, "close", s)'
    <3>1. Closes(s) /\ CloseAsked(s) /\ ~Asks(i, "close", s)
      BY <1>5, <2>3 DEF CloseAsked, Sessions, ClosesOver, Asks
    <3>2. ~(r.cmd = "close" /\ r.fd = s)
      BY <3>1 DEF Fair, Settled
    <3> QED
      BY <1>4, <3>1, <3>2
  <2> QED
    BY <1>5, <2>1, <2>2, <2>3 DEF ClosesOver
<1>8. SlotsTold'
  BY <1>5, <1>6, TheSlots DEF Sessions, SlotsTold, NoGain, NoOffers
<1>9. SlotFresh'
  <2>1. SUFFICES ASSUME pc = "welcome"
                 PROVE  SlotFresh'
    BY DEF SlotFresh, BrokerStays
  <2>2. ASSUME NEW i \in DOMAIN ctrl', ctrl'[i].cmd \in {"close"} \cup Settings
        PROVE  ctrl'[i].fd # cur
    <3>1. CASE i \in DOMAIN ctrl /\ ctrl'[i] = ctrl[i]
      BY <2>1, <2>2, <3>1 DEF Sessions, SlotFresh, AsksFor, Asks
    <3>2. CASE ctrl'[i] = r
      BY <2>1, <2>2, <3>2 DEF Fair, Settled
    <3> QED
      BY <1>2, <3>1, <3>2
  <2>3. ASSUME NEW c \in Clients
        PROVE  /\ Ready(c)' => fd'[c] # cur
               /\ qsub'[c] # NoQueue => cur \notin Offered(qsub[c])' /\ qsub'[c] = qsub[c]
    BY <1>6, <2>1 DEF Sessions, SlotFresh, NoGain, NoOffers
  <2>4. cur' = cur
    BY DEF BrokerStays
  <2>5. \A i \in DOMAIN ctrl' : ~Asks(i, "close", cur)' /\ ~AsksFor(i, cur)'
    BY <2>2, <2>4 DEF AsksFor, Asks
  <2> QED
    BY <2>3, <2>4, <2>5 DEF SlotFresh, Offered
<1>10. RequestsOwn'
  <2>1. ASSUME NEW s \in Slots, NEW t, AskedBy(s, t)
        PROVE  AskedBy(s, t)'
    BY <1>5, <2>1 DEF AskedBy, Wanted, NoGain, InUse
  <2>2. ASSUME NEW s \in Slots, NEW i \in DOMAIN ctrl', AsksFor(i, s)'
        PROVE  /\ AskedBy(s, ctrl[i])' /\ ~Closes(s)'
               /\ \A j \in DOMAIN ctrl' : Asks(j, "close", s)' => i < j
    <3>1. CASE AsksFor(i, s) /\ ctrl'[i] = ctrl[i]
      <4>1. /\ AskedBy(s, ctrl[i]) /\ ~Closes(s) /\ i \in DOMAIN ctrl
            /\ \A j \in DOMAIN ctrl : Asks(j, "close", s) => i < j
        BY <3>1 DEF Sessions, RequestsOwn, AsksFor, Asks
      <4>2. AskedBy(s, ctrl[i])'
        BY <1>5, <3>1, <4>1 DEF AskedBy, Wanted, NoGain, InUse
      <4>3. \A j \in DOMAIN ctrl' : Asks(j, "close", s)' => i < j
        BY <1>3, <1>4, <4>1 DEF Asks
      <4> QED
        BY <1>5, <4>1, <4>2, <4>3
    <3>2. CASE i = new /\ r.cmd \in Settings /\ r.fd = s /\ ctrl'[i] = r
      <4>1. AskedBy(s, ctrl[i])'
        BY <1>5, <3>2 DEF Fair, AskedBy, Wanted
      <4>2. ~CloseAsked(s)
        BY <3>2 DEF Fair, Settled
      <4>3. \A j \in DOMAIN ctrl' : ~Asks(j, "close", s)'
        BY <1>4, <3>2, <4>2 DEF CloseAsked, Asks, Settings
      <4> QED
        BY <1>5, <4>1, <4>2, <4>3 DEF CloseAsked
    <3> QED
      BY <1>12, <2>2, <3>1, <3>2
  <2>3. pc' \in Settings => AskedBy(msg.fd, msg)'
    <3>1. pc' = pc /\ msg' = msg
      BY DEF BrokerStays
    <3>2. pc \in Settings => AskedBy(msg.fd, msg)
      BY DEF Sessions, RequestsOwn
    <3> QED
      BY <1>5, <3>1, <3>2 DEF AskedBy, Wanted, NoGain, InUse
  <2>4. pc' = "reply" /\ out'.cmd \in Settings => AskedBy(cur, out)'
    <3>1. pc' = pc /\ cur' = cur /\ out' = out
      BY DEF BrokerStays
    <3>2. pc = "reply" /\ out.cmd \in Settings => AskedBy(cur, out)
      BY DEF Sessions, RequestsOwn
    <3> QED
      BY <1>5, <3>1, <3>2 DEF AskedBy, Wanted, NoGain, InUse
  <2> QED
    BY <2>2, <2>3, <2>4 DEF RequestsOwn, AsksFor, Asks
<1>11. ListsOwn'
  <2>1. UNCHANGED <<clients, pc, cur>>
    BY DEF BrokerStays
  <2> QED
    BY <1>5, <2>1 DEF Sessions, ListsOwn, NoGain, InUse
<1> QED
  BY <1>7, <1>8, <1>9, <1>10, <1>11 DEF Sessions

\* A queue of which the broker has no descriptor is no slot's.
LEMMA UnheldIsFree ==
  ASSUME Balanced, NEW q \in Queues, held[q] = 0
  PROVE  \A s \in Slots : Queue(s) # q
<1>1. Cardinality(Holders(clients, q)) = 0
  BY DEF Balanced
<1>2. Holders(clients, q) = {}
  BY <1>1, HoldersFinite, FS_EmptySet
<1> QED
  BY <1>2 DEF Holders, Queue

\* A client makes itself a queue, which no slot has.
LEMMA CreateStep ==
  ASSUME SInv, Sessions, NEW c \in Clients, InitCreate(c)
  PROVE  Sessions'
<1>0. TypeOK /\ Control /\ Balanced /\ STypeOK /\ OwnOK
  BY DEF SInv, TypeInv
<1>1. PICK q \in Queues : /\ \A d \in Clients : qsub[d] # q
                          /\ CreateQueue(c, q) /\ qsub' = [qsub EXCEPT ![c] = q]
  BY DEF InitCreate
<1>2. /\ UNCHANGED <<clients, ctrl, pc, msg, cur, out, fd, asked, timed>>
      /\ held[q] = 0 /\ mqs' = [mqs EXCEPT ![q] = <<>>]
      /\ at' = [at EXCEPT ![c] = "connect"]
  BY <1>1 DEF CreateQueue, local, InitCreate, Goes
<1>3. \A s \in Slots : Queue(s) # q
  BY <1>0, <1>2, UnheldIsFree
<1>4. \A s : (Queue(s)' = Queue(s)) /\ (InUse(s)' <=> InUse(s)) /\ (Closes(s)' <=> Closes(s))
  BY <1>2 DEF Queue, InUse, Closes
<1>5. \A i, cmd, s : Asks(i, cmd, s)' <=> Asks(i, cmd, s)
  BY <1>2 DEF Asks
<1>6. /\ qsub'[c] = q /\ ~Ready(c)'
      /\ \A d \in Clients \ {c} : qsub'[d] = qsub[d] /\ (Ready(d)' <=> Ready(d))
  BY <1>0, <1>1, <1>2 DEF STypeOK, Ready
<1>7. /\ Elems(mqs'[q]) = {}
      /\ \A p \in Queues \ {q} : mqs'[p] = mqs[p]
  BY <1>0, <1>2 DEF TypeOK, QueuesOK, Elems
<1>8. Offered(qsub[c])' = {} /\ \A d \in Clients \ {c} : qsub[d] # NoQueue => Offered(qsub[d])' = Offered(qsub[d])
  BY <1>0, <1>1, <1>6, <1>7, TheSlots DEF Offered
<1>9. ClosesOver'
  <2>1. \A s : CloseAsked(s)' <=> CloseAsked(s)
    BY <1>2, <1>4, <1>5 DEF CloseAsked
  <2>2. \A s \in Slots : CloseAsked(s) => InUse(s) /\ \A d \in Clients : qsub'[d] # Queue(s)
    BY <1>3, <1>6 DEF Sessions, ClosesOver
  <2> QED
    BY <1>2, <1>4, <1>5, <2>1, <2>2 DEF Sessions, ClosesOver
<1>10. SlotsTold'
  BY <1>0, <1>2, <1>4, <1>6, <1>8, TheSlots DEF Sessions, SlotsTold
<1>11. SlotFresh'
  BY <1>2, <1>5, <1>6, <1>8 DEF Sessions, SlotFresh, AsksFor
<1>12. RequestsOwn'
  <2>1. ASSUME NEW s \in Slots, NEW r, AskedBy(s, r)
        PROVE  AskedBy(s, r)'
    BY <1>2, <1>3, <1>4, <1>6, <2>1 DEF AskedBy, Wanted
  <2>2. (pc \in Settings => msg.fd \in Slots) /\ (pc = "reply" => cur \in Slots)
    BY <1>0, TheSlots
  <2>3. \A i, s : AsksFor(i, s)' <=> AsksFor(i, s)
    BY <1>5 DEF AsksFor
  <2> QED
    BY <1>2, <1>4, <1>5, <2>1, <2>2, <2>3 DEF Sessions, RequestsOwn
<1>13. ListsOwn'
  BY <1>2, <1>3, <1>4, <1>6 DEF Sessions, ListsOwn
<1> QED
  BY <1>9, <1>10, <1>11, <1>12, <1>13 DEF Sessions

\* A client takes the slot it is offered.
LEMMA ReadyStep ==
  ASSUME TypeOK, Control, STypeOK, Sessions, BrokerStays, NoOffers, UNCHANGED <<ctrl, qsub, asked, timed>>,
         NEW c \in Clients, NEW s \in Offered(qsub[c]), qsub[c] # NoQueue, Goes(c, "ready"),
         fd' = [fd EXCEPT ![c] = s]
  PROVE  Sessions'
<1>1. \A t : (Queue(t)' = Queue(t)) /\ (InUse(t)' <=> InUse(t)) /\ (Closes(t)' <=> Closes(t))
  BY DEF BrokerStays, Queue, InUse, Closes
<1>2. \A i, cmd, t : Asks(i, cmd, t)' <=> Asks(i, cmd, t)
  BY DEF Asks
<1>3. fd'[c] = s /\ \A d \in Clients \ {c} : fd'[d] = fd[d] /\ (Ready(d)' <=> Ready(d))
  BY DEF STypeOK, Ready, Goes
<1>4. ClosesOver'
  <2>1. \A t : CloseAsked(t)' <=> CloseAsked(t)
    BY <1>1, <1>2 DEF CloseAsked
  <2> QED
    BY <1>1, <1>2, <2>1 DEF Sessions, ClosesOver
<1>5. SlotsTold'
  BY <1>1, <1>3, TheSlots DEF Sessions, SlotsTold, NoOffers
<1>6. SlotFresh'
  <2>1. pc' = pc /\ cur' = cur
    BY DEF BrokerStays
  <2> QED
    BY <1>2, <1>3, <2>1, TheSlots DEF Sessions, SlotFresh, NoOffers, AsksFor
<1>7. RequestsOwn'
  <2>1. pc' = pc /\ msg' = msg /\ cur' = cur /\ out' = out
    BY DEF BrokerStays
  <2>2. ASSUME NEW t, NEW r, AskedBy(t, r)
        PROVE  AskedBy(t, r)'
    BY <1>1, <2>2 DEF AskedBy, Wanted
  <2>3. \A i, t : AsksFor(i, t)' <=> AsksFor(i, t)
    BY <1>2 DEF AsksFor
  <2> QED
    BY <1>1, <1>2, <2>1, <2>2, <2>3 DEF Sessions, RequestsOwn
<1>8. ListsOwn'
  <2>1. UNCHANGED <<clients, pc, cur>>
    BY DEF BrokerStays
  <2> QED
    BY <1>1, <2>1 DEF Sessions, ListsOwn
<1> QED
  BY <1>4, <1>5, <1>6, <1>7, <1>8 DEF Sessions

\* No step of a client touches the broker, and none offers a slot.
LEMMA ClientStays ==
  ASSUME SInv, Plain, NEW c \in Clients, ClientStep(c)
  PROVE  BrokerStays /\ NoOffers
<1>0. TypeOK /\ Control /\ STypeOK /\ OwnOK /\ ClientNext(c)
  BY DEF SInv, TypeInv, ClientStep
<1>1. BrokerStays
  BY <1>0 DEF BrokerStays, ClientNext, InitStep, InitUnlink, InitCreate, InitCreateFails, InitConnect,
     InitReceive, InitTimesOut, InitGivesUp, InitSendOpen, CallSubscribe, CallUnsubscribe,
     CallPublish, CallIoctl, CallReceive, CallCleanup, CleanupSendsClose, AppUnlink,
     InitInterrupted, CleanupInterrupted, Crash, Sends, UnlinkQueue, CreateQueue, SendRequest,
     ReadQueue, vars, local
<1>2. ~OpenWelcomed
  BY <1>1 DEF BrokerStays, OpenWelcomed, BackToLoop
<1> QED
  BY <1>0, <1>1, <1>2, ClientImplements, NothingSent

\* A request that neither closes nor sets anything is nobody's concern.
LEMMA OtherIsFair ==
  ASSUME NEW r, r.cmd \notin {"close", "subscribe", "ioctl"}
  PROVE  Fair(r)
BY DEF Fair, Settings

\* A session that ends gains nothing.
LEMMA EndGainsNothing ==
  ASSUME STypeOK, NEW c \in Clients, EndsSession(c)
  PROVE  NoGain /\ qsub'[c] = NoQueue
<1>1. ~Ready(c)' /\ qsub'[c] = NoQueue
  BY DEF EndsSession, Goes, STypeOK, Ready
<1>2. \A d \in Clients \ {c} : /\ Ready(d)' <=> Ready(d)
                               /\ fd'[d] = fd[d] /\ qsub'[d] = qsub[d] /\ asked'[d] = asked[d]
                               /\ timed'[d] = timed[d]
  BY DEF EndsSession, Goes, STypeOK, Ready
<1> QED
  BY <1>1, <1>2 DEF NoGain

\* Neither does a client that moves on and is not connected by it.
LEMMA MoveGainsNothing ==
  ASSUME STypeOK, NEW c \in Clients, NEW to, Goes(c, to), to \in {"ready", "closing"} => Ready(c),
         UNCHANGED <<qsub, fd, asked, timed>>
  PROVE  NoGain
<1>1. \A d \in Clients : Ready(d)' => Ready(d)
  BY DEF Goes, STypeOK, Ready
<1> QED
  BY <1>1 DEF NoGain

\* The slot of a connected client is in use, its queue is the client's alone, and nothing
\* that could end its session is on its way.
LEMMA OwnSlot ==
  ASSUME SInv, Plain, Sessions, NEW c \in Clients, Ready(c)
  PROVE  /\ fd[c] \in Slots /\ InUse(fd[c]) /\ Queue(fd[c]) = qsub[c] /\ Settled(fd[c])
         /\ \A d \in Clients \ {c} : qsub[d] # qsub[c]
<1>1. STypeOK /\ OwnOK
  BY DEF SInv
<1>2. fd[c] \in Slots /\ qsub[c] \in Queues
  BY <1>1 DEF STypeOK, OwnOK, Ready, HasQueue
<1>3. Queue(fd[c]) = qsub[c] /\ InUse(fd[c])
  BY <1>2, BrokerAssumption DEF Sessions, SlotsTold, InUse
<1>4. Settled(fd[c])
  BY <1>2, <1>3 DEF Sessions, ClosesOver, SlotFresh, Settled
<1>5. \A d \in Clients \ {c} : qsub[d] # qsub[c]
  BY <1>2, BrokerAssumption DEF Plain
<1> QED
  BY <1>2, <1>3, <1>4, <1>5

\* Every call of the library keeps the sessions apart.
LEMMA ClientKeepsSessions ==
  ASSUME SInv, Plain, Sessions, NEW c \in Clients, ClientStep(c)
  PROVE  Sessions'
<1>0. TypeOK /\ Control /\ STypeOK /\ OwnOK /\ BrokerStays /\ NoOffers
  BY ClientStays DEF SInv, TypeInv
<1>1. ASSUME NoGain, UNCHANGED ctrl
      PROVE  Sessions'
  <2>1. Fair(NoRequest)
    BY OtherIsFair DEF NoRequest
  <2> QED
    BY <1>0, <1>1, <2>1, RequestStep
<1>2. ASSUME NoGain, NEW r, SendRequest(r), Fair(r)
      PROVE  Sessions'
  <2>1. ctrl' = Append(ctrl, r)
    BY <1>2 DEF SendRequest, MqSend
  <2> QED
    BY <1>0, <1>2, <2>1, RequestStep
<1>3. ASSUME NoGain, NEW cmd \in {"open", "unsubscribe", "publish"}, NEW s, NEW arg, NEW prio,
             SendRequest([cmd |-> cmd, fd |-> s, arg |-> arg, prio |-> prio])
      PROVE  Sessions'
  <2>1. Fair([cmd |-> cmd, fd |-> s, arg |-> arg, prio |-> prio])
    BY OtherIsFair
  <2> QED
    BY <1>2, <1>3, <2>1
<1>4. CASE EndsSession(c) /\ UNCHANGED ctrl
  BY <1>0, <1>1, <1>4, EndGainsNothing
<1>5. CASE InitUnlink(c) \/ InitCreateFails(c) \/ InitTimesOut(c) \/ InitInterrupted(c) \/ CallCleanup(c)
  <2>1. UNCHANGED <<ctrl, qsub, fd, asked, timed>>
    BY <1>5 DEF InitUnlink, InitCreateFails, InitTimesOut, InitInterrupted, CallCleanup, UnlinkQueue, vars
  <2>2. \E to \in {"create", "idle", "giveup", "closing"} : Goes(c, to) /\ (to = "closing" => Ready(c))
    BY <1>5 DEF InitUnlink, InitCreateFails, InitTimesOut, InitInterrupted, CallCleanup, CanCall, Ready
  <2> QED
    BY <1>0, <1>1, <2>1, <2>2, MoveGainsNothing
<1>6. CASE InitCreate(c)
  BY <1>6, CreateStep
<1>7. CASE InitConnect(c)
  <2>1. UNCHANGED ctrl /\ (EndsSession(c) \/ (Goes(c, "opening") /\ UNCHANGED <<qsub, fd, asked, timed>>))
    BY <1>7 DEF InitConnect, vars
  <2> QED
    BY <1>0, <1>1, <1>4, <2>1, MoveGainsNothing
<1>8. CASE InitReceive(c)
  <2> DEFINE m == MqHead(mqs[qsub[c]])
  <2>1. at[c] = "wait" /\ ReadQueue(qsub[c]) /\ UNCHANGED <<ctrl, qsub, asked, timed>>
    BY <1>8 DEF InitReceive, ReadQueue
  <2>2. \/ UNCHANGED <<at, fd>>
        \/ Goes(c, "giveup") /\ UNCHANGED fd
        \/ Goes(c, "ready") /\ fd' = [fd EXCEPT ![c] = m.fd] /\ m.cmd = "open" /\ m.data = "OK"
    BY <1>8 DEF InitReceive
  <2>3. m \in Elems(mqs[qsub[c]])
    BY <2>1, HeadElem DEF ReadQueue, TakeFrom
  <2>4. qsub[c] # NoQueue
    BY <1>0, <2>1, BrokerAssumption DEF OwnOK, HasQueue
  <2> HIDE DEF m
  <2>5. CASE UNCHANGED <<at, fd>>
    BY <1>1, <2>1, <2>5 DEF NoGain, Ready
  <2>6. CASE Goes(c, "giveup") /\ UNCHANGED fd
    BY <1>0, <1>1, <2>1, <2>6, MoveGainsNothing
  <2>7. CASE Goes(c, "ready") /\ fd' = [fd EXCEPT ![c] = m.fd] /\ m.cmd = "open" /\ m.data = "OK"
    <3>1. m.fd \in Offered(qsub[c])
      BY <2>3, <2>7 DEF Offered
    <3> QED
      BY <1>0, <2>1, <2>4, <2>7, <3>1, ReadyStep
  <2> QED
    BY <2>2, <2>5, <2>6, <2>7
<1>9. CASE InitSendOpen(c)
  <2>1. /\ SendRequest([cmd |-> "open", fd |-> 0, arg |-> c, prio |-> 0])
        /\ Goes(c, "wait") /\ UNCHANGED <<qsub, fd, asked, timed>>
    BY <1>9 DEF InitSendOpen
  <2>2. NoGain
    BY <1>0, <2>1, MoveGainsNothing
  <2> QED
    BY <1>3, <2>1, <2>2
<1>10. CASE InitGivesUp(c) \/ CleanupInterrupted(c) \/ Crash(c)
  BY <1>4, <1>10 DEF InitGivesUp, CleanupInterrupted, Crash, UnlinkQueue, vars
<1>11. CASE CallReceive(c) \/ AppUnlink(c)
  BY <1>1, <1>11 DEF CallReceive, AppUnlink, ReadQueue, UnlinkQueue, own, NoGain, Ready
<1>12. CASE \/ \E f \in Filters : CallUnsubscribe(c, f)
            \/ \E topic \in Topics, prio \in Prios : CallPublish(c, topic, prio)
  <2>1. NoGain
    BY <1>12 DEF CallUnsubscribe, CallPublish, own, NoGain, Ready
  <2>2. \E cmd \in {"unsubscribe", "publish"} : \E arg, prio :
          SendRequest([cmd |-> cmd, fd |-> fd[c], arg |-> arg, prio |-> prio])
    BY <1>12 DEF CallUnsubscribe, CallPublish, Sends
  <2> QED
    BY <1>3, <2>1, <2>2
<1>13. CASE \E f \in Filters : CallSubscribe(c, f)
  <2>1. PICK f \in Filters : CallSubscribe(c, f)
    BY <1>13
  <2> DEFINE r == [cmd |-> "subscribe", fd |-> fd[c], arg |-> f, prio |-> 0]
  <2>2. /\ Ready(c) /\ SendRequest(r) /\ UNCHANGED <<at, qsub, fd, timed>>
        /\ asked' = [asked EXCEPT ![c] = @ \cup {f}]
    BY <2>1 DEF CallSubscribe, CanCall, Ready, Sends
  <2>3. \A d \in Clients : asked[d] \subseteq asked'[d]
    BY <1>0, <2>2 DEF STypeOK
  <2>4. f \in asked'[c]
    BY <1>0, <2>2 DEF STypeOK
  <2>5. NoGain
    BY <2>2, <2>3 DEF NoGain, Ready
  <2>6. Fair(r)
    BY <2>2, <2>4, OwnSlot DEF Fair
  <2> HIDE DEF r
  <2> QED
    BY <1>2, <2>2, <2>5, <2>6
<1>15. CASE \E timeout \in Timeouts : CallIoctl(c, timeout)
  <2>1. PICK timeout \in Timeouts : CallIoctl(c, timeout)
    BY <1>15
  <2> DEFINE r == [cmd |-> "ioctl", fd |-> fd[c], arg |-> timeout, prio |-> 0]
  <2>2. /\ Ready(c) /\ SendRequest(r) /\ UNCHANGED <<at, qsub, fd, asked>>
        /\ timed' = [timed EXCEPT ![c] = (timed[c] \/ timeout # "zero")]
    BY <2>1 DEF CallIoctl, CanCall, Ready, Sends
  <2>3. \A d \in Clients : timed[d] => timed'[d]
    BY <1>0, <2>2 DEF STypeOK
  <2>4. timeout # "zero" => timed'[c]
    BY <1>0, <2>2 DEF STypeOK
  <2>5. NoGain
    BY <2>2, <2>3 DEF NoGain, Ready
  <2>6. Fair(r)
    BY <2>2, <2>4, OwnSlot DEF Fair
  <2> HIDE DEF r
  <2> QED
    BY <1>2, <2>2, <2>5, <2>6
<1>14. CASE CleanupSendsClose(c)
  <2> DEFINE r == [cmd |-> "close", fd |-> fd[c], arg |-> "none", prio |-> 0]
  <2>1. Ready(c) /\ SendRequest(r) /\ EndsSession(c)
    BY <1>14 DEF CleanupSendsClose, Ready, Sends
  <2>2. NoGain /\ qsub'[c] = NoQueue
    BY <1>0, <2>1, EndGainsNothing
  <2>3. \A d \in Clients : qsub'[d] # Queue(fd[c])
    <3>1. InUse(fd[c]) /\ Queue(fd[c]) = qsub[c] /\ \A d \in Clients \ {c} : qsub[d] # qsub[c]
      BY <2>1, OwnSlot
    <3> QED
      BY <2>2, <3>1 DEF NoGain, InUse
  <2>4. Fair(r)
    BY <2>1, <2>3, OwnSlot DEF Fair
  <2> HIDE DEF r
  <2> QED
    BY <1>2, <2>1, <2>2, <2>4
<1> QED
  BY <1>5, <1>6, <1>7, <1>8, <1>9, <1>10, <1>11, <1>12, <1>13, <1>14, <1>15
     DEF ClientStep, ClientNext, InitStep
-----------------------------------------------------------------------------
(* What is true of every step.                                             *)

\* The broker does not come back from its cleanup, and enters it only when it is told to.
LEMMA WorkingStep ==
  ASSUME TypeOK, Control, [Next]_vars
  PROVE  /\ Working' => Working
         /\ Working /\ ~Working' => shutdown
         /\ ret' = "scan" => ret = "scan" \/ pc = "evict"
         /\ shutdown => shutdown'
<1> USE DEF Working
<1>1. CASE Outside
  BY <1>1, OutsideKeeps DEF local, Outside, ClientsNext, UnlinkQueue, CreateQueue, SendRequest,
     ReadQueue, Signal, vars
<1>2. CASE CheckShutdown
  BY <1>2 DEF CheckShutdown, Control, Publishing, CleaningUp, local
<1>3. CASE CloseAcked \/ CloseUnacked
  BY <1>3 DEF CloseAcked, CloseUnacked, CloseReturns, BackToLoop, TypeOK, PlaceOK
<1>4. CASE CleanupSlot \/ CleanupDone
  BY <1>4 DEF CleanupSlot, CleanupDone, StartClose, local
<1>5. CASE BrokerNext /\ ~CheckShutdown /\ ~CloseAcked /\ ~CloseUnacked /\ ~CleanupSlot /\ ~CleanupDone
  <2>1. pc \notin {"cleanup", "exited", "closing"} \/ Wait
    BY <1>5 DEF BrokerNext, Receive, ReceiveTimesOut, OpenFails, Open, OpenRefused, OpenWelcomed,
       OpenUndone, SubscribeRefused, SubscribeFails, Subscribe, Unsubscribe, UnsubscribeFails,
       Ioctl, IoctlRefused, ReplySent, ReplyLost, Close, Publish, ScanToHit, PublishDone,
       Delivered, NotDelivered, Evict
  <2>2. UNCHANGED shutdown
    BY <1>5 DEF BrokerNext, Receive, ReceiveTimesOut, OpenFails, Open, OpenRefused, OpenWelcomed,
       OpenUndone, SubscribeRefused, SubscribeFails, Subscribe, Unsubscribe, UnsubscribeFails,
       Ioctl, IoctlRefused, Answer, Wait, ReplySent, ReplyLost, Close, Publish, ScanToHit,
       PublishDone, Delivered, NotDelivered, Evict
  <2>3. CASE Wait
    BY <2>3 DEF Wait
  <2>4. CASE ~Wait
    <3>1. ret # "cleanup"
      BY <2>1, <2>4 DEF Control, CleaningUp
    <3>2. /\ pc' \notin {"cleanup", "exited"}
          /\ ret' = ret \/ ret' = "check" \/ (ret' = "scan" /\ pc = "evict")
      BY <1>5, <2>4 DEF BrokerNext, Receive, ReceiveTimesOut, OpenFails, Open, OpenRefused,
         OpenWelcomed, OpenUndone, SubscribeRefused, SubscribeFails, Subscribe, Unsubscribe,
         UnsubscribeFails, Ioctl, IoctlRefused, Answer, ReplySent, ReplyLost, Close, StartClose,
         Publish, ScanToHit, PublishDone, Delivered, NotDelivered, Evict, BackToLoop, Commands,
         local
    <3> QED
      BY <2>1, <2>2, <2>4, <3>1, <3>2
  <2> QED
    BY <2>3, <2>4
<1> QED
  BY <1>1, <1>2, <1>3, <1>4, <1>5 DEF Next, Outside

\* What a handler answers is one of three things, and it serves what was received.
LEMMA RepliesStep ==
  ASSUME TypeOK, pc = "reply" => out.cmd \in {"subscribe", "unsubscribe", "ioctl"},
         pc \in Settings => msg.cmd = pc, [Next]_vars
  PROVE  /\ pc' = "reply" => out'.cmd \in {"subscribe", "unsubscribe", "ioctl"}
         /\ pc' \in Settings => msg'.cmd = pc'
<1>1. CASE Outside
  BY <1>1, OutsideKeeps DEF local
<1>2. CASE Answers
  <2>1. out'.cmd \in {"subscribe", "unsubscribe", "ioctl"}
    BY <1>2 DEF Answers, SubscribeRefused, SubscribeFails, Subscribe, Unsubscribe,
       UnsubscribeFails, Ioctl, IoctlRefused, Answer, Reply
  <2>2. pc' = "reply"
    BY <1>2 DEF Answers, SubscribeRefused, SubscribeFails, Subscribe, Unsubscribe,
       UnsubscribeFails, Ioctl, IoctlRefused, Answer
  <2> QED
    BY <2>1, <2>2 DEF Settings
<1>3. CASE Wait
  BY <1>3 DEF Wait
<1>5. CASE Receive
  BY <1>5 DEF Receive, Commands, Settings
<1>4. CASE BrokerNext /\ ~Answers /\ ~Wait /\ ~Receive
  <2>1. pc' # "reply" /\ pc' \notin Settings
    BY <1>4 DEF BrokerNext, CheckShutdown, ReceiveTimesOut, OpenFails, Open, OpenRefused,
       OpenWelcomed, OpenUndone, Answers, ReplySent, ReplyLost, Close, StartClose, CloseAcked,
       CloseUnacked, CloseReturns, Publish, ScanToHit, PublishDone, Delivered, NotDelivered,
       Evict, CleanupSlot, CleanupDone, BackToLoop, Settings, TypeOK, PlaceOK
  <2> QED
    BY <2>1
<1> QED
  BY <1>1, <1>2, <1>3, <1>4, <1>5 DEF Next, Outside

\* A client's step appends what libpsmq makes up to the control queue, or nothing.
LEMMA RequestsStep ==
  ASSUME STypeOK, OwnOK, NEW c \in Clients, ClientNext(c)
  PROVE  ctrl' = ctrl \/ \E r \in ClientRequests : ctrl' = Append(ctrl, r)
<1>1. CASE Sending(c)
  BY <1>1, ClientSends DEF SendRequest, MqSend
<1>2. CASE ~Sending(c)
  BY <1>2 DEF Sending, ClientNext, InitStep, InitUnlink, InitCreate, InitCreateFails, InitConnect,
     InitReceive, InitTimesOut, InitGivesUp, CallReceive, CallCleanup, AppUnlink, InitInterrupted,
     CleanupInterrupted, Crash, UnlinkQueue, CreateQueue, ReadQueue, vars
<1> QED
  BY <1>1, <1>2

\* A client keeps its queue, and then what it asked for, or gives it up, or has a new one.
LEMMA QueueStep ==
  ASSUME SInv, NEW c \in Clients, ClientStep(c)
  PROVE  /\ \/ \E q \in Queues : /\ \A d \in Clients : qsub[d] # q
                                 /\ qsub' = [qsub EXCEPT ![c] = q]
                                 /\ Elems(mqs'[q]) = {}
            \/ \A d \in Clients : qsub'[d] \in {qsub[d], NoQueue}
         /\ \A d \in Clients : qsub'[d] # NoQueue => asked[d] \subseteq asked'[d]
<1>0. TypeOK /\ STypeOK
  BY DEF SInv, TypeInv
<1>1. CASE InitCreate(c)
  <2>1. PICK q \in Queues : /\ \A d \in Clients : qsub[d] # q
                            /\ mqs' = [mqs EXCEPT ![q] = <<>>] /\ qsub' = [qsub EXCEPT ![c] = q]
    BY <1>1 DEF InitCreate, CreateQueue
  <2>2. Elems(mqs'[q]) = {}
    BY <1>0, <2>1 DEF TypeOK, QueuesOK, Elems
  <2>3. UNCHANGED asked
    BY <1>1 DEF InitCreate
  <2> QED
    BY <2>1, <2>2, <2>3
<1>2. CASE EndsSession(c)
  <2>1. qsub'[c] = NoQueue /\ \A d \in Clients \ {c} : qsub'[d] = qsub[d] /\ asked'[d] = asked[d]
    BY <1>0, <1>2 DEF EndsSession, STypeOK
  <2> QED
    BY <2>1
<1>3. CASE \E f \in Filters : CallSubscribe(c, f)
  <2>1. UNCHANGED qsub /\ \A d \in Clients : asked[d] \subseteq asked'[d]
    BY <1>0, <1>3 DEF CallSubscribe, STypeOK
  <2> QED
    BY <2>1
<1>4. CASE ~InitCreate(c) /\ ~EndsSession(c) /\ ~\E f \in Filters : CallSubscribe(c, f)
  <2>1. UNCHANGED <<qsub, asked>>
    BY <1>4 DEF ClientStep, ClientNext, InitStep, InitUnlink, InitCreateFails, InitConnect,
       InitReceive, InitTimesOut, InitGivesUp, InitSendOpen, CallUnsubscribe, CallPublish,
       CallIoctl, CallReceive, CallCleanup, CleanupSendsClose, AppUnlink, InitInterrupted,
       CleanupInterrupted, Crash, own
  <2> QED
    BY <2>1
<1> QED
  BY <1>1, <1>2, <1>3, <1>4

\* The requests in the control queue stay what libpsmq makes up.
LEMMA RequestedStep ==
  ASSUME SInv, Plain, [SNext]_svars
  PROVE  \A i \in DOMAIN ctrl' : ctrl'[i] \in ClientRequests
<1>0. TypeOK /\ STypeOK /\ OwnOK
  BY DEF SInv, TypeInv
<1>1. ctrl \in Seq(Requests) /\ \A i \in DOMAIN ctrl : ctrl[i] \in ClientRequests
  BY <1>0 DEF TypeOK, QueuesOK, Plain
<1>2. CASE UNCHANGED ctrl
  BY <1>1, <1>2
<1>3. CASE \E c \in Clients : ClientStep(c)
  <2>1. ctrl' = ctrl \/ \E r \in ClientRequests : ctrl' = Append(ctrl, r)
    BY <1>0, <1>3, RequestsStep DEF ClientStep
  <2> QED
    BY <1>1, <2>1
<1>4. CASE Receive
  <2>1. PICK i \in DOMAIN ctrl : ctrl' = MqRest(ctrl, i)
    BY <1>4 DEF Receive
  <2> QED
    BY <1>1, <2>1, RestOrder
<1>5. CASE BrokerStep /\ ~Receive
  <2>1. CASE QueuesKept
    BY <1>2, <2>1, QueuesUnchanged
  <2>2. CASE ReplySent \/ OpenRefused \/ OpenWelcomed \/ CloseAcked \/ Delivered \/ Evict
    BY <1>2, <2>2 DEF ReplySent, OpenRefused, OpenWelcomed, CloseAcked, Delivered, Evict
  <2> QED
    BY <1>5, <2>1, <2>2 DEF BrokerStep, BrokerNext, QueuesKept
<1>6. CASE SignalStep \/ UNCHANGED svars
  BY <1>2, <1>6 DEF SignalStep, Signal, svars, vars
<1> QED
  BY <1>3, <1>4, <1>5, <1>6 DEF SNext

\* Every step keeps what is plainly true.
LEMMA PlainStep ==
  ASSUME SInv, Plain, [SNext]_svars
  PROVE  Plain'
<1>0. TypeOK /\ Control /\ STypeOK /\ OwnOK /\ [Next]_vars
  BY StepImplements DEF SInv, TypeInv
<1>1. ~shutdown' => Working'
  BY <1>0, WorkingStep DEF Plain, TypeOK, PlaceOK
<1>2. ~evicted' => ret' # "scan"
  <2>1. (evicted' = evicted /\ ret' = ret) \/ evicted' = (evicted \/ pc = "evict")
    BY ClientStays DEF SNext, BrokerStep, SignalStep, ClientStep, BrokerStays, Signal, svars, vars,
       local
  <2> QED
    BY <1>0, <2>1, WorkingStep DEF Plain
<1>3. /\ pc' = "reply" => out'.cmd \in {"subscribe", "unsubscribe", "ioctl"}
      /\ pc' \in Settings => msg'.cmd = pc'
  BY <1>0, RepliesStep DEF Plain
<1>4. \A c, d \in Clients : qsub'[c] = qsub'[d] /\ qsub'[c] # NoQueue => c = d
  <2>1. CASE UNCHANGED qsub
    BY <2>1 DEF Plain
  <2>2. ASSUME NEW c \in Clients, ClientStep(c)
        PROVE  \A d, e \in Clients : qsub'[d] = qsub'[e] /\ qsub'[d] # NoQueue => d = e
    <3>1. CASE \A d \in Clients : qsub'[d] \in {qsub[d], NoQueue}
      BY <3>1 DEF Plain
    <3>2. CASE \E q \in Queues : (\A d \in Clients : qsub[d] # q) /\ qsub' = [qsub EXCEPT ![c] = q]
      BY <1>0, <3>2 DEF Plain, STypeOK
    <3> QED
      BY <2>2, <3>1, <3>2, QueueStep
  <2> QED
    BY <2>1, <2>2 DEF SNext, BrokerStep, SignalStep, svars, own
<1>5. \A i \in DOMAIN ctrl' : ctrl'[i] \in ClientRequests
  BY RequestedStep
<1> QED
  BY <1>1, <1>2, <1>3, <1>4, <1>5 DEF Plain

\* A publish is delivered to a slot whose reader asked for it.
LEMMA DeliveredIsAsked ==
  ASSUME SInv, Plain, FanOut, Undisturbed => Sessions, ~evicted, QueuesOwn, Delivered, UNCHANGED own
  PROVE  QueuesOwn'
<1>0. TypeOK /\ Control /\ STypeOK
  BY DEF SInv, TypeInv
<1>1. /\ pc = "deliver" /\ cur \in Slots /\ InUse(cur) /\ CanSend(cur) /\ SendTo(cur, Publication)
      /\ UNCHANGED <<qsub, asked>>
  BY <1>0 DEF Delivered, Control, own
<1>2. Sessions
  BY <1>0, <1>1 DEF Undisturbed, Working, Control, CleaningUp
<1> DEFINE f == clients[cur].topics[node]
<1>3. <<msg.arg, f>> \in Matching /\ f \in Elems(clients[cur].topics)
  BY <1>1 DEF FanOut, Matches, Elems
<1>4. \A c \in Clients : qsub[c] = Queue(cur) => f \in asked[c]
  BY <1>1, <1>2, <1>3 DEF Sessions, ListsOwn
<1> HIDE DEF f
<1>5. Publication.arg = msg.arg
  BY DEF Publication, Reply
<1>6. \A q \in Queues : Elems(mqs'[q]) = IF q = Queue(cur) THEN Elems(mqs[q]) \cup {Publication}
                                         ELSE Elems(mqs[q])
  BY <1>0, <1>1, SentTo DEF TypeOK
<1>7. ASSUME NEW c \in Clients, qsub[c] # NoQueue, NEW m \in Elems(mqs'[qsub[c]]), m.cmd = "publish"
      PROVE  \E g \in asked[c] : <<m.arg, g>> \in Matching
  <2>1. qsub[c] \in Queues
    BY <1>0, <1>7, TheSlots
  <2>2. CASE m \in Elems(mqs[qsub[c]])
    BY <1>7, <2>2 DEF QueuesOwn
  <2>3. CASE qsub[c] = Queue(cur) /\ m = Publication
    BY <1>3, <1>4, <1>5, <2>3
  <2> QED
    BY <1>6, <1>7, <2>1, <2>2, <2>3
<1> QED
  BY <1>1, <1>7 DEF QueuesOwn

\* As long as nobody is evicted, what waits for a reader stays what it asked for.
LEMMA QueuesOwnStep ==
  ASSUME SInv, Plain, FanOut, Undisturbed => Sessions, ~evicted, QueuesOwn, [SNext]_svars
  PROVE  QueuesOwn'
<1>0. TypeOK /\ Control /\ STypeOK /\ OwnOK /\ [Next]_vars
  BY StepImplements DEF SInv, TypeInv
<1>1. ASSUME NoPublishes, NEW c \in Clients, qsub'[c] = qsub[c], asked[c] \subseteq asked'[c],
             NEW m \in Elems(mqs'[qsub[c]]), qsub[c] # NoQueue, m.cmd = "publish"
      PROVE  \E f \in asked'[c] : <<m.arg, f>> \in Matching
  <2>1. m \in Elems(mqs[qsub[c]])
    BY <1>0, <1>1, TheSlots DEF NoPublishes
  <2> QED
    BY <1>1, <2>1 DEF QueuesOwn
<1>2. CASE Delivered /\ UNCHANGED own
  BY <1>2, DeliveredIsAsked
<1>3. CASE UNCHANGED own /\ ~Delivered
  <2>1. NoPublishes /\ UNCHANGED <<qsub, asked>>
    BY <1>0, <1>3, NothingSent DEF own
  <2> QED
    BY <1>1, <2>1 DEF QueuesOwn
<1>4. ASSUME NEW c \in Clients, ClientStep(c)
      PROVE  QueuesOwn'
  <2>1. NoPublishes
    <3>1. ~Delivered
      BY <1>4, ClientStays DEF BrokerStays, Delivered
    <3> QED
      BY <1>0, <3>1, NothingSent
  <2>2. CASE \A d \in Clients : qsub'[d] \in {qsub[d], NoQueue}
    BY <1>1, <1>4, <2>1, <2>2, QueueStep DEF QueuesOwn
  <2>3. ASSUME NEW q \in Queues, \A d \in Clients : qsub[d] # q, qsub' = [qsub EXCEPT ![c] = q],
               Elems(mqs'[q]) = {}
        PROVE  QueuesOwn'
    <3>1. qsub'[c] = q /\ \A d \in Clients \ {c} : qsub'[d] = qsub[d]
      BY <1>0, <2>3 DEF STypeOK
    <3>2. \A d \in Clients : qsub'[d] # NoQueue => asked[d] \subseteq asked'[d]
      BY <1>4, QueueStep
    <3> QED
      BY <1>1, <2>1, <2>3, <3>1, <3>2 DEF QueuesOwn
  <2> QED
    BY <1>4, <2>2, <2>3, QueueStep
<1> QED
  BY <1>2, <1>3, <1>4 DEF SNext, BrokerStep, SignalStep, svars
-----------------------------------------------------------------------------
(* The theorems.                                                           *)

\* The system starts with no session and nothing on its way.
LEMMA SessionsInit == SInit => SessionsInv
<1> SUFFICES ASSUME SInit PROVE SessionsInv
  OBVIOUS
<1>1. /\ \A s \in Slots : ~InUse(s) /\ Elems(clients[s].topics) = {}
      /\ ctrl = <<>> /\ pc = "check" /\ ret = "check"
      /\ \A c \in Clients : qsub[c] = NoQueue /\ ~Ready(c)
  BY DEF SInit, Init, NoClient, InUse, Queue, Elems, Ready
<1>2. Plain
  BY <1>1 DEF Plain, Working, Settings
<1>3. QueuesOwn
  BY <1>1 DEF QueuesOwn
<1>4. /\ \A i, cmd, s : ~Asks(i, cmd, s)
      /\ \A i, s : ~AsksFor(i, s)
  BY <1>1 DEF Asks, AsksFor
<1>5. \A s : ~CloseAsked(s) /\ ~Closes(s)
  BY <1>1, <1>4 DEF CloseAsked, Closes
<1>6. Sessions
  BY <1>1, <1>4, <1>5 DEF Sessions, ClosesOver, SlotsTold, SlotFresh, RequestsOwn, ListsOwn, Settings
<1> QED
  BY <1>2, <1>3, <1>6 DEF SessionsInv

\* Every step of the system keeps the sessions apart, until a client is evicted.
LEMMA SessionsStep ==
  ASSUME SInv, FanOut, SessionsInv, [SNext]_svars
  PROVE  SessionsInv'
<1>0. TypeOK /\ Control /\ STypeOK /\ OwnOK /\ [Next]_vars /\ Plain
  BY StepImplements DEF SInv, TypeInv, SessionsInv
<1>1. evicted => evicted'
  BY DEF SNext, BrokerStep, SignalStep, ClientStep, svars
<1>2. Undisturbed' => Undisturbed
  BY <1>0, <1>1, WorkingStep DEF Undisturbed
<1>3. ~evicted' => QueuesOwn'
  BY <1>0, <1>1, QueuesOwnStep DEF SessionsInv
<1>4. ASSUME Undisturbed' PROVE Sessions'
  <2>1. Undisturbed /\ Sessions
    BY <1>2, <1>4 DEF SessionsInv
  <2>2. CASE BrokerStep
    BY <1>0, <1>4, <2>1, <2>2, BrokerKeepsSessions
  <2>3. CASE \E c \in Clients : ClientStep(c)
    BY <1>0, <2>1, <2>3, ClientKeepsSessions
  <2>4. CASE SignalStep \/ UNCHANGED svars
    <3>1. UNCHANGED <<clients, ctrl, mqs, pc, msg, cur, out, own>>
      BY <2>4 DEF SignalStep, Signal, svars, vars, local
    <3>2. Still
      BY <3>1 DEF Still, NoOffers, Offered, Closes
    <3> QED
      BY <1>0, <2>1, <3>2, StillStep
  <2> QED
    BY <2>2, <2>3, <2>4 DEF SNext
<1> QED
  BY <1>0, <1>3, <1>4, PlainStep DEF SessionsInv

\* Whose each slot, request and queued message is, in every state.
THEOREM SessionsInvariant == SSpec => [](SInv /\ SessionsInv)
<1>1. SSpec => []FanOut
  <2>1. FanInv => FanOut
    BY DEF FanInv
  <2> QED
    BY <2>1, SystemIsBroker, FanOutInvariant, PTL
<1> QED
  BY <1>1, SessionsInit, SessionsStep, SystemInvariant, PTL DEF SSpec

(***************************************************************************)
(* As long as nobody was evicted and the broker is not told to stop, a     *)
(* connected client's slot has its queue and is no other client's,         *)
(* whatever crashes, timeouts, signals and retries came before             *)
(* (broker.c:404-425, psmq.c:546-558).                                     *)
(***************************************************************************)
THEOREM SessionsAreIsolated == SSpec => []SessionIsolated
<1>1. SInv /\ SessionsInv => SessionIsolated
  <2> SUFFICES ASSUME SInv, SessionsInv, ~evicted, ~shutdown, NEW c \in Clients, Ready(c)
               PROVE  /\ Queue(fd[c]) = qsub[c]
                      /\ \A d \in Clients \ {c} : Ready(d) => fd[d] # fd[c]
    BY DEF SessionIsolated
  <2>1. Plain /\ Sessions
    BY DEF SessionsInv, Plain, Undisturbed
  <2>2. Queue(fd[c]) = qsub[c] /\ \A d \in Clients \ {c} : qsub[d] # qsub[c]
    BY <2>1, OwnSlot
  <2>3. \A d \in Clients : Ready(d) => Queue(fd[d]) = qsub[d]
    BY <2>1, OwnSlot
  <2> QED
    BY <2>2, <2>3
<1> QED
  BY <1>1, SessionsInvariant, PTL

(***************************************************************************)
(* As long as nobody was evicted, every publish that waits for a connected *)
(* client matches a topic it subscribed to in this session: nothing meant  *)
(* for the last owner of its slot or its name (psmq_subscribe.3:15,        *)
(* broker.c:683-746), also while the broker shuts down.                    *)
(***************************************************************************)
THEOREM OnlyAskedArrives == SSpec => []OnlyWhatWasAsked
<1>1. SInv /\ SessionsInv => OnlyWhatWasAsked
  <2> SUFFICES ASSUME SInv, SessionsInv, ~evicted, NEW c \in Clients, Ready(c)
               PROVE  GetsOnlyAsked(c)
    BY DEF OnlyWhatWasAsked
  <2>1. qsub[c] # NoQueue
    BY BrokerAssumption DEF SInv, OwnOK, Ready, HasQueue
  <2>2. \A m \in Elems(mqs[qsub[c]]) : m.cmd = "publish" => \E f \in asked[c] : <<m.arg, f>> \in Matching
    BY <2>1 DEF SessionsInv, QueuesOwn
  <2> QED
    BY <2>2 DEF GetsOnlyAsked, Elems
<1> QED
  BY <1>1, SessionsInvariant, PTL
=============================================================================
