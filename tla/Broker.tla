------------------------------- MODULE Broker -------------------------------
(***************************************************************************)
(* The psmqd broker (broker.c): one thread that takes requests from its    *)
(* control queue and answers on the queues of its clients.                 *)
(*                                                                         *)
(* A step of the broker is what it does between two calls on shared        *)
(* objects (queues, queue names, the shutdown flag), so that clients and   *)
(* signals interleave with it wherever the system lets them.  The clients  *)
(* are any processes that create and remove queues, send well-formed       *)
(* requests and read their queues, at any moment and in any order.         *)
(***************************************************************************)
EXTENDS Naturals, Sequences, FiniteSets, Mqueue

CONSTANTS
  MaxClients,   \* PSMQ_MAX_CLIENTS
  MaxMissed,    \* PSMQ_MAX_MISSED_PUBS
  UCharMod,     \* values of an unsigned char, 256 in every build
  Names,        \* names of client queues
  Queues,       \* the queues those names may stand for, one after another
  NoQueue,      \* (mqd_t)-1, and "no queue of that name"
  Filters,      \* the topics psmqd_broker_subscribe accepts (IsFilter)
  Matching,     \* <<topic, filter>> pairs psmqd_broker_topic_matches accepts
  Requests,     \* what clients may send
  OpenMayFail,  \* mq_open of a client's queue may fail though the queue is there
  CtrlMax,      \* capacity of the control queue
  QueueMax,     \* capacity of a client's queue
  MaxTopics     \* bound: malloc fails for a subscription beyond this many

\* What reply_timeout tells apart: wait for a full queue, or do not.
Timeouts == {"zero", "positive"}
Commands == {"open", "close", "subscribe", "unsubscribe", "publish", "ioctl"}

ASSUME BrokerAssumption ==
  /\ MaxClients \in Nat \ {0} /\ MaxClients <= 254   \* psmq-common.h insists: 255 says that no slot is free
  /\ MaxMissed \in Nat \ {0} /\ UCharMod \in Nat
  /\ MaxMissed < UCharMod
  /\ NoQueue \notin Queues /\ OpenMayFail \in BOOLEAN
  /\ CtrlMax \in Nat \ {0} /\ QueueMax \in Nat \ {0} /\ MaxTopics \in Nat
  /\ \A r \in Requests : r.fd \in Nat /\ r.prio \in Nat

Slots == 0 .. MaxClients - 1
NoRequest == [cmd |-> "none", fd |-> 0, arg |-> "none", prio |-> 0]

VARIABLES
  clients,   \* the array of struct client
  ctrl,      \* the control queue
  mqs,       \* the client queues
  names,     \* the queue a name stands for
  held,      \* how many descriptors of a queue the broker has open
  shutdown,  \* g_psmqd_shutdown
  pc,        \* where the broker is
  msg,       \* the request it serves
  cur,       \* the slot it serves, or scans from
  node,      \* the place in that slot's topic list it scans from
  ret,       \* where psmqd_broker_close returns to
  out,       \* the reply to a control request
  waiting,   \* it is blocked in mq_timedsend
  copies,    \* (auxiliary) copies of the publish in service sent to each slot
  lost       \* (auxiliary) slots a send of that publish failed for

local == <<msg, cur, node, ret, out, waiting>>
aux   == <<copies, lost>>
vars  == <<clients, ctrl, mqs, names, held, shutdown, pc, local, aux>>

Queue(s)  == clients[s].mq
InUse(s)  == Queue(s) # NoQueue
NoClient  == [mq |-> NoQueue, topics |-> <<>>, missed_pubs |-> 0, reply_timeout |-> "zero"]
NoCopies  == [s \in Slots |-> 0]
Reply(cmd, data, arg) == [cmd |-> cmd, data |-> data, arg |-> arg, fd |-> 0, prio |-> 0]
NoReply   == Reply("none", "none", "none")

Init ==
  /\ clients = [s \in Slots |-> NoClient]
  /\ ctrl = <<>>
  /\ mqs = [q \in Queues |-> <<>>]
  /\ names = [n \in Names |-> NoQueue]
  /\ held = [q \in Queues |-> 0]
  /\ shutdown = FALSE
  /\ pc = "check"
  /\ msg = NoRequest /\ cur = 0 /\ node = 1 /\ ret = "check" /\ out = NoReply
  /\ waiting = FALSE
  /\ copies = NoCopies /\ lost = {}
-----------------------------------------------------------------------------
(* Topic lists (topic-list.c): a new topic goes right behind the head.     *)

TlAdd(list, topic) == IF list = <<>> THEN <<topic>> ELSE InsertAt(list, 2, topic)

TlFind(list, topic) == CHOOSE i \in DOMAIN list :
  list[i] = topic /\ \A j \in DOMAIN list : list[j] = topic => i <= j

\* Mutant of TlDelete: the topic goes wherever it is in the list.
TlDeleteAll(list, topic) == LET Other(t) == t # topic IN SelectSeq(list, Other)

TlDelete(list, topic) == RemoveAt(list, TlFind(list, topic))
-----------------------------------------------------------------------------
(* mq_timedsend to the client in slot s.                                   *)

\* There is room: the message is queued at once, or as soon as there is.
CanSend(s) == InUse(s) /\ ~MqFull(mqs[Queue(s)], QueueMax)

\* Mutant of SendFails: mq_send, without a timeout.
SendWaitsForEver(s) == ~InUse(s)

\* The call fails: the slot has no queue, or it is full and the timeout is 0 or over.
SendFails(s) ==
  \/ ~InUse(s)
  \/ ~CanSend(s) /\ (clients[s].reply_timeout = "zero" \/ waiting)

SendTo(s, m) == mqs' = [mqs EXCEPT ![Queue(s)] = MqSend(@, m)]

\* mq_receive, by the client or by the broker, from a queue that is not empty.
TakeFrom(q) ==
  \E i \in DOMAIN mqs[q] : IsMqNext(mqs[q], i) /\ mqs' = [mqs EXCEPT ![q] = MqRest(@, i)]

\* The broker blocks until there is room, the timeout is over or a signal comes.
Wait ==
  /\ pc \in {"reply", "closing", "deliver"}
  /\ InUse(cur) /\ ~CanSend(cur) /\ ~waiting
  /\ clients[cur].reply_timeout # "zero"
  /\ waiting' = TRUE
  /\ UNCHANGED <<clients, ctrl, mqs, names, held, shutdown, pc, msg, cur, node, ret, out, aux>>

ResetMissed(s) == clients' = [clients EXCEPT ![s].missed_pubs = 0]
\* Mutant of CountMissed: missed_pubs is an int that nothing keeps in the range of a byte.
CountMissedWide(s) == clients' = [clients EXCEPT ![s].missed_pubs = @ + 1]

CountMissed(s) == clients' = [clients EXCEPT ![s].missed_pubs = (@ + 1) % UCharMod]

\* A handler returns: its locals are gone, and the loop starts over.
BackToLoop ==
  /\ pc' = "check"
  /\ msg' = NoRequest /\ cur' = 0 /\ node' = 1 /\ ret' = "check" /\ out' = NoReply
  /\ waiting' = FALSE

\* A handler answers with psmqd_broker_reply, then returns.
Answer(reply) ==
  /\ pc' = "reply" /\ cur' = msg.fd /\ out' = reply
  /\ UNCHANGED <<ctrl, mqs, names, held, shutdown, msg, node, ret, waiting, aux>>

ReplySent ==
  /\ pc = "reply" /\ CanSend(cur)
  /\ SendTo(cur, out)
  /\ ResetMissed(cur)
  /\ BackToLoop
  /\ UNCHANGED <<ctrl, names, held, shutdown, aux>>

ReplyLost ==
  /\ pc = "reply" /\ SendFails(cur)
  /\ CountMissed(cur)
  /\ BackToLoop
  /\ UNCHANGED <<ctrl, mqs, names, held, shutdown, aux>>
-----------------------------------------------------------------------------
(* The main loop, psmqd_broker_start.                                      *)

CheckShutdown ==
  /\ pc = "check"
  /\ pc' = IF shutdown THEN "cleanup" ELSE "receive"
  /\ UNCHANGED <<clients, ctrl, mqs, names, held, shutdown, local, aux>>

\* A request with a slot that does not exist, or an unknown command, is dropped.
Receive ==
  /\ pc = "receive"
  /\ \E i \in DOMAIN ctrl :
       /\ IsMqNext(ctrl, i)
       /\ LET m == ctrl[i]
          IN  IF m.cmd \in Commands /\ (m.cmd = "open" \/ m.fd \in Slots)
              THEN pc' = m.cmd /\ msg' = m
              ELSE pc' = "check" /\ msg' = NoRequest
       /\ ctrl' = MqRest(ctrl, i)
  /\ UNCHANGED <<clients, mqs, names, held, shutdown, cur, node, ret, out, waiting, aux>>

\* Mutant of ReceiveTimesOut: mq_receive, which no signal interrupts (SA_RESTART).
ReceiveWaitsForEver == FALSE /\ UNCHANGED vars

\* EINTR or, after five seconds, ETIMEDOUT on an empty control queue.
ReceiveTimesOut ==
  /\ pc = "receive" /\ ctrl = <<>>
  /\ pc' = "check"
  /\ UNCHANGED <<clients, ctrl, mqs, names, held, shutdown, local, aux>>
-----------------------------------------------------------------------------
(* psmqd_broker_open.                                                      *)

FreeSlots == {s \in Slots : ~InUse(s)}

\* mq_open fails: no queue of that name, no right to use it, or no descriptor left.  The
\* client is not told.
OpenFails ==
  /\ pc = "open"
  /\ OpenMayFail \/ msg.arg \notin Names \/ (msg.arg \in Names /\ names[msg.arg] = NoQueue)
  /\ BackToLoop
  /\ UNCHANGED <<clients, ctrl, mqs, names, held, shutdown, aux>>

\* mq_open gives a descriptor, psmqd_broker_get_free_client the first free slot.
Open ==
  /\ pc = "open" /\ msg.arg \in Names /\ names[msg.arg] # NoQueue
  /\ held' = [held EXCEPT ![names[msg.arg]] = @ + 1]
  /\ \E s \in FreeSlots :
       /\ \A t \in FreeSlots : s <= t
       /\ clients' = [clients EXCEPT ![s].mq = names[msg.arg]]
       /\ cur' = s
  /\ pc' = "welcome"
  /\ UNCHANGED <<ctrl, mqs, names, shutdown, msg, node, ret, out, waiting, aux>>

\* All slots are taken: mq_open, ENOSPC if the queue has room for it, mq_close.  What a
\* client can do in between, read or unlink the queue, it can as well do before or after.
OpenRefused ==
  /\ pc = "open" /\ msg.arg \in Names /\ names[msg.arg] # NoQueue
  /\ FreeSlots = {}
  /\ LET q == names[msg.arg]
     IN  mqs' = IF MqFull(mqs[q], QueueMax) THEN mqs
                ELSE [mqs EXCEPT ![q] = MqSend(@, Reply("open", "ENOSPC", "none"))]
  /\ BackToLoop
  /\ UNCHANGED <<clients, ctrl, names, held, shutdown, aux>>

\* Mutant of OpenWelcomed: slots are numbered from 1.
OpenWelcomedFromOne ==
  /\ pc = "welcome" /\ CanSend(cur)
  /\ SendTo(cur, [Reply("open", "OK", "none") EXCEPT !.fd = cur + 1])
  /\ BackToLoop
  /\ UNCHANGED <<clients, ctrl, names, held, shutdown, aux>>

\* The new client learns its slot; topics, missed_pubs and reply_timeout stay as they are.
OpenWelcomed ==
  /\ pc = "welcome" /\ CanSend(cur)
  /\ SendTo(cur, [Reply("open", "OK", "none") EXCEPT !.fd = cur])
  /\ BackToLoop
  /\ UNCHANGED <<clients, ctrl, names, held, shutdown, aux>>

\* Mutant of OpenUndone: the slot is given back without mq_close.
OpenUndoneLeaks ==
  /\ pc = "welcome" /\ ~CanSend(cur)
  /\ clients' = [clients EXCEPT ![cur].mq = NoQueue]
  /\ BackToLoop
  /\ UNCHANGED <<ctrl, mqs, names, held, shutdown, aux>>

OpenUndone ==
  /\ pc = "welcome" /\ ~CanSend(cur)
  /\ held' = [held EXCEPT ![Queue(cur)] = @ - 1]
  /\ clients' = [clients EXCEPT ![cur].mq = NoQueue]
  /\ BackToLoop
  /\ UNCHANGED <<ctrl, mqs, names, shutdown, aux>>
-----------------------------------------------------------------------------
(* Subscriptions: psmqd_broker_subscribe, psmqd_broker_unsubscribe.  A     *)
(* request may name a slot its sender has lost, or a slot nobody has.      *)

SubscribeRefused ==
  /\ pc = "subscribe" /\ msg.arg \notin Filters
  /\ Answer(Reply("subscribe", "EBADMSG", msg.arg))
  /\ UNCHANGED clients

\* malloc may fail at any time, and does beyond MaxTopics.
SubscribeFails ==
  /\ pc = "subscribe" /\ msg.arg \in Filters
  /\ Answer(Reply("subscribe", "ENOMEM", msg.arg))
  /\ UNCHANGED clients

Subscribe ==
  /\ pc = "subscribe" /\ msg.arg \in Filters
  /\ Len(clients[msg.fd].topics) < MaxTopics
  /\ clients' = [clients EXCEPT ![msg.fd].topics = TlAdd(@, msg.arg)]
  /\ Answer(Reply("subscribe", "OK", msg.arg))

Subscribed(s, f) == \E i \in DOMAIN clients[s].topics : clients[s].topics[i] = f

Unsubscribe ==
  /\ pc = "unsubscribe" /\ Subscribed(msg.fd, msg.arg)
  /\ clients' = [clients EXCEPT ![msg.fd].topics = TlDelete(@, msg.arg)]
  /\ Answer(Reply("unsubscribe", "OK", msg.arg))

UnsubscribeFails ==
  /\ pc = "unsubscribe" /\ ~Subscribed(msg.fd, msg.arg)
  /\ Answer(Reply("unsubscribe", "ENOENT", msg.arg))
  /\ UNCHANGED clients
-----------------------------------------------------------------------------
(* psmqd_broker_ioctl; an argument that is no timeout stands for every     *)
(* request it answers with EINVAL.                                         *)

Ioctl ==
  /\ pc = "ioctl" /\ msg.arg \in Timeouts
  /\ clients' = [clients EXCEPT ![msg.fd].reply_timeout = msg.arg]
  /\ Answer(Reply("ioctl", "OK", msg.arg))

IoctlRefused ==
  /\ pc = "ioctl" /\ msg.arg \notin Timeouts
  /\ Answer(Reply("ioctl", "EINVAL", msg.arg))
  /\ UNCHANGED clients
-----------------------------------------------------------------------------
(* psmqd_broker_close(s), from a request, an eviction or the final cleanup *)

StartClose(s, caller) == pc' = "closing" /\ cur' = s /\ ret' = caller

Close ==
  /\ pc = "close"
  /\ StartClose(msg.fd, "check")
  /\ UNCHANGED <<clients, ctrl, mqs, names, held, shutdown, msg, node, out, waiting, aux>>

\* Mutant of Vacate: the topics are not freed.
VacateKeepsTopics(s, missed) ==
  /\ clients' = [clients EXCEPT ![s] = [@ EXCEPT !.mq = NoQueue, !.missed_pubs = missed]]
  /\ held' = IF InUse(s) THEN [held EXCEPT ![Queue(s)] = @ - 1] ELSE held

\* The slot is emptied; missed_pubs counts from zero, and reply_timeout stays.
Vacate(s, missed) ==
  /\ clients' = [clients EXCEPT ![s] = [@ EXCEPT !.mq = NoQueue, !.topics = <<>>,
                                                 !.missed_pubs = missed]]
  /\ held' = IF InUse(s) THEN [held EXCEPT ![Queue(s)] = @ - 1] ELSE held

\* Back to the caller: the loop of requests, or the next slot of a scan over slots.
CloseReturns ==
  IF ret = "check" THEN BackToLoop
  ELSE /\ pc' = ret /\ cur' = cur + 1 /\ node' = 1 /\ waiting' = FALSE
       /\ UNCHANGED <<msg, ret, out>>

CloseAcked ==
  /\ pc = "closing" /\ CanSend(cur)
  /\ SendTo(cur, Reply("close", "OK", "none"))
  /\ Vacate(cur, 0)
  /\ CloseReturns
  /\ UNCHANGED <<ctrl, names, shutdown, aux>>

CloseUnacked ==
  /\ pc = "closing" /\ SendFails(cur)
  /\ Vacate(cur, 1)
  /\ CloseReturns
  /\ UNCHANGED <<ctrl, mqs, names, shutdown, aux>>
-----------------------------------------------------------------------------
(* psmqd_broker_publish: the slots are scanned in order, and the topics of *)
(* a slot in list order up to the first send that succeeds.                *)

Publish ==
  /\ pc = "publish"
  /\ pc' = "scan" /\ cur' = 0 /\ node' = 1
  /\ copies' = NoCopies /\ lost' = {}
  /\ UNCHANGED <<clients, ctrl, mqs, names, held, shutdown, msg, ret, out, waiting>>

Matches(s, i) == <<msg.arg, clients[s].topics[i]>> \in Matching

\* Mutant of Hits: after a hit in one slot, the heads of the other lists are skipped.
HitsBehindFirst ==
  {h \in {<<s, i>> : s \in cur .. MaxClients - 1, i \in 1 .. MaxTopics} :
     /\ InUse(h[1]) /\ h[2] \in DOMAIN clients[h[1]].topics
     /\ h[1] = cur => h[2] >= node
     /\ h[1] # cur => h[2] > node
     /\ Matches(h[1], h[2])}

\* The places <<slot, node>> of matching topics the scan has yet to reach.
Hits ==
  {h \in {<<s, i>> : s \in cur .. MaxClients - 1, i \in 1 .. MaxTopics} :
     /\ InUse(h[1]) /\ h[2] \in DOMAIN clients[h[1]].topics
     /\ h[1] = cur => h[2] >= node
     /\ Matches(h[1], h[2])}

Before(g, h) == g[1] < h[1] \/ (g[1] = h[1] /\ g[2] <= h[2])

ScanToHit ==
  /\ pc = "scan"
  /\ \E h \in Hits : (\A g \in Hits : Before(h, g)) /\ cur' = h[1] /\ node' = h[2]
  /\ pc' = "deliver"
  /\ UNCHANGED <<clients, ctrl, mqs, names, held, shutdown, msg, ret, out, waiting, aux>>

PublishDone ==
  /\ pc = "scan" /\ Hits = {}
  /\ BackToLoop
  /\ copies' = NoCopies /\ lost' = {}
  /\ UNCHANGED <<clients, ctrl, mqs, names, held, shutdown>>

Publication == [Reply("publish", "OK", msg.arg) EXCEPT !.prio = msg.prio]

\* Mutant of Delivered: the scan goes on with the client's next topic.
DeliveredPerTopic ==
  /\ pc = "deliver" /\ CanSend(cur)
  /\ SendTo(cur, Publication)
  /\ ResetMissed(cur)
  /\ copies' = [copies EXCEPT ![cur] = @ + 1]
  /\ pc' = "scan" /\ node' = node + 1 /\ waiting' = FALSE
  /\ UNCHANGED <<ctrl, names, held, shutdown, msg, cur, ret, out, lost>>

\* Delivered: the rest of this client's topics is skipped.
Delivered ==
  /\ pc = "deliver" /\ CanSend(cur)
  /\ SendTo(cur, Publication)
  /\ ResetMissed(cur)
  /\ copies' = [copies EXCEPT ![cur] = @ + 1]
  /\ pc' = "scan" /\ cur' = cur + 1 /\ node' = 1 /\ waiting' = FALSE
  /\ UNCHANGED <<ctrl, names, held, shutdown, msg, ret, out, lost>>

\* Not delivered: evict a client that missed too many, or try its next matching topic.
NotDelivered ==
  /\ pc = "deliver" /\ SendFails(cur)
  /\ CountMissed(cur)
  /\ lost' = lost \cup {cur}
  /\ waiting' = FALSE
  /\ IF clients'[cur].missed_pubs >= MaxMissed
     THEN pc' = "evict" /\ UNCHANGED node
     ELSE pc' = "scan" /\ node' = node + 1
  /\ UNCHANGED <<ctrl, mqs, names, held, shutdown, msg, cur, ret, out, copies>>

\* Mutant of Evict: no room is made for the CLOSE.
EvictAtOnce ==
  /\ pc = "evict"
  /\ StartClose(cur, "scan")
  /\ UNCHANGED <<clients, ctrl, mqs, names, held, shutdown, msg, node, out, waiting, aux>>

\* mq_timedreceive that does not wait takes one message off the client's queue, then close.
Evict ==
  /\ pc = "evict"
  /\ IF mqs[Queue(cur)] = <<>> THEN UNCHANGED mqs ELSE TakeFrom(Queue(cur))
  /\ StartClose(cur, "scan")
  /\ UNCHANGED <<clients, ctrl, names, held, shutdown, msg, node, out, waiting, aux>>
-----------------------------------------------------------------------------
(* psmqd_broker_cleanup.                                                   *)

\* Mutant of SlotsToClose: the loop starts behind the slot it is at.
SlotsAfterFirst == {s \in Slots : s > cur /\ InUse(s)}

SlotsToClose == {s \in Slots : s >= cur /\ InUse(s)}

CleanupSlot ==
  /\ pc = "cleanup"
  /\ \E s \in SlotsToClose : (\A t \in SlotsToClose : s <= t) /\ StartClose(s, "cleanup")
  /\ UNCHANGED <<clients, ctrl, mqs, names, held, shutdown, msg, node, out, waiting, aux>>

CleanupDone ==
  /\ pc = "cleanup" /\ SlotsToClose = {}
  /\ pc' = "exited"
  /\ UNCHANGED <<clients, ctrl, mqs, names, held, shutdown, local, aux>>
-----------------------------------------------------------------------------
(* The clients and the signals.                                            *)

\* A process creates a queue; it reuses none that somebody may still send to.
CreateQueue(n, q) ==
  /\ names[n] = NoQueue
  /\ held[q] = 0 /\ \A m \in Names : names[m] # q
  /\ names' = [names EXCEPT ![n] = q]
  /\ mqs' = [mqs EXCEPT ![q] = <<>>]
  /\ UNCHANGED <<clients, ctrl, held, shutdown, pc, local, aux>>

UnlinkQueue(n) ==
  /\ names[n] # NoQueue
  /\ names' = [names EXCEPT ![n] = NoQueue]
  /\ UNCHANGED <<clients, ctrl, mqs, held, shutdown, pc, local, aux>>

SendRequest(r) ==
  /\ ~MqFull(ctrl, CtrlMax)
  /\ ctrl' = MqSend(ctrl, r)
  /\ UNCHANGED <<clients, mqs, names, held, shutdown, pc, local, aux>>

ReadQueue(q) ==
  /\ TakeFrom(q)
  /\ UNCHANGED <<clients, ctrl, names, held, shutdown, pc, local, aux>>

\* SIGINT or SIGTERM.
Signal ==
  /\ ~shutdown /\ shutdown' = TRUE
  /\ UNCHANGED <<clients, ctrl, mqs, names, held, pc, local, aux>>
-----------------------------------------------------------------------------
BrokerNext ==
  \/ CheckShutdown \/ Receive \/ ReceiveTimesOut
  \/ OpenFails \/ Open \/ OpenRefused \/ OpenWelcomed \/ OpenUndone
  \/ SubscribeRefused \/ SubscribeFails \/ Subscribe \/ Unsubscribe \/ UnsubscribeFails
  \/ Ioctl \/ IoctlRefused
  \/ Wait \/ ReplySent \/ ReplyLost
  \/ Close \/ CloseAcked \/ CloseUnacked
  \/ Publish \/ ScanToHit \/ PublishDone \/ Delivered \/ NotDelivered \/ Evict
  \/ CleanupSlot \/ CleanupDone

ClientsNext ==
  \/ \E n \in Names : UnlinkQueue(n) \/ \E q \in Queues : CreateQueue(n, q)
  \/ \E r \in Requests : SendRequest(r)
  \/ \E q \in Queues : ReadQueue(q)

Next == BrokerNext \/ ClientsNext \/ Signal

Spec == Init /\ [][Next]_vars

\* The broker's only thread runs as long as it has something to do; its waits are timed.
FairSpec == Spec /\ WF_vars(BrokerNext)
-----------------------------------------------------------------------------
(* Properties.                                                             *)

Args == {r.arg : r \in Requests} \cup {"none"}
Errors == {"EBADMSG", "EINVAL", "ENOENT", "ENOMEM", "ENOSPC"}
ReplyType == [cmd : Commands \cup {"none"}, data : {"OK", "none"} \cup Errors, arg : Args,
              fd : Slots, prio : Nat]

ClientType == [mq : Queues \cup {NoQueue}, topics : Seq(Filters),
               missed_pubs : 0 .. UCharMod - 1, reply_timeout : Timeouts]

ClientsOK ==
  /\ clients \in [Slots -> ClientType]
  /\ \A s \in Slots : Len(clients[s].topics) <= MaxTopics
QueuesOK ==
  /\ ctrl \in Seq(Requests) /\ Len(ctrl) <= CtrlMax
  /\ mqs \in [Queues -> Seq(ReplyType)] /\ \A q \in Queues : Len(mqs[q]) <= QueueMax
NamesOK ==
  /\ names \in [Names -> Queues \cup {NoQueue}]
  /\ held \in [Queues -> Nat]
PlaceOK ==
  /\ shutdown \in BOOLEAN /\ waiting \in BOOLEAN
  /\ pc \in Commands \cup {"check", "receive", "welcome", "reply", "closing", "scan",
                           "deliver", "evict", "cleanup", "exited"}
  /\ msg \in Requests \cup {NoRequest}
  /\ cur \in Nat /\ node \in Nat /\ ret \in {"check", "scan", "cleanup"}
  /\ out \in ReplyType
  /\ copies \in [Slots -> Nat] /\ lost \subseteq Slots

TypeOK == ClientsOK /\ QueuesOK /\ NamesOK /\ PlaceOK

(***************************************************************************)
(* Every descriptor the broker opens on a client's queue (broker.c:404) is *)
(* the mq of exactly one slot, and is closed when the slot is given up, on *)
(* each of the four ways out: a failed OPEN, CLOSE, eviction and cleanup.  *)
(***************************************************************************)
DescriptorsBalanced ==
  \A q \in Queues : held[q] = Cardinality({s \in Slots : Queue(s) = q})

(***************************************************************************)
(* broker.c:742-745: however many of its topics match, a client gets no    *)
(* publish twice, and none that matches none of its topics.                *)
(***************************************************************************)
PublishedOnce ==
  \A s \in Slots :
    /\ copies[s] <= 1
    /\ copies[s] = 1 => \E i \in DOMAIN clients[s].topics : Matches(s, i)

(***************************************************************************)
(* When a publish has been served, each client with a matching topic has   *)
(* got it, or missed it because a send to it failed; also the clients      *)
(* behind one that was evicted, or had its list cut short, in the scan.    *)
(***************************************************************************)
PublishReachesAll ==
  pc = "scan" /\ Hits = {} =>
    \A s \in Slots : InUse(s) /\ (\E i \in DOMAIN clients[s].topics : Matches(s, i))
                       => copies[s] = 1 \/ s \in lost

(***************************************************************************)
(* broker.c:717-728: an evicted client that is only slow will find a CLOSE *)
(* on its queue, full as it was when the broker gave up on it.             *)
(***************************************************************************)
EvictedIsTold ==
  [][\A s \in Slots :
       InUse(s) /\ ret = "scan" /\ clients'[s].mq = NoQueue
         => \E i \in DOMAIN mqs'[Queue(s)] : mqs'[Queue(s)][i].cmd = "close"]_vars

(***************************************************************************)
(* When psmqd_broker_cleanup returns, every client's slot is closed and no *)
(* descriptor of a client's queue is left open.                            *)
(***************************************************************************)
NothingHeldAtExit == pc = "exited" => \A q \in Queues : held[q] = 0

(***************************************************************************)
(* broker.c:961-975: no matter when the signal comes, between two requests *)
(* or in the middle of one, the broker exits.                              *)
(***************************************************************************)
ShutdownCompletes == shutdown ~> pc = "exited"

(***************************************************************************)
(* No handler holds the broker for ever, whatever clients do with their    *)
(* queues: it comes back to its control queue or exits.                    *)
(***************************************************************************)
AlwaysBack == []<>(pc \in {"receive", "exited"})
=============================================================================
