------------------------------- MODULE System -------------------------------
(***************************************************************************)
(* The broker together with programs that use it through libpsmq           *)
(* (lib/psmq.c).  A client owns one queue name and one struct psmq; it may *)
(* make any call of the library at any time, give up waiting for the       *)
(* broker, lose its slot without knowing, or crash, and come back.         *)
(*                                                                         *)
(* Every step of a client is also one of the steps Broker allows clients,  *)
(* or leaves the broker's state alone, so this system implements Broker.   *)
(***************************************************************************)
EXTENDS Broker

CONSTANTS
  Calls,      \* what clients do once connected, see CallNames
  Prios       \* priorities of their publishes

Clients == Names
Topics  == {p[1] : p \in Matching}
CallNames == {"subscribe", "unsubscribe", "publish", "ioctl", "receive", "cleanup", "unlink",
              "crash", "timeout", "signal"}

\* What clients can send: an OPEN names no slot, anything else one the broker gave out.
ClientRequests ==
  [cmd : {"open"}, fd : {0}, arg : Clients, prio : {0}]
    \cup [cmd : {"close"}, fd : Slots, arg : {"none"}, prio : {0}]
    \cup [cmd : {"subscribe", "unsubscribe"}, fd : Slots, arg : Filters, prio : {0}]
    \cup [cmd : {"publish"}, fd : Slots, arg : Topics, prio : Prios]
    \cup [cmd : {"ioctl"}, fd : Slots, arg : Timeouts, prio : {0}]

ASSUME SystemAssumption ==
  Calls \subseteq CallNames /\ Prios \subseteq Nat /\ ClientRequests \subseteq Requests

VARIABLES
  at,       \* where in the library a client is
  qsub,     \* the queue it reads, struct psmq's qsub
  fd,       \* the slot the broker gave it, struct psmq's fd
  asked,    \* (auxiliary) the topics it subscribed to since it connected
  timed,    \* (auxiliary) it set a reply timeout since it connected
  evicted   \* (auxiliary) some client was evicted

own   == <<at, qsub, fd, asked, timed>>
svars == <<vars, own, evicted>>

SInit ==
  /\ Init
  /\ at = [c \in Clients |-> "idle"]
  /\ qsub = [c \in Clients |-> NoQueue]
  /\ fd = [c \in Clients |-> 0]
  /\ asked = [c \in Clients |-> {}]
  /\ timed = [c \in Clients |-> FALSE]
  /\ evicted = FALSE

Goes(c, to) == at' = [at EXCEPT ![c] = to]

\* A call that ends the session: the struct psmq is void until psmq_init clears it.
EndsSession(c) ==
  /\ Goes(c, "idle")
  /\ qsub' = [qsub EXCEPT ![c] = NoQueue] /\ fd' = [fd EXCEPT ![c] = 0]
  /\ asked' = [asked EXCEPT ![c] = {}] /\ timed' = [timed EXCEPT ![c] = FALSE]

\* The broker's control queue exists from psmqd_broker_init to psmqd_broker_cleanup.
BrokerUp == pc # "exited"
-----------------------------------------------------------------------------
(* psmq_init_named and psmq_init_wq.                                       *)

\* mq_unlink(mqname): whatever an earlier session left under the name is out of the way.
InitUnlink(c) ==
  /\ at[c] = "idle"
  /\ IF names[c] = NoQueue THEN UNCHANGED vars ELSE UnlinkQueue(c)
  /\ Goes(c, "create")
  /\ UNCHANGED <<qsub, fd, asked, timed>>

InitCreate(c) ==
  /\ at[c] = "create"
  /\ \E q \in Queues :
       /\ \A d \in Clients : qsub[d] # q
       /\ CreateQueue(c, q)
       /\ qsub' = [qsub EXCEPT ![c] = q]
  /\ Goes(c, "connect")
  /\ UNCHANGED <<fd, asked, timed>>

\* mq_open of the client's queue fails, for want of memory or descriptors.
InitCreateFails(c) ==
  /\ at[c] = "create"
  /\ Goes(c, "idle")
  /\ UNCHANGED <<vars, qsub, fd, asked, timed>>

\* mq_open(brokername): it may also fail with a broker there, for want of descriptors or of
\* the right to write.  The client's queue is closed then, but stays in the system.
InitConnect(c) ==
  /\ at[c] = "connect"
  /\ \/ BrokerUp /\ Goes(c, "opening") /\ UNCHANGED <<qsub, fd, asked, timed>>
     \/ EndsSession(c)
  /\ UNCHANGED vars

InitSendOpen(c) ==
  /\ at[c] = "opening"
  /\ SendRequest([cmd |-> "open", fd |-> 0, arg |-> c, prio |-> 0])
  /\ Goes(c, "wait")
  /\ UNCHANGED <<qsub, fd, asked, timed>>

\* The wait for the answer discards everything that is no answer to OPEN.
InitReceive(c) ==
  /\ at[c] = "wait"
  /\ ReadQueue(qsub[c])
  /\ LET m == MqHead(mqs[qsub[c]])
     IN  IF m.cmd # "open" THEN UNCHANGED <<at, fd, asked, timed>>
         ELSE IF m.data # "OK" THEN Goes(c, "giveup") /\ UNCHANGED <<fd, asked, timed>>
         ELSE /\ Goes(c, "ready")
              /\ fd' = [fd EXCEPT ![c] = m.fd]
              /\ UNCHANGED <<asked, timed>>
  /\ UNCHANGED qsub

\* Nothing came for 30 seconds.
InitTimesOut(c) ==
  /\ "timeout" \in Calls
  /\ at[c] = "wait" /\ mqs[qsub[c]] = <<>>
  /\ Goes(c, "giveup")
  /\ UNCHANGED <<vars, qsub, fd, asked, timed>>

\* A signal handler ran while the call was blocked: EINTR.
InitInterrupted(c) ==
  /\ "signal" \in Calls
  /\ \/ at[c] = "wait" /\ mqs[qsub[c]] = <<>>
     \/ at[c] = "opening" /\ MqFull(ctrl, CtrlMax)
  /\ Goes(c, "giveup")
  /\ UNCHANGED <<vars, qsub, fd, asked, timed>>

\* The error path closes both queues and unlinks the client's, and sends no CLOSE.
InitGivesUp(c) ==
  /\ at[c] = "giveup"
  /\ IF names[c] = NoQueue THEN UNCHANGED vars ELSE UnlinkQueue(c)
  /\ EndsSession(c)
-----------------------------------------------------------------------------
(* The calls of a connected client.                                        *)

CanCall(c, call) == at[c] = "ready" /\ call \in Calls

\* The blocking mq_send of a request made by client c, for the slot it was given.
Sends(c, cmd, arg, prio) ==
  SendRequest([cmd |-> cmd, fd |-> fd[c], arg |-> arg, prio |-> prio])

CallSubscribe(c, f) ==
  /\ CanCall(c, "subscribe")
  /\ Sends(c, "subscribe", f, 0)
  /\ asked' = [asked EXCEPT ![c] = @ \cup {f}]
  /\ UNCHANGED <<at, qsub, fd, timed>>

CallUnsubscribe(c, f) ==
  /\ CanCall(c, "unsubscribe")
  /\ Sends(c, "unsubscribe", f, 0)
  /\ UNCHANGED own

CallPublish(c, topic, prio) ==
  /\ CanCall(c, "publish")
  /\ Sends(c, "publish", topic, prio)
  /\ UNCHANGED own

CallIoctl(c, timeout) ==
  /\ CanCall(c, "ioctl")
  /\ Sends(c, "ioctl", timeout, 0)
  /\ timed' = [timed EXCEPT ![c] = @ \/ timeout # "zero"]
  /\ UNCHANGED <<at, qsub, fd, asked>>

CallReceive(c) ==
  /\ CanCall(c, "receive")
  /\ ReadQueue(qsub[c])
  /\ UNCHANGED own

\* psmq_cleanup sends CLOSE, however long that takes, then closes both queues.
CallCleanup(c) ==
  /\ CanCall(c, "cleanup")
  /\ Goes(c, "closing")
  /\ UNCHANGED <<vars, qsub, fd, asked, timed>>

\* Mutant of CleanupSendsClose: the CLOSE names slot 0, whatever slot the client has.
CleanupClosesZero(c) ==
  /\ at[c] = "closing"
  /\ SendRequest([cmd |-> "close", fd |-> 0, arg |-> "none", prio |-> 0])
  /\ EndsSession(c)

CleanupSendsClose(c) ==
  /\ at[c] = "closing"
  /\ Sends(c, "close", "none", 0)
  /\ EndsSession(c)

\* A signal ends the wait for room, no CLOSE is sent, and psmq_cleanup closes all the same.
CleanupInterrupted(c) ==
  /\ "signal" \in Calls
  /\ at[c] = "closing" /\ MqFull(ctrl, CtrlMax)
  /\ EndsSession(c)
  /\ UNCHANGED vars

\* Once its session is over a program may remove its queue, psmq_cleanup does not.
AppUnlink(c) ==
  /\ "unlink" \in Calls
  /\ at[c] = "idle" /\ UnlinkQueue(c)
  /\ UNCHANGED own

\* The process dies; its descriptors are closed, its queue keeps its name.
Crash(c) ==
  /\ "crash" \in Calls /\ at[c] # "idle"
  /\ EndsSession(c)
  /\ UNCHANGED vars
-----------------------------------------------------------------------------
InitStep(c) ==
  \/ InitUnlink(c) \/ InitCreate(c) \/ InitCreateFails(c) \/ InitConnect(c)
  \/ InitReceive(c) \/ InitTimesOut(c) \/ InitGivesUp(c)

ClientNext(c) ==
  \/ InitStep(c) \/ InitSendOpen(c)
  \/ \E f \in Filters : CallSubscribe(c, f) \/ CallUnsubscribe(c, f)
  \/ \E topic \in Topics, prio \in Prios : CallPublish(c, topic, prio)
  \/ \E timeout \in Timeouts : CallIoctl(c, timeout)
  \/ CallReceive(c) \/ CallCleanup(c) \/ CleanupSendsClose(c)
  \/ AppUnlink(c) \/ InitInterrupted(c) \/ CleanupInterrupted(c) \/ Crash(c)

BrokerStep == BrokerNext /\ UNCHANGED own /\ evicted' = (evicted \/ pc = "evict")
SignalStep == Signal /\ UNCHANGED <<own, evicted>>
ClientStep(c) == ClientNext(c) /\ UNCHANGED evicted

SNext == BrokerStep \/ SignalStep \/ \E c \in Clients : ClientStep(c)

SSpec == SInit /\ [][SNext]_svars

(***************************************************************************)
(* Fairness.  The broker as in Broker.  A client that called the library   *)
(* runs on; a sender blocked on a full control queue is woken when there   *)
(* is room and, of senders of equal priority, the longest waiting first,   *)
(* so each gets its turn.  What a program calls next is its own affair.    *)
(***************************************************************************)
SFairSpec ==
  /\ SSpec
  /\ WF_svars(BrokerStep)
  /\ \A c \in Clients :
       /\ WF_svars(at[c] # "idle" /\ InitStep(c) /\ UNCHANGED evicted)
       /\ SF_svars((InitSendOpen(c) \/ CleanupSendsClose(c)) /\ UNCHANGED evicted)
-----------------------------------------------------------------------------
(* Properties.                                                             *)

Ready(c) == at[c] \in {"ready", "closing"}

STypeOK ==
  /\ at \in [Clients -> {"idle", "create", "connect", "opening", "wait", "giveup",
                         "ready", "closing"}]
  /\ qsub \in [Clients -> Queues \cup {NoQueue}]
  /\ fd \in [Clients -> Slots]
  /\ asked \in [Clients -> SUBSET Filters]
  /\ timed \in [Clients -> BOOLEAN] /\ evicted \in BOOLEAN

(***************************************************************************)
(* As long as nobody was evicted and the broker is not shutting down, the  *)
(* slot a client holds is its own and nobody else's: crashes, timeouts and *)
(* retries of others, and CLOSE requests of its own earlier sessions, come *)
(* nowhere near it (broker.c:404-425, psmq.c:546-558, psmq.h.in:45).       *)
(***************************************************************************)
SessionIsolated ==
  ~evicted /\ ~shutdown =>
    \A c \in Clients : Ready(c) =>
      /\ Queue(fd[c]) = qsub[c]
      /\ \A d \in Clients \ {c} : Ready(d) => fd[d] # fd[c]

\* Every publish waiting for client c is one it subscribed to in this session.
GetsOnlyAsked(c) ==
  \A i \in DOMAIN mqs[qsub[c]] :
    LET m == mqs[qsub[c]][i]
    IN  m.cmd = "publish" => \E f \in asked[c] : <<m.arg, f>> \in Matching

(***************************************************************************)
(* As long as nobody was evicted, a client gets nothing meant for the last *)
(* owner of its slot, of its name, or of its session (psmq_subscribe.3:15).*)
(***************************************************************************)
OnlyWhatWasAsked == ~evicted => \A c \in Clients : Ready(c) => GetsOnlyAsked(c)
-----------------------------------------------------------------------------
(* What the sources say of the system and it does not do.                  *)

\* psmq_subscribe.3:15, evictions or not: no client receives what it did not subscribe to.
NeverUnasked == \A c \in Clients : Ready(c) => GetsOnlyAsked(c)

(***************************************************************************)
(* psmq_ioctl_reply_timeout.3:15: the broker does not wait for a client    *)
(* that set no timeout.                                                    *)
(***************************************************************************)
NeverWaitsUnasked ==
  waiting /\ ~CanSend(cur) => \A c \in Clients : Ready(c) /\ Queue(cur) = qsub[c] => timed[c]

(***************************************************************************)
(* psmq.c:657: whether CLOSE can be sent or not, psmq_cleanup returns.  Its*)
(* mq_send blocks for ever on the full queue of a broker that has exited.  *)
(***************************************************************************)
CleanupReturns == \A c \in Clients : at[c] = "closing" ~> at[c] = "idle"
=============================================================================
