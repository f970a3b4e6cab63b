------------------------------- MODULE Mqueue -------------------------------
(***************************************************************************)
(* The POSIX message queue, as psmq uses it: a bounded queue of messages   *)
(* with a priority, from which a reader takes the oldest message among     *)
(* those of the highest priority.  It is an operating system service, so   *)
(* it is modelled from its use by broker.c and psmq.c and not from source. *)
(*                                                                         *)
(* A queue is the sequence of its messages in the order they were sent;    *)
(* a message is any record with a field prio.                              *)
(***************************************************************************)
EXTENDS Naturals, Sequences, SequencesExt

\* mq_send would block, or a timed send would wait, on a queue of maxmsg messages.
MqFull(q, maxmsg) == Len(q) >= maxmsg

\* The queue after a successful mq_send of m.
MqSend(q, m) == Append(q, m)

\* i is the place of the message the next mq_receive returns.
IsMqNext(q, i) ==
  /\ i \in DOMAIN q
  /\ \A j \in DOMAIN q : q[j].prio <= q[i].prio
  /\ \A j \in DOMAIN q : j < i => q[j].prio < q[i].prio

\* The queue that mq_receive leaves.
MqRest(q, i) == RemoveAt(q, i)

\* The message the next mq_receive returns, from a non-empty queue.
MqHead(q) == q[CHOOSE i \in DOMAIN q : IsMqNext(q, i)]
=============================================================================
