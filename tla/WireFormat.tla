----------------------------- MODULE WireFormat -----------------------------
(***************************************************************************)
(* struct psmq_msg (inc/psmq.h.in) as bytes: how libpsmq and the broker    *)
(* lay out a message, how much of it crosses a queue, what the broker      *)
(* checks before it looks at a request, and what the receiver makes of it. *)
(*                                                                         *)
(* A byte is NUL, "/" or some other character; only those are told apart.  *)
(* A string is the sequence of its bytes before the NUL; a pointer that    *)
(* may be NULL is passed as what it points to, <<>> for NULL.              *)
(***************************************************************************)
EXTENDS Naturals, Sequences

CONSTANT MsgMax   \* PSMQ_MSG_MAX, the length of data

ASSUME WireAssumption == MsgMax \in Nat

NUL == "NUL"
CString(s) == Append(s, NUL)

\* strlen(data); beyond the array nothing is known, and MsgMax stands for all of it.
StrLen(data) ==
  LET ends == {i \in DOMAIN data : data[i] = NUL}
  IN  IF ends = {} THEN Len(data) ELSE (CHOOSE i \in ends : \A j \in ends : i <= j) - 1

\* memset, then topic (with its NUL) and payload one after the other.
Layout(cmd, code, text, payload) ==
  LET bytes == text \o payload
  IN  [cmd |-> cmd, code |-> code, paylen |-> Len(payload),
       data |-> [i \in 1 .. MsgMax |-> IF i \in DOMAIN bytes THEN bytes[i] ELSE NUL]]

\* Mutant of SentBytes: the topic's NUL is not counted.
SentBytesNoNul(m) == (IF m.cmd = "ioctl" THEN 0 ELSE StrLen(m.data)) + m.paylen

\* psmq_real_msg_size, without the header: an ioctl has no topic.
SentBytes(m) == (IF m.cmd = "ioctl" THEN 0 ELSE StrLen(m.data) + 1) + m.paylen

\* What a receiver that had `buffer' in data finds there: the rest of it is as it was.
Received(m, buffer) ==
  [m EXCEPT !.data = [i \in 1 .. MsgMax |-> IF i <= SentBytes(m) THEN m.data[i] ELSE buffer[i]]]

Cleared == [i \in 1 .. MsgMax |-> NUL]
-----------------------------------------------------------------------------
(* The library: psmq_publish_prio, psmq_subscribe, psmq_ioctl.             *)

PublishFits(topic, payload) == Len(topic) + 1 + Len(payload) <= MsgMax

PublishOK(topic, payload) ==
  topic # <<>> /\ topic[1] = "/" /\ PublishFits(topic, payload)

PublishMsg(fd, topic, payload) == Layout("publish", fd, CString(topic), payload)

SubscribeOK(topic) == topic # <<>> /\ topic[1] = "/" /\ Len(topic) + 1 <= MsgMax

SubscribeMsg(fd, topic) == Layout("subscribe", fd, CString(topic), <<>>)

\* A reply timeout is the two bytes of an unsigned short.
IoctlMsg(fd, timeout) == Layout("ioctl", fd, <<>>, <<"REPLY_TIMEOUT">> \o timeout)
-----------------------------------------------------------------------------
(* The broker: the checks of psmqd_broker_start, and what handlers read.   *)

\* The checks look for a topic in every message, an ioctl's bytes included.
BrokerAccepts(m) ==
  /\ StrLen(m.data) < MsgMax
  /\ StrLen(m.data) + 1 + m.paylen <= MsgMax

Topic(m) == SubSeq(m.data, 1, StrLen(m.data))

\* Mutant of Payload: an ioctl's data is looked for behind a topic.
PayloadAfterTopic(m) == SubSeq(m.data, StrLen(m.data) + 2, StrLen(m.data) + 1 + m.paylen)

\* PSMQ_PAYLOAD, and what handlers take for it.
Payload(m) ==
  LET from == IF m.cmd = "ioctl" THEN 0 ELSE StrLen(m.data) + 1
  IN  SubSeq(m.data, from + 1, from + m.paylen)

\* psmqd_broker_publish passes on what it read, with ctrl.data 0 for success.
Forwarded(m) == Layout("publish", 0, CString(Topic(m)), Payload(m))

\* psmqd_broker_reply_ctrl with the topic of a subscription.
SubscribeAck(m) == Layout("subscribe", 0, CString(Topic(m)), <<>>)

\* psmqd_broker_open's answer: the new slot, a byte that is NUL for slot 0, as payload.
Welcome(slot) == Layout("open", 0, <<>>, <<slot>>)
SlotGiven(m) == IF m.paylen = 1 THEN <<m.data[1]>> ELSE <<>>

\* psmqd_broker_ioctl: one byte of request, then as many as reply_timeout has.
IoctlSets(m) == m.paylen = 3 /\ Payload(m)[1] = "REPLY_TIMEOUT"
TimeoutOf(m) == SubSeq(Payload(m), 2, 3)
IoctlAck(m) == Layout("ioctl", 0, <<>>, <<"REPLY_TIMEOUT">> \o TimeoutOf(m))
=============================================================================
