----------------------------- MODULE WireProofs -----------------------------
(***************************************************************************)
(* Theorems about WireFormat and SubPrint, for every PSMQ_MSG_MAX and any  *)
(* set of bytes: what the library lets a program send, the broker takes,   *)
(* the receiver reads and psmq-sub shows; with them the properties of      *)
(* MCMessages for messages of any length; and about Deadline, for every    *)
(* timeout and time of day.                                                *)
(***************************************************************************)
EXTENDS MCMessages, Deadline, TLAPS

\* Strings and buffers over any set of bytes.
Strings(Byte) == {s \in Seq(Byte) : \A i \in 1 .. Len(s) : s[i] # NUL}
Buffers(Byte) == [1 .. MsgMax -> Byte]

(***************************************************************************)
(* strlen stops at the first NUL.                                          *)
(***************************************************************************)
LEMMA StrLenOf ==
  ASSUME NEW k \in Nat, NEW data, DOMAIN data = 1 .. k, NEW n \in Nat, n < k, data[n + 1] = NUL,
         \A i \in 1 .. n : data[i] # NUL
  PROVE  StrLen(data) = n
<1> DEFINE ends == {i \in DOMAIN data : data[i] = NUL}
<1>2. n + 1 \in ends /\ \A i \in ends : i \in Nat /\ n + 1 <= i
  OBVIOUS
<1>3. \A x \in ends : (\A j \in ends : x <= j) => x = n + 1
  BY <1>2
<1> DEFINE first == CHOOSE i \in ends : \A j \in ends : i <= j
<1>4. StrLen(data) = first - 1
  BY <1>2, Zenon DEF StrLen
<1> HIDE DEF ends
<1>5. \E x \in ends : \A j \in ends : x <= j
  BY <1>2
<1>6. first \in ends /\ \A j \in ends : first <= j
  BY <1>5, Zenon
<1> HIDE DEF first
<1> QED
  BY <1>3, <1>4, <1>6

\* So it does in a buffer.
LEMMA StrLenIs ==
  ASSUME NEW Byte, NEW data \in Buffers(Byte), NEW n \in Nat, n < MsgMax, data[n + 1] = NUL,
         \A i \in 1 .. n : data[i] # NUL
  PROVE  StrLen(data) = n
<1>1. DOMAIN data = 1 .. MsgMax /\ MsgMax \in Nat
  BY WireAssumption DEF Buffers
<1> QED
  BY <1>1, StrLenOf

(***************************************************************************)
(* A string with its NUL and a payload that fit are laid out one behind    *)
(* the other, and every byte of them is counted among those sent.          *)
(***************************************************************************)
LEMMA TextLaidOut ==
  ASSUME NEW Byte, NUL \in Byte, NEW cmd, cmd # "ioctl", NEW code, NEW name \in Strings(Byte), NEW body \in Seq(Byte),
         PublishFits(name, body), NEW buffer \in Buffers(Byte),
         NEW m, m = Received(Layout(cmd, code, CString(name), body), buffer)
  PROVE  /\ m.cmd = cmd /\ m.data \in Buffers(Byte)
         /\ StrLen(m.data) = Len(name)
         /\ m.paylen = Len(body)
         /\ Topic(m) = name /\ Payload(m) = body
         /\ BrokerAccepts(m)
<1> DEFINE bytes == CString(name) \o body
           sent == Layout(cmd, code, CString(name), body)
           t == Len(name)
           p == Len(body)
<1>1. /\ name \in Seq(Byte) /\ t \in Nat /\ p \in Nat /\ t + 1 + p <= MsgMax
      /\ \A i \in 1 .. t : name[i] # NUL
  BY DEF Strings, PublishFits
<1>2. /\ CString(name) \in Seq(Byte) /\ Len(CString(name)) = t + 1
      /\ \A i \in 1 .. t : CString(name)[i] = name[i]
      /\ CString(name)[t + 1] = NUL
  BY <1>1 DEF CString
<1>3. /\ bytes \in Seq(Byte) /\ Len(bytes) = t + 1 + p
      /\ \A i \in 1 .. t : bytes[i] = name[i]
      /\ bytes[t + 1] = NUL
      /\ \A i \in 1 .. p : bytes[t + 1 + i] = body[i]
  BY <1>1, <1>2
<1> DEFINE laid == [i \in 1 .. MsgMax |-> IF i \in DOMAIN bytes THEN bytes[i] ELSE NUL]
           read == [i \in 1 .. MsgMax |-> IF i <= t + 1 + p THEN laid[i] ELSE buffer[i]]
<1>4. sent = [cmd |-> cmd, code |-> code, paylen |-> p, data |-> laid]
  BY DEF Layout
<1> HIDE DEF bytes, t, p
<1>5. laid \in Buffers(Byte) /\ \A i \in 1 .. t + 1 + p : laid[i] = bytes[i]
  <2>1. DOMAIN bytes = 1 .. t + 1 + p /\ \A i \in DOMAIN bytes : bytes[i] \in Byte
    BY <1>3, <1>1
  <2>2. \A i \in 1 .. MsgMax : (IF i \in DOMAIN bytes THEN bytes[i] ELSE NUL) \in Byte
    BY <2>1
  <2>3. \A i \in 1 .. t + 1 + p : i \in 1 .. MsgMax
    BY <1>1, WireAssumption
  <2> QED
    BY <2>1, <2>2, <2>3 DEF Buffers
<1> HIDE DEF laid
<1>6. StrLen(laid) = t
  <2>1. t < MsgMax /\ t + 1 \in 1 .. t + 1 + p /\ \A i \in 1 .. t : i \in 1 .. t + 1 + p
    BY <1>1, WireAssumption
  <2>2. laid[t + 1] = NUL /\ \A i \in 1 .. t : laid[i] # NUL
    BY <2>1, <1>1, <1>3, <1>5
  <2> QED
    BY <2>1, <2>2, <1>1, <1>5, StrLenIs
<1>7. SentBytes(sent) = t + 1 + p
  BY <1>1, <1>4, <1>6 DEF SentBytes
<1> HIDE DEF sent
<1>8. m.cmd = cmd /\ m.paylen = p /\ m.data = read
  <2>0. sent.data = laid
    BY <1>4
  <2>1. m = [sent EXCEPT !.data = read]
    <3>1. m = Received(sent, buffer)
      BY DEF sent
    <3>2. Received(sent, buffer) =
            [sent EXCEPT !.data = [i \in 1 .. MsgMax |-> IF i <= SentBytes(sent) THEN sent.data[i] ELSE buffer[i]]]
      BY DEF Received
    <3> QED
      BY <3>1, <3>2, <2>0, <1>7, Zenon
  <2> HIDE DEF read
  <2> QED
    BY <2>1, <1>4
<1>9. m.data \in Buffers(Byte) /\ \A i \in 1 .. t + 1 + p : m.data[i] = bytes[i]
  <2>1. \A i \in 1 .. MsgMax : (IF i <= t + 1 + p THEN laid[i] ELSE buffer[i]) \in Byte
    BY <1>5 DEF Buffers
  <2>2. \A i \in 1 .. t + 1 + p : i \in 1 .. MsgMax /\ i <= t + 1 + p
    BY <1>1, WireAssumption
  <2>3. read \in Buffers(Byte) /\ \A i \in 1 .. t + 1 + p : read[i] = laid[i]
    BY <2>1, <2>2 DEF Buffers
  <2> QED
    BY <2>3, <1>5, <1>8
<1> HIDE DEF read
<1>10. StrLen(m.data) = t
  <2>1. t < MsgMax /\ t + 1 \in 1 .. t + 1 + p /\ \A i \in 1 .. t : i \in 1 .. t + 1 + p
    BY <1>1, WireAssumption
  <2>2. m.data[t + 1] = NUL /\ \A i \in 1 .. t : m.data[i] # NUL
    BY <2>1, <1>1, <1>3, <1>9
  <2> QED
    BY <2>1, <2>2, <1>1, <1>9, StrLenIs
<1>11. BrokerAccepts(m)
  BY <1>1, <1>8, <1>10, WireAssumption DEF BrokerAccepts
<1>12. Topic(m) = name
  <2>1. Topic(m) = [i \in 1 .. t |-> m.data[i]]
    BY <1>1, <1>9, <1>10 DEF Topic, Buffers
  <2>2. \A i \in 1 .. t : m.data[i] = name[i]
    BY <1>1, <1>3, <1>9
  <2> QED
    BY <1>1, <2>1, <2>2 DEF t
<1>13. Payload(m) = body
  <2>1. Payload(m) = SubSeq(m.data, t + 1 + 1, t + 1 + p)
    BY <1>8, <1>10 DEF Payload
  <2>2. SubSeq(m.data, t + 1 + 1, t + 1 + p) = [i \in 1 .. p |-> m.data[t + 1 + i]]
    BY <1>1, <1>9 DEF Buffers
  <2>3. \A i \in 1 .. p : m.data[t + 1 + i] = body[i]
    BY <1>1, <1>3, <1>9
  <2>4. body = [i \in 1 .. p |-> body[i]]
    BY DEF p
  <2> QED
    BY <2>1, <2>2, <2>3, <2>4
<1> QED
  BY <1>8, <1>9, <1>10, <1>11, <1>12, <1>13 DEF t, p

(***************************************************************************)
(* For every PSMQ_MSG_MAX, every topic and payload that psmq_publish lets  *)
(* through arrives at the broker and, forwarded, at a subscriber with      *)
(* anything in its buffer, byte for byte (psmq.c:130, broker.c:995-1011).  *)
(***************************************************************************)
THEOREM PublishesArrive ==
  ASSUME NEW Byte, NUL \in Byte, NEW fd, NEW name \in Strings(Byte), NEW body \in Seq(Byte),
         PublishOK(name, body), NEW buffer \in Buffers(Byte)
  PROVE  LET request == Received(PublishMsg(fd, name, body), Cleared)
             message == Received(Forwarded(request), buffer)
         IN  BrokerAccepts(request) /\ Topic(message) = name /\ Payload(message) = body
<1> DEFINE request == Received(PublishMsg(fd, name, body), Cleared)
           message == Received(Forwarded(request), buffer)
<1>1. Cleared \in Buffers(Byte)
  BY DEF Cleared, Buffers
<1>2. PublishFits(name, body)
  BY DEF PublishOK
<1>3. BrokerAccepts(request) /\ Topic(request) = name /\ Payload(request) = body
  BY <1>1, <1>2, TextLaidOut DEF PublishMsg
<1>4. Forwarded(request) = Layout("publish", 0, CString(name), body)
  BY <1>3 DEF Forwarded
<1>5. Topic(message) = name /\ Payload(message) = body
  BY <1>2, <1>4, TextLaidOut
<1> QED
  BY <1>3, <1>5

(***************************************************************************)
(* So does every subscription, and its acknowledgement has the topic in it *)
(* (psmq.c:695-702, broker.c:257-295, 513-533).                            *)
(***************************************************************************)
THEOREM SubscriptionsArrive ==
  ASSUME NEW Byte, NUL \in Byte, NEW fd, NEW name \in Strings(Byte), SubscribeOK(name),
         NEW buffer \in Buffers(Byte)
  PROVE  LET request == Received(SubscribeMsg(fd, name), Cleared)
             answer  == Received(SubscribeAck(request), buffer)
         IN  BrokerAccepts(request) /\ Topic(request) = name /\ Topic(answer) = name
<1> DEFINE request == Received(SubscribeMsg(fd, name), Cleared)
           answer  == Received(SubscribeAck(request), buffer)
           none    == <<>>
<1>1. Cleared \in Buffers(Byte)
  BY DEF Cleared, Buffers
<1>2. none \in Seq(Byte) /\ PublishFits(name, none)
  BY DEF SubscribeOK, PublishFits, Strings
<1>3. SubscribeMsg(fd, name) = Layout("subscribe", fd, CString(name), none)
  BY DEF SubscribeMsg
<1>4. SubscribeAck(request) = Layout("subscribe", 0, CString(Topic(request)), none)
  BY DEF SubscribeAck
<1> HIDE DEF none
<1>5. BrokerAccepts(request) /\ Topic(request) = name
  BY <1>1, <1>2, <1>3, TextLaidOut
<1>6. SubscribeAck(request) = Layout("subscribe", 0, CString(name), none)
  BY <1>5, <1>4
<1>7. Topic(answer) = name
  BY <1>2, <1>6, TextLaidOut
<1> QED
  BY <1>5, <1>7

\* Of a buffer with a NUL at its fourth place, the first three are all that counts.
LEMMA StrLenSmall ==
  ASSUME NEW Byte, NEW data \in Buffers(Byte), MsgMax >= 4, data[4] = NUL
  PROVE  StrLen(data) \in 0 .. 3
<1>1. CASE data[1] = NUL
  <2>1. StrLen(data) = 0
    BY <1>1, WireAssumption, StrLenIs
  <2> QED BY <2>1
<1>2. CASE data[1] # NUL /\ data[2] = NUL
  <2>1. StrLen(data) = 1
    BY <1>2, WireAssumption, StrLenIs
  <2> QED BY <2>1
<1>3. CASE data[1] # NUL /\ data[2] # NUL /\ data[3] = NUL
  <2>1. \A i \in 1 .. 2 : data[i] # NUL
    BY <1>3
  <2>2. StrLen(data) = 2
    BY <2>1, <1>3, WireAssumption, StrLenIs
  <2> QED BY <2>2
<1>4. CASE data[1] # NUL /\ data[2] # NUL /\ data[3] # NUL
  <2>1. \A i \in 1 .. 3 : data[i] # NUL
    BY <1>4
  <2>2. StrLen(data) = 3
    BY <2>1, WireAssumption, StrLenIs
  <2> QED BY <2>2
<1> QED
  BY <1>1, <1>2, <1>3, <1>4

\* Whatever was in its buffer, the receiver of an ioctl reads its timeout; the broker's checks
\* look for a topic in it, and find an end if the buffer was cleared.
LEMMA IoctlReceived ==
  ASSUME MsgMax >= 4, NEW Byte, NUL \in Byte, "REPLY_TIMEOUT" \in Byte, NEW fd,
         NEW a \in Byte, NEW b \in Byte, NEW buffer \in Buffers(Byte)
  PROVE  LET m == Received(IoctlMsg(fd, <<a, b>>), buffer)
         IN  /\ IoctlSets(m) /\ TimeoutOf(m) = <<a, b>>
             /\ MsgMax >= 7 /\ buffer[4] = NUL => BrokerAccepts(m)
<1> DEFINE m == Received(IoctlMsg(fd, <<a, b>>), buffer)
<1> DEFINE bytes == <<>> \o (<<"REPLY_TIMEOUT">> \o <<a, b>>)
           laid == [i \in 1 .. MsgMax |-> IF i \in DOMAIN bytes THEN bytes[i] ELSE NUL]
           sent == IoctlMsg(fd, <<a, b>>)
           read == [i \in 1 .. MsgMax |-> IF i <= SentBytes(sent) THEN sent.data[i] ELSE buffer[i]]
<1> DEFINE data == <<"REPLY_TIMEOUT">> \o <<a, b>>
<1>1. /\ data \in Seq(Byte) /\ Len(data) = 3
      /\ data[1] = "REPLY_TIMEOUT" /\ data[2] = a /\ data[3] = b
  <2>1. <<"REPLY_TIMEOUT">> \in Seq(Byte) /\ <<a, b>> \in Seq(Byte)
    OBVIOUS
  <2> QED BY <2>1
<1>2. sent = [cmd |-> "ioctl", code |-> fd, paylen |-> Len(data), data |-> laid]
  BY Zenon DEF IoctlMsg, Layout
<1> HIDE DEF data
<1>3. /\ bytes \in Seq(Byte) /\ Len(bytes) = 3 /\ DOMAIN bytes = 1 .. 3
      /\ bytes[1] = "REPLY_TIMEOUT" /\ bytes[2] = a /\ bytes[3] = b
  <2>1. bytes = data
    BY <1>1 DEF data
  <2> QED BY <1>1, <2>1
<1> HIDE DEF bytes
<1>4. /\ laid \in Buffers(Byte)
      /\ laid[1] = "REPLY_TIMEOUT" /\ laid[2] = a /\ laid[3] = b /\ laid[4] = NUL
  BY <1>3, WireAssumption DEF Buffers
<1> HIDE DEF laid, sent
<1>5. SentBytes(sent) = 3 /\ sent.data = laid
  BY <1>1, <1>2 DEF SentBytes
<1>6. /\ read \in Buffers(Byte)
      /\ read[1] = "REPLY_TIMEOUT" /\ read[2] = a /\ read[3] = b
      /\ buffer[4] = NUL => read[4] = NUL
  BY <1>4, <1>5, WireAssumption DEF Buffers
<1>7. m = [sent EXCEPT !.data = read]
  BY Zenon DEF Received, sent
<1> HIDE DEF read, m
<1>8. m.cmd = "ioctl" /\ m.paylen = 3 /\ m.data = read
  BY <1>1, <1>2, <1>7
<1>9. buffer[4] = NUL => StrLen(read) \in 0 .. 3
  BY <1>6, StrLenSmall, WireAssumption
<1>10. MsgMax >= 7 /\ buffer[4] = NUL => BrokerAccepts(m)
  BY <1>8, <1>9, WireAssumption DEF BrokerAccepts
<1>11. Payload(m) = <<"REPLY_TIMEOUT", a, b>>
  <2>1. Payload(m) = SubSeq(read, 1, 3)
    BY <1>8 DEF Payload
  <2>2. SubSeq(read, 1, 3) = [i \in 1 .. 3 |-> read[i]]
    BY <1>6, WireAssumption DEF Buffers
  <2>3. [i \in 1 .. 3 |-> read[i]] = <<read[1], read[2], read[3]>>
    OBVIOUS
  <2> QED
    BY <1>6, <2>1, <2>2, <2>3
<1>12. IoctlSets(m) /\ TimeoutOf(m) = <<a, b>>
  <2> DEFINE data3 == <<"REPLY_TIMEOUT", a, b>>
  <2>1. SubSeq(data3, 2, 3) = <<a, b>> /\ data3[1] = "REPLY_TIMEOUT"
    <3>1. data3 \in Seq(Byte) /\ Len(data3) = 3
      OBVIOUS
    <3>2. SubSeq(data3, 2, 3) = [i \in 1 .. 2 |-> data3[i + 1]]
      BY <3>1
    <3>3. [i \in 1 .. 2 |-> data3[i + 1]] = <<a, b>>
      OBVIOUS
    <3> QED BY <3>2, <3>3
  <2> QED BY <1>8, <1>11, <2>1 DEF IoctlSets, TimeoutOf
<1> QED
  BY <1>10, <1>12 DEF m

(***************************************************************************)
(* An ioctl has no topic, but the broker's checks look for one in its      *)
(* bytes.  With 7 bytes or more they let every reply timeout through, and  *)
(* the handler reads it (psmq.c:772-803, broker.c:992-1011, 807-836).  For *)
(* 6 bytes, which configure.ac:136 accepts, this is not so.                *)
(***************************************************************************)
THEOREM ReplyTimeoutsArrive ==
  ASSUME MsgMax >= 7, NEW Byte, NUL \in Byte, "REPLY_TIMEOUT" \in Byte, NEW fd,
         NEW a \in Byte, NEW b \in Byte
  PROVE  LET request == Received(IoctlMsg(fd, <<a, b>>), Cleared)
         IN  BrokerAccepts(request) /\ IoctlSets(request) /\ TimeoutOf(request) = <<a, b>>
<1>1. Cleared \in Buffers(Byte) /\ Cleared[4] = NUL /\ MsgMax >= 4
  BY WireAssumption DEF Cleared, Buffers
<1> QED
  BY <1>1, IoctlReceived

\* So does the answer to it, whatever was in the client's buffer.
LEMMA TimeoutAnswered ==
  ASSUME MsgMax >= 7, NEW Byte, NUL \in Byte, "REPLY_TIMEOUT" \in Byte, NEW fd,
         NEW a \in Byte, NEW b \in Byte, NEW buffer \in Buffers(Byte)
  PROVE  LET request == Received(IoctlMsg(fd, <<a, b>>), Cleared)
         IN  TimeoutOf(Received(IoctlAck(request), buffer)) = <<a, b>>
<1> DEFINE r == Received(IoctlMsg(fd, <<a, b>>), Cleared)
<1>1. TimeoutOf(r) = <<a, b>>
  BY ReplyTimeoutsArrive
<1>2. IoctlAck(r) = IoctlMsg(0, <<a, b>>)
  BY <1>1, Zenon DEF IoctlAck, IoctlMsg
<1>3. MsgMax >= 4
  BY WireAssumption
<1>4. TimeoutOf(Received(IoctlMsg(0, <<a, b>>), buffer)) = <<a, b>>
  BY <1>3, IoctlReceived
<1> QED
  BY <1>2, <1>4

(***************************************************************************)
(* The slot in the answer to OPEN arrives, also slot 0, whose byte is NUL  *)
(* and is no part of what strlen counts (broker.c:442-452).                *)
(***************************************************************************)
THEOREM SlotsArrive ==
  ASSUME MsgMax >= 2, NEW Byte, NUL \in Byte, NEW slot \in Byte, NEW buffer \in Buffers(Byte)
  PROVE  SlotGiven(Received(Welcome(slot), buffer)) = <<slot>>
<1> DEFINE bytes == <<>> \o <<slot>>
           laid == [i \in 1 .. MsgMax |-> IF i \in DOMAIN bytes THEN bytes[i] ELSE NUL]
           sent == Welcome(slot)
           read == [i \in 1 .. MsgMax |-> IF i <= SentBytes(sent) THEN sent.data[i] ELSE buffer[i]]
<1>1. bytes = <<slot>> /\ DOMAIN bytes = {1} /\ {1, 2} \subseteq 1 .. MsgMax
  BY WireAssumption
<1>2. laid \in Buffers(Byte) /\ laid[1] = slot /\ laid[2] = NUL
  BY <1>1 DEF Buffers
<1>3. sent = [cmd |-> "open", code |-> 0, paylen |-> 1, data |-> laid]
  <2>1. Len(<<slot>>) = 1
    OBVIOUS
  <2> QED
    BY <2>1, Zenon DEF Welcome, Layout
<1> HIDE DEF sent, laid, bytes
<1>4. StrLen(laid) \in {0, 1}
  <2>1. CASE slot = NUL
    BY <1>2, <2>1, StrLenIs, WireAssumption
  <2>2. CASE slot # NUL
    BY <1>2, <2>2, StrLenIs, WireAssumption
  <2> QED
    BY <2>1, <2>2
<1>5. SentBytes(sent) >= 1 /\ sent.data = laid
  BY <1>3, <1>4 DEF SentBytes
<1>6. read[1] = slot
  BY <1>1, <1>2, <1>5
<1>7. Received(sent, buffer) = [sent EXCEPT !.data = read]
  BY Zenon DEF Received
<1> HIDE DEF read
<1>8. Received(sent, buffer).paylen = 1 /\ Received(sent, buffer).data[1] = slot
  BY <1>3, <1>6, <1>7
<1> QED
  BY <1>8 DEF SlotGiven, sent
-----------------------------------------------------------------------------
(* What psmq-sub shows.                                                    *)

\* A payload is text, to psmq-sub, exactly if it is a line with at least one character.
LEMMA TextIsLine ==
  ASSUME NEW Byte, NEW body \in Seq(Byte)
  PROVE  IsPayloadBinary(body) <=> ~IsLine(body)
<1>1. Len(body) \in Nat /\ DOMAIN body = 1 .. Len(body)
  OBVIOUS
<1>2. CASE Len(body) <= 1
  BY <1>1, <1>2 DEF IsPayloadBinary, IsLine
<1>3. CASE Len(body) >= 2
  <2>0. PICK n \in Nat : n = Len(body)
    BY <1>1
  <2>1. n >= 2 /\ n \in 1 .. n /\ \A i \in 1 .. n : i # n <=> i \in 1 .. n - 1
    BY <1>3, <2>0
  <2>2. IsLine(body) <=> \A i \in 1 .. n : body[i] = NUL <=> i = n
    BY <1>1, <2>0, <2>1 DEF IsLine
  <2>3. IsPayloadBinary(body) <=> (\E i \in 1 .. n - 1 : body[i] = NUL) \/ body[n] # NUL
    BY <2>0, <2>1 DEF IsPayloadBinary, Printable
  <2>4. 1 .. n - 1 \subseteq 1 .. n
    BY <2>1
  <2> QED
    BY <2>1, <2>2, <2>3, <2>4
<1> QED
  BY <1>1, <1>2, <1>3

\* printf finds the text of a line, and its end, behind the topic.
LEMMA LineIsString ==
  ASSUME NEW Byte, NEW m, m.data \in Buffers(Byte), NEW n \in Nat, StrLen(m.data) = n,
         NEW body \in Seq(Byte), IsLine(body), n + 1 + Len(body) <= MsgMax,
         SubSeq(m.data, n + 1 + 1, n + 1 + Len(body)) = body
  PROVE  AsString(m) = SubSeq(body, 1, Len(body) - 1)
<1> DEFINE p == Len(body)
           data == m.data
           rest == SubSeq(data, n + 2, MsgMax)
           k == MsgMax - (n + 1)
<1>1. /\ p \in Nat /\ p >= 2 /\ k \in Nat /\ p <= k /\ MsgMax \in Nat
      /\ \A i \in 1 .. p : body[i] = NUL <=> i = p
  BY WireAssumption DEF IsLine
<1>2. rest = [i \in 1 .. k |-> data[n + 1 + i]]
  BY <1>1 DEF Buffers
<1>3. body = [i \in 1 .. p |-> data[n + 1 + i]]
  <2>1. n + 1 + 1 = n + 2 /\ n + 1 + p \in Nat /\ n + 1 + p <= MsgMax
    BY <1>1
  <2>2. body = SubSeq(data, n + 2, n + 1 + p)
    BY <2>1
  <2>3. SubSeq(data, n + 2, n + 1 + p) = [i \in 1 .. p |-> data[n + 1 + i]]
    BY <1>1, <2>1 DEF Buffers
  <2> QED
    BY <2>2, <2>3, Zenon
<1>4. AsString(m) = SubSeq(rest, 1, StrLen(rest))
  <2>1. n + 1 + 1 = n + 2
    OBVIOUS
  <2> QED
    BY <2>1 DEF AsString
<1> HIDE DEF rest, k, p
<1>5. DOMAIN rest = 1 .. k /\ \A i \in 1 .. p : rest[i] = body[i]
  BY <1>1, <1>2, <1>3
<1>6. StrLen(rest) = p - 1
  <2>1. p - 1 \in Nat /\ p - 1 < k /\ p - 1 + 1 = p /\ p \in 1 .. p
        /\ \A i \in 1 .. p - 1 : i \in 1 .. p /\ i # p
    BY <1>1
  <2>2. rest[p - 1 + 1] = NUL /\ \A i \in 1 .. p - 1 : rest[i] # NUL
    BY <1>1, <1>5, <2>1
  <2> QED
    BY <1>1, <1>5, <2>1, <2>2, StrLenOf
<1>7. SubSeq(rest, 1, p - 1) = [i \in 1 .. p - 1 |-> rest[i]]
  BY <1>1, <1>2
<1>8. SubSeq(body, 1, p - 1) = [i \in 1 .. p - 1 |-> body[i]]
  BY <1>1 DEF p
<1>9. \A i \in 1 .. p - 1 : rest[i] = body[i]
  BY <1>1, <1>5
<1> QED
  BY <1>4, <1>6, <1>7, <1>8, <1>9 DEF p

(***************************************************************************)
(* psmq-sub shows every payload as it was published, whatever its buffer   *)
(* holds behind it; a line without the NUL that ends it (psmq-sub.c:108-142,*)
(* 175-203).                                                               *)
(***************************************************************************)
THEOREM PublishesShown ==
  ASSUME NEW Byte, NUL \in Byte, NEW fd, NEW name \in Strings(Byte), NEW body \in Seq(Byte),
         PublishOK(name, body), NEW buffer \in Buffers(Byte)
  PROVE  LET o == OnReceive(Received(Forwarded(Received(PublishMsg(fd, name, body), Cleared)), buffer))
         IN  /\ o.topic = name /\ o.len = Len(o.shown)
             /\ o.shown = IF IsLine(body) THEN SubSeq(body, 1, Len(body) - 1) ELSE body
<1> DEFINE request == Received(PublishMsg(fd, name, body), Cleared)
           sent    == Layout("publish", 0, CString(name), body)
           m       == Received(sent, buffer)
           text    == SubSeq(body, 1, Len(body) - 1)
<1>1. Cleared \in Buffers(Byte) /\ PublishFits(name, body)
  BY DEF Cleared, Buffers, PublishOK
<1>2. Topic(request) = name /\ Payload(request) = body
  BY <1>1, TextLaidOut DEF PublishMsg
<1>3. Forwarded(request) = sent
  BY <1>2 DEF Forwarded
<1>4. /\ m.cmd = "publish" /\ m.data \in Buffers(Byte) /\ StrLen(m.data) = Len(name)
      /\ m.paylen = Len(body) /\ Topic(m) = name /\ Payload(m) = body
  BY <1>1, TextLaidOut
<1> HIDE DEF sent, request, m
<1>5. CASE IsLine(body)
  <2>1. Payload(m) = SubSeq(m.data, Len(name) + 1 + 1, Len(name) + 1 + Len(body))
    BY <1>4 DEF Payload
  <2>2. Len(name) \in Nat /\ Len(name) + 1 + Len(body) <= MsgMax /\ Len(body) \in Nat
    BY <1>1 DEF PublishFits, Strings
  <2>3. AsString(m) = text
    BY <1>4, <1>5, <2>1, <2>2, LineIsString, Zenon
  <2>4. OnReceive(m) = [topic |-> name, len |-> Len(body) - 1, shown |-> text]
    BY <1>4, <1>5, <2>3, TextIsLine DEF OnReceive
  <2>5. Len(text) = Len(body) - 1
    BY <1>5, <2>2 DEF IsLine
  <2> HIDE DEF text
  <2> QED
    BY <1>3, <1>5, <2>4, <2>5 DEF m, request, text
<1>6. CASE ~IsLine(body)
  <2>1. OnReceive(m) = [topic |-> name, len |-> Len(body), shown |-> body]
    BY <1>4, <1>6, TextIsLine DEF OnReceive
  <2> QED
    BY <1>3, <1>6, <2>1 DEF m, request
<1> QED
  BY <1>5, <1>6
-----------------------------------------------------------------------------
(* The properties of MCMessages, whatever the bounds on the lengths.       *)

\* The bytes that MCMessages tells apart, all it sends and finds in a buffer.
Chars == {NUL, "/", "a", "x", "z", "REPLY_TIMEOUT"}

\* A topic is a string; a payload is any bytes.
Sent == topic \in Strings(Chars) /\ payload \in Seq(Chars)

\* It is so at first.
LEMMA SentInit == MInit => Sent
BY DEF MInit, Sent, Strings

\* It stays so: no step puts a NUL into a topic.
LEMMA SentStep == Sent /\ [MNext]_mvars => Sent'
<1> SUFFICES ASSUME Sent, [MNext]_mvars
             PROVE  Sent'
  OBVIOUS
<1>1. CASE GrowParts \/ GrowInput \/ UNCHANGED mvars
  <2>1. topic' = topic /\ payload' = payload
    BY <1>1 DEF GrowParts, GrowInput, mvars
  <2> QED
    BY <2>1 DEF Sent
<1>2. CASE GrowTopic
  <2>1. PICK b \in {"/", "a"} : topic' = Append(topic, b)
    BY <1>2 DEF GrowTopic
  <2>2. payload' = payload
    BY <1>2 DEF GrowTopic
  <2>3. topic \in Seq(Chars) /\ b \in Chars /\ b # NUL /\ \A i \in 1 .. Len(topic) : topic[i] # NUL
    BY DEF Sent, Strings, Chars, NUL
  <2>4. Append(topic, b) \in Seq(Chars) /\ Len(Append(topic, b)) = Len(topic) + 1
        /\ \A i \in 1 .. Len(topic) + 1 : Append(topic, b)[i] = IF i = Len(topic) + 1 THEN b ELSE topic[i]
    BY <2>3
  <2>5. \A i \in 1 .. Len(topic) + 1 : i = Len(topic) + 1 \/ i \in 1 .. Len(topic)
    BY <2>3
  <2>6. Append(topic, b) \in Strings(Chars)
    BY <2>3, <2>4, <2>5 DEF Strings
  <2> QED
    BY <2>1, <2>2, <2>6 DEF Sent
<1>3. CASE GrowPayload
  <2>1. PICK b \in {NUL, "x"} : payload' = Append(payload, b)
    BY <1>3 DEF GrowPayload
  <2>2. topic' = topic /\ b \in Chars
    BY <1>3 DEF GrowPayload, Chars
  <2> QED
    BY <2>1, <2>2 DEF Sent
<1> QED
  BY <1>1, <1>2, <1>3 DEF MNext

\* What a receiver's buffer holds is bytes as well.
LEMMA BuffersHoldChars == NUL \in Chars /\ "REPLY_TIMEOUT" \in Chars /\ Stale \in Buffers(Chars)
BY DEF Chars, Buffers, Stale

(***************************************************************************)
(* Every publish that the library accepts arrives, whatever the lengths of *)
(* topic and payload (psmq-common.h:62, broker.c:995-1011).                *)
(***************************************************************************)
THEOREM PublishAlwaysArrives == MSpec => []PublishArrives
<1>1. ASSUME Sent, PublishOK(topic, payload)
      PROVE  LET request == Received(PublishMsg(0, topic, payload), Cleared)
                 message == Received(Forwarded(request), Stale)
             IN  BrokerAccepts(request) /\ Topic(message) = topic /\ Payload(message) = payload
  <2>1. topic \in Strings(Chars) /\ payload \in Seq(Chars)
    BY <1>1 DEF Sent
  <2> QED
    BY <1>1, <2>1, PublishesArrive, BuffersHoldChars
<1>2. Sent => PublishArrives
  BY <1>1, Zenon DEF PublishArrives, AtBroker, AtClient
<1> QED
  BY <1>2, SentInit, SentStep, PTL DEF MSpec

(***************************************************************************)
(* So does every subscription, reply timeout and slot, if PSMQ_MSG_MAX is  *)
(* at least 7: the broker's checks look for a topic among the three bytes  *)
(* of an ioctl and want room for as many behind it (broker.c:995-1011).    *)
(***************************************************************************)
THEOREM RequestsAlwaysArrive ==
  ASSUME MsgMax >= 7
  PROVE  MSpec => []RequestsArrive
<1>1. ASSUME Sent, SubscribeOK(topic)
      PROVE  LET request == AtBroker(SubscribeMsg(0, topic))
             IN  BrokerAccepts(request) /\ Topic(AtClient(SubscribeAck(request))) = topic
  <2>1. topic \in Strings(Chars)
    BY <1>1 DEF Sent
  <2> QED
    BY <1>1, <2>1, SubscriptionsArrive, BuffersHoldChars DEF AtBroker, AtClient
<1>2. ASSUME NEW timeout \in {NUL, "x"} \X {NUL, "x"}
      PROVE  LET request == AtBroker(IoctlMsg(0, timeout))
             IN  /\ BrokerAccepts(request) /\ IoctlSets(request)
                 /\ TimeoutOf(AtClient(IoctlAck(request))) = timeout
  <2>1. PICK a \in {NUL, "x"}, b \in {NUL, "x"} : timeout = <<a, b>>
    OBVIOUS
  <2>2. a \in Chars /\ b \in Chars
    BY DEF Chars
  <2>3. LET request == Received(IoctlMsg(0, <<a, b>>), Cleared)
        IN  BrokerAccepts(request) /\ IoctlSets(request)
    BY <2>2, ReplyTimeoutsArrive, BuffersHoldChars, Zenon
  <2>4. LET request == Received(IoctlMsg(0, <<a, b>>), Cleared)
        IN  TimeoutOf(Received(IoctlAck(request), Stale)) = <<a, b>>
    BY <2>2, TimeoutAnswered, BuffersHoldChars
  <2> QED
    BY <2>1, <2>3, <2>4, Zenon DEF AtBroker, AtClient
<1>3. ASSUME NEW slot \in {NUL, "x"}
      PROVE  SlotGiven(AtClient(Welcome(slot))) = <<slot>>
  <2>1. slot \in Chars /\ MsgMax >= 2
    BY WireAssumption DEF Chars
  <2> QED
    BY <2>1, SlotsArrive, BuffersHoldChars, Zenon DEF AtClient
<1>4. Sent => RequestsArrive
  BY <1>1, <1>2, <1>3, Zenon DEF RequestsArrive
<1> QED
  BY <1>4, SentInit, SentStep, PTL DEF MSpec

(***************************************************************************)
(* psmq-sub always shows what was published, a line without its NUL        *)
(* (psmq-sub.c:108-142, 175-203).                                          *)
(***************************************************************************)
THEOREM AlwaysPrintedAsSent == MSpec => []PrintedAsSent
<1>1. ASSUME Sent, PublishOK(topic, payload)
      PROVE  LET o == OnReceive(Received(Forwarded(Received(PublishMsg(0, topic, payload), Cleared)), Stale))
             IN  /\ o.topic = topic /\ o.len = Len(o.shown)
                 /\ o.shown = IF IsLine(payload) THEN SubSeq(payload, 1, Len(payload) - 1) ELSE payload
  <2>1. topic \in Strings(Chars) /\ payload \in Seq(Chars)
    BY <1>1 DEF Sent
  <2> QED
    BY <1>1, <2>1, PublishesShown, BuffersHoldChars
<1>2. Sent => PrintedAsSent
  BY <1>1, Zenon DEF PrintedAsSent, AtBroker, AtClient
<1> QED
  BY <1>2, SentInit, SentStep, PTL DEF MSpec
-----------------------------------------------------------------------------
(* Deadlines.                                                              *)

(***************************************************************************)
(* The deadline of a positive timeout is exactly so many milliseconds away *)
(* and never one that mq_timedsend refuses with EINVAL, which the broker   *)
(* would count as a missed publish (utils.c:67-80, broker.c:293-294).      *)
(***************************************************************************)
THEOREM DeadlineIsExact ==
  ASSUME NEW now \in Timespecs, NEW ms \in Nat, ms # 0
  PROVE  /\ MsToTp(ms, now) \in Timespecs
         /\ Moment(MsToTp(ms, now)) = Moment(now) + ms * NsecPerMs
PROOF
<1> DEFINE s == ms \div 1000
           r == ms % 1000
           nsec == now.tv_nsec + r * 1000000
<1>1. s \in Nat /\ r \in 0 .. 999 /\ ms = s * 1000 + r
  BY SMT
<1>2. now.tv_sec \in Nat /\ now.tv_nsec \in {n \in Nat : n < 1000000000}
  BY SMT DEF Timespecs, NsecPerSec
<1>3. nsec \in Nat /\ nsec < 2 * 1000000000
  BY SMT, <1>1, <1>2
<1>4. CASE nsec >= 1000000000
  <2>1. MsToTp(ms, now) = [tv_sec |-> now.tv_sec + s + 1, tv_nsec |-> nsec - 1000000000]
    BY SMT, <1>4 DEF MsToTp, NsecPerSec, NsecPerMs
  <2>2. nsec - 1000000000 \in {n \in Nat : n < 1000000000}
    BY SMT, <1>3, <1>4
  <2>3. MsToTp(ms, now) \in Timespecs
    BY SMT, <1>1, <1>2, <2>1, <2>2 DEF Timespecs, NsecPerSec
  <2>4. Moment(MsToTp(ms, now))
          = (now.tv_sec + s + 1) * 1000000000 + (nsec - 1000000000)
    BY SMT, <2>1 DEF Moment, NsecPerSec
  <2>5. Moment(now) = now.tv_sec * 1000000000 + now.tv_nsec
    BY SMT DEF Moment, NsecPerSec
  <2>. QED
    BY SMT, <1>1, <1>2, <2>3, <2>4, <2>5 DEF NsecPerMs
<1>5. CASE nsec < 1000000000
  <2>1. MsToTp(ms, now) = [tv_sec |-> now.tv_sec + s, tv_nsec |-> nsec]
    BY SMT, <1>3, <1>5 DEF MsToTp, NsecPerSec, NsecPerMs
  <2>2. MsToTp(ms, now) \in Timespecs
    BY SMT, <1>1, <1>2, <1>3, <1>5, <2>1 DEF Timespecs, NsecPerSec
  <2>. QED
    BY SMT, <1>1, <1>2, <2>1, <2>2 DEF Moment, NsecPerSec, NsecPerMs
<1>. QED
  BY SMT, <1>3, <1>4, <1>5

(***************************************************************************)
(* A timeout of zero is no wait: its deadline is never ahead of the clock  *)
(* (utils.c:62-65), so a client without a reply timeout cannot hold up the *)
(* broker, whatever time it is.                                            *)
(***************************************************************************)
THEOREM ZeroNeverWaits ==
  ASSUME NEW now \in Timespecs
  PROVE  MsToTp(0, now) \in Timespecs /\ Moment(MsToTp(0, now)) <= Moment(now)
PROOF
<1>1. now.tv_sec \in Nat /\ now.tv_nsec \in Nat
  BY SMT DEF Timespecs, NsecPerSec
<1>2. MsToTp(0, now) = [tv_sec |-> 0, tv_nsec |-> 0]
  BY SMT DEF MsToTp
<1>. QED
  BY SMT, <1>1, <1>2 DEF Timespecs, Moment, NsecPerSec
=============================================================================
