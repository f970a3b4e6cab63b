------------------------------ MODULE SubPrint ------------------------------
(***************************************************************************)
(* What psmq-sub makes of a publish (psmq-sub.c): a dump of the payload,   *)
(* or the payload as a string, which printf ends at the first NUL.         *)
(***************************************************************************)
EXTENDS WireFormat

\* isprint or isspace: of the bytes told apart here, all but NUL.
Printable(b) == b # NUL

\* Mutant of IsPayloadBinary: printable bytes are text, whatever comes last.
IsPayloadBinaryNoEnd(payload) ==
  \/ Len(payload) <= 1
  \/ \E i \in 1 .. Len(payload) - 1 : ~Printable(payload[i])

\* A single byte counts as binary, and so does text that does not end in NUL.
IsPayloadBinary(payload) ==
  \/ Len(payload) <= 1
  \/ \E i \in 1 .. Len(payload) - 1 : ~Printable(payload[i])
  \/ payload[Len(payload)] # NUL

\* %s of the payload, which knows nothing of paylen.
AsString(m) ==
  LET from == StrLen(m.data) + 1
      rest == SubSeq(m.data, from + 1, MsgMax)
  IN  SubSeq(rest, 1, StrLen(rest))

\* on_receive, case PSMQ_CTRL_CMD_PUBLISH; the length printed is that of what is shown.
OnReceive(m) ==
  IF IsPayloadBinary(Payload(m))
  THEN [topic |-> Topic(m), len |-> m.paylen, shown |-> Payload(m)]
  ELSE [topic |-> Topic(m), len |-> m.paylen - 1, shown |-> AsString(m)]
=============================================================================
