------------------------------ MODULE PubStdin ------------------------------
(***************************************************************************)
(* What psmq-pub publishes of its standard input (psmq-pub.c): a message   *)
(* per line, or with -B a message per read.                                *)
(*                                                                         *)
(* The indices into its line buffer are in range only for topics that      *)
(* leave two bytes for a line, and for text: input read by line has no     *)
(* NUL.  Both are assumed here.                                            *)
(***************************************************************************)
EXTENDS WireFormat

NL == "NL"

\* Mutant of LineMax: the topic's NUL is forgotten.
LineMaxNoNul(topic) == MsgMax - Len(topic)

\* What is left of PSMQ_MSG_MAX when the topic and its NUL are in.
LineMax(topic) == MsgMax - (Len(topic) + 1)

\* fgets(line, linemax, stdin) from the i-th byte of the input on.
Fgets(input, i, linemax) ==
  LET ends == {j \in i .. Len(input) : input[j] = NL \/ j = Len(input) \/ j = i + linemax - 2}
  IN  SubSeq(input, i, CHOOSE j \in ends : \A k \in ends : j <= k)

\* Mutant of TooLong: a full buffer is too long, also one that ends in a newline.
TooLongWhenFull(line, linemax) == Len(line) = linemax - 1

\* fgets filled the buffer, its NUL overwrote the mark, and no newline is before it.
TooLong(line, linemax) == Len(line) = linemax - 1 /\ line[Len(line)] # NL

\* The payload made of a line: its last byte, whatever it is, becomes the NUL.
LinePayload(line) == [line EXCEPT ![Len(line)] = NUL]

\* send_stdin: the payloads published, until the input ends or a line does not fit.
SendStdin(topic, input) ==
  LET linemax == LineMax(topic)
      from[i \in 1 .. Len(input) + 1] ==
        IF i > Len(input) THEN <<>>
        ELSE LET line == Fgets(input, i, linemax)
             IN  IF TooLong(line, linemax) THEN <<>>
                 ELSE <<LinePayload(line)>> \o from[i + Len(line)]
  IN  from[1]

\* How many bytes one read() of send_stdin_binary may return when `left' are left.
ReadSizes(topic, left) == 1 .. (IF left < LineMax(topic) THEN left ELSE LineMax(topic))

\* send_stdin_binary: the payloads it may publish, one per read.
SendBinary(topic, input) ==
  LET from[i \in 1 .. Len(input) + 1] ==
        IF i > Len(input) THEN {<<>>}
        ELSE UNION {{<<SubSeq(input, i, i + n - 1)>> \o sent : sent \in from[i + n]} :
                      n \in ReadSizes(topic, Len(input) + 1 - i)}
  IN  from[1]
=============================================================================
