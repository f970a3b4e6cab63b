----------------------------- MODULE MCPrograms -----------------------------
(***************************************************************************)
(* Small instances of Programs: a psmq-sub with overlapping topics, and a  *)
(* psmq-pub that is run once for each of two messages.                     *)
(***************************************************************************)
EXTENDS Programs, TLC

Match == INSTANCE TopicMatch

PartsOf == ("/a" :> <<"a">>) @@ ("/b" :> <<"b">>) @@ ("/+" :> <<"+">>)
Pairs   == {p \in {"/a", "/b"} \X DOMAIN PartsOf : Match!TopicMatches(PartsOf[p[1]], PartsOf[p[2]])}

T(topic) == [opt |-> "t", arg |-> topic]
B        == [opt |-> "b", arg |-> "/psmqd"]
O        == [opt |-> "o", arg |-> "log"]
H        == [opt |-> "h", arg |-> "none"]

\* One subscription or two; every way to leave main() early.
OneTopic  == {<<T("/+")>>}
AnyLine   == {<<B, T("/+"), T("/a")>>, <<B, B, O>>, <<T("/a"), H>>, <<O>>}

OneMessage == << <<"/a", 0>> >>

Symmetry == Permutations(Queues)
=============================================================================
