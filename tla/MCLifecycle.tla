---------------------------- MODULE MCLifecycle ----------------------------
(***************************************************************************)
(* Instances of Lifecycle: an int of at most 20, a system that lets queues *)
(* have 10 messages, and command lines that start a broker, fail to, or do *)
(* not mean to.                                                            *)
(***************************************************************************)
EXTENDS Lifecycle, TLC

Opt(o)        == [opt |-> o]
Num(o, n)     == [opt |-> o, num |-> n, whole |-> TRUE]
NotANumber(o) == [opt |-> o, num |-> 1, whole |-> FALSE]
Broker(n)     == [opt |-> "b", name |-> n]

\* A plain start, another name, -r, a queue the system refuses, a mistake that comes first.
AllArgs ==
  {<<Num("l", 7)>>, <<Opt("c"), Broker("/q")>>, <<Opt("r"), Num("m", 10)>>, <<Num("m", 20)>>,
   <<NotANumber("m"), Opt("v")>>}
OneArgs == {<<>>}
Names   == {"/psmqd", "/q"}

\* Nothing is left behind by earlier programs, or one queue is.
LeftDef  == {{}, {0}}
NoneLeft == {{}}

\* A daemon is like another, and so is a session.
Symmetry == Permutations(Daemons) \cup Permutations(Sessions)
============================================================================
