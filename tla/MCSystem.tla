------------------------------ MODULE MCSystem ------------------------------
(***************************************************************************)
(* Small instances of System: the clients make the calls a cfg names.      *)
(***************************************************************************)
EXTENDS System, TLC

Match == INSTANCE TopicMatch

PartsOf == ("/a" :> <<"a">>) @@ ("/b" :> <<"b">>)
Pairs   == {p \in {"/a"} \X DOMAIN PartsOf : Match!TopicMatches(PartsOf[p[1]], PartsOf[p[2]])}

Symmetry == Permutations(Queues) \cup Permutations(Names)
=============================================================================
