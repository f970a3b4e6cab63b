--------------------------- MODULE ServiceProofs ---------------------------
(***************************************************************************)
(* Proofs about psmqd_broker_publish, and about Broker as a service.       *)
(* Nobody gets a publish twice and nobody who wants it is passed over,     *)
(* with other processes and evictions in between; and every step of the    *)
(* program is a step of PubSub or changes nothing a client of that service *)
(* sees: for any number of clients, topics and queue places.               *)
(***************************************************************************)
EXTENDS BrokerProofs, BrokerPubSub, SequenceTheorems


Matched(s) == \E i \in DOMAIN clients[s].topics : Matches(s, i)

\* Only slots the scan has left behind have got the publish; at a hit, the topic matches.
FanOut ==
  /\ ~Publishing => copies = NoCopies
  /\ \A s \in Slots : copies[s] > 0 => s < cur
  /\ pc = "deliver" => node \in DOMAIN clients[cur].topics /\ Matches(cur, node)

\* Slots and topics the scan has left behind are served, if they match.
Passed ==
  Publishing =>
    /\ \A s \in Slots : s < cur /\ InUse(s) /\ Matched(s) => copies[s] = 1 \/ s \in lost
    /\ pc \in {"scan", "deliver"} /\ cur \in Slots
         => \A i \in DOMAIN clients[cur].topics : i < node /\ Matches(cur, i) => cur \in lost

FanInv == FanOut /\ PublishedOnce /\ Passed
-----------------------------------------------------------------------------
\* With no publish in service there is nothing to say.
LEMMA QuietStep ==
  ASSUME ~Publishing', copies' = NoCopies
  PROVE  FanInv'
BY DEF FanInv, FanOut, PublishedOnce, Passed, NoCopies, Publishing

\* The fan-out depends on nothing but these variables.
LEMMA SameStep ==
  ASSUME FanInv, UNCHANGED <<clients, pc, ret, msg, cur, node, copies, lost>>
  PROVE  FanInv'
BY DEF FanInv, FanOut, PublishedOnce, Passed, Publishing, Matches, InUse, Queue, Matched

\* Steps of the broker that begin and end with no publish in service.
Quiet ==
  \/ CheckShutdown \/ Receive \/ ReceiveTimesOut \/ OpenFails \/ Open \/ OpenRefused
  \/ OpenWelcomed \/ OpenUndone \/ Answers \/ ReplySent \/ ReplyLost \/ Close
  \/ CleanupSlot \/ CleanupDone

\* The steps listed in Quiet start and finish with no publish in service.
LEMMA QuietIsQuiet ==
  ASSUME TypeOK, Control, FanOut, Quiet
  PROVE  ~Publishing' /\ copies' = NoCopies
<1> USE DEF Publishing, FanOut, Control, Commands
<1>1. CASE CheckShutdown \/ ReceiveTimesOut \/ CleanupDone
  BY <1>1 DEF CheckShutdown, ReceiveTimesOut, CleanupDone, aux
<1>2. CASE Receive
  BY <1>2 DEF Receive, aux
<1>3. CASE OpenFails \/ OpenRefused \/ OpenWelcomed \/ OpenUndone \/ ReplySent \/ ReplyLost
  BY <1>3 DEF OpenFails, OpenRefused, OpenWelcomed, OpenUndone, ReplySent, ReplyLost, BackToLoop,
     aux
<1>4. CASE Open
  BY <1>4 DEF Open, aux
<1>5. CASE Answers
  BY <1>5, AnswersAnswer DEF Answer, aux
<1>6. CASE Close \/ CleanupSlot
  BY <1>6 DEF Close, CleanupSlot, StartClose, aux
<1> QED
  BY <1>1, <1>2, <1>3, <1>4, <1>5, <1>6 DEF Quiet
-----------------------------------------------------------------------------
(* The steps of a publish.                                                 *)

\* A publish starts with nobody served and everything ahead of the scan.
LEMMA PublishStep ==
  ASSUME TypeOK, Publish
  PROVE  FanInv'
<1>1. cur' = 0 /\ node' = 1 /\ copies' = NoCopies /\ pc' = "scan"
  BY DEF Publish
<1>2. FanOut' /\ PublishedOnce'
  BY <1>1 DEF FanOut, PublishedOnce, Publishing, NoCopies
<1>3. Passed'
  <2>1. \A s \in Slots : ~(s < 0)
    BY DEF Slots
  <2>2. \A i \in DOMAIN clients'[0].topics : 0 \in Slots => ~(i < 1)
    BY DEF Publish, TypeOK, ClientsOK, ClientType
  <2> QED
    BY <1>1, <2>1, <2>2 DEF Passed
<1> QED
  BY <1>2, <1>3 DEF FanInv

\* A hit of the scan is a matching topic it has yet to reach, and there is no other kind.
LEMMA HitsAre ==
  ASSUME TypeOK, NEW s \in Slots, NEW i \in DOMAIN clients[s].topics,
         s >= cur, s = cur => i >= node, InUse(s), Matches(s, i)
  PROVE  <<s, i>> \in Hits
<1>1. s \in cur .. MaxClients - 1
  BY BrokerAssumption DEF Slots, TypeOK, PlaceOK
<1>2. i \in 1 .. MaxTopics
  BY BrokerAssumption DEF TypeOK, ClientsOK, ClientType
<1> QED
  BY <1>1, <1>2 DEF Hits

\* The scan leaves only topics behind that do not match, or ends with everybody served.
LEMMA ScanStep ==
  ASSUME TypeOK, Control, FanInv, ScanToHit
  PROVE  FanInv'
<1>1. PICK h \in Hits : (\A g \in Hits : Before(h, g)) /\ cur' = h[1] /\ node' = h[2]
  BY DEF ScanToHit
<1>2. /\ pc = "scan" /\ pc' = "deliver"
      /\ UNCHANGED <<clients, msg, copies, lost>>
  BY DEF ScanToHit, aux
<1>3. /\ cur' \in Slots /\ cur' >= cur /\ (cur' = cur => node' >= node)
      /\ node' \in DOMAIN clients[cur'].topics /\ Matches(cur', node')
  <2>1. /\ h[1] \in cur .. MaxClients - 1 /\ (h[1] = cur => h[2] >= node)
        /\ h[2] \in DOMAIN clients[h[1]].topics /\ Matches(h[1], h[2])
    BY DEF Hits
  <2>2. cur' \in Slots /\ cur' >= cur
    BY <1>1, <2>1, BrokerAssumption DEF Slots, TypeOK, PlaceOK
  <2> QED
    BY <1>1, <2>1, <2>2
<1>4. ASSUME NEW s \in Slots, NEW i \in DOMAIN clients[s].topics, InUse(s), Matches(s, i),
             s >= cur, s = cur => i >= node
      PROVE  cur' < s \/ (cur' = s /\ node' <= i)
  <2>1. <<s, i>> \in Hits
    BY <1>4, HitsAre
  <2>2. Before(h, <<s, i>>)
    BY <1>1, <2>1
  <2> QED
    BY <1>1, <2>2 DEF Before
<1>5. FanOut'
  <2>1. \A s \in Slots : copies[s] > 0 => s < cur'
    BY <1>3 DEF FanInv, FanOut, Slots, TypeOK, PlaceOK
  <2> QED
    BY <1>2, <1>3, <2>1 DEF FanOut, Publishing, Matches
<1>6. PublishedOnce'
  BY <1>2 DEF FanInv, PublishedOnce, Matches
<1>7. ASSUME NEW s \in Slots, s < cur', InUse(s), Matched(s) PROVE copies[s] = 1 \/ s \in lost
  <2>1. PICK i \in DOMAIN clients[s].topics : Matches(s, i)
    BY <1>7 DEF Matched
  <2>2. s \in Nat /\ cur \in Nat /\ node \in Nat /\ i \in Nat /\ cur' \in Nat
    BY <1>3 DEF Slots, TypeOK, PlaceOK, ClientsOK, ClientType
  <2>3. s < cur \/ (s = cur /\ i < node)
    BY <1>4, <1>7, <2>1, <2>2
  <2>4. CASE s < cur
    BY <1>2, <1>7, <2>4 DEF FanInv, Passed, Publishing
  <2>5. CASE s = cur /\ i < node
    BY <1>2, <2>1, <2>5 DEF FanInv, Passed, Publishing
  <2> QED
    BY <2>3, <2>4, <2>5
<1>8. ASSUME NEW i \in DOMAIN clients[cur'].topics, i < node', Matches(cur', i)
      PROVE  cur' \in lost
  <2>1. InUse(cur')
    BY <1>1 DEF Hits
  <2>2. cur \in Nat /\ node \in Nat /\ i \in Nat /\ cur' \in Nat /\ node' \in Nat
    BY <1>3 DEF Slots, TypeOK, PlaceOK, ClientsOK, ClientType
  <2>3. cur' = cur /\ i < node
    BY <1>3, <1>4, <1>8, <2>1, <2>2
  <2> QED
    BY <1>2, <1>3, <1>8, <2>3 DEF FanInv, Passed, Publishing
<1>9. Passed'
  BY <1>2, <1>7, <1>8 DEF Passed, InUse, Queue, Matched, Matches
<1> QED
  BY <1>5, <1>6, <1>9 DEF FanInv

\* A client that got the publish is behind the scan, with one copy of it.
LEMMA DeliveredStep ==
  ASSUME TypeOK, Control, FanInv, Delivered
  PROVE  FanInv'
<1>1. /\ pc = "deliver" /\ pc' = "scan" /\ cur' = cur + 1 /\ node' = 1 /\ cur \in Slots
      /\ copies' = [copies EXCEPT ![cur] = @ + 1] /\ UNCHANGED <<msg, lost>>
  BY DEF Delivered, Control
<1>2. \A s \in Slots : clients'[s].mq = clients[s].mq /\ clients'[s].topics = clients[s].topics
  BY <1>1, MissesKeepQueues DEF Delivered, TypeOK
<1>3. cur \in Nat /\ copies \in [Slots -> Nat] /\ \A s \in Slots : s \in Nat
  BY DEF TypeOK, PlaceOK, Slots
<1>4. copies[cur] = 0
  BY <1>1, <1>3 DEF FanInv, FanOut
<1>5. copies'[cur] = 1 /\ \A s \in Slots \ {cur} : copies'[s] = copies[s]
  BY <1>1, <1>3, <1>4
<1>6. FanOut'
  <2>1. \A s \in Slots : copies'[s] > 0 => s < cur + 1
    BY <1>3, <1>5 DEF FanInv, FanOut
  <2> QED
    BY <1>1, <2>1 DEF FanOut, Publishing
<1>7. PublishedOnce'
  <2>1. Matched(cur)
    BY <1>1 DEF FanInv, FanOut, Matched
  <2>2. \A s \in Slots : copies'[s] <= 1 /\ (copies'[s] = 1 => Matched(s))
    BY <1>5, <2>1 DEF FanInv, PublishedOnce, Matched
  <2> QED
    BY <1>1, <1>2, <2>2 DEF PublishedOnce, Matched, Matches
<1>8. ASSUME NEW s \in Slots, s < cur + 1, InUse(s), Matched(s) PROVE copies'[s] = 1 \/ s \in lost
  <2>1. CASE s = cur
    BY <1>5, <2>1
  <2>2. CASE s # cur
    <3>1. s < cur
      BY <1>3, <1>8, <2>2
    <3> QED
      BY <1>1, <1>5, <1>8, <2>2, <3>1 DEF FanInv, Passed, Publishing
  <2> QED
    BY <2>1, <2>2
<1>9. Passed'
  <2>1. cur' \in Slots => \A i \in DOMAIN clients[cur'].topics : ~(i < 1)
    BY DEF TypeOK, ClientsOK, ClientType
  <2> QED
    BY <1>1, <1>2, <1>8, <2>1 DEF Passed, InUse, Queue, Matched, Matches
<1> QED
  BY <1>6, <1>7, <1>9 DEF FanInv

\* A client that missed the publish is recorded, whether it will be evicted or not.
LEMMA NotDeliveredStep ==
  ASSUME TypeOK, Control, FanInv, NotDelivered
  PROVE  FanInv'
<1>1. /\ pc = "deliver" /\ cur \in Slots /\ lost' = lost \cup {cur}
      /\ UNCHANGED <<msg, cur, copies>>
      /\ pc' = "evict" \/ (pc' = "scan" /\ node' = node + 1)
  BY DEF NotDelivered, Control
<1>2. \A s \in Slots : clients'[s].mq = clients[s].mq /\ clients'[s].topics = clients[s].topics
  BY <1>1, MissesKeepQueues DEF NotDelivered, TypeOK
<1>3. FanOut'
  BY <1>1 DEF FanInv, FanOut, Publishing
<1>4. PublishedOnce'
  BY <1>1, <1>2 DEF FanInv, PublishedOnce, Matches
<1>5. \A s \in Slots : s < cur /\ InUse(s) /\ Matched(s) => copies[s] = 1 \/ s \in lost
  BY <1>1 DEF FanInv, Passed, Publishing
<1>6. Passed'
  BY <1>1, <1>2, <1>5 DEF Passed, InUse, Queue, Matched, Matches
<1> QED
  BY <1>3, <1>4, <1>6 DEF FanInv

\* Taking a message off the queue of a client under eviction is no business of the fan-out.
LEMMA EvictStep ==
  ASSUME FanInv, Evict
  PROVE  FanInv'
<1>1. /\ pc = "evict" /\ pc' = "closing" /\ ret' = "scan"
      /\ UNCHANGED <<clients, msg, cur, copies, lost>>
  BY DEF Evict, StartClose, aux
<1> QED
  BY <1>1 DEF FanInv, FanOut, PublishedOnce, Passed, Publishing, InUse, Queue, Matched, Matches

\* A client evicted in the scan is gone; the scan goes on behind it.
LEMMA CloseStep ==
  ASSUME TypeOK, Control, FanInv, CloseAcked \/ CloseUnacked
  PROVE  FanInv'
<1>1. PICK m : Vacate(cur, m) /\ CloseReturns /\ pc = "closing" /\ cur \in Slots
               /\ UNCHANGED <<copies, lost>>
  BY DEF CloseAcked, CloseUnacked, Control, aux
<1>2. CASE ret # "scan"
  <2>1. ~Publishing' /\ copies' = NoCopies
    BY <1>1, <1>2 DEF CloseReturns, BackToLoop, FanInv, FanOut, Publishing, TypeOK, PlaceOK
  <2> QED
    BY <2>1, QuietStep
<1>3. CASE ret = "scan"
  <2>1. pc' = "scan" /\ cur' = cur + 1 /\ node' = 1 /\ UNCHANGED msg
    BY <1>1, <1>3 DEF CloseReturns
  <2>2. /\ clients'[cur].mq = NoQueue
        /\ \A s \in Slots \ {cur} : clients'[s] = clients[s]
    BY <1>1 DEF Vacate, TypeOK, ClientsOK, ClientType
  <2>3. cur \in Nat /\ copies \in [Slots -> Nat] /\ \A s \in Slots : s \in Nat
    BY DEF TypeOK, PlaceOK, Slots
  <2>4. copies[cur] = 0
    BY <1>1, <2>3 DEF FanInv, FanOut
  <2>5. FanOut'
    <3>1. \A s \in Slots : copies[s] > 0 => s < cur + 1
      BY <2>3 DEF FanInv, FanOut
    <3> QED
      BY <1>1, <2>1, <3>1 DEF FanOut, Publishing
  <2>6. PublishedOnce'
    <3>1. ASSUME NEW s \in Slots
          PROVE  /\ copies'[s] <= 1
                 /\ copies'[s] = 1 => \E i \in DOMAIN clients'[s].topics :
                                        <<msg'.arg, clients'[s].topics[i]>> \in Matching
      <4>1. CASE s = cur
        BY <1>1, <2>4, <4>1
      <4>2. CASE s # cur
        BY <1>1, <2>1, <2>2, <4>2 DEF FanInv, PublishedOnce, Matches
      <4> QED
        BY <4>1, <4>2
    <3> QED
      BY <3>1 DEF PublishedOnce, Matches
  <2>7. ASSUME NEW s \in Slots, s < cur + 1, clients'[s].mq # NoQueue, Matched(s)
        PROVE  copies[s] = 1 \/ s \in lost
    <3>1. s # cur /\ s < cur
      BY <2>2, <2>3, <2>7
    <3> QED
      BY <1>1, <1>3, <2>2, <2>7, <3>1 DEF FanInv, Passed, Publishing, InUse, Queue
  <2>8. Passed'
    <3>1. cur' \in Slots => \A i \in DOMAIN clients'[cur'].topics : ~(i < 1)
      <4>1. cur' \in Slots => cur' # cur
        BY <2>1, <2>3
      <4> QED
        BY <2>2, <4>1 DEF TypeOK, ClientsOK, ClientType
    <3>2. \A s \in Slots : clients'[s].mq # NoQueue => clients'[s].topics = clients[s].topics
      BY <2>2
    <3> QED
      BY <1>1, <2>1, <2>7, <3>1, <3>2 DEF Passed, InUse, Queue, Matched, Matches
  <2> QED
    BY <2>5, <2>6, <2>8 DEF FanInv
<1> QED
  BY <1>2, <1>3

\* Every step keeps what the fan-out promises (broker.c:683-746).
THEOREM FanOutStep ==
  ASSUME TypeOK, Control, FanInv, [Next]_vars
  PROVE  FanInv'
<1>1. CASE Outside
  BY <1>1, OutsideKeeps, SameStep DEF local, aux
<1>2. CASE Wait
  BY <1>2, SameStep DEF Wait, aux
<1>3. CASE Quiet
  BY <1>3, QuietIsQuiet, QuietStep DEF FanInv
<1>4. CASE PublishDone
  BY <1>4, QuietStep, BackControlled DEF PublishDone
<1>5. CASE Publish \/ ScanToHit \/ Delivered \/ NotDelivered \/ Evict \/ CloseAcked \/ CloseUnacked
  BY <1>5, PublishStep, ScanStep, DeliveredStep, NotDeliveredStep, EvictStep, CloseStep
<1> QED
  BY <1>1, <1>2, <1>3, <1>4, <1>5 DEF Next, BrokerNext, Quiet, Answers, Outside

\* The fan-out of a publish is as promised in every state, evictions or not.
THEOREM FanOutInvariant == Spec => [](TypeInv /\ FanInv)
<1>1. Init => FanInv
  BY DEF Init, FanInv, FanOut, PublishedOnce, Passed, Publishing, NoCopies
<1>2. TypeInv /\ FanInv /\ [Next]_vars => FanInv'
  BY FanOutStep DEF TypeInv
<1> QED
  BY <1>1, <1>2, TypeInvariant, PTL DEF Spec

(***************************************************************************)
(* However many of its topics match, and whatever evictions and full       *)
(* queues come in between, a client gets a publish at most once, and only  *)
(* if one of its topics matches (broker.c:742-746).                        *)
(***************************************************************************)
THEOREM NobodyGetsItTwice == Spec => []PublishedOnce
<1>1. FanInv => PublishedOnce
  BY DEF FanInv
<1> QED
  BY <1>1, FanOutInvariant, PTL

(***************************************************************************)
(* The scan of slots and topics passes over nobody (broker.c:683-751): at  *)
(* its end each client with a matching topic got the publish, or a send to *)
(* it failed.                                                              *)
(***************************************************************************)
THEOREM NobodyIsPassedOver == Spec => []PublishReachesAll
<1>1. TypeInv /\ FanInv => PublishReachesAll
  <2> SUFFICES ASSUME TypeInv, FanInv, pc = "scan", Hits = {},
                      NEW s \in Slots, InUse(s), Matched(s)
               PROVE  copies[s] = 1 \/ s \in lost
    BY DEF PublishReachesAll, Matched
  <2>1. TypeOK
    BY DEF TypeInv
  <2>2. PICK i \in DOMAIN clients[s].topics : Matches(s, i)
    BY DEF Matched
  <2>3. s \in Nat /\ cur \in Nat /\ node \in Nat /\ i \in Nat
    BY <2>1 DEF Slots, TypeOK, PlaceOK, ClientsOK, ClientType
  <2>4. s < cur \/ (s = cur /\ i < node)
    BY <2>1, <2>2, <2>3, HitsAre
  <2>5. CASE s < cur
    BY <2>5 DEF FanInv, Passed, Publishing
  <2>6. CASE s = cur /\ i < node
    BY <2>2, <2>6 DEF FanInv, Passed, Publishing
  <2> QED
    BY <2>4, <2>5, <2>6
<1> QED
  BY <1>1, FanOutInvariant, PTL
-----------------------------------------------------------------------------
(* How often a topic is in a list.                                         *)

Spots(list, f) == {i \in DOMAIN list : list[i] = f}

\* The count of a topic is a number, and positive when the topic is there.
LEMMA TimesCount ==
  ASSUME NEW S, NEW list \in Seq(S), NEW f
  PROVE  /\ IsFiniteSet(Spots(list, f)) /\ Times(list, f) = Cardinality(Spots(list, f))
         /\ Times(list, f) \in Nat
         /\ Times(list, f) > 0 <=> \E i \in DOMAIN list : list[i] = f
<1> DEFINE P == Spots(list, f)
<1>1. P \in SUBSET (1 .. Len(list)) /\ 0 \in Int /\ Len(list) \in Int
  BY DEF Spots
<1>2. IsFiniteSet(1 .. Len(list))
  BY <1>1, FS_Interval
<1>3. Times(list, f) = Cardinality(P)
  BY DEF Times, Spots
<1>4. P # {} <=> \E i \in DOMAIN list : list[i] = f
  BY DEF Spots
<1> HIDE DEF P
<1>5. IsFiniteSet(P)
  BY <1>1, <1>2, FS_Subset
<1>6. Cardinality(P) \in Nat /\ (Cardinality(P) = 0 <=> P = {})
  BY <1>5, FS_CardinalityType, FS_EmptySet
<1>7. Cardinality(P) > 0 <=> P # {}
  BY <1>6
<1> QED
  BY <1>3, <1>4, <1>5, <1>6, <1>7 DEF P

\* In a sequence made of two a topic is as often as in both together.
LEMMA JoinTimes ==
  ASSUME NEW S, NEW a \in Seq(S), NEW b \in Seq(S), NEW f
  PROVE  Times(a \o b, f) = Times(a, f) + Times(b, f)
<1> DEFINE A == Spots(a, f)
           B == Spots(b, f)
           C == {i \in Len(a) + 1 .. Len(a) + Len(b) : b[i - Len(a)] = f}
           g == [i \in B |-> i + Len(a)]
<1>1. a \o b \in Seq(S) /\ Len(a) \in Nat /\ Len(b) \in Nat
  OBVIOUS
<1>2. Spots(a \o b, f) = A \cup C
  <2>1. DOMAIN (a \o b) = 1 .. Len(a) + Len(b) /\ DOMAIN a = 1 .. Len(a)
    OBVIOUS
  <2>2. \A i \in 1 .. Len(a) : (a \o b)[i] = a[i]
    OBVIOUS
  <2>3. \A i \in Len(a) + 1 .. Len(a) + Len(b) : (a \o b)[i] = b[i - Len(a)]
    OBVIOUS
  <2>4. 1 .. Len(a) + Len(b) = (1 .. Len(a)) \cup (Len(a) + 1 .. Len(a) + Len(b))
    BY <1>1
  <2> QED
    BY <2>1, <2>2, <2>3, <2>4 DEF Spots
<1>3. A \cap C = {}
  BY <1>1 DEF Spots
<1>4. g \in Bijection(B, C)
  <2>1. \A i \in B : i + Len(a) \in C /\ i \in Nat
    BY <1>1 DEF Spots
  <2>2. \A k \in C : k - Len(a) \in B /\ (k - Len(a)) + Len(a) = k
    BY <1>1 DEF Spots
  <2>3. \A i, j \in B : i + Len(a) = j + Len(a) => i = j
    BY <1>1, <2>1
  <2> HIDE DEF B, C
  <2>4. g \in [B -> C] /\ \A i, j \in B : g[i] = g[j] => i = j
    BY <2>1, <2>3
  <2>5. \A k \in C : \E i \in B : g[i] = k
    BY <2>2
  <2> QED
    BY <2>4, <2>5 DEF Bijection, Injection, Surjection, IsInjective
<1>5. IsFiniteSet(A) /\ IsFiniteSet(B) /\ Times(a, f) = Cardinality(A) /\ Times(b, f) = Cardinality(B)
  BY TimesCount
<1>6. Times(a \o b, f) = Cardinality(A \cup C)
  BY <1>1, <1>2, TimesCount
<1> HIDE DEF A, B, C, g
<1>7. IsFiniteSet(C) /\ Cardinality(C) = Cardinality(B)
  BY <1>4, <1>5, FS_Bijection DEF ExistsBijection
<1>8. Cardinality(A \cup C) = Cardinality(A) + Cardinality(C) - Cardinality(A \cap C)
  BY <1>5, <1>7, FS_Union
<1>9. Cardinality(A) \in Nat /\ Cardinality(C) \in Nat /\ Cardinality(A \cap C) = 0
  BY <1>3, <1>5, <1>7, FS_CardinalityType, FS_EmptySet
<1> QED
  BY <1>5, <1>6, <1>7, <1>8, <1>9

Once(t, f) == IF t = f THEN 1 ELSE 0

\* One topic is there once.
LEMMA OneTimes ==
  ASSUME NEW t, NEW f
  PROVE  Times(<<t>>, f) = Once(t, f)
<1>1. CASE t = f
  <2>1. {i \in DOMAIN <<t>> : <<t>>[i] = f} = {1}
    BY <1>1
  <2> QED
    BY <1>1, <2>1, FS_Singleton DEF Times, Once
<1>2. CASE t # f
  <2>1. {i \in DOMAIN <<t>> : <<t>>[i] = f} = {}
    BY <1>2
  <2> QED
    BY <1>2, <2>1, FS_EmptySet DEF Times, Once
<1> QED
  BY <1>1, <1>2

\* psmqd_tl_add: the new topic is in the list once more, the others as often as before.
LEMMA AddTimes ==
  ASSUME NEW S, NEW list \in Seq(S), NEW t \in S, NEW f
  PROVE  Times(TlAdd(list, t), f) = Times(list, f) + Once(t, f)
<1>1. CASE list = <<>>
  <2>1. {i \in DOMAIN list : list[i] = f} = {}
    BY <1>1
  <2>2. Times(list, f) = 0
    BY <2>1, FS_EmptySet DEF Times
  <2>3. TlAdd(list, t) = <<t>>
    BY <1>1 DEF TlAdd
  <2>4. Once(t, f) \in Nat
    BY DEF Once
  <2> QED
    BY <2>2, <2>3, <2>4, OneTimes
<1>2. CASE list # <<>>
  <2> DEFINE a == SubSeq(list, 1, 1)
             b == SubSeq(list, 2, Len(list))
             c == <<t>>
  <2>1. Len(list) \in Nat /\ Len(list) >= 1
    BY <1>2
  <2>2. a \in Seq(S) /\ b \in Seq(S) /\ c \in Seq(S)
    BY <2>1, SliceTyped
  <2>3. list = a \o b
    BY <2>1, ConcatAdjacentSubSeq, SubSeqFull
  <2>4. TlAdd(list, t) = (a \o c) \o b
    BY <1>2 DEF TlAdd, InsertAt
  <2>5. Times(c, f) = Once(t, f) /\ Once(t, f) \in Nat
    BY OneTimes DEF Once
  <2> HIDE DEF a, b, c
  <2> DEFINE d == a \o c
  <2>6. d \in Seq(S) /\ Times(d, f) = Times(a, f) + Times(c, f)
    BY <2>2, JoinTyped, JoinTimes
  <2> HIDE DEF d
  <2>7. Times(d \o b, f) = Times(d, f) + Times(b, f)
    BY <2>2, <2>6, JoinTimes
  <2>8. Times(a \o b, f) = Times(a, f) + Times(b, f)
    BY <2>2, JoinTimes
  <2>9. Times(a, f) \in Nat /\ Times(b, f) \in Nat
    BY <2>2, TimesCount
  <2>10. TlAdd(list, t) = d \o b
    BY <2>4 DEF d
  <2> QED
    BY <2>3, <2>5, <2>6, <2>7, <2>8, <2>9, <2>10
<1> QED
  BY <1>1, <1>2

\* Taking an element out, its value is there once less.
LEMMA RemoveTimes ==
  ASSUME NEW S, NEW list \in Seq(S), NEW i \in DOMAIN list, NEW f
  PROVE  Times(RemoveAt(list, i), f) = Times(list, f) - Once(list[i], f)
<1> DEFINE a == SubSeq(list, 1, i - 1)
           b == SubSeq(list, i + 1, Len(list))
           c == <<list[i]>>
           r == SubSeq(list, i, Len(list))
<1>1. i \in 1 .. Len(list) /\ Len(list) \in Nat /\ DOMAIN list = 1 .. Len(list) /\ list[i] \in S
  OBVIOUS
<1>2. a \in Seq(S) /\ b \in Seq(S) /\ c \in Seq(S)
  BY <1>1, SliceTyped
<1>3. r = c \o b
  <2>1. i \in 1 .. Len(list) /\ Len(list) \in i .. Len(list)
    BY <1>1
  <2> QED
    BY <2>1, SubSeqRecursiveFirst
<1>4. list = a \o r
  <2>1. 1 \in 1 .. Len(list) + 1 /\ i - 1 \in 1 - 1 .. Len(list) /\ Len(list) \in i - 1 .. Len(list)
    BY <1>1
  <2>2. SubSeq(list, 1, i - 1) \o SubSeq(list, (i - 1) + 1, Len(list)) = SubSeq(list, 1, Len(list))
    BY <2>1, ConcatAdjacentSubSeq
  <2>3. (i - 1) + 1 = i
    BY <1>1
  <2> QED
    BY <2>2, <2>3, SubSeqFull
<1>5. RemoveAt(list, i) = a \o b
  BY DEF RemoveAt
<1>6. Times(c, f) = Once(list[i], f) /\ Once(list[i], f) \in Nat
  BY OneTimes DEF Once
<1> HIDE DEF a, b, c, r
<1>7. r \in Seq(S) /\ Times(r, f) = Times(c, f) + Times(b, f)
  BY <1>2, <1>3, JoinTyped, JoinTimes
<1>8. Times(list, f) = Times(a, f) + Times(r, f)
  BY <1>2, <1>4, <1>7, JoinTimes
<1>9. Times(RemoveAt(list, i), f) = Times(a, f) + Times(b, f)
  BY <1>2, <1>5, JoinTimes
<1>10. Times(a, f) \in Nat /\ Times(b, f) \in Nat
  BY <1>2, TimesCount
<1> QED
  BY <1>6, <1>7, <1>8, <1>9, <1>10

\* psmqd_tl_delete: the topic found is taken out, and is in the list once less.
LEMMA DeleteTimes ==
  ASSUME NEW S, NEW list \in Seq(S), NEW t, \E i \in DOMAIN list : list[i] = t, NEW f
  PROVE  Times(TlDelete(list, t), f) = Times(list, f) - Once(t, f)
<1>1. TlFind(list, t) \in DOMAIN list /\ list[TlFind(list, t)] = t
  <2> DEFINE T == {i \in DOMAIN list : list[i] = t}
  <2>1. \E i \in T : \A j \in T : i <= j
    <3>1. T \subseteq Nat /\ T # {}
      OBVIOUS
    <3> HIDE DEF T
    <3> QED
      BY <3>1, LeastExists
  <2>2. \E i \in DOMAIN list :
          list[i] = t /\ \A j \in DOMAIN list : list[j] = t => i <= j
    BY <2>1
  <2> QED
    BY <2>2 DEF TlFind
<1> QED
  BY <1>1, RemoveTimes DEF TlDelete
-----------------------------------------------------------------------------
(* What a client of the service sees, and steps that change none of it.    *)

\* The client under eviction missed the publish in service.
Evicting == pc = "evict" \/ (pc = "closing" /\ ret = "scan") => cur \in lost

\* No change in who is connected and what is on the lists.
ListsKept ==
  /\ Connected' = Connected
  /\ \A s \in Slots : clients'[s].topics = clients[s].topics

\* The lists of topics are all there is to the subscriptions of the service.
LEMMA SubsKept ==
  ASSUME ListsKept
  PROVE  Subscriptions' = Subscriptions
BY DEF ListsKept, Subscriptions

\* A step that keeps lists, clients and the publish in service is none of the service.
LEMMA Stutters ==
  ASSUME ListsKept, InPublish' = InPublish, InPublish => msg' = msg, UNCHANGED <<copies, lost>>
  PROVE  UNCHANGED Service!vars
<1>1. Connected' = Connected /\ Subscriptions' = Subscriptions
  BY SubsKept DEF ListsKept
<1>2. (IF InPublish THEN {msg.arg} ELSE {})' = IF InPublish THEN {msg.arg} ELSE {}
  OBVIOUS
<1>3. {s \in Slots : copies[s] > 0}' = {s \in Slots : copies[s] > 0} /\ lost' = lost
  OBVIOUS
<1> QED
  BY <1>1, <1>2, <1>3 DEF Service!vars

\* The queues and topics of the slots stay: so do clients and lists.
LEMMA KeepsLists ==
  ASSUME \A s \in Slots : clients'[s].mq = clients[s].mq /\ clients'[s].topics = clients[s].topics,
         pc # "welcome", pc' # "welcome"
  PROVE  ListsKept
BY DEF ListsKept, Connected, InUse, Queue

\* Accepting a client: it is told its slot.
LEMMA AcceptStep ==
  ASSUME TypeOK, Control, OpenWelcomed
  PROVE  Service!Accept(cur) /\ cur \in Slots
<1>1. /\ pc = "welcome" /\ pc' = "check" /\ UNCHANGED <<clients, copies, lost>>
      /\ cur \in Slots /\ InUse(cur)
  BY DEF OpenWelcomed, BackToLoop, Control, aux
<1>2. ~InPublish /\ ~InPublish'
  BY <1>1 DEF InPublish
<1>3. cur \notin Connected /\ Connected' = Connected \cup {cur}
  BY <1>1 DEF Connected, InUse, Queue
<1>4. Subscriptions' = Subscriptions
  BY <1>1 DEF Subscriptions
<1> QED
  BY <1>1, <1>2, <1>3, <1>4 DEF Service!Accept

\* In one slot a topic is counted differently, and all else stays as it was.
LEMMA OneCountChanges ==
  ASSUME TypeOK, NEW s \in Slots, NEW t \in Filters, NEW n,
         \A f \in Filters : Times(clients'[s].topics, f) = IF f = t THEN n ELSE Times(clients[s].topics, f),
         \A r \in Slots \ {s} : clients'[r].topics = clients[r].topics
  PROVE  Subscriptions' = [Subscriptions EXCEPT ![s][t] = n]
<1>1. Subscriptions' = [r \in Slots |-> [f \in Filters |-> Times(clients'[r].topics, f)]]
  BY DEF Subscriptions, Times
<1>2. \A r \in Slots : Subscriptions[r] = [f \in Filters |-> Times(clients[r].topics, f)]
  BY DEF Subscriptions
<1>3. [f \in Filters |-> Times(clients'[s].topics, f)] = [Subscriptions[s] EXCEPT ![t] = n]
  <2>1. Subscriptions[s] = [f \in Filters |-> Times(clients[s].topics, f)]
    BY <1>2
  <2>2. [Subscriptions[s] EXCEPT ![t] = n]
          = [f \in Filters |-> IF f = t THEN n ELSE Times(clients[s].topics, f)]
    BY <2>1
  <2> QED
    BY <2>2
<1>4. \A r \in Slots \ {s} :
        [f \in Filters |-> Times(clients'[r].topics, f)] = Subscriptions[r]
  BY <1>2
<1>5. Subscriptions = [r \in Slots |-> Subscriptions[r]]
  BY DEF Subscriptions
<1> QED
  BY <1>1, <1>3, <1>4, <1>5

\* A new subscription.
LEMMA SubscribeStep ==
  ASSUME TypeOK, Control, Subscribe
  PROVE  Service!Subscribe(msg.fd, msg.arg) /\ msg.fd \in Slots /\ msg.arg \in Filters
<1>1. /\ pc = "subscribe" /\ pc' = "reply" /\ UNCHANGED <<msg, copies, lost>>
      /\ msg.fd \in Slots /\ msg.arg \in Filters
      /\ clients' = [clients EXCEPT ![msg.fd].topics = TlAdd(@, msg.arg)]
  BY DEF Subscribe, Answer, Control, Commands, aux
<1>2. /\ clients'[msg.fd].topics = TlAdd(clients[msg.fd].topics, msg.arg)
      /\ \A s \in Slots \ {msg.fd} : clients'[s].topics = clients[s].topics
      /\ \A s \in Slots : clients'[s].mq = clients[s].mq
  BY <1>1 DEF TypeOK, ClientsOK, ClientType
<1>3. clients[msg.fd].topics \in Seq(Filters)
  BY <1>1 DEF TypeOK, ClientsOK, ClientType
<1> DEFINE list == clients[msg.fd].topics
<1>4. \A f \in Filters : Times(clients'[msg.fd].topics, f)
                          = IF f = msg.arg THEN Times(list, msg.arg) + 1 ELSE Times(list, f)
  <2>1. \A f \in Filters : Times(TlAdd(list, msg.arg), f) = Times(list, f) + Once(msg.arg, f)
    BY <1>1, <1>3, AddTimes
  <2>2. \A f \in Filters : Times(list, f) \in Nat
    BY <1>3, TimesCount
  <2> QED
    BY <1>2, <2>1, <2>2 DEF Once
<1>5. Subscriptions' = [Subscriptions EXCEPT ![msg.fd][msg.arg] = @ + 1]
  <2>1. Subscriptions[msg.fd][msg.arg] = Times(list, msg.arg)
    BY <1>1 DEF Subscriptions
  <2> PICK d, n : d = msg.fd /\ n = Times(list, msg.arg) + 1
    OBVIOUS
  <2>2. Subscriptions' = [Subscriptions EXCEPT ![d][msg.arg] = n]
    <3>1. d \in Slots /\ msg.arg \in Filters
      BY <1>1
    <3>2. \A f \in Filters :
            Times(clients'[d].topics, f) = IF f = msg.arg THEN n ELSE Times(clients[d].topics, f)
      BY <1>4
    <3>3. \A r \in Slots \ {d} : clients'[r].topics = clients[r].topics
      BY <1>2
    <3> QED
      BY <3>1, <3>2, <3>3, OneCountChanges
  <2> QED
    BY <2>1, <2>2
<1>6. Connected' = Connected
  BY <1>1, <1>2 DEF Connected, InUse, Queue
<1>7. ~InPublish /\ ~InPublish'
  BY <1>1 DEF InPublish
<1> QED
  BY <1>1, <1>5, <1>6, <1>7 DEF Service!Subscribe

\* One of the subscriptions to a topic is taken back.
LEMMA UnsubscribeStep ==
  ASSUME TypeOK, Control, Unsubscribe
  PROVE  Service!Unsubscribe(msg.fd, msg.arg) /\ msg.fd \in Slots /\ msg.arg \in Filters
<1> DEFINE list == clients[msg.fd].topics
<1>1. /\ pc = "unsubscribe" /\ pc' = "reply" /\ UNCHANGED <<msg, copies, lost>>
      /\ msg.fd \in Slots /\ Subscribed(msg.fd, msg.arg)
      /\ clients' = [clients EXCEPT ![msg.fd].topics = TlDelete(@, msg.arg)]
  BY DEF Unsubscribe, Answer, Control, Commands, aux
<1>2. /\ clients'[msg.fd].topics = TlDelete(list, msg.arg)
      /\ \A s \in Slots \ {msg.fd} : clients'[s].topics = clients[s].topics
      /\ \A s \in Slots : clients'[s].mq = clients[s].mq
  BY <1>1 DEF TypeOK, ClientsOK, ClientType
<1>3. list \in Seq(Filters) /\ \E i \in DOMAIN list : list[i] = msg.arg
  BY <1>1 DEF TypeOK, ClientsOK, ClientType, Subscribed
<1>4. msg.arg \in Filters /\ Times(list, msg.arg) > 0
  BY <1>3, TimesCount
<1>5. \A f \in Filters : Times(clients'[msg.fd].topics, f)
                          = IF f = msg.arg THEN Times(list, msg.arg) - 1 ELSE Times(list, f)
  <2>1. \A f \in Filters : Times(TlDelete(list, msg.arg), f) = Times(list, f) - Once(msg.arg, f)
    BY <1>3, DeleteTimes
  <2>2. \A f \in Filters : Times(list, f) \in Nat
    BY <1>3, TimesCount
  <2> QED
    BY <1>2, <2>1, <2>2 DEF Once
<1>6. Subscriptions[msg.fd][msg.arg] = Times(list, msg.arg)
  BY <1>1, <1>4 DEF Subscriptions
<1>7. Subscriptions' = [Subscriptions EXCEPT ![msg.fd][msg.arg] = @ - 1]
  <2> PICK d, n : d = msg.fd /\ n = Times(list, msg.arg) - 1
    OBVIOUS
  <2>1. Subscriptions' = [Subscriptions EXCEPT ![d][msg.arg] = n]
    <3>1. d \in Slots /\ msg.arg \in Filters
      BY <1>1, <1>4
    <3>2. \A f \in Filters :
            Times(clients'[d].topics, f) = IF f = msg.arg THEN n ELSE Times(clients[d].topics, f)
      BY <1>5
    <3>3. \A r \in Slots \ {d} : clients'[r].topics = clients[r].topics
      BY <1>2
    <3> QED
      BY <3>1, <3>2, <3>3, OneCountChanges
  <2> QED
    BY <1>6, <2>1
<1>8. Connected' = Connected /\ ~InPublish /\ ~InPublish'
  BY <1>1, <1>2 DEF Connected, InUse, Queue, InPublish
<1> QED
  BY <1>1, <1>4, <1>6, <1>7, <1>8 DEF Service!Unsubscribe

\* A publish begins.
LEMMA BeginStep ==
  ASSUME TypeOK, Publish
  PROVE  Service!Begin(msg.arg) /\ msg.arg \in Args
<1>1. /\ pc = "publish" /\ pc' = "scan" /\ UNCHANGED <<clients, msg>>
      /\ copies' = NoCopies /\ lost' = {}
  BY DEF Publish
<1>2. ~InPublish /\ InPublish' /\ ListsKept
  BY <1>1, KeepsLists DEF InPublish
<1>3. {s \in Slots : copies[s] > 0}' = {}
  BY <1>1 DEF NoCopies
<1>4. msg.arg \in Args
  BY DEF TypeOK, PlaceOK, Args, NoRequest
<1> QED
  BY <1>1, <1>2, <1>3, <1>4, SubsKept DEF Service!Begin, ListsKept

\* A client with a matching topic at which the scan has stopped wants the publish.
LEMMA HitWants ==
  ASSUME TypeOK, Control, FanInv, pc = "deliver"
  PROVE  /\ cur \in Slots /\ cur \in Connected /\ ~(copies[cur] > 0)
         /\ Service!Wants(cur)
<1>1. cur \in Slots /\ InUse(cur) /\ cur \in Nat
  BY DEF Control, Slots
<1>2. cur \in Connected
  BY <1>1 DEF Connected
<1>3. ~(copies[cur] > 0)
  BY <1>1 DEF FanInv, FanOut
<1>4. node \in DOMAIN clients[cur].topics /\ <<msg.arg, clients[cur].topics[node]>> \in Matching
  BY DEF FanInv, FanOut, Matches
<1> DEFINE f == clients[cur].topics[node]
<1>5. f \in Filters /\ Subscriptions[cur][f] > 0
  <2>1. clients[cur].topics \in Seq(Filters)
    BY <1>1 DEF TypeOK, ClientsOK, ClientType
  <2>2. f \in Filters /\ Times(clients[cur].topics, f) > 0
    BY <1>4, <2>1, TimesCount
  <2> QED
    BY <1>1, <2>2 DEF Subscriptions
<1>6. InPublish
  BY DEF InPublish
<1>7. \E t \in (IF InPublish THEN {msg.arg} ELSE {}), g \in Filters :
        Subscriptions[cur][g] > 0 /\ <<t, g>> \in Matching
  BY <1>4, <1>5, <1>6
<1> QED
  BY <1>1, <1>2, <1>3, <1>7 DEF Service!Wants

\* A client is served.
LEMMA ServeStep ==
  ASSUME TypeOK, Control, FanInv, Delivered
  PROVE  Service!Serve(cur) /\ cur \in Slots
<1>1. /\ pc = "deliver" /\ pc' = "scan" /\ UNCHANGED <<msg, lost>>
      /\ copies' = [copies EXCEPT ![cur] = @ + 1]
  BY DEF Delivered
<1>2. cur \in Slots /\ ~(copies[cur] > 0) /\ Service!Wants(cur)
  BY <1>1, HitWants
<1>3. ListsKept
  BY <1>1, <1>2, MissesKeepQueues, KeepsLists DEF Delivered, TypeOK
<1>4. InPublish /\ InPublish'
  BY <1>1 DEF InPublish
<1>5. {s \in Slots : copies[s] > 0}' = {s \in Slots : copies[s] > 0} \cup {cur}
  <2>1. copies'[cur] = copies[cur] + 1 /\ \A s \in Slots \ {cur} : copies'[s] = copies[s]
    BY <1>1, <1>2 DEF TypeOK, PlaceOK
  <2>2. copies[cur] \in Nat
    BY <1>2 DEF TypeOK, PlaceOK
  <2>3. copies'[cur] > 0
    BY <2>1, <2>2
  <2> QED
    BY <1>2, <2>1, <2>3
<1> QED
  BY <1>1, <1>2, <1>3, <1>4, <1>5, SubsKept DEF Service!Serve, ListsKept

\* A client misses the publish, at one of its topics.
LEMMA MissStep ==
  ASSUME TypeOK, Control, FanInv, NotDelivered
  PROVE  Service!Miss(cur) /\ cur \in Slots
<1>1. /\ pc = "deliver" /\ pc' \in {"scan", "evict"} /\ UNCHANGED <<msg, copies>>
      /\ lost' = lost \cup {cur}
  BY DEF NotDelivered
<1>2. cur \in Slots /\ ~(copies[cur] > 0) /\ Service!Wants(cur)
  BY <1>1, HitWants
<1>3. ListsKept
  BY <1>1, <1>2, MissesKeepQueues, KeepsLists DEF NotDelivered, TypeOK
<1>4. InPublish /\ InPublish'
  BY <1>1 DEF InPublish
<1> QED
  BY <1>1, <1>2, <1>3, <1>4, SubsKept DEF Service!Miss, ListsKept

\* A client is dropped, at its own request, at the end, or because it missed the publish.
LEMMA DropStep ==
  ASSUME TypeOK, Control, FanInv, Evicting, CloseAcked \/ CloseUnacked
  PROVE  Service!Drop(cur) /\ cur \in Slots
<1>1. PICK m : Vacate(cur, m) /\ CloseReturns /\ pc = "closing" /\ cur \in Slots
               /\ UNCHANGED <<copies, lost>>
  BY DEF CloseAcked, CloseUnacked, Control, aux
<1>2. /\ clients'[cur].mq = NoQueue /\ clients'[cur].topics = <<>>
      /\ \A s \in Slots \ {cur} : clients'[s] = clients[s]
  BY <1>1 DEF Vacate, TypeOK, ClientsOK, ClientType
<1>3. pc' = ret /\ (ret # "check" => UNCHANGED msg)
  BY <1>1 DEF CloseReturns, BackToLoop
<1>4. ret \in {"check", "scan", "cleanup"}
  BY DEF TypeOK, PlaceOK
<1>5. InPublish' = InPublish /\ (InPublish => ret = "scan")
  BY <1>1, <1>3, <1>4 DEF InPublish
<1>6. Connected' = Connected \ {cur}
  BY <1>1, <1>2, <1>3, <1>4 DEF Connected, InUse, Queue
<1> PICK d : d = cur
  OBVIOUS
<1>7. \A f \in Filters : Times(clients'[d].topics, f) = 0
  <2>1. \A f \in Filters : {i \in DOMAIN clients'[d].topics : clients'[d].topics[i] = f} = {}
    BY <1>2
  <2> QED
    BY <2>1, FS_EmptySet DEF Times
<1>8. Subscriptions' = [Subscriptions EXCEPT ![d] = Service!NothingAsked]
  <2>1. Subscriptions' = [r \in Slots |-> [f \in Filters |-> Times(clients'[r].topics, f)]]
    BY DEF Subscriptions, Times
  <2>2. [f \in Filters |-> Times(clients'[d].topics, f)] = Service!NothingAsked
    BY <1>7 DEF Service!NothingAsked
  <2>3. \A r \in Slots \ {d} :
          [f \in Filters |-> Times(clients'[r].topics, f)] = Subscriptions[r]
    BY <1>2 DEF Subscriptions
  <2>4. Subscriptions = [r \in Slots |-> Subscriptions[r]]
    BY DEF Subscriptions
  <2> QED
    BY <1>1, <2>1, <2>2, <2>3, <2>4
<1>9. InPublish => cur \in lost \ {s \in Slots : copies[s] > 0}
  <2>1. cur \in Nat
    BY <1>1 DEF Slots
  <2> QED
    BY <1>1, <1>5, <2>1 DEF Evicting, FanInv, FanOut
<1>10. (IF InPublish THEN {msg.arg} ELSE {})' = IF InPublish THEN {msg.arg} ELSE {}
  BY <1>3, <1>5
<1> QED
  BY <1>1, <1>6, <1>8, <1>9, <1>10 DEF Service!Drop

\* A publish is over when everybody who wants it got it or missed it.
LEMMA FinishStep ==
  ASSUME TypeOK, PublishReachesAll, PublishDone
  PROVE  Service!Finish
<1>1. /\ pc = "scan" /\ pc' = "check" /\ Hits = {} /\ UNCHANGED clients
      /\ copies' = NoCopies /\ lost' = {}
  BY DEF PublishDone, BackToLoop
<1>2. InPublish /\ ~InPublish' /\ ListsKept
  BY <1>1, KeepsLists DEF InPublish
<1>3. {s \in Slots : copies[s] > 0}' = {}
  BY <1>1 DEF NoCopies
<1>4. ASSUME NEW s \in Slots, Service!Wants(s)
      PROVE  s \in {t \in Slots : copies[t] > 0} \cup lost
  <2>1. InUse(s) /\ \E f \in Filters : Subscriptions[s][f] > 0 /\ <<msg.arg, f>> \in Matching
    BY <1>2, <1>4 DEF Service!Wants, Connected
  <2>2. \E i \in DOMAIN clients[s].topics : Matches(s, i)
    <3>1. PICK f \in Filters : Times(clients[s].topics, f) > 0 /\ <<msg.arg, f>> \in Matching
      BY <2>1 DEF Subscriptions
    <3>2. clients[s].topics \in Seq(Filters)
      BY DEF TypeOK, ClientsOK, ClientType
    <3>3. \E i \in DOMAIN clients[s].topics : clients[s].topics[i] = f
      BY <3>1, <3>2, TimesCount
    <3> QED
      BY <3>1, <3>3 DEF Matches
  <2>3. copies[s] = 1 \/ s \in lost
    BY <1>1, <2>1, <2>2 DEF PublishReachesAll
  <2> QED
    BY <2>3
<1> QED
  BY <1>2, <1>3, <1>1, <1>4, SubsKept DEF Service!Finish, ListsKept

\* The steps that lead up to a publish, a subscription or an acceptance, or follow one.
Unseen ==
  \/ CheckShutdown \/ Receive \/ ReceiveTimesOut \/ OpenFails \/ Open \/ OpenRefused \/ OpenUndone
  \/ SubscribeRefused \/ SubscribeFails \/ UnsubscribeFails \/ Ioctl \/ IoctlRefused
  \/ ReplySent \/ ReplyLost \/ Close \/ CleanupSlot \/ CleanupDone

\* What a client of the service does not see of the broker.
LEMMA UnseenStep ==
  ASSUME TypeOK, Control, FanInv, Unseen
  PROVE  UNCHANGED Service!vars
<1>1. /\ UNCHANGED lost
      /\ pc \in Commands \cup {"check", "receive", "welcome", "reply", "cleanup"}
      /\ Quiet
  BY DEF Unseen, CheckShutdown, Receive, ReceiveTimesOut, OpenFails, Open, OpenRefused, OpenUndone,
     SubscribeRefused, SubscribeFails, UnsubscribeFails, Ioctl, IoctlRefused, Answer,
     ReplySent, ReplyLost, Close, CleanupSlot, CleanupDone, aux, Quiet, Answers, Commands
<1>2. ~Publishing /\ ~Publishing' /\ UNCHANGED copies
  <2>1. ~Publishing
    BY <1>1 DEF Publishing, Commands
  <2> QED
    BY <1>1, <2>1, QuietIsQuiet DEF FanInv, FanOut
<1>3. ~InPublish /\ ~InPublish'
  BY <1>2 DEF InPublish, Publishing
<1>4. ListsKept
  <2>1. CASE Open
    <3>1. PICK s \in FreeSlots : clients' = [clients EXCEPT ![s].mq = names[msg.arg]] /\ cur' = s
      BY <2>1 DEF Open
    <3>2. pc = "open" /\ pc' = "welcome" /\ s \in Slots /\ ~InUse(s)
      BY <2>1 DEF Open, FreeSlots
    <3>3. /\ \A t \in Slots \ {s} : clients'[t].mq = clients[t].mq
          /\ \A t \in Slots : clients'[t].topics = clients[t].topics
      BY <3>1, <3>2 DEF TypeOK, ClientsOK, ClientType
    <3> QED
      BY <3>1, <3>2, <3>3 DEF ListsKept, Connected, InUse, Queue
  <2>2. CASE OpenUndone
    <3>1. /\ clients' = [clients EXCEPT ![cur].mq = NoQueue]
          /\ pc = "welcome" /\ pc' = "check" /\ cur \in Slots
      BY <2>2 DEF OpenUndone, BackToLoop, Control
    <3>2. /\ clients'[cur].mq = NoQueue
          /\ \A t \in Slots \ {cur} : clients'[t].mq = clients[t].mq
          /\ \A t \in Slots : clients'[t].topics = clients[t].topics
      BY <3>1 DEF TypeOK, ClientsOK, ClientType
    <3> QED
      BY <3>1, <3>2 DEF ListsKept, Connected, InUse, Queue
  <2>3. CASE Ioctl
    <3>1. /\ clients' = [clients EXCEPT ![msg.fd].reply_timeout = msg.arg]
          /\ pc = "ioctl" /\ pc' = "reply"
      BY <2>3 DEF Ioctl, Answer
    <3> QED
      BY <3>1, KeepsLists DEF TypeOK, ClientsOK, ClientType
  <2>4. CASE ReplySent \/ ReplyLost
    <3>1. pc = "reply" /\ pc' = "check" /\ cur \in Slots /\ (ResetMissed(cur) \/ CountMissed(cur))
      BY <2>4 DEF ReplySent, ReplyLost, BackToLoop, Control
    <3> QED
      BY <3>1, MissesKeepQueues, KeepsLists DEF TypeOK
  <2>5. CASE \/ CheckShutdown \/ Receive \/ ReceiveTimesOut \/ OpenFails \/ OpenRefused
             \/ SubscribeRefused \/ SubscribeFails \/ UnsubscribeFails \/ IoctlRefused
             \/ Close \/ CleanupSlot \/ CleanupDone
    <3>1. UNCHANGED clients /\ pc # "welcome" /\ pc' # "welcome"
      BY <2>5 DEF CheckShutdown, Receive, ReceiveTimesOut, OpenFails, OpenRefused, BackToLoop,
         SubscribeRefused, SubscribeFails, UnsubscribeFails, IoctlRefused, Answer,
         Close, CleanupSlot, CleanupDone, StartClose, Commands
    <3> QED
      BY <3>1, KeepsLists
  <2> QED
    BY <2>1, <2>2, <2>3, <2>4, <2>5 DEF Unseen
<1>5. InPublish' = InPublish
  BY <1>3 DEF InPublish
<1> QED
  BY <1>1, <1>2, <1>3, <1>4, <1>5, Stutters

\* Within a publish: the scan, a wait and the room made for a CLOSE are not seen either.
LEMMA HiddenStep ==
  ASSUME TypeOK, Wait \/ ScanToHit \/ Evict \/ Outside
  PROVE  UNCHANGED Service!vars
<1>1. CASE Outside
  <2>1. UNCHANGED <<clients, pc, cur, ret, msg, copies, lost>>
    BY <1>1, OutsideKeeps DEF local, aux
  <2>2. ListsKept /\ InPublish' = InPublish
    BY <2>1 DEF ListsKept, Connected, InUse, Queue, InPublish
  <2> QED
    BY <2>1, <2>2, Stutters
<1>2. CASE Wait
  BY <1>2, KeepsLists, Stutters DEF Wait, InPublish, aux
<1>3. CASE ScanToHit
  BY <1>3, KeepsLists, Stutters DEF ScanToHit, InPublish, aux
<1>4. CASE Evict
  BY <1>4, KeepsLists, Stutters DEF Evict, StartClose, InPublish, aux
<1> QED
  BY <1>1, <1>2, <1>3, <1>4
-----------------------------------------------------------------------------
\* Only a client that missed the publish in service is evicted, at every step.
LEMMA EvictingStep ==
  ASSUME TypeOK, Control, FanInv, Evicting, [Next]_vars
  PROVE  Evicting'
<1>1. CASE Quiet
  <2>1. ~Publishing'
    BY <1>1, QuietIsQuiet DEF FanInv
  <2> QED
    BY <2>1 DEF Evicting, Publishing
<1>2. CASE Outside
  BY <1>2, OutsideKeeps DEF Evicting, local, aux
<1>3. CASE Wait \/ Evict
  BY <1>3 DEF Wait, Evict, StartClose, Evicting, aux
<1>4. CASE Publish \/ ScanToHit \/ PublishDone \/ Delivered
  BY <1>4 DEF Publish, ScanToHit, PublishDone, Delivered, BackToLoop, Evicting
<1>5. CASE NotDelivered
  BY <1>5 DEF NotDelivered, Evicting
<1>6. CASE CloseAcked \/ CloseUnacked
  BY <1>6 DEF CloseAcked, CloseUnacked, CloseReturns, BackToLoop, Evicting, TypeOK, PlaceOK
<1> QED
  BY <1>1, <1>2, <1>3, <1>4, <1>5, <1>6 DEF Next, BrokerNext, Quiet, Answers, Outside

\* Every step of the broker is one of the service, or none.
LEMMA ServiceStep ==
  ASSUME TypeOK, Control, FanInv, Evicting, PublishReachesAll, [Next]_vars
  PROVE  [Service!Next]_(Service!vars)
<1>1. CASE Unseen
  BY <1>1, UnseenStep
<1>2. CASE Wait \/ ScanToHit \/ Evict \/ Outside
  BY <1>2, HiddenStep
<1>3. CASE OpenWelcomed
  BY <1>3, AcceptStep DEF Service!Next
<1>4. CASE Subscribe
  <2>1. \E s \in Slots, f \in Filters : Service!Subscribe(s, f)
    BY <1>4, SubscribeStep
  <2> QED
    BY <2>1 DEF Service!Next
<1>5. CASE Unsubscribe
  <2>1. \E s \in Slots, f \in Filters : Service!Unsubscribe(s, f)
    BY <1>5, UnsubscribeStep
  <2> QED
    BY <2>1 DEF Service!Next
<1>6. CASE Publish
  <2>1. msg.arg \in Args /\ Service!Begin(msg.arg)
    BY <1>6, BeginStep
  <2>2. \E t \in Args : Service!Begin(t)
    BY <2>1 DEF Service!Begin
  <2> QED
    BY <2>2 DEF Service!Next
<1>7. CASE Delivered
  <2>1. cur \in Slots /\ Service!Serve(cur)
    BY <1>7, ServeStep
  <2>2. \E p \in Slots : Service!Serve(p)
    BY <2>1 DEF Service!Serve, Service!Wants
  <2> QED
    BY <2>2 DEF Service!Next
<1>8. CASE NotDelivered
  BY <1>8, MissStep DEF Service!Next
<1>9. CASE CloseAcked \/ CloseUnacked
  BY <1>9, DropStep DEF Service!Next
<1>10. CASE PublishDone
  BY <1>10, FinishStep DEF Service!Next
<1> QED
  BY <1>1, <1>2, <1>3, <1>4, <1>5, <1>6, <1>7, <1>8, <1>9, <1>10
     DEF Next, BrokerNext, Unseen, Outside

(***************************************************************************)
(* psmqd implements the publish/subscribe service, for any number of       *)
(* clients, topics and places in queues: with its scan over slots and      *)
(* lists, full queues, timeouts and evictions under way, a publish is one  *)
(* undisturbed operation that reaches, once, everybody who wants it and    *)
(* did not miss it (broker.c:683-751).                                     *)
(***************************************************************************)
THEOREM BrokerIsService == Spec => PubSubSpec
<1>1. Init => Service!Init /\ Evicting
  <2> SUFFICES ASSUME Init PROVE Service!Init /\ Evicting
    OBVIOUS
  <2>1. Connected = {}
    BY DEF Init, Connected, InUse, Queue, NoClient
  <2>2. Subscriptions = [s \in Slots |-> Service!NothingAsked]
    <3>1. \A f \in Filters : Times(<<>>, f) = 0
      <4>1. \A f \in Filters : {i \in DOMAIN <<>> : <<>>[i] = f} = {}
        OBVIOUS
      <4> QED
        BY <4>1, FS_EmptySet DEF Times
    <3>2. \A s \in Slots : clients[s].topics = <<>>
      BY DEF Init, NoClient
    <3> QED
      BY <3>1, <3>2 DEF Subscriptions, Service!NothingAsked
  <2>3. ~InPublish /\ {s \in Slots : copies[s] > 0} = {} /\ lost = {}
    BY DEF Init, InPublish, NoCopies
  <2> QED
    BY <2>1, <2>2, <2>3 DEF Service!Init, Evicting, InPublish
<1>2. TypeInv /\ FanInv /\ Evicting /\ [Next]_vars => Evicting'
  BY EvictingStep DEF TypeInv
<1>3. TypeInv /\ FanInv /\ Evicting /\ PublishReachesAll /\ [Next]_vars
        => [Service!Next]_(Service!vars)
  BY ServiceStep DEF TypeInv
<1> QED
  BY <1>1, <1>2, <1>3, FanOutInvariant, NobodyIsPassedOver, PTL DEF Spec, PubSubSpec, Service!Spec
=============================================================================
