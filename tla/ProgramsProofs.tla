--------------------------- MODULE ProgramsProofs ---------------------------
(***************************************************************************)
(* Proofs about psmq-sub and psmq-pub: each of their steps is one that     *)
(* System allows a client, so what is proved of System holds of them too;  *)
(* psmq-sub stops soon; and programs that come and go in good order leave  *)
(* no slot behind.                                                         *)
(***************************************************************************)
EXTENDS Programs, SessionProofs

\* Where in the library a program is, by where it is in main().
PlaceOf(c) ==
  /\ prog[c] \in {"off", "starting", "unlink"} => at[c] = "idle"
  /\ prog[c] = "connecting" => at[c] \in {"create", "connect", "opening", "wait", "giveup"}
  /\ prog[c] = "options" => at[c] \in {"idle", "ready"}
  /\ prog[c] \in {"ack", "check", "receive", "publish", "done", "failed", "invalid"}
       => at[c] = "ready"
  /\ prog[c] \in {"leaving", "aborting"} => at[c] = "closing"

\* What struct psmq holds while there is no session.
Cleared(c) ==
  /\ at[c] \in {"idle", "create"} => qsub[c] = NoQueue /\ fd[c] = 0
  /\ ~Ready(c) => asked[c] = {} /\ timed[c] = FALSE

InLibrary == \A c \in Clients : PlaceOf(c) /\ Cleared(c)

\* A psmq-sub that connects is at an option, one that waits for an answer at a -t, and before
\* it connects there was no -b and no -t; a psmq-pub that runs has something to publish.
AtWork ==
  /\ \A c \in Subs :
       /\ prog[c] \in {"connecting", "ack"} => opt[c] \in DOMAIN Options(c)
       /\ prog[c] = "ack" => Options(c)[opt[c]].opt = "t"
       /\ prog[c] \in {"starting", "options"} /\ at[c] = "idle" =>
            ~Seen(c, "b") /\ ~Seen(c, "t")
  /\ \A c \in Pubs : /\ runs[c] <= Len(Publishes)
                     /\ prog[c] # "off" => runs[c] \in DOMAIN Publishes

\* Wherever it is, who was told to stop may still take what it takes from there on.
Stopping == \A c \in Subs : left[c] >= 0 /\ (~run[c] => left[c] >= MayTake(c))

PInv == PTypeOK /\ InLibrary /\ AtWork /\ Stopping
-----------------------------------------------------------------------------
(* Slots and who gives them back: all, while programs come and go in order.*)

\* The answers to OPEN in queue q.
AnswersIn(q) == {m \in Elems(mqs[q]) : m.cmd = "open"}
AnswersTo(c) == AnswersIn(qsub[c])

\* Nobody has answered client c, and no slot has its queue.
NotAnswered(c) == AnswersTo(c) = {} /\ \A s \in Slots : Queue(s) # qsub[c]

\* Request i of the control queue is the OPEN of client c; it is in service.
OpenAt(i, c) == i \in DOMAIN ctrl /\ ctrl[i].cmd = "open" /\ ctrl[i].arg = c
Opens(c) == pc = "open" /\ msg.arg = c

\* A client that connects has its queue under its name, and waits for one answer to one OPEN.
Connect ==
  \A c \in Clients :
    /\ at[c] \in {"connect", "opening", "wait"} => names[c] = qsub[c]
    /\ at[c] \in {"connect", "opening"} => NotAnswered(c)
    /\ at[c] = "wait" => \A m, n \in AnswersTo(c) : m = n
    /\ Opens(c) \/ (\E i \in DOMAIN ctrl : OpenAt(i, c)) => at[c] = "wait" /\ NotAnswered(c)
    /\ \A i, j \in DOMAIN ctrl : OpenAt(i, c) /\ OpenAt(j, c) => i = j
    /\ Opens(c) => \A i \in DOMAIN ctrl : ~OpenAt(i, c)

\* A slot about to be offered has a client waiting for it.
Welcome ==
  pc = "welcome" => \E c \in Clients : at[c] = "wait" /\ AnswersTo(c) = {} /\ qsub[c] = Queue(cur)

\* Slot s is offered to client c, which waits for it.
OfferedTo(s, c) == at[c] = "wait" /\ Queue(s) = qsub[c] /\ s \in Offered(qsub[c])

\* Somebody will give slot s back: the broker is about to offer it, its client waits for it
\* or has it, or its CLOSE is on its way.
Claimed(s) ==
  \/ pc = "welcome" /\ cur = s
  \/ \E c \in Clients : OfferedTo(s, c) \/ (Ready(c) /\ fd[c] = s)
  \/ CloseAsked(s)

\* Each queue has at most one slot.
Opening ==
  /\ Connect /\ Welcome
  /\ \A s, t \in Slots : InUse(s) /\ Queue(s) = Queue(t) => s = t

\* As long as no program left in disorder, every slot that is taken is claimed.
Claims == Opening /\ (unclean \/ \A s \in Slots : InUse(s) => Claimed(s))

ClaimsInv == (unread => unclean) /\ (~unread => Claims)
-----------------------------------------------------------------------------
(* A program's step is a step of System.                                   *)

\* A command line is a sequence of options.
LEMMA OptionsTyped ==
  ASSUME PTypeOK, NEW c \in Subs
  PROVE  Options(c) \in Seq(CommandOptions)
<1>1. <<>> \in Seq(CommandOptions)
  OBVIOUS
<1> QED
  BY <1>1, ProgramsAssumption DEF PTypeOK, Options

\* psmq-sub leaves main() in the middle: to the library its process dies, or nothing happens.
LEMMA QuitsIsCrash ==
  ASSUME STypeOK, PTypeOK, InLibrary, NEW c \in Clients, c \in Subs, SubQuits(c)
  PROVE  Crash(c) \/ UNCHANGED <<vars, own>>
<1>1. prog[c] = "options" /\ EndsSession(c) /\ UNCHANGED vars
  BY DEF SubQuits, AtOption
<1>2. opt[c] \in DOMAIN argv[c] /\ argv[c][opt[c]].opt = "h"
  BY DEF SubQuits, AtOption, Options
<1>3. argv[c] \in Lines
  BY <1>2 DEF PTypeOK
<1>4. "crash" \in Calls
  BY <1>2, <1>3, ProgramsAssumption
<1>5. CASE at[c] = "idle"
  <2>1. qsub[c] = NoQueue /\ fd[c] = 0 /\ asked[c] = {} /\ timed[c] = FALSE
    BY <1>5 DEF InLibrary, Cleared, Ready
  <2>2. UNCHANGED own
    BY <1>1, <1>5, <2>1 DEF EndsSession, Goes, STypeOK, own
  <2> QED
    BY <1>1, <2>2
<1> QED
  BY <1>1, <1>4, <1>5 DEF Crash

\* The calls of a program are calls a client of System may make.
LEMMA ProgramImplements ==
  ASSUME STypeOK, PTypeOK, InLibrary, AtWork, NEW c \in Clients,
         Moves(c) \/ SendsRequest(c) \/ Happens(c)
  PROVE  ClientStep(c) \/ UNCHANGED svars
<1>1. ASSUME UNCHANGED <<vars, own, evicted>> PROVE UNCHANGED svars
  BY <1>1 DEF svars
<1>2. ASSUME ClientNext(c), UNCHANGED evicted PROVE ClientStep(c)
  BY <1>2 DEF ClientStep
<1>3. CASE Connecting(c) \/ ConnectingSends(c) \/ ConnectingFails(c)
  BY <1>2, <1>3
     DEF Connecting, ConnectingSends, ConnectingFails, OtherwiseAs, ClientNext, InitStep
<1>4. CASE CleansUp(c) \/ SendsClose(c) \/ CloseInterrupted(c) \/ Killed(c)
  BY <1>2, <1>4 DEF CleansUp, SendsClose, CloseInterrupted, Killed, OtherwiseAs, ClientNext
<1>5. CASE Unlinks(c) \/ SubConnects(c) \/ PubStarts(c)
  BY <1>1, <1>2, <1>5
     DEF Unlinks, SubConnects, PubStarts, NoCall, OtherwiseAs, ClientNext, InitStep
<1>6. CASE c \in Subs /\ SubQuits(c)
  BY <1>1, <1>2, <1>6, QuitsIsCrash DEF SubQuits, ClientNext
<1>7. CASE SubAcked(c) \/ SubReceives(c)
  BY <1>2, <1>7 DEF SubAcked, SubReceives, OtherwiseAs, ClientNext
<1>8. CASE c \in Subs /\ SubSubscribes(c)
  <2>1. opt[c] \in DOMAIN argv[c] /\ argv[c][opt[c]].opt = "t"
    BY <1>8 DEF SubSubscribes, AtOption, Options
  <2>2. argv[c] \in Lines
    BY <1>8, <2>1 DEF PTypeOK
  <2>3. argv[c][opt[c]] \in CommandOptions
    BY <2>1, <2>2, ProgramsAssumption
  <2>4. argv[c][opt[c]].arg \in Filters
    BY <2>1, <2>3 DEF CommandOptions
  <2>5. CallSubscribe(c, argv[c][opt[c]].arg) /\ UNCHANGED evicted
    BY <1>8 DEF SubSubscribes, Options, OtherwiseAs
  <2> QED
    BY <1>2, <2>4, <2>5 DEF ClientNext
<1>9. CASE SubSetsTimeout(c)
  <2>1. CallIoctl(c, "positive") /\ UNCHANGED evicted
    BY <1>9 DEF SubSetsTimeout, OtherwiseAs
  <2> QED
    BY <1>2, <2>1 DEF ClientNext, Timeouts
<1>10. CASE c \in Pubs /\ PubPublishes(c)
  <2>1. runs[c] \in DOMAIN Publishes
    BY <1>10 DEF PubPublishes, AtWork
  <2>2. Publishes[runs[c]] \in Topics \X Prios
    BY <2>1, ProgramsAssumption
  <2>3. /\ CallPublish(c, Publishes[runs[c]][1], Publishes[runs[c]][2])
        /\ UNCHANGED evicted
    BY <1>10 DEF PubPublishes, OtherwiseAs
  <2> QED
    BY <1>2, <2>2, <2>3 DEF ClientNext
<1>11. CASE \/ SubConnectsNoMore(c) \/ SubLogs(c) \/ SubHasNoTopic(c) \/ SubChecksRun(c)
            \/ SubStarts(c) \/ SubInitialises(c) \/ SubSignal(c) \/ ReceiveInterrupted(c)
            \/ SetupInterrupted(c) \/ PubInterrupted(c)
  BY <1>1, <1>11
     DEF SubInitialises, SubConnectsNoMore, SubLogs, SubHasNoTopic, SubChecksRun, SubStarts, SubSignal,
         ReceiveInterrupted, SetupInterrupted, PubInterrupted, NoCall, OtherwiseAs
<1> QED
  BY <1>3, <1>4, <1>5, <1>6, <1>7, <1>8, <1>9, <1>10, <1>11
     DEF Moves, SubMoves, SendsRequest, Happens

\* Every step of the programs and their broker is one of System.
LEMMA ProgramsStep ==
  ASSUME STypeOK, PTypeOK, InLibrary, AtWork, [PNext]_pvars
  PROVE  [SNext]_svars
<1>1. CASE \E c \in Clients : Moves(c) \/ SendsRequest(c) \/ Happens(c)
  BY <1>1, ProgramImplements DEF SNext
<1> QED
  BY <1>1 DEF PNext, SNext, pvars
-----------------------------------------------------------------------------
(* Where programs are.                                                     *)

Places == {"off", "starting", "connecting", "options", "ack", "check", "receive", "publish",
           "done", "failed", "invalid", "leaving", "aborting", "unlink"}

\* Steps that move a program and change nothing but its flags.
Moved(c) ==
  /\ \E p \in Places : MovesTo(c, p)
  /\ UNCHANGED <<argv, opt, runs>>
  /\ run' \in [Subs -> BOOLEAN] /\ flush' \in [Subs -> BOOLEAN] /\ left' \in [Subs -> Int]
  /\ unclean' \in BOOLEAN /\ unread' \in BOOLEAN

\* The -t psmq-sub has yet to come to.
TopicsLeft(c) == {i \in opt[c] .. Len(Options(c)) : Options(c)[i].opt = "t"}

\* There are so and so many of them.
LEMMA TopicsLeftNat ==
  ASSUME PTypeOK, NEW c \in Subs
  PROVE  IsFiniteSet(TopicsLeft(c)) /\ Cardinality(TopicsLeft(c)) \in Nat
<1>1. opt[c] \in Int /\ Len(Options(c)) \in Int
  BY OptionsTyped DEF PTypeOK
<1>2. IsFiniteSet(opt[c] .. Len(Options(c)))
  BY <1>1, FS_Interval
<1>3. IsFiniteSet(TopicsLeft(c))
  BY <1>2, FS_Subset DEF TopicsLeft
<1> QED
  BY <1>3, FS_CardinalityType

\* What psmq-sub may take is a number.
LEMMA MayTakeNat ==
  ASSUME PTypeOK, NEW c \in Subs
  PROVE  MayTake(c) \in Nat
<1>1. Cardinality(TopicsLeft(c)) \in Nat
  BY TopicsLeftNat
<1> HIDE DEF PTypeOK
<1> QED
  BY <1>1 DEF MayTake, TopicsLeft

\* A program that moves keeps its types.
LEMMA MovedTyped ==
  ASSUME PTypeOK, NEW c \in Clients, Moved(c)
  PROVE  PTypeOK'
BY DEF Moved, MovesTo, Places, PTypeOK, Options

\* Its flags keep their types whatever it does.
LEMMA FlagsTyped ==
  ASSUME PTypeOK, NEW c \in Clients, Moves(c) \/ SendsRequest(c) \/ Happens(c)
  PROVE  /\ run' \in [Subs -> BOOLEAN] /\ flush' \in [Subs -> BOOLEAN] /\ left' \in [Subs -> Int]
         /\ unclean' \in BOOLEAN /\ unread' \in BOOLEAN
<1> USE DEF PTypeOK
<1>1. CASE UNCHANGED <<run, flush, left, unclean, unread>>
  BY <1>1
<1>2. CASE \/ ConnectingFails(c) \/ CloseInterrupted(c) \/ Killed(c)
           \/ (c \in Subs /\ SubQuits(c))
  BY <1>2 DEF ConnectingFails, CloseInterrupted, Killed, SubQuits, SubAsBefore
<1>3. CASE c \in Subs /\ (SubReceives(c) \/ SubAcked(c))
  <2>1. UNCHANGED <<run, flush, unclean, unread>>
    BY <1>3 DEF SubReceives, SubAcked, OtherwiseAs
  <2>2. Takes(c)
    BY <1>3 DEF SubReceives, SubAcked
  <2>3. left' = [left EXCEPT ![c] = left[c] - 1] \/ left' = left
    BY <2>2 DEF Takes
  <2>4. left[c] - 1 \in Int
    BY <1>3
  <2> QED
    BY <2>1, <2>3, <2>4
<1>4. CASE c \in Subs /\ SubStarts(c)
  <2>1. run' \in [Subs -> BOOLEAN] /\ flush' \in [Subs -> BOOLEAN]
    BY <1>4 DEF SubStarts
  <2>2. left' = [left EXCEPT ![c] = 0] /\ 0 \in Int /\ left \in [Subs -> Int]
    BY <1>4 DEF SubStarts
  <2>3. left' \in [Subs -> Int]
    BY <2>2
  <2> QED
    BY <1>4, <2>1, <2>3 DEF SubStarts
<1>9. CASE c \in Subs /\ SubInitialises(c)
  BY <1>9 DEF SubInitialises, OtherwiseAs
<1>8. CASE c \in Subs /\ SubSignal(c)
  <2>1. run' = [run EXCEPT ![c] = FALSE] \/ UNCHANGED run
    BY <1>8 DEF SubSignal
  <2>2. left' = [left EXCEPT ![c] = IF run[c] THEN MayTake(c) ELSE @] \/ UNCHANGED left
    BY <1>8 DEF SubSignal
  <2>3. flush' = [flush EXCEPT ![c] = TRUE] \/ UNCHANGED flush
    BY <1>8 DEF SubSignal
  <2>4. UNCHANGED <<unclean, unread>>
    BY <1>8 DEF SubSignal, OtherwiseAs
  <2>5. left' \in [Subs -> Int]
    <3> DEFINE n == IF run[c] THEN MayTake(c) ELSE left[c]
    <3>1. n \in Int /\ left \in [Subs -> Int]
      BY <1>8, MayTakeNat
    <3>2. left' = [left EXCEPT ![c] = n] \/ left' = left
      BY <2>2
    <3> HIDE DEF n
    <3> QED
      BY <3>1, <3>2
  <2>6. run' \in [Subs -> BOOLEAN]
    BY <1>8, <2>1
  <2>7. flush' \in [Subs -> BOOLEAN]
    BY <1>8, <2>3
  <2> QED
    BY <2>4, <2>5, <2>6, <2>7
<1>5. CASE ReceiveInterrupted(c)
  BY <1>5 DEF ReceiveInterrupted, OtherwiseAs
<1>6. CASE \/ Connecting(c) \/ CleansUp(c) \/ Unlinks(c)
           \/ SubConnects(c) \/ SubConnectsNoMore(c) \/ SubLogs(c)
           \/ SubHasNoTopic(c) \/ SubChecksRun(c)
  BY <1>1, <1>6
     DEF Connecting, CleansUp, Unlinks, SubConnects, SubConnectsNoMore, SubLogs,
         SubHasNoTopic, SubChecksRun, OtherwiseAs, SubAsBefore
<1>7. CASE \/ ConnectingSends(c) \/ SendsClose(c) \/ SubSubscribes(c) \/ SubSetsTimeout(c)
           \/ PubPublishes(c) \/ SetupInterrupted(c) \/ PubStarts(c) \/ PubInterrupted(c)
  BY <1>1, <1>7
     DEF ConnectingSends, SendsClose, SubSubscribes, SubSetsTimeout, PubPublishes,
         SetupInterrupted, PubStarts, PubInterrupted, OtherwiseAs, SubAsBefore, pown
<1> QED
  BY <1>2, <1>3, <1>4, <1>5, <1>6, <1>7, <1>8, <1>9 DEF Moves, SubMoves, SendsRequest, Happens

\* A program's step keeps its types.
LEMMA PTypeKept ==
  ASSUME PTypeOK, AtWork, NEW c \in Clients, Moves(c) \/ SendsRequest(c) \/ Happens(c)
  PROVE  PTypeOK'
<1>0. /\ run' \in [Subs -> BOOLEAN] /\ flush' \in [Subs -> BOOLEAN] /\ left' \in [Subs -> Int]
      /\ unclean' \in BOOLEAN /\ unread' \in BOOLEAN
  BY FlagsTyped
<1>1. ASSUME \E p \in Places : MovesTo(c, p), UNCHANGED <<argv, opt, runs>>
      PROVE  PTypeOK'
  BY <1>0, <1>1, MovedTyped DEF Moved
<1>2. ASSUME c \in Subs, opt[c] \in DOMAIN Options(c), opt' = [opt EXCEPT ![c] = @ + 1],
             \E p \in Places : prog' = [prog EXCEPT ![c] = p] \/ UNCHANGED prog,
             UNCHANGED <<argv, runs>>
      PROVE  PTypeOK'
  <2>1. opt[c] + 1 \in 1 .. Len(Options(c)) + 1
    BY <1>2, OptionsTyped
  <2>2. prog' \in [Clients -> Places]
    BY <1>2 DEF PTypeOK, Places
  <2> QED
    BY <1>0, <1>2, <2>1, <2>2 DEF PTypeOK, Options, Places
<1>3. CASE Connecting(c)
  <2>1. \E p \in Places : MovesTo(c, p)
    BY <1>3 DEF Connecting, Connects, Places
  <2>2. CASE c \in Subs /\ prog[c] = "connecting" /\ opt' = [opt EXCEPT ![c] = @ + 1]
    BY <1>2, <1>3, <2>1, <2>2 DEF AtWork, Connecting, MovesTo, OtherwiseAs
  <2> QED
    BY <1>1, <1>3, <2>1, <2>2 DEF Connecting, Connects, OtherwiseAs
<1>4. CASE \/ CleansUp(c) \/ Unlinks(c) \/ SubConnects(c) \/ SubHasNoTopic(c) \/ SubChecksRun(c)
           \/ SendsClose(c) \/ CloseInterrupted(c) \/ Killed(c) \/ SubQuits(c) \/ SubInitialises(c)
  <2>1. \E p \in Places : MovesTo(c, p)
    BY <1>4 DEF SubInitialises, CleansUp, Unlinks, SubConnects, SubHasNoTopic, SubChecksRun, SendsClose,
                CloseInterrupted, Killed, SubQuits, CleanedUp, Places
  <2> QED
    BY <1>1, <1>4, <2>1
       DEF SubInitialises, CleansUp, Unlinks, SubConnects, SubHasNoTopic, SubChecksRun, SendsClose,
           CloseInterrupted, Killed, SubQuits, OtherwiseAs, SubAsBefore
<1>5. CASE \/ SubReceives(c) \/ SubSubscribes(c) \/ SubSetsTimeout(c) \/ PubPublishes(c)
           \/ ReceiveInterrupted(c) \/ SetupInterrupted(c) \/ PubInterrupted(c)
  <2>1. \E p \in Places : MovesTo(c, p)
    BY <1>5 DEF SubReceives, SubSubscribes, SubSetsTimeout, PubPublishes, ReceiveInterrupted,
                SetupInterrupted, PubInterrupted, AfterMessage, Places
  <2> QED
    BY <1>1, <1>5, <2>1
       DEF SubReceives, SubSubscribes, SubSetsTimeout, PubPublishes, ReceiveInterrupted,
           SetupInterrupted, PubInterrupted, OtherwiseAs, SubAsBefore
<1>6. CASE c \in Subs /\ SubConnectsNoMore(c)
  BY <1>2, <1>6 DEF SubConnectsNoMore, NextOption, AtOption, OtherwiseAs, Places
<1>7. CASE c \in Subs /\ SubLogs(c)
  <2>1. CASE NextOption(c)
    BY <1>2, <1>7, <2>1 DEF SubLogs, NextOption, AtOption, OtherwiseAs, Places
  <2>2. CASE UNCHANGED opt /\ \E p \in Places : MovesTo(c, p)
    BY <1>1, <1>7, <2>2 DEF SubLogs, OtherwiseAs
  <2> QED
    BY <1>7, <2>1, <2>2 DEF SubLogs, Places
<1>8. CASE c \in Subs /\ SubAcked(c)
  <2>1. \E p \in Places : MovesTo(c, p)
    BY <1>8 DEF SubAcked, Places
  <2>2. prog[c] = "ack" /\ UNCHANGED <<argv, runs>>
    BY <1>8 DEF SubAcked, OtherwiseAs
  <2>3. opt' = [opt EXCEPT ![c] = @ + 1] \/ UNCHANGED opt
    BY <1>8 DEF SubAcked
  <2> QED
    BY <1>1, <1>2, <1>8, <2>1, <2>2, <2>3 DEF AtWork, MovesTo
<1>9. CASE c \in Subs /\ SubStarts(c)
  <2>1. PICK line \in Lines : argv' = [argv EXCEPT ![c] = line]
    BY <1>9 DEF SubStarts
  <2>2. Len(line) \in Nat
    BY ProgramsAssumption
  <2>3. 1 \in 1 .. Len(line) + 1
    BY <2>2
  <2>4. /\ prog' = [prog EXCEPT ![c] = "starting"] /\ opt' = [opt EXCEPT ![c] = 1]
        /\ runs' = [runs EXCEPT ![c] = @ + 1]
    BY <1>9 DEF SubStarts, MovesTo
  <2> QED
    BY <1>0, <1>9, <2>1, <2>3, <2>4 DEF PTypeOK, Options
<1>10. CASE PubStarts(c)
  <2>1. /\ prog' = [prog EXCEPT ![c] = "connecting"] /\ UNCHANGED <<argv, opt>>
        /\ runs' = [runs EXCEPT ![c] = @ + 1]
    BY <1>10 DEF PubStarts, MovesTo, SubAsBefore
  <2> QED
    BY <1>0, <2>1 DEF PTypeOK, Options
<1>11. CASE ConnectingSends(c) \/ ConnectingFails(c) \/ SubSignal(c)
  <2>1. UNCHANGED <<argv, opt, prog, runs>>
    BY <1>11 DEF ConnectingSends, ConnectingFails, SubSignal, pown, SubAsBefore, OtherwiseAs
  <2> QED
    BY <1>0, <2>1 DEF PTypeOK, Options
<1> QED
  BY <1>3, <1>4, <1>5, <1>6, <1>7, <1>8, <1>9, <1>10, <1>11
     DEF Moves, SubMoves, SendsRequest, Happens

\* A call of one client leaves the others' struct psmq alone.
LEMMA OthersKeep ==
  ASSUME STypeOK, NEW c \in Clients, ClientNext(c), NEW d \in Clients, d # c
  PROVE  /\ at'[d] = at[d] /\ qsub'[d] = qsub[d] /\ fd'[d] = fd[d]
         /\ asked'[d] = asked[d] /\ timed'[d] = timed[d]
<1> USE DEF STypeOK, Goes, own
<1>1. CASE EndsSession(c)
  BY <1>1 DEF EndsSession
<1>2. CASE \/ InitUnlink(c) \/ InitCreateFails(c) \/ InitSendOpen(c) \/ InitTimesOut(c)
           \/ InitInterrupted(c) \/ CallCleanup(c)
  BY <1>2 DEF InitUnlink, InitCreateFails, InitSendOpen, InitTimesOut, InitInterrupted, CallCleanup
<1>3. CASE InitCreate(c) \/ InitConnect(c) \/ InitReceive(c)
  BY <1>1, <1>3 DEF InitCreate, InitConnect, InitReceive
<1>4. CASE InitGivesUp(c) \/ CleanupSendsClose(c) \/ CleanupInterrupted(c) \/ Crash(c)
  BY <1>1, <1>4 DEF InitGivesUp, CleanupSendsClose, CleanupInterrupted, Crash
<1>5. CASE \/ \E f \in Filters : CallSubscribe(c, f) \/ CallUnsubscribe(c, f)
           \/ \E timeout \in Timeouts : CallIoctl(c, timeout)
  BY <1>5 DEF CallSubscribe, CallUnsubscribe, CallIoctl
<1>6. CASE \/ CallReceive(c) \/ AppUnlink(c)
           \/ \E topic \in Topics, prio \in Prios : CallPublish(c, topic, prio)
  BY <1>6 DEF CallReceive, AppUnlink, CallPublish
<1> QED
  BY <1>2, <1>3, <1>4, <1>5, <1>6 DEF ClientNext, InitStep

\* What a session leaves behind is cleared.
LEMMA ClearedKept ==
  ASSUME STypeOK, NEW c \in Clients, ClientNext(c), Cleared(c)
  PROVE  Cleared(c)'
<1> USE DEF STypeOK, Goes, own, Cleared, Ready
<1>1. CASE EndsSession(c)
  BY <1>1 DEF EndsSession
<1>2. CASE \/ InitUnlink(c) \/ InitCreateFails(c) \/ InitSendOpen(c) \/ InitTimesOut(c)
           \/ InitInterrupted(c) \/ CallCleanup(c)
  BY <1>2 DEF InitUnlink, InitCreateFails, InitSendOpen, InitTimesOut, InitInterrupted, CallCleanup,
              CanCall
<1>3. CASE InitCreate(c) \/ InitConnect(c) \/ InitReceive(c)
  BY <1>1, <1>3 DEF InitCreate, InitConnect, InitReceive
<1>4. CASE InitGivesUp(c) \/ CleanupSendsClose(c) \/ CleanupInterrupted(c) \/ Crash(c)
  BY <1>1, <1>4 DEF InitGivesUp, CleanupSendsClose, CleanupInterrupted, Crash
<1>5. CASE \/ \E f \in Filters : CallSubscribe(c, f) \/ CallUnsubscribe(c, f)
           \/ \E timeout \in Timeouts : CallIoctl(c, timeout)
  BY <1>5 DEF CallSubscribe, CallUnsubscribe, CallIoctl, CanCall
<1>6. CASE \/ CallReceive(c) \/ AppUnlink(c)
           \/ \E topic \in Topics, prio \in Prios : CallPublish(c, topic, prio)
  BY <1>6 DEF CallReceive, AppUnlink, CallPublish
<1> QED
  BY <1>2, <1>3, <1>4, <1>5, <1>6 DEF ClientNext, InitStep

\* A program and the library move together.
LEMMA PlaceKept ==
  ASSUME STypeOK, PTypeOK, AtWork, NEW c \in Clients, PlaceOf(c),
         Moves(c) \/ SendsRequest(c) \/ Happens(c)
  PROVE  PlaceOf(c)'
<1>0. /\ \A p : MovesTo(c, p) => prog'[c] = p
      /\ \A a : Goes(c, a) => at'[c] = a
      /\ EndsSession(c) => at'[c] = "idle"
      /\ NoCall \/ UNCHANGED own => at'[c] = at[c]
  BY DEF STypeOK, PTypeOK, MovesTo, Goes, EndsSession, NoCall, own
<1> USE DEF PlaceOf
<1>1. CASE Connecting(c)
  <2>1. at'[c] \in {"connect", "idle", "opening", "wait", "giveup", "ready"}
    BY <1>0, <1>1 DEF Connecting, InitCreate, InitCreateFails, InitConnect, InitReceive,
                      InitGivesUp
  <2>2. prog'[c] = CASE at'[c] = "ready" /\ c \in Subs -> "options"
                     [] at'[c] = "ready" /\ c \in Pubs -> "publish"
                     [] at'[c] = "idle" -> "off"
                     [] OTHER -> "connecting"
    BY <1>0, <1>1 DEF Connecting, Connects
  <2> QED
    BY <2>1, <2>2 DEF Pubs
<1>2. CASE ConnectingSends(c) \/ ConnectingFails(c)
  BY <1>0, <1>2 DEF ConnectingSends, ConnectingFails, InitSendOpen, InitTimesOut, InitInterrupted,
                    pown
<1>3. CASE CleansUp(c) \/ SendsClose(c) \/ CloseInterrupted(c) \/ Killed(c)
  BY <1>0, <1>3 DEF CleansUp, CallCleanup, SendsClose, CleanupSendsClose, CloseInterrupted,
                    CleanupInterrupted, Killed, Crash, CleanedUp
<1>4. CASE Unlinks(c)
  BY <1>0, <1>4 DEF Unlinks, AppUnlink
<1>5. CASE SubStarts(c) \/ SubInitialises(c) \/ PubStarts(c) \/ SubConnects(c)
  BY <1>0, <1>5 DEF SubStarts, SubInitialises, PubStarts, SubConnects, InitUnlink
<1>6. CASE SubConnectsNoMore(c) \/ SubLogs(c) \/ SubQuits(c) \/ SubHasNoTopic(c) \/ SubChecksRun(c)
  BY <1>0, <1>6 DEF SubConnectsNoMore, SubLogs, SubQuits, SubHasNoTopic, SubChecksRun,
                    NextOption, AtOption, AtEnd
<1>7. CASE SubSubscribes(c) \/ SubSetsTimeout(c) \/ PubPublishes(c)
  BY <1>0, <1>7 DEF SubSubscribes, SubSetsTimeout, PubPublishes, CallSubscribe, CallIoctl,
                    CallPublish, CanCall
<1>8. CASE SubAcked(c) \/ SubReceives(c)
  BY <1>0, <1>8 DEF SubAcked, SubReceives, CallReceive, CanCall, AfterMessage
<1>9. CASE SubSignal(c) \/ ReceiveInterrupted(c) \/ PubInterrupted(c)
  BY <1>0, <1>9 DEF SubSignal, ReceiveInterrupted, PubInterrupted
<1>10. CASE c \in Subs /\ SetupInterrupted(c)
  BY <1>0, <1>10 DEF SetupInterrupted, AtOption, AtEnd, AtWork
<1> QED
  BY <1>1, <1>2, <1>3, <1>4, <1>5, <1>6, <1>7, <1>8, <1>9, <1>10
     DEF Moves, SubMoves, SendsRequest, Happens

\* A program's step is none of another program.
LEMMA OtherPrograms ==
  ASSUME PTypeOK, NEW c \in Clients, Moves(c) \/ SendsRequest(c) \/ Happens(c),
         NEW d \in Clients, d # c
  PROVE  /\ prog'[d] = prog[d] /\ runs'[d] = runs[d]
         /\ d \in Subs => /\ argv'[d] = argv[d] /\ opt'[d] = opt[d]
                          /\ run'[d] = run[d] /\ left'[d] = left[d]
<1> USE DEF PTypeOK, MovesTo
<1>1. CASE Connecting(c) \/ ConnectingSends(c) \/ ConnectingFails(c)
  BY <1>1 DEF Connecting, Connects, ConnectingSends, ConnectingFails, OtherwiseAs, SubAsBefore,
              pown
<1>2. CASE CleansUp(c) \/ SendsClose(c) \/ CloseInterrupted(c) \/ Killed(c) \/ Unlinks(c)
  BY <1>2 DEF CleansUp, SendsClose, CloseInterrupted, Killed, Unlinks, CleanedUp, OtherwiseAs,
              SubAsBefore
<1>3. CASE SubStarts(c) \/ SubInitialises(c) \/ PubStarts(c) \/ SubConnects(c)
  BY <1>3 DEF SubStarts, SubInitialises, PubStarts, SubConnects, OtherwiseAs, SubAsBefore
<1>4. CASE SubConnectsNoMore(c) \/ SubLogs(c) \/ SubQuits(c)
  BY <1>4 DEF SubConnectsNoMore, SubLogs, SubQuits, NextOption, OtherwiseAs, SubAsBefore
<1>5. CASE SubHasNoTopic(c) \/ SubChecksRun(c) \/ SubSubscribes(c) \/ SubSetsTimeout(c)
  BY <1>5 DEF SubHasNoTopic, SubChecksRun, SubSubscribes, SubSetsTimeout, OtherwiseAs, SubAsBefore
<1>6. CASE SubAcked(c) \/ SubReceives(c)
  BY <1>6 DEF SubAcked, SubReceives, Takes, OtherwiseAs
<1>7. CASE SubSignal(c) \/ ReceiveInterrupted(c) \/ SetupInterrupted(c)
  BY <1>7 DEF SubSignal, ReceiveInterrupted, SetupInterrupted, OtherwiseAs, SubAsBefore
<1>8. CASE PubPublishes(c) \/ PubInterrupted(c)
  BY <1>8 DEF PubPublishes, PubInterrupted, OtherwiseAs, SubAsBefore
<1> QED
  BY <1>1, <1>2, <1>3, <1>4, <1>5, <1>6, <1>7, <1>8
     DEF Moves, SubMoves, SendsRequest, Happens

\* A psmq-sub that connects or waits for an answer is at an option.
LEMMA AtOptionKept ==
  ASSUME PTypeOK, AtWork, NEW c \in Subs, c \in Clients,
         Moves(c) \/ SendsRequest(c) \/ Happens(c), prog'[c] \in {"connecting", "ack"}
  PROVE  /\ opt'[c] \in DOMAIN argv'[c]
         /\ prog'[c] = "ack" => argv'[c][opt'[c]].opt = "t"
<1> USE DEF PTypeOK, MovesTo, Options
<1>1. CASE Connecting(c)
  BY <1>1 DEF Connecting, Connects, OtherwiseAs, AtWork
<1>2. CASE ConnectingSends(c) \/ ConnectingFails(c) \/ SubSignal(c)
  BY <1>2 DEF ConnectingSends, ConnectingFails, SubSignal, OtherwiseAs, SubAsBefore, pown, AtWork
<1>3. CASE SubConnects(c) \/ SubSubscribes(c)
  BY <1>3 DEF SubConnects, SubSubscribes, AtOption, OtherwiseAs, SubAsBefore
<1>4. CASE CleansUp(c) \/ SendsClose(c) \/ CloseInterrupted(c) \/ Killed(c) \/ Unlinks(c)
  BY <1>4 DEF CleansUp, SendsClose, CloseInterrupted, Killed, Unlinks, CleanedUp
<1>5. CASE SubStarts(c) \/ SubInitialises(c) \/ SubConnectsNoMore(c) \/ SubLogs(c) \/ SubQuits(c)
  BY <1>5 DEF SubStarts, SubInitialises, SubConnectsNoMore, SubLogs, SubQuits, NextOption, AtOption
<1>6. CASE SubHasNoTopic(c) \/ SubChecksRun(c) \/ SubSetsTimeout(c)
  BY <1>6 DEF SubHasNoTopic, SubChecksRun, SubSetsTimeout
<1>7. CASE SubAcked(c) \/ SubReceives(c)
  BY <1>7 DEF SubAcked, SubReceives, AfterMessage
<1>8. CASE ReceiveInterrupted(c) \/ SetupInterrupted(c)
  BY <1>8 DEF ReceiveInterrupted, SetupInterrupted
<1> QED
  BY <1>1, <1>2, <1>3, <1>4, <1>5, <1>6, <1>7, <1>8
     DEF Moves, SubMoves, SendsRequest, Happens, Pubs

\* Who has seen neither -b nor -t and goes on to the next option has not if that was another.
LEMMA SeenNext ==
  ASSUME PTypeOK, NEW c \in Subs, NEW o, ~Seen(c, o), opt[c] \in DOMAIN Options(c),
         Options(c)[opt[c]].opt # o, opt'[c] = opt[c] + 1, argv'[c] = argv[c]
  PROVE  ~Seen(c, o)'
<1>1. opt[c] \in Nat
  BY DEF PTypeOK
<1>2. \A i \in 1 .. (opt[c] + 1) - 1 : i \in 1 .. opt[c] - 1 \/ i = opt[c]
  BY <1>1
<1> QED
  BY <1>2 DEF Seen, Options

\* Without a connection there was no -b and no -t.
LEMMA UnconnectedKept ==
  ASSUME STypeOK, PTypeOK, AtWork, InLibrary, NEW c \in Subs, c \in Clients,
         Moves(c) \/ SendsRequest(c) \/ Happens(c), prog'[c] \in {"starting", "options"},
         at'[c] = "idle"
  PROVE  ~Seen(c, "b")' /\ ~Seen(c, "t")'
<1>0. /\ \A p : MovesTo(c, p) => prog'[c] = p
      /\ NoCall \/ UNCHANGED own => at'[c] = at[c]
  BY DEF PTypeOK, MovesTo, NoCall, own
<1>1. CASE Connecting(c)
  BY <1>0, <1>1 DEF Connecting, Connects
<1>2. CASE ConnectingSends(c) \/ ConnectingFails(c)
  BY <1>2 DEF ConnectingSends, ConnectingFails, pown
<1>3. CASE CleansUp(c) \/ SendsClose(c) \/ CloseInterrupted(c) \/ Killed(c) \/ Unlinks(c)
  BY <1>0, <1>3 DEF CleansUp, SendsClose, CloseInterrupted, Killed, Unlinks, CleanedUp
<1>4. CASE SubStarts(c)
  <2>1. opt'[c] = 1
    BY <1>4 DEF SubStarts, PTypeOK
  <2>2. 1 .. 1 - 1 = {}
    OBVIOUS
  <2> QED
    BY <2>1, <2>2 DEF Seen
<1>5. CASE SubLogs(c)
  <2>1. at[c] = "idle" /\ UNCHANGED argv
    BY <1>0, <1>5 DEF SubLogs, OtherwiseAs
  <2>2. NextOption(c)
    BY <1>0, <1>5 DEF SubLogs
  <2>3. prog[c] = "options" /\ opt[c] \in DOMAIN Options(c) /\ Options(c)[opt[c]].opt = "o"
    BY <1>5 DEF SubLogs, AtOption
  <2>4. opt'[c] = opt[c] + 1
    BY <2>2 DEF NextOption, PTypeOK
  <2>5. ~Seen(c, "b") /\ ~Seen(c, "t")
    BY <2>1, <2>3 DEF AtWork
  <2> QED
    BY <2>1, <2>3, <2>4, <2>5, SeenNext
<1>6. CASE SubConnectsNoMore(c)
  BY <1>0, <1>6 DEF SubConnectsNoMore
<1>7. CASE SubConnects(c) \/ SubQuits(c) \/ SubHasNoTopic(c) \/ SubChecksRun(c)
  BY <1>0, <1>7 DEF SubConnects, SubQuits, SubHasNoTopic, SubChecksRun
<1>8. CASE SubSubscribes(c) \/ SubSetsTimeout(c) \/ SubReceives(c)
  BY <1>0, <1>8 DEF SubSubscribes, SubSetsTimeout, SubReceives, AfterMessage
<1>9. CASE SubAcked(c)
  BY <1>0, <1>9 DEF SubAcked, CallReceive, CanCall
<1>10. CASE SubSignal(c) \/ SubInitialises(c)
  <2>1. /\ prog[c] \in {"starting", "options"} /\ at[c] = "idle"
        /\ UNCHANGED <<argv, opt>>
    BY <1>0, <1>10 DEF SubSignal, SubInitialises, OtherwiseAs
  <2> QED
    BY <2>1 DEF AtWork, Seen, Options
<1>11. CASE ReceiveInterrupted(c) \/ SetupInterrupted(c)
  BY <1>0, <1>11 DEF ReceiveInterrupted, SetupInterrupted
<1> QED
  BY <1>1, <1>2, <1>3, <1>4, <1>5, <1>6, <1>7, <1>8, <1>9, <1>10, <1>11
     DEF Moves, SubMoves, SendsRequest, Happens, Pubs

\* A psmq-pub has something to publish.
LEMMA PublishingKept ==
  ASSUME PTypeOK, AtWork, NEW c \in Pubs, c \in Clients,
         Moves(c) \/ SendsRequest(c) \/ Happens(c)
  PROVE  runs'[c] <= Len(Publishes) /\ (prog'[c] # "off" => runs'[c] \in DOMAIN Publishes)
<1>0. /\ runs[c] <= Len(Publishes) /\ (prog[c] # "off" => runs[c] \in DOMAIN Publishes)
      /\ c \notin Subs
  BY DEF AtWork, Pubs
<1>1. CASE UNCHANGED runs /\ prog[c] # "off"
  BY <1>0, <1>1
<1>2. CASE Unlinks(c) \/ CleansUp(c) \/ Connecting(c) \/ ConnectingSends(c) \/ SendsClose(c)
  BY <1>1, <1>2 DEF Unlinks, CleansUp, Connecting, ConnectingSends, SendsClose, OtherwiseAs, pown
<1>3. CASE PubPublishes(c) \/ PubInterrupted(c) \/ ConnectingFails(c) \/ CloseInterrupted(c) \/ Killed(c)
  BY <1>1, <1>3 DEF PubPublishes, PubInterrupted, ConnectingFails, CloseInterrupted, Killed,
                    OtherwiseAs
<1>4. CASE PubStarts(c)
  <2>1. runs'[c] = runs[c] + 1 /\ runs[c] < Len(Publishes) /\ runs[c] \in Nat
    BY <1>4 DEF PubStarts, PTypeOK
  <2>2. Len(Publishes) \in Nat /\ DOMAIN Publishes = 1 .. Len(Publishes)
    BY ProgramsAssumption
  <2> QED
    BY <2>1, <2>2
<1> QED
  BY <1>0, <1>2, <1>3, <1>4 DEF Moves, SendsRequest, Happens

\* The next option: a -t less is left if this one was one.
LEMMA TopicsLeftNext ==
  ASSUME PTypeOK, NEW c \in Subs, opt'[c] = opt[c] + 1, argv'[c] = argv[c]
  PROVE  TopicsLeft(c)' = TopicsLeft(c) \ {opt[c]}
<1>1. opt[c] \in Int /\ Len(argv[c]) \in Int
  BY OptionsTyped DEF PTypeOK, Options
<1>2. \A i : i \in opt[c] + 1 .. Len(argv[c]) <=> i \in opt[c] .. Len(argv[c]) /\ i # opt[c]
  BY <1>1
<1> QED
  BY <1>2 DEF TopicsLeft, Options

\* While psmq-sub waits for the answer to a -t, that one is left.
LEMMA TopicIsLeft ==
  ASSUME PTypeOK, NEW c \in Subs, opt[c] \in DOMAIN Options(c), Options(c)[opt[c]].opt = "t"
  PROVE  /\ opt[c] \in TopicsLeft(c) /\ Cardinality(TopicsLeft(c)) >= 1
         /\ Cardinality(TopicsLeft(c) \ {opt[c]}) = Cardinality(TopicsLeft(c)) - 1
<1>1. opt[c] \in opt[c] .. Len(Options(c))
  BY OptionsTyped DEF PTypeOK
<1>2. opt[c] \in TopicsLeft(c)
  BY <1>1 DEF TopicsLeft
<1>3. IsFiniteSet(TopicsLeft(c)) /\ Cardinality(TopicsLeft(c)) \in Nat
  BY TopicsLeftNat
<1>4. Cardinality(TopicsLeft(c)) # 0
  BY <1>2, <1>3, FS_EmptySet
<1>5. Cardinality(TopicsLeft(c) \ {opt[c]}) = Cardinality(TopicsLeft(c)) - 1
  BY <1>2, <1>3, FS_RemoveElement
<1> QED
  BY <1>2, <1>3, <1>4, <1>5

\* Who was told to stop takes no more than what it came upon before it looks at run.
LEMMA StoppingKept ==
  ASSUME PTypeOK, AtWork, Stopping, NEW c \in Subs, c \in Clients,
         Moves(c) \/ SendsRequest(c) \/ Happens(c)
  PROVE  left'[c] >= 0 /\ (~run'[c] => left'[c] >= MayTake(c)')
<1> DEFINE Setup == {"options", "connecting", "ack"}
<1>0. /\ left[c] >= 0 /\ (~run[c] => left[c] >= MayTake(c)) /\ left[c] \in Int
      /\ MayTake(c) \in Nat /\ run[c] \in BOOLEAN
      /\ \A p : MovesTo(c, p) => prog'[c] = p
  BY MayTakeNat DEF Stopping, PTypeOK, MovesTo
<1>1. /\ prog[c] = "receive" => MayTake(c) = 1
      /\ prog[c] \in Setup => MayTake(c) = Cardinality(TopicsLeft(c))
  BY DEF MayTake, TopicsLeft
<1>2. /\ prog'[c] \in Setup => MayTake(c)' = Cardinality(TopicsLeft(c)')
      /\ prog'[c] \notin Setup \cup {"receive"} => MayTake(c)' = 0
  BY DEF MayTake, TopicsLeft
<1>3. ASSUME UNCHANGED <<run, left>>, prog'[c] \notin Setup \cup {"receive"}
      PROVE  left'[c] >= 0 /\ (~run'[c] => left'[c] >= MayTake(c)')
  BY <1>0, <1>2, <1>3
<1>4. ASSUME UNCHANGED <<run, left>>, prog[c] \in Setup, prog'[c] \in Setup,
             TopicsLeft(c)' = TopicsLeft(c)
      PROVE  left'[c] >= 0 /\ (~run'[c] => left'[c] >= MayTake(c)')
  <2>1. MayTake(c)' = MayTake(c)
    BY <1>1, <1>2, <1>4
  <2> QED
    BY <1>0, <1>4, <2>1
<1>5. ASSUME UNCHANGED <<argv, opt>> PROVE TopicsLeft(c)' = TopicsLeft(c)
  BY <1>5 DEF TopicsLeft, Options
<1>6. ASSUME opt' = [opt EXCEPT ![c] = @ + 1], UNCHANGED argv, Options(c)[opt[c]].opt # "t"
      PROVE  TopicsLeft(c)' = TopicsLeft(c)
  <2>1. opt'[c] = opt[c] + 1
    BY <1>6 DEF PTypeOK
  <2>2. opt[c] \notin TopicsLeft(c)
    BY <1>6 DEF TopicsLeft
  <2> QED
    BY <1>6, <2>1, <2>2, TopicsLeftNext
<1>7. CASE Connecting(c)
  <2>1. prog[c] = "connecting" /\ UNCHANGED <<run, left, argv>>
    BY <1>7 DEF Connecting, OtherwiseAs
  <2>2. prog'[c] \in {"options", "publish", "off", "connecting"}
    BY <1>0, <1>7 DEF Connecting, Connects
  <2>3. \/ opt' = opt
        \/ opt' = [opt EXCEPT ![c] = @ + 1] /\ Options(c)[opt[c]].opt # "t"
    BY <1>7 DEF Connecting, Connects
  <2> QED
    BY <1>3, <1>4, <1>5, <1>6, <2>1, <2>2, <2>3
<1>8. CASE ConnectingSends(c) \/ ConnectingFails(c)
  <2>1. prog[c] = "connecting" /\ UNCHANGED <<run, left, argv, opt, prog>>
    BY <1>8 DEF ConnectingSends, ConnectingFails, SubAsBefore, pown
  <2> QED
    BY <1>4, <1>5, <2>1
<1>9. CASE CleansUp(c) \/ SendsClose(c) \/ CloseInterrupted(c) \/ Killed(c) \/ Unlinks(c)
  <2>1. UNCHANGED <<run, left>>
    BY <1>9 DEF CleansUp, SendsClose, CloseInterrupted, Killed, Unlinks, SubAsBefore
  <2>2. prog'[c] \in {"leaving", "aborting", "unlink", "off"}
    BY <1>0, <1>9 DEF CleansUp, SendsClose, CloseInterrupted, Killed, Unlinks, CleanedUp
  <2> QED
    BY <1>3, <2>1, <2>2
<1>10. CASE SubStarts(c)
  <2>1. left'[c] = 0 /\ prog'[c] = "starting"
    BY <1>0, <1>10 DEF SubStarts, PTypeOK
  <2> QED
    BY <1>2, <2>1
<1>11. CASE SubInitialises(c)
  <2>1. left'[c] = left[c] /\ run'[c] = TRUE
    BY <1>11 DEF SubInitialises, PTypeOK
  <2> QED
    BY <1>0, <2>1
<1>12. CASE SubConnects(c) \/ SubSubscribes(c)
  <2>1. prog[c] = "options" /\ UNCHANGED <<run, left, argv, opt>>
    BY <1>12 DEF SubConnects, SubSubscribes, AtOption, SubAsBefore, OtherwiseAs
  <2>2. prog'[c] \in Setup
    BY <1>0, <1>12 DEF SubConnects, SubSubscribes
  <2> QED
    BY <1>4, <1>5, <2>1, <2>2
<1>13. CASE SubConnectsNoMore(c) \/ SubLogs(c)
  <2>1. /\ prog[c] = "options" /\ UNCHANGED <<run, left, argv>>
        /\ Options(c)[opt[c]].opt # "t"
    BY <1>13 DEF SubConnectsNoMore, SubLogs, AtOption, OtherwiseAs
  <2>2. CASE NextOption(c)
    BY <1>4, <1>6, <2>1, <2>2 DEF NextOption
  <2>3. CASE SubLogs(c) /\ ~NextOption(c)
    <3>1. prog'[c] \in {"failed", "off"}
      BY <1>0, <2>3 DEF SubLogs
    <3> QED
      BY <1>3, <2>1, <3>1
  <2> QED
    BY <1>13, <2>2, <2>3 DEF SubConnectsNoMore
<1>14. CASE SubQuits(c) \/ SubHasNoTopic(c) \/ SubSetsTimeout(c) \/ SetupInterrupted(c)
  <2>1. UNCHANGED <<run, left>>
    BY <1>14 DEF SubQuits, SubHasNoTopic, SubSetsTimeout, SetupInterrupted, SubAsBefore
  <2>2. prog'[c] \in {"off", "done", "unlink", "check", "failed"}
    BY <1>0, <1>14 DEF SubQuits, SubHasNoTopic, SubSetsTimeout, SetupInterrupted
  <2> QED
    BY <1>3, <2>1, <2>2
<1>15. CASE SubAcked(c)
  <2>1. /\ prog[c] = "ack" /\ opt[c] \in DOMAIN Options(c) /\ Options(c)[opt[c]].opt = "t"
    BY <1>15 DEF SubAcked, AtWork
  <2>2. UNCHANGED <<run, argv>>
    BY <1>15 DEF SubAcked, OtherwiseAs
  <2>3. left'[c] = IF run[c] THEN left[c] ELSE left[c] - 1
    BY <1>15 DEF SubAcked, Takes, PTypeOK
  <2>4. \/ prog'[c] \in {"failed", "invalid"}
        \/ prog'[c] = "options" /\ opt' = [opt EXCEPT ![c] = @ + 1]
    BY <1>0, <1>15 DEF SubAcked
  <2>5. MayTake(c) = Cardinality(TopicsLeft(c)) /\ MayTake(c) >= 1
    BY <1>1, <2>1, TopicIsLeft
  <2>6. CASE prog'[c] \in {"failed", "invalid"}
    <3>1. MayTake(c)' = 0
      BY <1>2, <2>6
    <3> QED
      BY <1>0, <2>2, <2>3, <2>5, <3>1
  <2>7. CASE prog'[c] = "options" /\ opt' = [opt EXCEPT ![c] = @ + 1]
    <3>1. opt'[c] = opt[c] + 1 /\ argv'[c] = argv[c]
      BY <2>2, <2>7 DEF PTypeOK
    <3>2. TopicsLeft(c)' = TopicsLeft(c) \ {opt[c]}
      BY <3>1, TopicsLeftNext
    <3>3. MayTake(c)' = MayTake(c) - 1
      BY <1>2, <2>1, <2>5, <2>7, <3>2, TopicIsLeft
    <3> QED
      BY <1>0, <2>2, <2>3, <2>5, <3>3
  <2> QED
    BY <2>4, <2>6, <2>7
<1>16. CASE SubChecksRun(c)
  <2>1. UNCHANGED <<run, left>> /\ prog'[c] = IF run[c] THEN "receive" ELSE "done"
    BY <1>0, <1>16 DEF SubChecksRun, SubAsBefore
  <2> QED
    BY <1>0, <1>3, <2>1
<1>17. CASE SubReceives(c)
  <2>1. prog[c] = "receive" /\ UNCHANGED run /\ prog'[c] \in {"check", "done"}
    BY <1>0, <1>17 DEF SubReceives, AfterMessage
  <2>2. left'[c] = IF run[c] THEN left[c] ELSE left[c] - 1
    BY <1>17 DEF SubReceives, Takes, PTypeOK
  <2>3. MayTake(c)' = 0 /\ MayTake(c) = 1
    BY <1>1, <1>2, <2>1
  <2> QED
    BY <1>0, <2>1, <2>2, <2>3
<1>18. CASE SubSignal(c)
  <2>1. UNCHANGED <<prog, opt, argv>>
    BY <1>18 DEF SubSignal, OtherwiseAs
  <2>2. MayTake(c)' = MayTake(c)
    BY <2>1 DEF MayTake, Options
  <2>3. \/ left' = [left EXCEPT ![c] = IF run[c] THEN MayTake(c) ELSE left[c]]
        \/ UNCHANGED <<run, left>>
    BY <1>18 DEF SubSignal
  <2>4. \/ left'[c] = IF run[c] THEN MayTake(c) ELSE left[c]
        \/ UNCHANGED <<run, left>>
    BY <2>3 DEF PTypeOK
  <2> QED
    BY <1>0, <2>2, <2>4
<1>19. CASE ReceiveInterrupted(c)
  <2>1. UNCHANGED <<run, left>> /\ prog'[c] \in {"check", "done"}
    BY <1>0, <1>19 DEF ReceiveInterrupted
  <2> QED
    BY <1>3, <2>1
<1> QED
  BY <1>7, <1>8, <1>9, <1>10, <1>11, <1>12, <1>13, <1>14, <1>15, <1>16, <1>17, <1>18, <1>19
     DEF Moves, SubMoves, SendsRequest, Happens, Pubs
-----------------------------------------------------------------------------
(* The invariant of the programs, and what follows.                        *)

\* Programs and broker start in PInv.
LEMMA PInvInit == PInit => PInv
<1> SUFFICES ASSUME PInit PROVE PInv
  OBVIOUS
<1>0. /\ at = [c \in Clients |-> "idle"] /\ qsub = [c \in Clients |-> NoQueue]
      /\ fd = [c \in Clients |-> 0] /\ asked = [c \in Clients |-> {}]
      /\ timed = [c \in Clients |-> FALSE]
  BY DEF PInit, SInit
<1>1. PTypeOK
  <2>1. /\ argv = [c \in Subs |-> <<>>] /\ opt = [c \in Subs |-> 1]
        /\ prog = [c \in Clients |-> "off"] /\ runs = [c \in Clients |-> 0]
        /\ run = [c \in Subs |-> FALSE] /\ flush = [c \in Subs |-> FALSE]
        /\ left = [c \in Subs |-> 0] /\ unclean = FALSE /\ unread = FALSE
    BY DEF PInit
  <2>2. Len(<<>>) = 0 /\ 1 \in 1 .. 0 + 1
    OBVIOUS
  <2>3. \A c \in Subs : opt[c] \in 1 .. Len(argv[c]) + 1
    BY <2>1, <2>2
  <2>4. 0 \in Int
    OBVIOUS
  <2>5. left \in [Subs -> Int]
    BY <2>1, <2>4
  <2> QED
    BY <2>1, <2>3, <2>5 DEF PTypeOK, Options
<1>2. InLibrary
  BY <1>0 DEF PInit, InLibrary, PlaceOf, Cleared
<1>3. AtWork
  <2>1. Len(Publishes) \in Nat /\ 1 .. 1 - 1 = {}
    BY ProgramsAssumption
  <2>2. \A c \in Subs : ~Seen(c, "b") /\ ~Seen(c, "t")
    BY <2>1 DEF PInit, Seen
  <2>3. \A c \in Clients : prog[c] = "off" /\ runs[c] = 0
    BY DEF PInit
  <2> QED
    BY <2>1, <2>2, <2>3, ProgramsAssumption DEF AtWork, Pubs
<1>4. Stopping
  <2>1. ASSUME NEW c \in Subs PROVE left[c] = 0 /\ prog[c] = "off"
    BY <2>1, ProgramsAssumption DEF PInit
  <2>2. ASSUME NEW c \in Subs PROVE MayTake(c) = 0
    BY <2>1 DEF MayTake
  <2> QED
    BY <2>1, <2>2 DEF Stopping
<1> QED
  BY <1>1, <1>2, <1>3, <1>4 DEF PInv

\* A step of the broker, a signal to it, or nothing at all.
LEMMA PInvStays ==
  ASSUME PInv, UNCHANGED own, UNCHANGED pown
  PROVE  PInv'
<1>1. PTypeOK'
  BY DEF PInv, PTypeOK, pown, Options
<1>2. InLibrary'
  BY DEF PInv, InLibrary, PlaceOf, Cleared, Ready, own, pown
<1>3. AtWork'
  BY DEF PInv, AtWork, Seen, Options, own, pown
<1>4. Stopping'
  <2>1. \A c \in Subs : MayTake(c)' = MayTake(c)
    BY DEF MayTake, Options, pown
  <2> QED
    BY <2>1 DEF PInv, Stopping, pown
<1> QED
  BY <1>1, <1>2, <1>3, <1>4 DEF PInv

\* A step of a program.
LEMMA PInvMoves ==
  ASSUME SInv, PInv, NEW c \in Clients, Moves(c) \/ SendsRequest(c) \/ Happens(c)
  PROVE  PInv'
<1>0. STypeOK /\ PTypeOK /\ InLibrary /\ AtWork /\ Stopping
  BY DEF SInv, PInv
<1>1. PTypeOK'
  BY <1>0, PTypeKept
<1>2. /\ \A d \in Clients \ {c} : /\ at'[d] = at[d] /\ qsub'[d] = qsub[d] /\ fd'[d] = fd[d]
                                  /\ asked'[d] = asked[d] /\ timed'[d] = timed[d]
      /\ Cleared(c)'
  <2>1. CASE UNCHANGED svars
    BY <1>0, <2>1 DEF InLibrary, Cleared, Ready, svars, own
  <2>2. CASE ClientNext(c)
    BY <1>0, <2>2, OthersKeep, ClearedKept DEF InLibrary
  <2> QED
    BY <1>0, <2>1, <2>2, ProgramImplements DEF ClientStep
<1>3. PlaceOf(c)'
  BY <1>0, PlaceKept DEF InLibrary
<1>4. InLibrary'
  <2>1. \A d \in Clients \ {c} : prog'[d] = prog[d]
    BY <1>0, OtherPrograms
  <2>2. \A d \in Clients \ {c} : PlaceOf(d)' /\ Cleared(d)'
    BY <1>0, <1>2, <2>1 DEF InLibrary, PlaceOf, Cleared, Ready
  <2> QED
    BY <1>2, <1>3, <2>2 DEF InLibrary
<1>5. AtWork'
  <2>1. ASSUME NEW d \in Subs
        PROVE  /\ prog'[d] \in {"connecting", "ack"} => opt'[d] \in DOMAIN argv'[d]
               /\ prog'[d] = "ack" => argv'[d][opt'[d]].opt = "t"
               /\ prog'[d] \in {"starting", "options"} /\ at'[d] = "idle" =>
                    ~Seen(d, "b")' /\ ~Seen(d, "t")'
    <3>1. d \in Clients
      BY ProgramsAssumption
    <3>2. CASE d # c
      <4>1. prog'[d] = prog[d] /\ at'[d] = at[d] /\ opt'[d] = opt[d] /\ argv'[d] = argv[d]
        BY <1>0, <1>2, <3>1, <3>2, OtherPrograms
      <4>2. \A o : Seen(d, o)' <=> Seen(d, o)
        BY <4>1 DEF Seen, Options
      <4> QED
        BY <1>0, <4>1, <4>2 DEF AtWork, Options
    <3> QED
      BY <1>0, <3>1, <3>2, AtOptionKept, UnconnectedKept
  <2>2. ASSUME NEW d \in Pubs
        PROVE  runs'[d] <= Len(Publishes) /\ (prog'[d] # "off" => runs'[d] \in DOMAIN Publishes)
    <3>1. d \in Clients
      BY DEF Pubs
    <3>2. CASE d # c
      BY <1>0, <3>1, <3>2, OtherPrograms DEF AtWork
    <3> QED
      BY <1>0, <3>1, <3>2, PublishingKept
  <2> QED
    BY <2>1, <2>2 DEF AtWork, Options
<1>6. Stopping'
  <2>1. ASSUME NEW d \in Subs
        PROVE  left'[d] >= 0 /\ (~run'[d] => left'[d] >= MayTake(d)')
    <3>1. d \in Clients
      BY ProgramsAssumption
    <3>2. CASE d # c
      <4>1. /\ prog'[d] = prog[d] /\ argv'[d] = argv[d] /\ opt'[d] = opt[d]
            /\ run'[d] = run[d] /\ left'[d] = left[d]
        BY <1>0, <3>1, <3>2, OtherPrograms
      <4>2. MayTake(d)' = MayTake(d)
        BY <4>1 DEF MayTake, Options
      <4> QED
        BY <1>0, <4>1, <4>2 DEF Stopping
    <3> QED
      BY <1>0, <3>1, <3>2, StoppingKept
  <2> QED
    BY <2>1 DEF Stopping
<1> QED
  BY <1>1, <1>4, <1>5, <1>6 DEF PInv

\* Every step of programs and broker keeps PInv.
LEMMA PInvStep == SInv /\ PInv /\ [PNext]_pvars => PInv'
<1> SUFFICES ASSUME SInv, PInv, [PNext]_pvars PROVE PInv'
  OBVIOUS
<1>1. CASE (BrokerStep \/ SignalStep) /\ UNCHANGED pown
  BY <1>1, PInvStays DEF BrokerStep, SignalStep, own
<1>2. CASE UNCHANGED pvars
  BY <1>2, PInvStays DEF pvars, svars
<1> QED
  BY <1>1, <1>2, PInvMoves DEF PNext

\* Each step of the programs is one that System allows its clients, or nothing it sees.
LEMMA ProgramsAllowed == SInv /\ PInv /\ [PNext]_pvars => [SNext]_svars
BY ProgramsStep DEF SInv, PInv

\* PInv holds in every state, and so does what holds in every state of System.
THEOREM ProgramsInvariant == PSpec => [](SInv /\ PInv)
<1>1. PInit => SInv /\ PInv
  BY SInvInit, PInvInit DEF PInit
<1>2. SInv /\ PInv /\ [PNext]_pvars => SInv' /\ PInv'
  BY ProgramsAllowed, SInvStep, PInvStep
<1> QED
  BY <1>1, <1>2, PTL DEF PSpec

(***************************************************************************)
(* psmq-sub and psmq-pub, killed and signalled as they may be, do nothing  *)
(* to the broker that clients of libpsmq in general do not: they implement *)
(* System (psmq-sub.c, psmq-pub.c main).                                   *)
(***************************************************************************)
THEOREM ProgramsAreClients == PSpec => SSpec
<1>1. PInit => SInit
  BY DEF PInit
<1> QED
  BY <1>1, ProgramsAllowed, ProgramsInvariant, PTL DEF PSpec, SSpec

(***************************************************************************)
(* Every reachable state of the programs is well-typed: getopt's optind is *)
(* never more than one behind the last option (psmq-sub.c:248-345).        *)
(***************************************************************************)
THEOREM ProgramsTypeCorrect == PSpec => []PTypeOK
<1>1. PInv => PTypeOK
  BY DEF PInv
<1> QED
  BY <1>1, ProgramsInvariant, PTL

(***************************************************************************)
(* However many psmq-sub and psmq-pub run, are killed and started again,   *)
(* as long as nobody was evicted none gets what it did not ask for.        *)
(***************************************************************************)
THEOREM ProgramsGetOnlyAsked == PSpec => []OnlyWhatWasAsked
BY ProgramsAreClients, OnlyAskedArrives, PTL

(***************************************************************************)
(* A psmq-sub that is told to stop takes one more message at most, or, if  *)
(* it was still starting up, the answer to each -t there was left.  What   *)
(* comes before psmq-sub.c:317 sets run to 1 tells it nothing.             *)
(* (psmq-sub.c:335-391, 478-507)                                           *)
(***************************************************************************)
THEOREM SubAlwaysStopsSoon == PSpec => []SubStopsSoon
<1>1. PInv => SubStopsSoon
  BY DEF PInv, Stopping, SubStopsSoon
<1> QED
  BY <1>1, ProgramsInvariant, PTL
-----------------------------------------------------------------------------
(* Claims: steps of the broker.                                            *)

\* Taking a message out keeps the others.
LEMMA RestKeeps ==
  ASSUME NEW S, NEW q \in Seq(S), NEW i \in DOMAIN q, NEW k \in DOMAIN q, k # i
  PROVE  \E j \in DOMAIN MqRest(q, i) : MqRest(q, i)[j] = q[k]
<1> DEFINE rest == MqRest(q, i)
           j == IF k < i THEN k ELSE k - 1
<1>1. rest \in Seq(S) /\ Len(rest) = Len(q) - 1
  BY RemoveTyped DEF MqRest
<1>2. \A l \in DOMAIN rest : rest[l] = q[IF l < i THEN l ELSE l + 1]
  BY RestOrder
<1>3. i \in 1 .. Len(q) /\ k \in 1 .. Len(q) /\ Len(q) \in Nat
  OBVIOUS
<1> HIDE DEF rest
<1>4. DOMAIN rest = 1 .. Len(q) - 1
  BY <1>1
<1>5. j \in 1 .. Len(q) - 1 /\ (IF j < i THEN j ELSE j + 1) = k
  BY <1>3
<1> HIDE DEF j
<1> QED
  BY <1>2, <1>4, <1>5 DEF rest

\* What is offered in a queue is what the answers in it say.
LEMMA OfferedIs ==
  ASSUME NEW q
  PROVE  Offered(q) = {m.fd : m \in {r \in AnswersIn(q) : r.data = "OK"}}
BY DEF Offered, AnswersIn

\* A queue that keeps its answers offers what it did.
LEMMA OffersSame ==
  ASSUME NEW q, AnswersIn(q)' = AnswersIn(q)
  PROVE  Offered(q)' = Offered(q)
<1>1. Offered(q) = {m.fd : m \in {r \in AnswersIn(q) : r.data = "OK"}}
  BY OfferedIs
<1>2. Offered(q)' = {m.fd : m \in {r \in AnswersIn(q)' : r.data = "OK"}}
  BY DEF Offered, AnswersIn
<1> QED
  BY <1>1, <1>2

\* Steps that answer no OPEN, serve none anew and give up no CLOSE.
Uneventful ==
  /\ UNCHANGED <<ctrl, names, own>>
  /\ \A s \in Slots : clients'[s].mq = clients[s].mq
  /\ \A q \in Queues : AnswersIn(q)' = AnswersIn(q)
  /\ \A c \in Clients : Opens(c)' => Opens(c)
  /\ \A s \in Slots : Closes(s) => Closes(s)'
  /\ pc' = "welcome" <=> pc = "welcome"
  /\ pc = "welcome" => cur' = cur

\* They leave the claims as they are.
LEMMA UneventfulKeeps ==
  ASSUME Control, STypeOK, OwnOK, Claims, Uneventful,
         UNCHANGED unclean
  PROVE  Claims'
<1>0. UNCHANGED <<ctrl, names, at, qsub, fd>>
  BY DEF Uneventful, own
<1>1. \A s \in Slots : Queue(s)' = Queue(s) /\ (InUse(s)' <=> InUse(s))
  BY DEF Uneventful, Queue, InUse
<1>2. \A c \in Clients : at[c] \in {"connect", "opening", "wait"} => qsub[c] \in Queues
  BY DEF OwnOK, HasQueue
<1>3. \A c \in Clients : at[c] \in {"connect", "opening", "wait"} =>
        /\ AnswersTo(c)' = AnswersTo(c) /\ Offered(qsub[c])' = Offered(qsub[c])
        /\ NotAnswered(c)' <=> NotAnswered(c)
  <2>1. ASSUME NEW c \in Clients, at[c] \in {"connect", "opening", "wait"}
        PROVE  AnswersTo(c)' = AnswersTo(c) /\ Offered(qsub[c])' = Offered(qsub[c])
    <3>1. PICK q \in Queues : q = qsub[c]
      BY <1>2, <2>1
    <3>2. AnswersIn(q)' = AnswersIn(q)
      BY DEF Uneventful
    <3>3. Offered(q)' = Offered(q)
      BY <3>2, OffersSame
    <3> QED
      BY <1>0, <3>1, <3>2, <3>3 DEF AnswersTo, AnswersIn, Offered
  <2> QED
    BY <1>0, <1>1, <2>1 DEF NotAnswered
<1>4. \A i, c : OpenAt(i, c)' <=> OpenAt(i, c)
  BY <1>0 DEF OpenAt
<1>5. Connect'
  BY <1>0, <1>3, <1>4 DEF Claims, Opening, Connect, Uneventful
<1>6. Welcome'
  <2>1. pc = "welcome" => Queue(cur)' = Queue(cur)
    BY <1>1 DEF Control, Uneventful, Queue
  <2> QED
    BY <1>0, <1>3, <2>1 DEF Claims, Opening, Welcome, Uneventful
<1>7. \A s \in Slots : CloseAsked(s) => CloseAsked(s)'
  BY <1>0 DEF CloseAsked, Asks, Uneventful
<1>8. \A s \in Slots, c \in Clients : OfferedTo(s, c) => OfferedTo(s, c)'
  BY <1>0, <1>1, <1>3 DEF OfferedTo
<1>9. \A s \in Slots : Claimed(s) => Claimed(s)'
  BY <1>0, <1>7, <1>8 DEF Claimed, Uneventful, Ready
<1> QED
  BY <1>1, <1>5, <1>6, <1>9 DEF Claims, Opening

\* A message that is no answer to OPEN leaves the answers as they are.
LEMMA NoAnswerSent ==
  ASSUME TypeOK, NEW s \in Slots, CanSend(s), NEW m, SendTo(s, m), m.cmd # "open"
  PROVE  \A q \in Queues : AnswersIn(q)' = AnswersIn(q)
<1>1. \A q \in Queues : Elems(mqs'[q]) = IF q = Queue(s) THEN Elems(mqs[q]) \cup {m}
                                         ELSE Elems(mqs[q])
  BY SentTo DEF TypeOK
<1> QED
  BY <1>1 DEF AnswersIn

\* The broker's steps of that kind.
UneventfulStep ==
  \/ CheckShutdown \/ ReceiveTimesOut \/ OpenFails
  \/ SubscribeRefused \/ SubscribeFails \/ Subscribe \/ Unsubscribe \/ UnsubscribeFails
  \/ Ioctl \/ IoctlRefused \/ Wait \/ ReplySent \/ ReplyLost \/ Close
  \/ Publish \/ ScanToHit \/ PublishDone \/ Delivered \/ NotDelivered
  \/ CleanupSlot \/ CleanupDone \/ Signal

\* They are.
LEMMA TheseAreQuiet ==
  ASSUME TypeOK, Control, Plain, UneventfulStep, UNCHANGED own
  PROVE  Uneventful
<1>1. UNCHANGED <<ctrl, names>>
  BY DEF UneventfulStep, CheckShutdown, ReceiveTimesOut, OpenFails, SubscribeRefused, SubscribeFails,
     Subscribe, Unsubscribe, UnsubscribeFails, Ioctl, IoctlRefused, Answer, Wait, ReplySent,
     ReplyLost, Close, Publish, ScanToHit, PublishDone, Delivered, NotDelivered, CleanupSlot,
     CleanupDone, Signal
<1>2. \A s \in Slots : clients'[s].mq = clients[s].mq
  <2>1. HeldKept
    BY DEF UneventfulStep, HeldKept, Answers, Outside
  <2> QED
    BY <2>1, QueuesOfSlotsKept DEF UneventfulStep, Next, BrokerNext
<1>3. \A q \in Queues : AnswersIn(q)' = AnswersIn(q)
  <2>1. CASE ReplySent
    <3>1. cur \in Slots /\ CanSend(cur) /\ SendTo(cur, out) /\ out.cmd # "open"
      BY <2>1 DEF ReplySent, Control, Plain
    <3> QED
      BY <3>1, NoAnswerSent
  <2>2. CASE Delivered
    <3>1. cur \in Slots /\ CanSend(cur) /\ SendTo(cur, Publication)
      BY <2>2 DEF Delivered, Control
    <3>2. Publication.cmd # "open"
      BY DEF Publication, Reply
    <3> QED
      BY <3>1, <3>2, NoAnswerSent
  <2>3. CASE ~ReplySent /\ ~Delivered
    <3>1. UNCHANGED mqs
      BY <2>3 DEF UneventfulStep, CheckShutdown, ReceiveTimesOut, OpenFails, SubscribeRefused,
         SubscribeFails, Subscribe, Unsubscribe, UnsubscribeFails, Ioctl, IoctlRefused, Answer,
         Wait, ReplyLost, Close, Publish, ScanToHit, PublishDone, NotDelivered, CleanupSlot,
         CleanupDone, Signal
    <3> QED
      BY <3>1 DEF AnswersIn
  <2> QED
    BY <2>1, <2>2, <2>3
<1>4. /\ \A c \in Clients : Opens(c)' => Opens(c)
      /\ \A s \in Slots : Closes(s) => Closes(s)'
      /\ pc' = "welcome" <=> pc = "welcome"
      /\ pc = "welcome" => cur' = cur
  <2>1. CASE Wait \/ Signal
    <3>1. UNCHANGED <<pc, msg, cur>>
      BY <2>1 DEF Wait, Signal, local
    <3> QED
      BY <3>1 DEF Opens, Closes
  <2>2. CASE Close
    BY <2>2 DEF Close, StartClose, Closes, Opens
  <2>3. CASE CleanupSlot
    BY <2>3 DEF CleanupSlot, StartClose, Closes, Opens
  <2>4. CASE ~Wait /\ ~Signal /\ ~Close /\ ~CleanupSlot
    <3>1. /\ pc' \in {"check", "cleanup", "receive", "reply", "scan", "deliver", "evict", "exited"}
          /\ pc \notin {"welcome", "close", "closing"}
      BY <2>4 DEF UneventfulStep, CheckShutdown, ReceiveTimesOut, OpenFails, SubscribeRefused,
         SubscribeFails, Subscribe, Unsubscribe, UnsubscribeFails, Ioctl, IoctlRefused, Answer,
         ReplySent, ReplyLost, Publish, ScanToHit, PublishDone, Delivered, NotDelivered,
         CleanupDone, BackToLoop
    <3> QED
      BY <3>1 DEF Opens, Closes
  <2> QED
    BY <2>1, <2>2, <2>3, <2>4
<1> QED
  BY <1>1, <1>2, <1>3, <1>4 DEF Uneventful

\* A request is taken: an OPEN or a CLOSE that waited is in service, the others wait on.
LEMMA ClaimsReceive ==
  ASSUME TypeOK, Control, Plain, Claims, Receive, UNCHANGED own,
         UNCHANGED unclean
  PROVE  Claims'
<1>0. UNCHANGED <<clients, mqs, names, at, qsub, fd>> /\ pc = "receive"
  BY DEF Receive, own
<1>1. PICK i \in DOMAIN ctrl :
        /\ ctrl' = MqRest(ctrl, i)
        /\ ctrl[i].cmd \in Commands /\ (ctrl[i].cmd = "open" \/ ctrl[i].fd \in Slots)
             => pc' = ctrl[i].cmd /\ msg' = ctrl[i]
  BY DEF Receive
<1>2. pc' = ctrl[i].cmd /\ msg' = ctrl[i] /\ pc' \in Commands
  <2>1. ctrl[i] \in ClientRequests
    BY DEF Plain
  <2>2. ctrl[i].cmd \in Commands /\ ctrl[i].fd \in Slots
    BY <2>1, BrokerAssumption DEF ClientRequests, Commands, Slots
  <2> QED
    BY <1>1, <2>2
<1>3. ctrl \in Seq(Requests)
  BY DEF TypeOK, QueuesOK
<1> DEFINE old(j) == IF j < i THEN j ELSE j + 1
<1>4. \A j \in DOMAIN ctrl' : old(j) \in DOMAIN ctrl \ {i} /\ ctrl'[j] = ctrl[old(j)]
  BY <1>1, <1>3, RestOrder
<1>5. \A j, k \in DOMAIN ctrl' : old(j) = old(k) => j = k
  <2>1. MqRest(ctrl, i) \in Seq(Requests) /\ i \in Nat
    BY <1>3, RemoveTyped DEF MqRest
  <2>2. DOMAIN ctrl' \subseteq Nat
    BY <1>1, <2>1
  <2> QED
    BY <2>1, <2>2
<1>6. \A k \in DOMAIN ctrl : k # i => \E j \in DOMAIN ctrl' : ctrl'[j] = ctrl[k]
  BY <1>1, <1>3, RestKeeps
<1> HIDE DEF old
<1>7. \A j, c : OpenAt(j, c)' => OpenAt(old(j), c) /\ old(j) # i
  BY <1>4 DEF OpenAt
<1>8. \A c : Opens(c)' => OpenAt(i, c)
  BY <1>2 DEF Opens, OpenAt
<1>9. \A s : CloseAsked(s) => CloseAsked(s)'
  <2>1. ASSUME NEW s, NEW k \in DOMAIN ctrl, Asks(k, "close", s)
        PROVE  CloseAsked(s)'
    <3>1. CASE k = i
      BY <1>2, <2>1, <3>1 DEF Asks, CloseAsked, Closes
    <3>2. CASE k # i
      <4>1. PICK j \in DOMAIN ctrl' : ctrl'[j] = ctrl[k]
        BY <1>6, <3>2
      <4>2. Asks(j, "close", s)'
        BY <2>1, <4>1 DEF Asks
      <4> QED
        BY <4>1, <4>2 DEF CloseAsked
    <3> QED
      BY <3>1, <3>2
  <2>2. \A s : ~Closes(s)
    BY <1>0 DEF Closes
  <2> QED
    BY <2>1, <2>2 DEF CloseAsked
<1>10. /\ \A s : (Queue(s)' = Queue(s)) /\ (InUse(s)' <=> InUse(s))
       /\ \A c : AnswersTo(c)' = AnswersTo(c) /\ (NotAnswered(c)' <=> NotAnswered(c))
       /\ \A q : Offered(q)' = Offered(q)
  BY <1>0 DEF Queue, InUse, AnswersTo, AnswersIn, NotAnswered, Offered
<1>11. Connect'
  <2>1. ASSUME NEW c \in Clients
        PROVE  /\ (Opens(c) \/ (\E j \in DOMAIN ctrl : OpenAt(j, c)))'
                    => (at[c] = "wait" /\ NotAnswered(c))'
               /\ \A j, k \in DOMAIN ctrl' : OpenAt(j, c)' /\ OpenAt(k, c)' => j = k
               /\ Opens(c)' => \A j \in DOMAIN ctrl' : ~OpenAt(j, c)'
    <3>1. /\ (\E j \in DOMAIN ctrl : OpenAt(j, c)) => at[c] = "wait" /\ NotAnswered(c)
          /\ \A j, k \in DOMAIN ctrl : OpenAt(j, c) /\ OpenAt(k, c) => j = k
      BY DEF Claims, Opening, Connect
    <3>2. \A j, k \in DOMAIN ctrl' : OpenAt(j, c)' /\ OpenAt(k, c)' => j = k
      BY <1>4, <1>5, <1>7, <3>1
    <3>3. Opens(c)' => \A j \in DOMAIN ctrl' : ~OpenAt(j, c)'
      BY <1>4, <1>7, <1>8, <3>1
    <3>4. (Opens(c) \/ (\E j \in DOMAIN ctrl : OpenAt(j, c)))' => at[c] = "wait" /\ NotAnswered(c)
      BY <1>4, <1>7, <1>8, <3>1
    <3> QED
      BY <1>0, <1>10, <3>2, <3>3, <3>4
  <2> QED
    BY <1>0, <1>10, <2>1 DEF Claims, Opening, Connect
<1>12. Welcome'
  BY <1>2 DEF Welcome, Commands
<1>13. \A s \in Slots : Claimed(s) => Claimed(s)'
  BY <1>0, <1>9, <1>10 DEF Claimed, OfferedTo, Ready
<1> QED
  BY <1>10, <1>11, <1>12, <1>13 DEF Claims, Opening

\* The client whose OPEN is served waits for the answer, has its queue under its name, no
\* slot yet, and no other OPEN on its way.
LEMMA Served ==
  ASSUME STypeOK, OwnOK, NamesOK, Claims, pc = "open", msg.arg \in Names
  PROVE  LET c == msg.arg
         IN  /\ c \in Clients /\ at[c] = "wait" /\ NotAnswered(c) /\ names[c] = qsub[c]
             /\ qsub[c] \in Queues
             /\ \A i \in DOMAIN ctrl : ~OpenAt(i, c)
<1>1. msg.arg \in Clients
  BY DEF Clients
<1>2. Opens(msg.arg)
  BY DEF Opens
<1> QED
  BY <1>1, <1>2 DEF Claims, Opening, Connect, OwnOK, HasQueue

\* A free slot is given the queue of a client that waits for it.
LEMMA ClaimsOpen ==
  ASSUME TypeOK, Control, STypeOK, OwnOK, Plain, Claims, Open, UNCHANGED own,
         UNCHANGED unclean
  PROVE  Claims'
<1>0. UNCHANGED <<ctrl, mqs, names, at, qsub, fd, msg>> /\ pc = "open" /\ pc' = "welcome"
  BY DEF Open, own
<1>a. PICK c, q : c = msg.arg /\ q = names[c]
  OBVIOUS
<1>1. PICK s \in FreeSlots : clients' = [clients EXCEPT ![s].mq = q] /\ cur' = s
  BY <1>a DEF Open
<1>2. /\ c \in Clients /\ at[c] = "wait" /\ NotAnswered(c) /\ q = qsub[c] /\ q \in Queues
      /\ \A i \in DOMAIN ctrl : ~OpenAt(i, c)
  BY <1>a, Served DEF Open, TypeOK
<1>3. s \in Slots /\ NoQueue \notin Queues /\ q # NoQueue
  BY <1>1, <1>2, BrokerAssumption DEF FreeSlots
<1>4. \A t \in Slots : Queue(t)' = IF t = s THEN q ELSE Queue(t)
  BY <1>1, <1>3 DEF Queue, TypeOK, ClientsOK, ClientType
<1>5. \A d \in Clients \ {c} : qsub[d] # q
  BY <1>2, <1>3 DEF Plain
<1>6. /\ \A d \in Clients : AnswersTo(d)' = AnswersTo(d)
      /\ \A d \in Clients \ {c} : NotAnswered(d) => NotAnswered(d)'
      /\ \A p : Offered(p)' = Offered(p)
  <2>1. \A d \in Clients : AnswersTo(d)' = AnswersTo(d)
    BY <1>0 DEF AnswersTo, AnswersIn
  <2>2. \A p : Offered(p)' = Offered(p)
    BY <1>0 DEF Offered
  <2> QED
    BY <1>0, <1>4, <1>5, <2>1, <2>2 DEF NotAnswered
<1>7. \A i, d : OpenAt(i, d)' <=> OpenAt(i, d)
  BY <1>0 DEF OpenAt
<1>8. Connect'
  <2>1. \A d : ~Opens(d)'
    BY <1>0 DEF Opens
  <2>2. \A d \in Clients : (\E i \in DOMAIN ctrl : OpenAt(i, d)) => d # c
    BY <1>2
  <2> QED
    BY <1>0, <1>2, <1>6, <1>7, <2>1, <2>2 DEF Claims, Opening, Connect
<1>9. Welcome'
  <2>1. AnswersTo(c)' = {} /\ Queue(cur)' = q
    <3>1. clients'[s].mq = q
      BY <1>3, <1>4 DEF Queue
    <3> QED
      BY <1>1, <1>2, <1>6, <3>1 DEF NotAnswered, Queue
  <2> QED
    BY <1>0, <1>2, <2>1 DEF Welcome
<1>10. \A t, u \in Slots : InUse(t)' /\ Queue(t)' = Queue(u)' => t = u
  <2>1. \A t \in Slots : Queue(t) # q
    BY <1>2 DEF NotAnswered
  <2> QED
    BY <1>3, <1>4, <2>1 DEF Claims, Opening, InUse
<1>11. ASSUME ~unclean, NEW t \in Slots, InUse(t)' PROVE Claimed(t)'
  <2>1. CASE t = s
    BY <1>0, <1>1, <2>1 DEF Claimed
  <2>2. CASE t # s
    <3>1. InUse(t) /\ Queue(t)' = Queue(t)
      BY <1>4, <1>11, <2>2 DEF InUse
    <3>2. Claimed(t) /\ ~Closes(t) /\ pc # "welcome"
      BY <1>0, <1>11, <3>1 DEF Claims, Closes
    <3>3. CloseAsked(t) => CloseAsked(t)'
      BY <1>0, <3>2 DEF CloseAsked, Asks
    <3> QED
      BY <1>0, <1>6, <3>1, <3>2, <3>3 DEF Claimed, OfferedTo, Ready
  <2> QED
    BY <2>1, <2>2
<1> QED
  BY <1>8, <1>9, <1>10, <1>11 DEF Claims, Opening

\* All slots are taken, and the client that waits is told so, or is not.
LEMMA ClaimsRefused ==
  ASSUME TypeOK, Control, STypeOK, OwnOK, Plain, Claims, OpenRefused, UNCHANGED own,
         UNCHANGED unclean
  PROVE  Claims'
<1>0. UNCHANGED <<ctrl, clients, names, at, qsub, fd>> /\ pc = "open" /\ pc' = "check"
  BY DEF OpenRefused, BackToLoop, own
<1>a. PICK c, q, m : c = msg.arg /\ q = names[c] /\ m = Reply("open", "ENOSPC", "none")
  OBVIOUS
<1>1. /\ c \in Clients /\ at[c] = "wait" /\ NotAnswered(c) /\ q = qsub[c] /\ q \in Queues
      /\ \A i \in DOMAIN ctrl : ~OpenAt(i, c)
  BY <1>a, Served DEF OpenRefused, TypeOK
<1>2. mqs' = mqs \/ mqs' = [mqs EXCEPT ![q] = MqSend(mqs[q], m)]
  BY <1>a DEF OpenRefused
<1>3. mqs \in [Queues -> Seq(ReplyType)] /\ NoQueue \notin Queues
  BY BrokerAssumption DEF TypeOK, QueuesOK
<1>4. Elems(MqSend(mqs[q], m)) = Elems(mqs[q]) \cup {m}
  BY <1>1, <1>3, SendElems
<1>5. /\ \A p \in Queues \ {q} : mqs'[p] = mqs[p]
      /\ Elems(mqs'[q]) \subseteq Elems(mqs[q]) \cup {m}
      /\ Elems(mqs[q]) \subseteq Elems(mqs'[q])
  BY <1>1, <1>2, <1>3, <1>4
<1>6. \A d \in Clients \ {c} : qsub[d] # q
  BY <1>1, <1>3 DEF Plain
<1>7. \A d \in Clients : at[d] \in {"connect", "opening", "wait"} => qsub[d] \in Queues
  BY DEF OwnOK, HasQueue
<1>8. \A d \in Clients \ {c} : at[d] \in {"connect", "opening", "wait"} =>
        /\ AnswersTo(d)' = AnswersTo(d) /\ (NotAnswered(d) => NotAnswered(d)')
        /\ Offered(qsub[d])' = Offered(qsub[d])
  <2>1. \A d \in Clients \ {c} : at[d] \in {"connect", "opening", "wait"} =>
          AnswersTo(d)' = AnswersTo(d) /\ Offered(qsub[d])' = Offered(qsub[d])
    BY <1>0, <1>5, <1>6, <1>7 DEF AnswersTo, AnswersIn, Offered
  <2> QED
    BY <1>0, <2>1 DEF NotAnswered, Queue
<1>9. \A x, y \in AnswersTo(c)' : x = y
  <2>1. AnswersTo(c)' \subseteq {m}
    BY <1>0, <1>1, <1>5 DEF NotAnswered, AnswersTo, AnswersIn
  <2> QED
    BY <2>1
<1>10. \A i, d : OpenAt(i, d)' <=> OpenAt(i, d)
  BY <1>0 DEF OpenAt
<1>11. Connect'
  <2>1. \A d : ~Opens(d)'
    BY <1>0 DEF Opens
  <2>2. \A d \in Clients : (\E i \in DOMAIN ctrl : OpenAt(i, d)) => d # c
    BY <1>1
  <2> QED
    BY <1>0, <1>1, <1>8, <1>9, <1>10, <2>1, <2>2 DEF Claims, Opening, Connect
<1>12. Welcome'
  BY <1>0 DEF Welcome
<1>13. ASSUME NEW s \in Slots, Claimed(s) PROVE Claimed(s)'
  <2>1. \A d \in Clients : OfferedTo(s, d) => d # c
    BY <1>1 DEF OfferedTo, NotAnswered
  <2>2. \A d \in Clients : OfferedTo(s, d) => OfferedTo(s, d)'
    BY <1>0, <1>8, <2>1 DEF OfferedTo, Queue
  <2>3. CloseAsked(s) => CloseAsked(s)'
    BY <1>0 DEF CloseAsked, Asks, Closes
  <2> QED
    BY <1>0, <1>13, <2>2, <2>3 DEF Claimed, Ready
<1> QED
  BY <1>0, <1>11, <1>12, <1>13 DEF Claims, Opening, InUse, Queue

\* The slot is offered to the client that waits for it.
LEMMA ClaimsWelcomed ==
  ASSUME TypeOK, Control, STypeOK, OwnOK, Plain, Claims, OpenWelcomed, UNCHANGED own,
         UNCHANGED unclean
  PROVE  Claims'
<1> DEFINE m == [Reply("open", "OK", "none") EXCEPT !.fd = cur]
           q == Queue(cur)
<1>0. /\ UNCHANGED <<clients, ctrl, names, at, qsub, fd>>
      /\ pc = "welcome" /\ pc' = "check" /\ cur \in Slots /\ CanSend(cur) /\ SendTo(cur, m)
  BY DEF OpenWelcomed, BackToLoop, Control, own
<1>1. m.fd = cur /\ m.cmd = "open" /\ m.data = "OK"
  BY DEF Reply
<1>2. /\ q \in Queues
      /\ \A p \in Queues : Elems(mqs'[p]) = IF p = q THEN Elems(mqs[p]) \cup {m} ELSE Elems(mqs[p])
  BY <1>0, SentTo DEF TypeOK
<1>3. PICK c \in Clients : at[c] = "wait" /\ AnswersTo(c) = {} /\ qsub[c] = q
  BY <1>0 DEF Claims, Opening, Welcome
<1> HIDE DEF m, q
<1>4. \A d \in Clients \ {c} : qsub[d] # q
  BY <1>2, <1>3, BrokerAssumption DEF Plain
<1>5. \A d \in Clients : at[d] \in {"connect", "opening", "wait"} => qsub[d] \in Queues
  BY DEF OwnOK, HasQueue
<1>6. \A s : (Queue(s)' = Queue(s)) /\ (InUse(s)' <=> InUse(s)) /\ ~Closes(s) /\ ~Opens(s)'
  BY <1>0 DEF Queue, InUse, Closes, Opens
<1>7. \A d \in Clients \ {c} : at[d] \in {"connect", "opening", "wait"} =>
        /\ AnswersTo(d)' = AnswersTo(d) /\ (NotAnswered(d) => NotAnswered(d)')
        /\ Offered(qsub[d])' = Offered(qsub[d])
  <2>1. \A d \in Clients \ {c} : at[d] \in {"connect", "opening", "wait"} =>
          AnswersTo(d)' = AnswersTo(d) /\ Offered(qsub[d])' = Offered(qsub[d])
    BY <1>0, <1>2, <1>4, <1>5 DEF AnswersTo, AnswersIn, Offered
  <2> QED
    BY <1>0, <1>6, <2>1 DEF NotAnswered
<1>8. AnswersTo(c)' = {m} /\ cur \in Offered(qsub[c])'
  BY <1>0, <1>1, <1>2, <1>3 DEF AnswersTo, AnswersIn, Offered
<1>9. ~NotAnswered(c)
  BY <1>0, <1>3 DEF NotAnswered, q
<1>10. \A i, d : OpenAt(i, d)' <=> OpenAt(i, d)
  BY <1>0 DEF OpenAt
<1>11. Connect'
  <2>1. \A d \in Clients : (\E i \in DOMAIN ctrl : OpenAt(i, d)) => d # c
    BY <1>9 DEF Claims, Opening, Connect
  <2>2. \A x, y \in AnswersTo(c)' : x = y
    BY <1>8
  <2> QED
    BY <1>0, <1>3, <1>6, <1>7, <1>10, <2>1, <2>2 DEF Claims, Opening, Connect
<1>12. Welcome'
  BY <1>0 DEF Welcome
<1>13. ASSUME NEW s \in Slots, Claimed(s) PROVE Claimed(s)'
  <2>1. CASE s = cur
    <3>1. OfferedTo(s, c)'
      BY <1>0, <1>3, <1>6, <1>8, <2>1 DEF OfferedTo, q
    <3> QED
      BY <3>1 DEF Claimed
  <2>2. CASE s # cur
    <3>1. \A d \in Clients : OfferedTo(s, d) => d # c
      BY <1>3 DEF OfferedTo, Offered, AnswersTo, AnswersIn
    <3>2. \A d \in Clients : OfferedTo(s, d) => OfferedTo(s, d)'
      BY <1>0, <1>6, <1>7, <3>1 DEF OfferedTo
    <3>3. CloseAsked(s) => CloseAsked(s)'
      BY <1>0, <1>6 DEF CloseAsked, Asks
    <3> QED
      BY <1>0, <1>13, <2>2, <3>2, <3>3 DEF Claimed, Ready
  <2> QED
    BY <2>1, <2>2
<1> QED
  BY <1>6, <1>11, <1>12, <1>13 DEF Claims, Opening

\* Steps that empty the slot they serve, and answer no OPEN.
Vacates ==
  /\ cur \in Slots /\ pc \in {"welcome", "closing"} /\ pc' \in {"check", "scan", "cleanup"}
  /\ UNCHANGED <<ctrl, names, own>>
  /\ clients'[cur].mq = NoQueue /\ \A t \in Slots \ {cur} : clients'[t].mq = clients[t].mq
  /\ \A q \in Queues : AnswersIn(q)' = AnswersIn(q)

\* An OPEN that cannot be answered, and CLOSE, are of that kind.
LEMMA TheseVacate ==
  ASSUME TypeOK, Control, OpenUndone \/ CloseAcked \/ CloseUnacked, UNCHANGED own
  PROVE  Vacates
<1>1. cur \in Slots /\ pc \in {"welcome", "closing"} /\ UNCHANGED <<ctrl, names>>
  BY DEF Control, OpenUndone, CloseAcked, CloseUnacked
<1>2. pc' \in {"check", "scan", "cleanup"}
  BY DEF OpenUndone, CloseAcked, CloseUnacked, CloseReturns, BackToLoop, TypeOK, PlaceOK
<1>3. /\ clients'[cur].mq = NoQueue
      /\ \A t \in Slots \ {cur} : clients'[t].mq = clients[t].mq
  BY <1>1 DEF OpenUndone, CloseAcked, CloseUnacked, Vacate, TypeOK, ClientsOK, ClientType
<1>4. \A q \in Queues : AnswersIn(q)' = AnswersIn(q)
  <2>1. CASE CloseAcked
    <3>1. CanSend(cur) /\ SendTo(cur, Reply("close", "OK", "none"))
      BY <2>1 DEF CloseAcked
    <3>2. Reply("close", "OK", "none").cmd # "open"
      BY DEF Reply
    <3> QED
      BY <1>1, <3>1, <3>2, NoAnswerSent
  <2>2. CASE UNCHANGED mqs
    BY <2>2 DEF AnswersIn
  <2> QED
    BY <2>1, <2>2 DEF OpenUndone, CloseUnacked
<1> QED
  BY <1>1, <1>2, <1>3, <1>4 DEF Vacates

\* The emptied slot needs nobody to claim it, and the others are claimed as before.
LEMMA ClaimsVacate ==
  ASSUME STypeOK, OwnOK, Claims, Vacates,
         UNCHANGED unclean
  PROVE  Claims'
<1>0. UNCHANGED <<ctrl, names, at, qsub, fd>> /\ NoQueue \notin Queues
  BY BrokerAssumption DEF Vacates, own
<1>1. PICK v : v = cur
  OBVIOUS
<1>2. /\ ~InUse(v)' /\ Queue(v)' = NoQueue
      /\ \A t \in Slots \ {v} : Queue(t)' = Queue(t) /\ (InUse(t)' <=> InUse(t))
  BY <1>1 DEF Vacates, Queue, InUse
<1>3. \A c \in Clients : at[c] \in {"connect", "opening", "wait"} => qsub[c] \in Queues
  BY DEF OwnOK, HasQueue
<1>4. \A c \in Clients : at[c] \in {"connect", "opening", "wait"} =>
        /\ AnswersTo(c)' = AnswersTo(c) /\ Offered(qsub[c])' = Offered(qsub[c])
        /\ NotAnswered(c) => NotAnswered(c)'
  <2>1. ASSUME NEW c \in Clients, at[c] \in {"connect", "opening", "wait"}
        PROVE  AnswersTo(c)' = AnswersTo(c) /\ Offered(qsub[c])' = Offered(qsub[c])
    <3>1. PICK q \in Queues : q = qsub[c]
      BY <1>3, <2>1
    <3>2. AnswersIn(q)' = AnswersIn(q)
      BY DEF Vacates
    <3>3. Offered(q)' = Offered(q)
      BY <3>2, OffersSame
    <3> QED
      BY <1>0, <3>1, <3>2, <3>3 DEF AnswersTo, AnswersIn, Offered
  <2> QED
    BY <1>0, <1>2, <1>3, <2>1 DEF NotAnswered
<1>5. \A i, c : OpenAt(i, c)' <=> OpenAt(i, c)
  BY <1>0 DEF OpenAt
<1>6. Connect'
  <2>1. \A c : ~Opens(c)'
    BY DEF Vacates, Opens
  <2> QED
    BY <1>0, <1>4, <1>5, <2>1 DEF Claims, Opening, Connect
<1>7. Welcome'
  BY DEF Vacates, Welcome
<1>8. ASSUME ~unclean, NEW s \in Slots, InUse(s)' PROVE Claimed(s)'
  <2>1. s # v /\ Queue(s)' = Queue(s) /\ Claimed(s)
    BY <1>2, <1>8 DEF Claims
  <2>2. ~Closes(s) /\ ~(pc = "welcome" /\ cur = s)
    BY <1>1, <2>1 DEF Vacates, Closes
  <2>3. CloseAsked(s) => CloseAsked(s)'
    BY <1>0, <2>2 DEF CloseAsked, Asks
  <2>4. \A c \in Clients : OfferedTo(s, c) => OfferedTo(s, c)'
    BY <1>0, <1>4, <2>1 DEF OfferedTo
  <2> QED
    BY <1>0, <2>1, <2>2, <2>3, <2>4 DEF Claimed, Ready
<1>9. \A s, t \in Slots : InUse(s)' /\ Queue(s)' = Queue(t)' => s = t
  BY <1>2 DEF Claims, Opening, InUse
<1> QED
  BY <1>6, <1>7, <1>8, <1>9 DEF Claims, Opening

\* A client is evicted: its CLOSE is in service, and no other queue is touched.
LEMMA ClaimsEvict ==
  ASSUME TypeOK, Control, STypeOK, OwnOK, Claims, Evict, UNCHANGED own,
         UNCHANGED unclean
  PROVE  Claims'
<1>0. /\ UNCHANGED <<clients, ctrl, names, at, qsub, fd>>
      /\ pc = "evict" /\ pc' = "closing" /\ cur' = cur /\ cur \in Slots /\ InUse(cur)
  BY DEF Evict, StartClose, Control, own
<1>1. PICK p \in Queues : p = Queue(cur)
  BY <1>0 DEF InUse, Queue, TypeOK, ClientsOK, ClientType
<1>2. /\ \A q \in Queues \ {p} : mqs'[q] = mqs[q]
      /\ \A q \in Queues : Elems(mqs'[q]) \subseteq Elems(mqs[q])
  <2>1. CASE UNCHANGED mqs
    BY <2>1
  <2>2. CASE TakeFrom(p)
    BY <2>2, TakenFrom DEF TypeOK, QueuesOK, TakeFrom
  <2> QED
    BY <1>1, <2>1, <2>2 DEF Evict
<1>3. \A c \in Clients : at[c] \in {"connect", "opening", "wait"} => qsub[c] \in Queues
  BY DEF OwnOK, HasQueue
<1>4. \A s : (Queue(s)' = Queue(s)) /\ (InUse(s)' <=> InUse(s)) /\ ~Opens(s)'
  BY <1>0 DEF Queue, InUse, Opens
<1>5. \A c \in Clients : at[c] \in {"connect", "opening", "wait"} =>
        AnswersTo(c)' \subseteq AnswersTo(c) /\ (NotAnswered(c) => NotAnswered(c)')
  <2>1. \A c \in Clients : at[c] \in {"connect", "opening", "wait"} =>
          AnswersTo(c)' \subseteq AnswersTo(c)
    BY <1>0, <1>2, <1>3 DEF AnswersTo, AnswersIn
  <2> QED
    BY <1>0, <1>4, <2>1 DEF NotAnswered
<1>6. \A i, c : OpenAt(i, c)' <=> OpenAt(i, c)
  BY <1>0 DEF OpenAt
<1>7. Connect'
  <2>1. ASSUME NEW c \in Clients, at[c] = "wait"
        PROVE  \A m, n \in AnswersTo(c)' : m = n
    <3>1. \A m, n \in AnswersTo(c) : m = n
      BY <2>1 DEF Claims, Opening, Connect
    <3> QED
      BY <1>5, <2>1, <3>1
  <2> QED
    BY <1>0, <1>4, <1>5, <1>6, <2>1 DEF Claims, Opening, Connect
<1>8. Welcome'
  BY <1>0 DEF Welcome
<1>9. ASSUME NEW s \in Slots, Claimed(s), InUse(s) PROVE Claimed(s)'
  <2>1. CASE s = cur
    BY <1>0, <2>1 DEF Claimed, CloseAsked, Closes
  <2>2. CASE s # cur
    <3>1. Queue(s) # p
      BY <1>0, <1>1, <2>2 DEF Claims, Opening
    <3>2. ASSUME NEW c \in Clients, OfferedTo(s, c) PROVE OfferedTo(s, c)'
      <4>1. mqs'[qsub[c]] = mqs[qsub[c]]
        BY <1>2, <1>3, <3>1, <3>2 DEF OfferedTo
      <4> QED
        BY <1>0, <1>4, <3>2, <4>1 DEF OfferedTo, Offered
    <3>3. CloseAsked(s) => CloseAsked(s)'
      BY <1>0 DEF CloseAsked, Asks, Closes
    <3> QED
      BY <1>0, <1>9, <3>2, <3>3 DEF Claimed, Ready
  <2> QED
    BY <2>1, <2>2
<1> QED
  BY <1>4, <1>7, <1>8, <1>9 DEF Claims, Opening

\* Every step of the broker, and a signal to it.
LEMMA ClaimsServed ==
  ASSUME TypeOK, Control, STypeOK, OwnOK, Plain, Claims, BrokerNext \/ Signal, UNCHANGED own,
         UNCHANGED unclean
  PROVE  Claims'
<1>1. CASE UneventfulStep
  BY <1>1, TheseAreQuiet, UneventfulKeeps
<1>2. CASE OpenUndone \/ CloseAcked \/ CloseUnacked
  BY <1>2, TheseVacate, ClaimsVacate
<1>3. CASE Receive \/ Open \/ OpenRefused \/ OpenWelcomed \/ Evict
  BY <1>3, ClaimsReceive, ClaimsOpen, ClaimsRefused, ClaimsWelcomed, ClaimsEvict
<1> QED
  BY <1>1, <1>2, <1>3 DEF BrokerNext, UneventfulStep
-----------------------------------------------------------------------------
(* Claims: steps of programs.                                              *)

\* What a client calls that is not signalled, does not time out and does not crash.
Orderly(c) ==
  \/ InitUnlink(c) \/ InitCreate(c) \/ InitCreateFails(c) \/ InitConnect(c) \/ InitSendOpen(c)
  \/ InitReceive(c) \/ InitGivesUp(c)
  \/ \E f \in Filters : CallSubscribe(c, f)
  \/ \E topic \in Topics, prio \in Prios : CallPublish(c, topic, prio)
  \/ \E timeout \in Timeouts : CallIoctl(c, timeout)
  \/ CallReceive(c) \/ CallCleanup(c) \/ CleanupSendsClose(c) \/ AppUnlink(c)

\* A client leaves without a word to the broker, but has the answer to its OPEN.
Leaves(c) ==
  /\ at[c] # "wait" /\ UNCHANGED vars
  /\ EndsSession(c) \/ (at[c] = "opening" /\ Goes(c, "giveup") /\ UNCHANGED <<qsub, fd>>)

\* A program that does not leave before it has that answer does one or the other.
LEMMA OrderlyStep ==
  ASSUME STypeOK, PTypeOK, InLibrary, AtWork, NEW c \in Clients,
         Moves(c) \/ SendsRequest(c) \/ Happens(c), ~unread'
  PROVE  /\ ~unread
         /\ \/ UNCHANGED unclean /\ (Orderly(c) \/ UNCHANGED svars)
            \/ unclean' /\ Leaves(c)
<1>0. unclean \in BOOLEAN /\ unread \in BOOLEAN
  BY DEF PTypeOK
<1>1. CASE ConnectingFails(c) \/ CloseInterrupted(c) \/ Killed(c)
  <2>1. CASE ConnectingFails(c)
    <3>1. ~unread /\ at[c] # "wait" /\ unclean'
      BY <1>0, <2>1 DEF ConnectingFails
    <3>2. InitInterrupted(c)
      BY <2>1, <3>1 DEF ConnectingFails, InitTimesOut
    <3> QED
      BY <3>1, <3>2 DEF InitInterrupted, Leaves
  <2>2. CASE CloseInterrupted(c)
    <3>1. ~unread /\ unclean' /\ CleanupInterrupted(c)
      BY <1>0, <2>2 DEF CloseInterrupted
    <3> QED
      BY <3>1 DEF CleanupInterrupted, Leaves
  <2>3. CASE Killed(c)
    <3>1. ~unread /\ at[c] # "wait" /\ unclean' /\ Crash(c)
      BY <1>0, <2>3 DEF Killed
    <3> QED
      BY <3>1 DEF Crash, Leaves
  <2> QED
    BY <1>1, <2>1, <2>2, <2>3
<1>2. CASE c \in Subs /\ SubQuits(c)
  <2>1. ~unread /\ prog[c] = "options" /\ UNCHANGED evicted /\ unclean' = (unclean \/ at[c] = "ready")
    BY <1>0, <1>2 DEF SubQuits, AtOption
  <2>2. EndsSession(c) /\ UNCHANGED vars
    BY <1>2 DEF SubQuits
  <2>3. CASE at[c] = "ready"
    BY <2>1, <2>2, <2>3 DEF Leaves
  <2>4. CASE at[c] = "idle"
    BY <1>0, <1>2, <2>1, <2>4, QuitsIsCrash DEF Crash, svars
  <2> QED
    BY <2>1, <2>3, <2>4 DEF InLibrary, PlaceOf
<1>3. CASE Connecting(c) \/ ConnectingSends(c)
  BY <1>3 DEF Connecting, ConnectingSends, OtherwiseAs, Orderly, pown
<1>4. CASE CleansUp(c) \/ SendsClose(c) \/ Unlinks(c)
  BY <1>4 DEF CleansUp, SendsClose, Unlinks, NoCall, OtherwiseAs, Orderly, svars
<1>5. CASE SubConnects(c) \/ PubStarts(c) \/ SubAcked(c) \/ SubReceives(c)
  BY <1>5 DEF SubConnects, PubStarts, SubAcked, SubReceives, OtherwiseAs, Orderly
<1>6. CASE (c \in Subs /\ (SubSubscribes(c) \/ SubSetsTimeout(c))) \/ (c \in Pubs /\ PubPublishes(c))
  <2>1. ~unread /\ UNCHANGED unclean
    BY <1>6 DEF SubSubscribes, SubSetsTimeout, PubPublishes, OtherwiseAs
  <2>2. CASE c \in Subs /\ SubSubscribes(c)
    <3>1. opt[c] \in DOMAIN argv[c] /\ argv[c][opt[c]].opt = "t"
      BY <2>2 DEF SubSubscribes, AtOption, Options
    <3>2. argv[c] \in Lines
      BY <2>2, <3>1 DEF PTypeOK
    <3>3. argv[c][opt[c]] \in CommandOptions
      BY <3>1, <3>2, ProgramsAssumption
    <3>4. argv[c][opt[c]].arg \in Filters
      BY <3>1, <3>3 DEF CommandOptions
    <3> QED
      BY <2>1, <2>2, <3>4 DEF SubSubscribes, Options, Orderly
  <2>3. CASE SubSetsTimeout(c)
    BY <2>1, <2>3 DEF SubSetsTimeout, Orderly, Timeouts
  <2>4. CASE c \in Pubs /\ PubPublishes(c)
    <3>1. runs[c] \in DOMAIN Publishes
      BY <2>4 DEF PubPublishes, AtWork
    <3>2. Publishes[runs[c]] \in Topics \X Prios
      BY <3>1, ProgramsAssumption
    <3>3. CallPublish(c, Publishes[runs[c]][1], Publishes[runs[c]][2])
      BY <2>4 DEF PubPublishes
    <3> QED
      BY <2>1, <3>2, <3>3 DEF Orderly
  <2> QED
    BY <1>6, <2>2, <2>3, <2>4
<1>7. CASE \/ SubConnectsNoMore(c) \/ SubLogs(c) \/ SubHasNoTopic(c) \/ SubChecksRun(c)
           \/ SubStarts(c) \/ SubInitialises(c) \/ SubSignal(c) \/ ReceiveInterrupted(c)
           \/ SetupInterrupted(c) \/ PubInterrupted(c)
  BY <1>7
     DEF SubInitialises, SubConnectsNoMore, SubLogs, SubHasNoTopic, SubChecksRun, SubStarts, SubSignal,
         ReceiveInterrupted, SetupInterrupted, PubInterrupted, NoCall, OtherwiseAs, svars
<1> QED
  BY <1>1, <1>2, <1>3, <1>4, <1>5, <1>6, <1>7 DEF Moves, SubMoves, SendsRequest, Happens

\* The broker's part stands still, and so do the other clients and their names.
Aside(c) ==
  /\ UNCHANGED <<clients, pc, msg, cur>>
  /\ \A d \in Clients \ {c} : /\ at'[d] = at[d] /\ qsub'[d] = qsub[d] /\ fd'[d] = fd[d]
                              /\ names'[d] = names[d]

\* Client c moves on, without waiting for an answer; if it gives up its slot it leaves in
\* disorder.
MovesOn(c) ==
  /\ Aside(c) /\ UNCHANGED <<ctrl, mqs>>
  /\ at[c] # "wait" /\ at'[c] \notin {"wait", "connect"}
  /\ unclean => unclean'
  /\ Ready(c) /\ ~unclean' => Ready(c)' /\ fd'[c] = fd[c]
  /\ at'[c] = "opening" => at[c] = "connect" /\ qsub'[c] = qsub[c] /\ names'[c] = names[c]

\* Nobody's claim depends on that.
LEMMA ClaimsMove ==
  ASSUME STypeOK, Claims, NEW c \in Clients, MovesOn(c)
  PROVE  Claims'
<1>0. UNCHANGED <<clients, pc, msg, cur, ctrl, mqs>>
  BY DEF MovesOn, Aside
<1>1. \A s : (Queue(s)' = Queue(s)) /\ (InUse(s)' <=> InUse(s)) /\ (CloseAsked(s)' <=> CloseAsked(s))
  BY <1>0 DEF Queue, InUse, CloseAsked, Closes, Asks
<1>2. \A i, d : (OpenAt(i, d)' <=> OpenAt(i, d)) /\ (Opens(d)' <=> Opens(d))
  BY <1>0 DEF OpenAt, Opens
<1>3. \A d \in Clients \ {c} :
        /\ at'[d] = at[d] /\ qsub'[d] = qsub[d] /\ fd'[d] = fd[d] /\ names'[d] = names[d]
  BY DEF MovesOn, Aside
<1>4. \A d \in Clients : qsub'[d] = qsub[d] =>
        AnswersTo(d)' = AnswersTo(d) /\ (NotAnswered(d)' <=> NotAnswered(d))
  BY <1>0, <1>1 DEF AnswersTo, AnswersIn, NotAnswered
<1>5. ~Opens(c) /\ (\A i \in DOMAIN ctrl : ~OpenAt(i, c))
  BY DEF MovesOn, Claims, Opening, Connect
<1>6. Connect'
  <2>1. ASSUME NEW d \in Clients
        PROVE  /\ at'[d] \in {"connect", "opening", "wait"} => names'[d] = qsub'[d]
               /\ at'[d] \in {"connect", "opening"} => NotAnswered(d)'
               /\ at'[d] = "wait" => \A m, n \in AnswersTo(d)' : m = n
               /\ Opens(d) \/ (\E i \in DOMAIN ctrl : OpenAt(i, d)) => at'[d] = "wait" /\ NotAnswered(d)'
    <3>1. CASE d = c
      BY <1>4, <1>5, <3>1 DEF MovesOn, Claims, Opening, Connect
    <3>2. CASE d # c
      BY <1>3, <1>4, <3>2 DEF Claims, Opening, Connect
    <3> QED
      BY <3>1, <3>2
  <2> QED
    BY <1>0, <1>2, <2>1 DEF Claims, Opening, Connect
<1>7. Welcome'
  <2>1. \A d \in Clients : at[d] = "wait" => d # c
    BY DEF MovesOn
  <2>2. pc = "welcome" => Queue(cur)' = Queue(cur)
    BY <1>0 DEF Queue
  <2> QED
    BY <1>0, <1>3, <1>4, <2>1, <2>2 DEF Claims, Opening, Welcome
<1>8. ASSUME ~unclean', NEW s \in Slots, Claimed(s) PROVE Claimed(s)'
  <2>1. \A d \in Clients : OfferedTo(s, d) => OfferedTo(s, d)' /\ d # c
    BY <1>0, <1>1, <1>3 DEF OfferedTo, Offered, MovesOn
  <2>2. \A d \in Clients : Ready(d) /\ fd[d] = s => Ready(d)' /\ fd'[d] = s
    BY <1>3, <1>8 DEF MovesOn, Ready
  <2> QED
    BY <1>0, <1>1, <1>8, <2>1, <2>2 DEF Claimed
<1> QED
  BY <1>1, <1>6, <1>7, <1>8 DEF Claims, Opening, MovesOn

\* Which message is next is never in doubt.
LEMMA OneNext ==
  ASSUME NEW S, NEW q \in Seq(S), \A i \in DOMAIN q : q[i].prio \in Nat,
         NEW i, NEW j, IsMqNext(q, i), IsMqNext(q, j)
  PROVE  i = j
<1>1. i \in 1 .. Len(q) /\ j \in 1 .. Len(q) /\ Len(q) \in Nat
  BY DEF IsMqNext
<1>2. q[i].prio \in Nat /\ q[j].prio \in Nat
  BY DEF IsMqNext
<1>3. ~(i < j) /\ ~(j < i)
  <2>1. i < j => q[i].prio < q[j].prio /\ q[j].prio <= q[i].prio
    BY DEF IsMqNext
  <2>2. j < i => q[j].prio < q[i].prio /\ q[i].prio <= q[j].prio
    BY DEF IsMqNext
  <2> QED
    BY <1>2, <2>1, <2>2
<1> QED
  BY <1>1, <1>3

\* What the other clients know of themselves stays as it is when only client c's queue,
\* session and name are touched.
LEMMA OthersUntouched ==
  ASSUME STypeOK, OwnOK, NEW c \in Clients, Aside(c), \A d \in Clients \ {c} : qsub[d] # NoQueue =>
           mqs'[qsub[d]] = mqs[qsub[d]]
  PROVE  \A d \in Clients \ {c} : qsub[d] \in Queues =>
           /\ AnswersTo(d)' = AnswersTo(d) /\ (NotAnswered(d)' <=> NotAnswered(d))
           /\ \A s \in Slots : OfferedTo(s, d)' <=> OfferedTo(s, d)
<1> SUFFICES ASSUME NEW d \in Clients \ {c}, qsub[d] \in Queues
             PROVE  /\ AnswersTo(d)' = AnswersTo(d) /\ (NotAnswered(d)' <=> NotAnswered(d))
                    /\ \A s \in Slots : OfferedTo(s, d)' <=> OfferedTo(s, d)
  OBVIOUS
<1>1. at'[d] = at[d] /\ qsub'[d] = qsub[d] /\ mqs'[qsub[d]] = mqs[qsub[d]]
  BY BrokerAssumption DEF Aside
<1>2. AnswersTo(d)' = AnswersTo(d) /\ Offered(qsub[d])' = Offered(qsub[d])
  BY <1>1 DEF AnswersTo, AnswersIn, Offered
<1>3. \A s : Queue(s)' = Queue(s)
  BY DEF Aside, Queue
<1> QED
  BY <1>1, <1>2, <1>3 DEF NotAnswered, OfferedTo

\* Client c reads from its queue and no longer waits for an answer.
LEMMA ClaimsTaken ==
  ASSUME STypeOK, OwnOK, Plain, Claims, NEW c \in Clients, HasQueue(c), Aside(c),
         UNCHANGED <<ctrl, names, qsub>>, \A q \in Queues \ {qsub[c]} : mqs'[q] = mqs[q],
         at'[c] \in {"ready", "giveup"}, at[c] = "wait" => AnswersTo(c) # {},
         \A s \in Slots : OfferedTo(s, c) \/ (Ready(c) /\ fd[c] = s) => Ready(c)' /\ fd'[c] = s,
         at[c] \in {"wait", "ready"},
         UNCHANGED unclean
  PROVE  Claims'
<1>0. UNCHANGED <<clients, pc, msg, cur>> /\ NoQueue \notin Queues
  BY BrokerAssumption DEF Aside
<1>1. \A d \in Clients \ {c} : qsub[d] # NoQueue => mqs'[qsub[d]] = mqs[qsub[d]]
  BY <1>0 DEF Plain, STypeOK, OwnOK
<1>2. \A d \in Clients \ {c} : qsub[d] \in Queues =>
        /\ AnswersTo(d)' = AnswersTo(d) /\ (NotAnswered(d)' <=> NotAnswered(d))
        /\ \A s \in Slots : OfferedTo(s, d)' <=> OfferedTo(s, d)
  BY <1>1, OthersUntouched
<1>3. \A d \in Clients : at[d] \in {"connect", "opening", "wait"} => qsub[d] \in Queues
  BY DEF OwnOK, HasQueue
<1>4. \A d \in Clients \ {c} : /\ at'[d] = at[d] /\ fd'[d] = fd[d]
                               /\ qsub'[d] = qsub[d] /\ names'[d] = names[d]
  BY DEF Aside
<1>5. \A i, d : (OpenAt(i, d)' <=> OpenAt(i, d)) /\ (Opens(d)' <=> Opens(d))
  BY <1>0 DEF OpenAt, Opens
<1>6. \A s : (Queue(s)' = Queue(s)) /\ (InUse(s)' <=> InUse(s)) /\ (CloseAsked(s)' <=> CloseAsked(s))
  BY <1>0 DEF Queue, InUse, CloseAsked, Closes, Asks
<1>7. ~Opens(c) /\ \A i \in DOMAIN ctrl : ~OpenAt(i, c)
  BY DEF Claims, Opening, Connect, NotAnswered
<1>8. Connect'
  <2>1. ASSUME NEW d \in Clients
        PROVE  /\ at'[d] \in {"connect", "opening", "wait"} => names'[d] = qsub'[d]
               /\ at'[d] \in {"connect", "opening"} => NotAnswered(d)'
               /\ at'[d] = "wait" => \A m, n \in AnswersTo(d)' : m = n
               /\ Opens(d) \/ (\E i \in DOMAIN ctrl : OpenAt(i, d)) => at'[d] = "wait" /\ NotAnswered(d)'
    <3>1. CASE d = c
      BY <1>7, <3>1
    <3>2. CASE d # c
      BY <1>2, <1>3, <1>4, <3>2 DEF Claims, Opening, Connect
    <3> QED
      BY <3>1, <3>2
  <2> QED
    BY <1>5, <2>1 DEF Claims, Opening, Connect
<1>9. Welcome'
  <2>1. ASSUME pc = "welcome"
        PROVE  \E d \in Clients \ {c} : at[d] = "wait" /\ AnswersTo(d) = {} /\ qsub[d] = Queue(cur)
    BY <2>1 DEF Claims, Opening, Welcome
  <2>2. Queue(cur)' = Queue(cur)
    BY <1>0 DEF Queue
  <2> QED
    BY <1>0, <1>2, <1>3, <1>4, <2>1, <2>2 DEF Welcome
<1>10. ASSUME NEW s \in Slots, Claimed(s) PROVE Claimed(s)'
  <2>1. \A d \in Clients : OfferedTo(s, d) => OfferedTo(s, d)' \/ (Ready(d)' /\ fd'[d] = s)
    BY <1>2, <1>3 DEF OfferedTo
  <2>2. \A d \in Clients : Ready(d) /\ fd[d] = s => Ready(d)' /\ fd'[d] = s
    BY <1>4 DEF Ready
  <2> QED
    BY <1>0, <1>6, <1>10, <2>1, <2>2 DEF Claimed
<1> QED
  BY <1>6, <1>8, <1>9, <1>10 DEF Claims, Opening

\* psmq_init takes the next message: no answer, the one that says its slot, or the refusal.
LEMMA ClaimsAnswered ==
  ASSUME TypeOK, Control, STypeOK, OwnOK, Plain, Claims, NEW c \in Clients, InitReceive(c),
         UNCHANGED unclean
  PROVE  Claims'
<1>0. /\ at[c] = "wait" /\ HasQueue(c) /\ UNCHANGED <<clients, pc, msg, cur, ctrl, names, qsub>>
      /\ TakeFrom(qsub[c])
  BY DEF InitReceive, ReadQueue, HasQueue, local
<1>1. PICK p \in Queues : p = qsub[c]
  BY <1>0 DEF OwnOK
<1>2. PICK i \in DOMAIN mqs[p] : IsMqNext(mqs[p], i) /\ mqs' = [mqs EXCEPT ![p] = MqRest(mqs[p], i)]
  BY <1>0, <1>1 DEF TakeFrom
<1>3. mqs \in [Queues -> Seq(ReplyType)] /\ mqs[p] \in Seq(ReplyType)
  BY DEF TypeOK, QueuesOK
<1>4. PICK m : m = MqHead(mqs[p])
  OBVIOUS
<1>5. m = mqs[p][i]
  <2>1. \A j \in DOMAIN mqs[p] : mqs[p][j].prio \in Nat
    <3>1. \A j \in DOMAIN mqs[p] : mqs[p][j] \in ReplyType
      BY <1>3
    <3>2. \A r \in ReplyType : r.prio \in Nat
      BY DEF ReplyType
    <3> QED
      BY <3>1, <3>2
  <2>2. \A j : IsMqNext(mqs[p], j) => j = i
    BY <1>2, <1>3, <2>1, OneNext
  <2> DEFINE k == CHOOSE j \in DOMAIN mqs[p] : IsMqNext(mqs[p], j)
  <2>3. IsMqNext(mqs[p], k)
    BY <1>2
  <2>4. m = mqs[p][k]
    BY <1>4 DEF MqHead
  <2> HIDE DEF k
  <2> QED
    BY <2>2, <2>3, <2>4
<1>6. /\ \A q \in Queues \ {p} : mqs'[q] = mqs[q]
      /\ mqs'[p] = MqRest(mqs[p], i)
  BY <1>2, <1>3
<1>7. CASE m.cmd # "open"
  <2>1. UNCHANGED own
    BY <1>1, <1>4, <1>7 DEF InitReceive, own
  <2>2. AnswersIn(p)' = AnswersIn(p)
    <3>1. Elems(mqs'[p]) \subseteq Elems(mqs[p])
      BY <1>3, <1>6, RestElems
    <3>2. ASSUME NEW k \in DOMAIN mqs[p], mqs[p][k].cmd = "open"
          PROVE  \E j \in DOMAIN mqs'[p] : mqs'[p][j] = mqs[p][k]
      BY <1>3, <1>5, <1>6, <1>7, <3>2, RestKeeps
    <3>3. \A a : a \in Elems(mqs'[p]) <=> \E j \in DOMAIN mqs'[p] : a = mqs'[p][j]
      BY DEF Elems
    <3>4. \A a : a \in Elems(mqs[p]) <=> \E j \in DOMAIN mqs[p] : a = mqs[p][j]
      BY DEF Elems
    <3>5. \A a : a.cmd = "open" => (a \in Elems(mqs'[p]) <=> a \in Elems(mqs[p]))
      BY <3>1, <3>2, <3>3, <3>4
    <3> QED
      BY <3>5 DEF AnswersIn
  <2>3. \A q \in Queues : AnswersIn(q)' = AnswersIn(q)
    BY <1>6, <2>2 DEF AnswersIn
  <2>4. Uneventful
    BY <1>0, <2>1, <2>3 DEF Uneventful, Opens, Closes
  <2> QED
    BY <2>4, UneventfulKeeps
<1>8. CASE m.cmd = "open"
  <2>1. m \in AnswersTo(c)
    BY <1>1, <1>5, <1>8 DEF AnswersTo, AnswersIn, Elems
  <2>2. \A a \in AnswersTo(c) : a = m
    BY <1>0, <2>1 DEF Claims, Opening, Connect
  <2>3. Offered(p) = {a.fd : a \in {r \in AnswersTo(c) : r.data = "OK"}}
    BY <1>1, OfferedIs DEF AnswersTo
  <2>4. /\ m.data # "OK" => Goes(c, "giveup") /\ UNCHANGED fd
        /\ m.data = "OK" => Goes(c, "ready") /\ fd' = [fd EXCEPT ![c] = m.fd]
    BY <1>1, <1>4, <1>8 DEF InitReceive
  <2>5. ASSUME NEW s \in Slots, OfferedTo(s, c)
        PROVE  m.data = "OK" /\ s = m.fd
    BY <1>1, <2>2, <2>3, <2>5 DEF OfferedTo
  <2>6. ~Ready(c)
    BY <1>0 DEF Ready
  <2>7. Aside(c)
    BY <1>0, <2>4 DEF Aside, Goes, STypeOK
  <2>8. at'[c] \in {"ready", "giveup"}
    BY <2>4 DEF Goes, STypeOK
  <2>9. \A s \in Slots : OfferedTo(s, c) => Ready(c)' /\ fd'[c] = s
    BY <2>4, <2>5 DEF Goes, STypeOK, Ready
  <2>10. \A q \in Queues \ {qsub[c]} : mqs'[q] = mqs[q]
    BY <1>1, <1>6
  <2> QED
    BY <1>0, <2>1, <2>6, <2>7, <2>8, <2>9, <2>10, ClaimsTaken
<1> QED
  BY <1>7, <1>8

\* A client that connects makes a queue nobody has sent to, and which no slot has.
LEMMA ClaimsCreate ==
  ASSUME SInv, Plain, Claims, NEW c \in Clients, InitCreate(c),
         UNCHANGED unclean
  PROVE  Claims'
<1>0. TypeOK /\ Balanced /\ STypeOK /\ OwnOK /\ NoQueue \notin Queues
  BY BrokerAssumption DEF SInv, TypeInv
<1>1. PICK q \in Queues : /\ \A d \in Clients : qsub[d] # q
                          /\ CreateQueue(c, q) /\ qsub' = [qsub EXCEPT ![c] = q]
  BY DEF InitCreate
<1>2. /\ UNCHANGED <<clients, ctrl, pc, msg, cur, fd>> /\ at[c] = "create"
      /\ held[q] = 0 /\ mqs' = [mqs EXCEPT ![q] = <<>>]
      /\ names' = [names EXCEPT ![c] = q] /\ at' = [at EXCEPT ![c] = "connect"]
  BY <1>1 DEF CreateQueue, local, InitCreate, Goes
<1>3. /\ \A s \in Slots : Queue(s) # q
      /\ \A s : (Queue(s)' = Queue(s)) /\ (InUse(s)' <=> InUse(s)) /\ (CloseAsked(s)' <=> CloseAsked(s))
  BY <1>0, <1>2, UnheldIsFree DEF Queue, InUse, CloseAsked, Closes, Asks
<1>4. /\ Aside(c) /\ at'[c] = "connect" /\ qsub'[c] = q /\ names'[c] = q /\ ~Ready(c)
      /\ Elems(mqs'[q]) = {} /\ \A p \in Queues \ {q} : mqs'[p] = mqs[p]
  BY <1>0, <1>1, <1>2 DEF Aside, STypeOK, TypeOK, NamesOK, QueuesOK, Elems, Clients, Ready
<1>5. \A d \in Clients \ {c} : qsub[d] \in Queues =>
        /\ AnswersTo(d)' = AnswersTo(d) /\ (NotAnswered(d)' <=> NotAnswered(d))
        /\ \A s \in Slots : OfferedTo(s, d)' <=> OfferedTo(s, d)
  <2>1. \A d \in Clients \ {c} : qsub[d] # NoQueue => mqs'[qsub[d]] = mqs[qsub[d]]
    BY <1>0, <1>1, <1>4 DEF STypeOK
  <2> QED
    BY <1>0, <1>4, <2>1, OthersUntouched
<1>6. \A d \in Clients : at[d] \in {"connect", "opening", "wait"} => qsub[d] \in Queues
  BY <1>0 DEF OwnOK, HasQueue
<1>7. \A d \in Clients \ {c} : /\ at'[d] = at[d] /\ fd'[d] = fd[d]
                               /\ qsub'[d] = qsub[d] /\ names'[d] = names[d]
  BY <1>4 DEF Aside
<1>8. \A i, d : (OpenAt(i, d)' <=> OpenAt(i, d)) /\ (Opens(d)' <=> Opens(d))
  BY <1>2 DEF OpenAt, Opens
<1>9. ~Opens(c) /\ (\A i \in DOMAIN ctrl : ~OpenAt(i, c)) /\ NotAnswered(c)'
  <2>1. AnswersTo(c)' = {}
    BY <1>4 DEF AnswersTo, AnswersIn
  <2> QED
    BY <1>2, <1>3, <1>4, <2>1 DEF Claims, Opening, Connect, NotAnswered
<1>10. Connect'
  <2>1. ASSUME NEW d \in Clients
        PROVE  /\ at'[d] \in {"connect", "opening", "wait"} => names'[d] = qsub'[d]
               /\ at'[d] \in {"connect", "opening"} => NotAnswered(d)'
               /\ at'[d] = "wait" => \A m, n \in AnswersTo(d)' : m = n
               /\ Opens(d) \/ (\E i \in DOMAIN ctrl : OpenAt(i, d)) => at'[d] = "wait" /\ NotAnswered(d)'
    <3>1. CASE d = c
      BY <1>4, <1>9, <3>1
    <3>2. CASE d # c
      BY <1>5, <1>6, <1>7, <3>2 DEF Claims, Opening, Connect
    <3> QED
      BY <3>1, <3>2
  <2> QED
    BY <1>2, <1>8, <2>1 DEF Claims, Opening, Connect
<1>11. Welcome'
  <2>1. ASSUME pc = "welcome"
        PROVE  \E d \in Clients \ {c} : at[d] = "wait" /\ AnswersTo(d) = {} /\ qsub[d] = Queue(cur)
    BY <1>2, <2>1 DEF Claims, Opening, Welcome
  <2>2. Queue(cur)' = Queue(cur)
    BY <1>2 DEF Queue
  <2> QED
    BY <1>2, <1>5, <1>6, <1>7, <2>1, <2>2 DEF Welcome
<1>12. ASSUME NEW s \in Slots, Claimed(s) PROVE Claimed(s)'
  <2>1. \A d \in Clients : OfferedTo(s, d) => OfferedTo(s, d)'
    BY <1>2, <1>5, <1>6 DEF OfferedTo
  <2>2. \A d \in Clients : Ready(d) /\ fd[d] = s => Ready(d)' /\ fd'[d] = s
    BY <1>4, <1>7 DEF Ready
  <2> QED
    BY <1>2, <1>3, <1>12, <2>1, <2>2 DEF Claimed
<1> QED
  BY <1>3, <1>10, <1>11, <1>12 DEF Claims, Opening

\* Client c sends a request that is no OPEN, and keeps its slot unless it is its CLOSE.
LEMMA ClaimsRequest ==
  ASSUME TypeOK, STypeOK, OwnOK, Claims, NEW c \in Clients, Aside(c), UNCHANGED <<mqs, names>>,
         NEW r, r.cmd # "open", ctrl' = Append(ctrl, r),
         at[c] # "wait", at'[c] \notin {"connect", "opening", "wait"},
         Ready(c) => (Ready(c)' /\ fd'[c] = fd[c]) \/ (r.cmd = "close" /\ r.fd = fd[c]),
         UNCHANGED unclean
  PROVE  Claims'
<1>0. UNCHANGED <<clients, pc, msg, cur>> /\ NoQueue \notin Queues
  BY BrokerAssumption DEF Aside
<1> DEFINE new == Len(ctrl) + 1
<1>1. ctrl \in Seq(Requests) /\ DOMAIN ctrl = 1 .. Len(ctrl) /\ Len(ctrl) \in Nat
  BY DEF TypeOK, QueuesOK
<1>2. /\ \A i \in DOMAIN ctrl' : (i \in DOMAIN ctrl /\ ctrl'[i] = ctrl[i]) \/ ctrl'[i] = r
      /\ \A i \in DOMAIN ctrl : i \in DOMAIN ctrl' /\ ctrl'[i] = ctrl[i]
      /\ new \in DOMAIN ctrl' /\ ctrl'[new] = r
  BY <1>1
<1> HIDE DEF new
<1>3. \A i, d : (OpenAt(i, d)' <=> OpenAt(i, d)) /\ (Opens(d)' <=> Opens(d))
  BY <1>0, <1>2 DEF OpenAt, Opens
<1>4. /\ \A s : CloseAsked(s) => CloseAsked(s)'
      /\ r.cmd = "close" => CloseAsked(r.fd)'
      /\ \A s : (Queue(s)' = Queue(s)) /\ (InUse(s)' <=> InUse(s))
  BY <1>0, <1>2 DEF Queue, InUse, CloseAsked, Closes, Asks
<1>5. \A d \in Clients \ {c} : qsub[d] \in Queues =>
        /\ AnswersTo(d)' = AnswersTo(d) /\ (NotAnswered(d)' <=> NotAnswered(d))
        /\ \A s \in Slots : OfferedTo(s, d)' <=> OfferedTo(s, d)
  BY OthersUntouched
<1>6. \A d \in Clients : at[d] \in {"connect", "opening", "wait"} => qsub[d] \in Queues
  BY DEF OwnOK, HasQueue
<1>7. \A d \in Clients \ {c} : /\ at'[d] = at[d] /\ fd'[d] = fd[d]
                               /\ qsub'[d] = qsub[d] /\ names'[d] = names[d]
  BY DEF Aside
<1>8. ~Opens(c) /\ (\A i \in DOMAIN ctrl : ~OpenAt(i, c))
  BY DEF Claims, Opening, Connect
<1>9. Connect'
  <2>1. ASSUME NEW d \in Clients
        PROVE  /\ at'[d] \in {"connect", "opening", "wait"} => names'[d] = qsub'[d]
               /\ at'[d] \in {"connect", "opening"} => NotAnswered(d)'
               /\ at'[d] = "wait" => \A m, n \in AnswersTo(d)' : m = n
               /\ Opens(d) \/ (\E i \in DOMAIN ctrl : OpenAt(i, d)) => at'[d] = "wait" /\ NotAnswered(d)'
    <3>1. CASE d = c
      BY <1>8, <3>1
    <3>2. CASE d # c
      BY <1>5, <1>6, <1>7, <3>2 DEF Claims, Opening, Connect
    <3> QED
      BY <3>1, <3>2
  <2>2. /\ \A d : (\E i \in DOMAIN ctrl' : OpenAt(i, d)') => \E i \in DOMAIN ctrl : OpenAt(i, d)
        /\ \A d : \A i, j \in DOMAIN ctrl' : OpenAt(i, d)' /\ OpenAt(j, d)' =>
             i \in DOMAIN ctrl /\ j \in DOMAIN ctrl /\ OpenAt(i, d) /\ OpenAt(j, d)
    BY <1>3 DEF OpenAt
  <2> QED
    BY <1>3, <2>1, <2>2 DEF Claims, Opening, Connect, OpenAt
<1>10. Welcome'
  <2>1. ASSUME pc = "welcome"
        PROVE  \E d \in Clients \ {c} : at[d] = "wait" /\ AnswersTo(d) = {} /\ qsub[d] = Queue(cur)
    BY <2>1 DEF Claims, Opening, Welcome
  <2>2. Queue(cur)' = Queue(cur)
    BY <1>0 DEF Queue
  <2> QED
    BY <1>0, <1>5, <1>6, <1>7, <2>1, <2>2 DEF Welcome
<1>11. ASSUME NEW s \in Slots, Claimed(s) PROVE Claimed(s)'
  <2>1. \A d \in Clients : OfferedTo(s, d) => OfferedTo(s, d)'
    BY <1>5, <1>6 DEF OfferedTo
  <2>2. \A d \in Clients : Ready(d) /\ fd[d] = s => (Ready(d)' /\ fd'[d] = s) \/ CloseAsked(s)'
    BY <1>4, <1>7 DEF Ready
  <2> QED
    BY <1>0, <1>4, <1>11, <2>1, <2>2 DEF Claimed
<1> QED
  BY <1>4, <1>9, <1>10, <1>11 DEF Claims, Opening

\* A client sends its OPEN, the only one, and waits for the answer.
LEMMA ClaimsOffered ==
  ASSUME TypeOK, STypeOK, OwnOK, Claims, NEW c \in Clients, InitSendOpen(c),
         UNCHANGED unclean
  PROVE  Claims'
<1>0. UNCHANGED <<clients, pc, msg, cur, mqs, names, qsub, fd>>
  BY DEF InitSendOpen, Sends, SendRequest, local
<1>1. PICK r : ctrl' = Append(ctrl, r) /\ r.cmd = "open" /\ r.arg = c
  BY DEF InitSendOpen, Sends, SendRequest, MqSend
<1>2. at[c] = "opening" /\ at'[c] = "wait" /\ \A d \in Clients \ {c} : at'[d] = at[d]
  BY DEF InitSendOpen, Goes, STypeOK
<1> DEFINE new == Len(ctrl) + 1
<1>3. ctrl \in Seq(Requests) /\ DOMAIN ctrl = 1 .. Len(ctrl) /\ Len(ctrl) \in Nat
  BY DEF TypeOK, QueuesOK
<1>4. /\ \A i \in DOMAIN ctrl' : (i \in DOMAIN ctrl /\ ctrl'[i] = ctrl[i]) \/ (i = new /\ ctrl'[i] = r)
      /\ \A i \in DOMAIN ctrl : i \in DOMAIN ctrl' /\ ctrl'[i] = ctrl[i]
  BY <1>1, <1>3
<1> HIDE DEF new
<1>5. /\ \A i, d : OpenAt(i, d)' => OpenAt(i, d) \/ (i = new /\ d = c)
      /\ \A d : Opens(d)' <=> Opens(d)
  BY <1>0, <1>1, <1>4 DEF OpenAt, Opens
<1>6. /\ \A s : (CloseAsked(s) => CloseAsked(s)') /\ (Queue(s)' = Queue(s)) /\ (InUse(s)' <=> InUse(s))
      /\ \A d : AnswersTo(d)' = AnswersTo(d) /\ (NotAnswered(d)' <=> NotAnswered(d))
      /\ \A q : Offered(q)' = Offered(q)
  <2>1. \A d : AnswersTo(d)' = AnswersTo(d)
    BY <1>0 DEF AnswersTo, AnswersIn
  <2>2. \A s : (Queue(s)' = Queue(s)) /\ (InUse(s)' <=> InUse(s))
    BY <1>0 DEF Queue, InUse
  <2>3. \A s : CloseAsked(s) => CloseAsked(s)'
    BY <1>0, <1>4 DEF CloseAsked, Closes, Asks
  <2> QED
    BY <1>0, <2>1, <2>2, <2>3 DEF NotAnswered, Offered
<1>7. /\ NotAnswered(c) /\ names[c] = qsub[c] /\ ~Opens(c)
      /\ \A i \in DOMAIN ctrl : ~OpenAt(i, c)
      /\ ~Ready(c)
  BY <1>2 DEF Claims, Opening, Connect, Ready
<1>8. Connect'
  <2>1. ASSUME NEW d \in Clients
        PROVE  /\ at'[d] \in {"connect", "opening", "wait"} => names'[d] = qsub'[d]
               /\ at'[d] \in {"connect", "opening"} => NotAnswered(d)'
               /\ at'[d] = "wait" => \A m, n \in AnswersTo(d)' : m = n
    <3>1. CASE d = c
      BY <1>0, <1>2, <1>6, <1>7, <3>1 DEF NotAnswered
    <3>2. CASE d # c
      BY <1>0, <1>2, <1>6, <3>2 DEF Claims, Opening, Connect
    <3> QED
      BY <3>1, <3>2
  <2>2. ASSUME NEW d \in Clients
        PROVE  /\ (Opens(d) \/ (\E i \in DOMAIN ctrl : OpenAt(i, d)))' => at'[d] = "wait" /\ NotAnswered(d)'
               /\ \A i, j \in DOMAIN ctrl' : OpenAt(i, d)' /\ OpenAt(j, d)' => i = j
               /\ Opens(d)' => \A i \in DOMAIN ctrl' : ~OpenAt(i, d)'
    <3>1. CASE d = c
      <4>1. \A i \in DOMAIN ctrl' : OpenAt(i, c)' => i = new
        BY <1>5, <1>7 DEF OpenAt
      <4>2. ~Opens(c)' /\ at'[c] = "wait" /\ NotAnswered(c)'
        BY <1>2, <1>5, <1>6, <1>7
      <4> QED
        BY <3>1, <4>1, <4>2
    <3>2. CASE d # c
      <4>1. \A i \in DOMAIN ctrl' : OpenAt(i, d)' => i \in DOMAIN ctrl /\ OpenAt(i, d)
        BY <1>5, <3>2 DEF OpenAt
      <4> QED
        BY <1>2, <1>5, <1>6, <3>2, <4>1 DEF Claims, Opening, Connect
    <3> QED
      BY <3>1, <3>2
  <2> QED
    BY <2>1, <2>2 DEF Connect
<1>9. Welcome'
  <2>1. pc = "welcome" => Queue(cur)' = Queue(cur)
    BY <1>0 DEF Queue
  <2> QED
    BY <1>0, <1>2, <1>6, <2>1 DEF Claims, Opening, Welcome
<1>10. \A s \in Slots : Claimed(s) => Claimed(s)'
  BY <1>0, <1>2, <1>6, <1>7 DEF Claimed, OfferedTo, Ready
<1> QED
  BY <1>6, <1>8, <1>9, <1>10 DEF Claims, Opening

\* Every orderly call of a client.
LEMMA ClaimsCalled ==
  ASSUME SInv, Plain, Claims, NEW c \in Clients, Orderly(c),
         UNCHANGED unclean
  PROVE  Claims'
<1>0. TypeOK /\ Control /\ STypeOK /\ OwnOK /\ NoQueue \notin Queues
  BY BrokerAssumption DEF SInv, TypeInv
<1>1. ASSUME \E to : Goes(c, to), UNCHANGED <<qsub, fd, clients, pc, msg, cur>>,
             \A d \in Clients \ {c} : names'[d] = names[d]
      PROVE  Aside(c)
  BY <1>0, <1>1 DEF Aside, Goes, STypeOK
<1>2. ASSUME EndsSession(c), UNCHANGED <<clients, pc, msg, cur>>,
             \A d \in Clients \ {c} : names'[d] = names[d]
      PROVE  Aside(c)
  BY <1>0, <1>2 DEF Aside, EndsSession, Goes, STypeOK
<1>3. ASSUME UNCHANGED vars \/ UnlinkQueue(c)
      PROVE  /\ UNCHANGED <<clients, pc, msg, cur, ctrl, mqs>>
             /\ \A d \in Clients \ {c} : names'[d] = names[d]
  BY <1>0, <1>3 DEF UnlinkQueue, vars, local, TypeOK, NamesOK, Clients
<1>4. CASE InitUnlink(c) \/ InitCreateFails(c) \/ CallCleanup(c)
  <2>1. /\ UNCHANGED vars \/ UnlinkQueue(c)
        /\ \E to \in {"create", "idle", "closing"} : Goes(c, to) /\ (to = "closing" <=> at[c] = "ready")
        /\ UNCHANGED <<qsub, fd>> /\ at[c] \in {"idle", "create", "ready"}
    BY <1>4 DEF InitUnlink, InitCreateFails, CallCleanup, CanCall
  <2>2. Aside(c) /\ UNCHANGED <<ctrl, mqs>>
    BY <1>1, <1>3, <2>1
  <2>3. /\ at'[c] \in {"create", "idle", "closing"} /\ (at'[c] = "closing" <=> at[c] = "ready")
    BY <1>0, <2>1 DEF Goes, STypeOK
  <2>4. MovesOn(c)
    BY <2>1, <2>2, <2>3 DEF MovesOn, Ready
  <2> QED
    BY <1>0, <2>4, ClaimsMove
<1>5. CASE InitConnect(c) \/ InitGivesUp(c)
  <2>1. /\ UNCHANGED vars \/ UnlinkQueue(c)
        /\ at[c] \in {"connect", "giveup"}
    BY <1>5 DEF InitConnect, InitGivesUp
  <2>2. CASE EndsSession(c)
    <3>1. Aside(c) /\ UNCHANGED <<ctrl, mqs>> /\ at'[c] = "idle" /\ ~Ready(c)
      BY <1>0, <1>2, <1>3, <2>1, <2>2 DEF EndsSession, Goes, STypeOK, Ready
    <3>2. MovesOn(c)
      BY <2>1, <3>1 DEF MovesOn
    <3> QED
      BY <1>0, <3>2, ClaimsMove
  <2>3. CASE at[c] = "connect" /\ Goes(c, "opening") /\ UNCHANGED <<qsub, fd>> /\ UNCHANGED vars
    <3>1. Aside(c) /\ UNCHANGED <<ctrl, mqs, names>> /\ at'[c] = "opening" /\ ~Ready(c)
      BY <1>0, <1>1, <1>3, <2>3 DEF Goes, STypeOK, Ready, vars
    <3>2. MovesOn(c)
      BY <2>3, <3>1 DEF MovesOn
    <3> QED
      BY <1>0, <3>2, ClaimsMove
  <2> QED
    BY <1>5, <2>2, <2>3 DEF InitConnect, InitGivesUp
<1>6. CASE AppUnlink(c)
  <2>1. UnlinkQueue(c) /\ UNCHANGED own /\ at[c] = "idle"
    BY <1>6 DEF AppUnlink
  <2>2. Aside(c) /\ UNCHANGED <<ctrl, mqs, at, fd>>
    BY <1>3, <2>1 DEF Aside, own
  <2>3. MovesOn(c)
    BY <2>1, <2>2 DEF MovesOn, Ready
  <2> QED
    BY <1>0, <2>3, ClaimsMove
<1>7. ASSUME NEW cmd, cmd # "open", NEW arg, NEW prio, Sends(c, cmd, arg, prio),
             CanCall(c, "subscribe") \/ CanCall(c, "publish") \/ CanCall(c, "ioctl"),
             UNCHANGED <<at, qsub, fd>>
      PROVE  Claims'
  <2>1. PICK r : r.cmd # "open" /\ ctrl' = Append(ctrl, r)
    BY <1>7 DEF Sends, SendRequest, MqSend
  <2>2. UNCHANGED <<clients, pc, msg, cur, mqs, names>> /\ at[c] = "ready"
    BY <1>7 DEF Sends, SendRequest, local, CanCall
  <2>3. Aside(c)
    BY <1>7, <2>2 DEF Aside
  <2> QED
    BY <1>0, <1>7, <2>1, <2>2, <2>3, ClaimsRequest DEF Ready
<1>8. CASE \/ \E f \in Filters : CallSubscribe(c, f)
           \/ \E topic \in Topics, prio \in Prios : CallPublish(c, topic, prio)
           \/ \E timeout \in Timeouts : CallIoctl(c, timeout)
  BY <1>7, <1>8 DEF CallSubscribe, CallPublish, CallIoctl, own
<1>9. CASE CleanupSendsClose(c)
  <2>1. PICK r : r.cmd = "close" /\ r.fd = fd[c] /\ ctrl' = Append(ctrl, r)
    BY <1>9 DEF CleanupSendsClose, Sends, SendRequest, MqSend
  <2>2. UNCHANGED <<clients, pc, msg, cur, mqs, names>> /\ at[c] = "closing" /\ EndsSession(c)
    BY <1>9 DEF CleanupSendsClose, Sends, SendRequest, local
  <2>3. Aside(c) /\ at'[c] = "idle"
    BY <1>0, <1>2, <2>2 DEF EndsSession, Goes, STypeOK
  <2> QED
    BY <1>0, <2>1, <2>2, <2>3, ClaimsRequest
<1>10. CASE CallReceive(c)
  <2>1. /\ UNCHANGED <<clients, pc, msg, cur, ctrl, names, at, qsub, fd>> /\ at[c] = "ready"
        /\ TakeFrom(qsub[c])
    BY <1>10 DEF CallReceive, CanCall, ReadQueue, local, own
  <2>2. Aside(c) /\ HasQueue(c) /\ Ready(c)
    BY <2>1 DEF Aside, HasQueue, Ready
  <2>3. \A q \in Queues \ {qsub[c]} : mqs'[q] = mqs[q]
    BY <1>0, <2>1 DEF TakeFrom, TypeOK, QueuesOK
  <2>4. \A s \in Slots : OfferedTo(s, c) \/ (Ready(c) /\ fd[c] = s) => Ready(c)' /\ fd'[c] = s
    BY <2>1 DEF OfferedTo, Ready
  <2> QED
    BY <1>0, <2>1, <2>2, <2>3, <2>4, ClaimsTaken
<1>11. CASE InitReceive(c) \/ InitCreate(c) \/ InitSendOpen(c)
  BY <1>0, <1>11, ClaimsAnswered, ClaimsCreate, ClaimsOffered
<1> QED
  BY <1>4, <1>5, <1>6, <1>8, <1>9, <1>10, <1>11 DEF Orderly
-----------------------------------------------------------------------------
(* No slot is left behind.                                                 *)

\* A client that leaves moves on.
LEMMA LeavesMovesOn ==
  ASSUME STypeOK, NEW c \in Clients, Leaves(c), unclean'
  PROVE  MovesOn(c)
<1>1. at'[c] \in {"idle", "giveup"} /\ UNCHANGED <<clients, pc, msg, cur, ctrl, mqs, names>>
  BY DEF Leaves, EndsSession, Goes, STypeOK, vars, local
<1>2. \A d \in Clients \ {c} : at'[d] = at[d] /\ qsub'[d] = qsub[d] /\ fd'[d] = fd[d]
  BY DEF Leaves, EndsSession, Goes, STypeOK
<1> QED
  BY <1>1, <1>2 DEF Leaves, MovesOn, Aside

\* Who leaves before it has the answer to its OPEN leaves in disorder.
LEMMA UnreadIsUnclean ==
  ASSUME PTypeOK, NEW c \in Clients, Moves(c) \/ SendsRequest(c) \/ Happens(c),
         unread => unclean
  PROVE  unread' => unclean'
<1>1. CASE ConnectingFails(c) \/ CloseInterrupted(c) \/ Killed(c)
  BY <1>1 DEF ConnectingFails, CloseInterrupted, Killed
<1>2. CASE c \in Subs /\ SubQuits(c)
  BY <1>2 DEF SubQuits
<1>3. CASE Connecting(c) \/ ConnectingSends(c) \/ CleansUp(c) \/ SendsClose(c) \/ Unlinks(c)
  BY <1>3 DEF Connecting, ConnectingSends, CleansUp, SendsClose, Unlinks, OtherwiseAs, pown
<1>4. CASE \/ SubStarts(c) \/ SubInitialises(c) \/ PubStarts(c) \/ SubConnects(c)
           \/ SubConnectsNoMore(c) \/ SubLogs(c) \/ SubHasNoTopic(c) \/ SubChecksRun(c)
  BY <1>4 DEF SubStarts, SubInitialises, PubStarts, SubConnects, SubConnectsNoMore, SubLogs, SubHasNoTopic,
              SubChecksRun, OtherwiseAs
<1>5. CASE \/ SubSubscribes(c) \/ SubSetsTimeout(c) \/ PubPublishes(c) \/ SubAcked(c)
           \/ SubReceives(c)
  BY <1>5 DEF SubSubscribes, SubSetsTimeout, PubPublishes, SubAcked, SubReceives, OtherwiseAs
<1>6. CASE \/ SubSignal(c) \/ ReceiveInterrupted(c) \/ SetupInterrupted(c) \/ PubInterrupted(c)
  BY <1>6 DEF SubSignal, ReceiveInterrupted, SetupInterrupted, PubInterrupted, OtherwiseAs
<1> QED
  BY <1>1, <1>2, <1>3, <1>4, <1>5, <1>6 DEF Moves, SubMoves, SendsRequest, Happens

\* There is nothing to claim when all starts.
LEMMA ClaimsInit == PInit => ClaimsInv
<1> SUFFICES ASSUME PInit PROVE Claims
  BY DEF ClaimsInv, PInit
<1>1. /\ \A s \in Slots : ~InUse(s)
      /\ ctrl = <<>> /\ pc = "check" /\ \A c \in Clients : at[c] = "idle"
  BY DEF PInit, SInit, Init, NoClient, InUse, Queue
<1>2. \A c : ~Opens(c) /\ \A i : ~OpenAt(i, c)
  BY <1>1 DEF Opens, OpenAt
<1> QED
  BY <1>1, <1>2 DEF Claims, Opening, Connect, Welcome, InUse

\* Every step keeps the claims, or some program leaves before it is answered.
LEMMA ClaimsStep ==
  ASSUME SInv, PInv, Plain, ClaimsInv, [PNext]_pvars
  PROVE  ClaimsInv'
<1>0. TypeOK /\ Control /\ STypeOK /\ OwnOK /\ PTypeOK /\ InLibrary /\ AtWork
  BY DEF SInv, TypeInv, PInv
<1>1. CASE (BrokerStep \/ SignalStep) /\ UNCHANGED pown
  <2>1. UNCHANGED <<unclean, unread>> /\ (BrokerNext \/ Signal) /\ UNCHANGED own
    BY <1>1 DEF pown, BrokerStep, SignalStep
  <2> QED
    BY <1>0, <2>1, ClaimsServed DEF ClaimsInv
<1>2. ASSUME UNCHANGED svars, UNCHANGED unclean, Claims
      PROVE  Claims'
  <2>1. UNCHANGED <<clients, ctrl, mqs, names, pc, msg, cur, own>>
    BY <1>2 DEF svars, vars, local
  <2>2. Uneventful
    BY <2>1 DEF Uneventful, AnswersIn, Opens, Closes
  <2> QED
    BY <1>0, <1>2, <2>2, UneventfulKeeps
<1>3. ASSUME NEW c \in Clients, Moves(c) \/ SendsRequest(c) \/ Happens(c)
      PROVE  ClaimsInv'
  <2>1. ASSUME ~unread' PROVE Claims'
    <3>1. /\ Claims
          /\ \/ UNCHANGED unclean /\ (Orderly(c) \/ UNCHANGED svars)
             \/ unclean' /\ Leaves(c)
      BY <1>0, <1>3, <2>1, OrderlyStep DEF ClaimsInv
    <3>2. CASE UNCHANGED unclean
      BY <1>2, <3>1, <3>2, <1>0, ClaimsCalled, LeavesMovesOn, ClaimsMove
    <3>3. CASE unclean' /\ Leaves(c)
      BY <1>0, <3>1, <3>3, LeavesMovesOn, ClaimsMove
    <3> QED
      BY <3>1, <3>2, <3>3
  <2>2. unread' => unclean'
    BY <1>0, <1>3, UnreadIsUnclean DEF ClaimsInv
  <2> QED
    BY <2>1, <2>2 DEF ClaimsInv
<1>4. CASE UNCHANGED pvars
  BY <1>2, <1>4 DEF pvars, pown, ClaimsInv
<1> QED
  BY <1>1, <1>3, <1>4 DEF PNext

\* As long as every program waits for the answer to its OPEN, each gets one; and as long as
\* all leave in order, somebody will give each slot back.
THEOREM ClaimsInvariant == PSpec => [](SInv /\ PInv /\ ClaimsInv)
<1>1. SessionsInv => Plain
  BY DEF SessionsInv
<1>2. SSpec => []Plain
  BY <1>1, SessionsInvariant, PTL
<1> QED
  BY <1>2, ClaimsInit, ClaimsStep, ProgramsInvariant, ProgramsAreClients, PTL DEF PSpec

(***************************************************************************)
(* Programs that come and go in good order leave no slot behind, whatever  *)
(* was refused, evicted, unlinked or in flight meanwhile: once they are    *)
(* gone and the broker has nothing more to do all slots are free           *)
(* (psmq.c:660, psmq-sub.c:509, psmq-pub.c:411).                           *)
(***************************************************************************)
THEOREM SlotsAlwaysComeBack == PSpec => []SlotsComeBack
<1>1. PInv /\ ClaimsInv => SlotsComeBack
  <2> SUFFICES ASSUME PInv, Claims, ~unclean, pc = "receive", ctrl = <<>>,
                      \A c \in Clients : prog[c] = "off",
                      NEW s \in Slots, InUse(s)
               PROVE  FALSE
    BY DEF SlotsComeBack, ClaimsInv, FreeSlots
  <2>1. \A c \in Clients : at[c] = "idle"
    BY DEF PInv, InLibrary, PlaceOf
  <2>2. ~CloseAsked(s)
    BY DEF CloseAsked, Closes, Asks
  <2> QED
    BY <2>1, <2>2 DEF Claims, Claimed, OfferedTo, Ready
<1> QED
  BY <1>1, ClaimsInvariant, PTL
=============================================================================
