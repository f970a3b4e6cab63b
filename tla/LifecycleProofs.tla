-------------------------- MODULE LifecycleProofs --------------------------
(***************************************************************************)
(* Names and signals, for any number of daemons and sessions.              *)
(***************************************************************************)
EXTENDS Lifecycle, WellFoundedInduction, TLAPS

Cfgs == {Defaults} \cup {CfgInit(args) : args \in Args}

DaemonTypes ==
  /\ place \in [Daemons -> Places]
  /\ flag \in [Daemons -> BOOLEAN]
  /\ late \in [Daemons -> 0..2]
  /\ cfg \in [Daemons -> Cfgs]
  /\ bname \in [BrokerNames -> Daemons \cup {None}]
  /\ crashed \in BOOLEAN

\* Before its options are read, a daemon has the defaults.
OptionsUnread == \A d \in Daemons : place[d] \in {"reset", "options"} => cfg[d] = Defaults

\* A name stands for the queue of a daemon that was given the name, and serves or crashed.
NamesOwned ==
  \A n \in BrokerNames : bname[n] # None =>
    /\ cfg[bname[n]].broker_name = n
    /\ Serving(bname[n]) \/ (crashed /\ place[bname[n]] = "down")

\* Once told, a daemon keeps its flag, and after one more request it looks at the flag.
ToldIsRemembered ==
  \A d \in Daemons :
    /\ late[d] # 0 => flag[d] /\ place[d] # "reset"
    /\ late[d] = 2 => place[d] \notin {"receive", "options", "remove", "open"}

DaemonInv ==
  DaemonTypes /\ OptionsUnread /\ NamesOwned /\ NameIsServed /\ ToldIsRemembered

\* Whatever the options, the broker's name is one of BrokerNames.
LEMMA NamesAreNames ==
  \A c \in Cfgs : c.broker_name \in BrokerNames /\ c.remove_queue \in BOOLEAN
<1>1. Defaults.broker_name = DefaultName /\ Defaults.remove_queue = FALSE
  BY DEF Defaults
<1>2. \A args \in Args : /\ CfgInit(args).broker_name \in BrokerNames
                         /\ CfgInit(args).remove_queue \in BOOLEAN
  BY ArgsAssumption
<1>3. DefaultName \in BrokerNames
  BY LifecycleAssumption
<1> QED BY <1>1, <1>2, <1>3, Zenon DEF Cfgs

\* The invariant holds at the start.
LEMMA DaemonInit == Init => DaemonInv
<1> SUFFICES ASSUME Init PROVE DaemonInv
  OBVIOUS
<1>1. Defaults \in Cfgs
  BY DEF Cfgs
<1>2. DaemonTypes
  <2>1. place \in [Daemons -> Places] /\ late \in [Daemons -> 0..2]
    BY DEF Init, Places
  <2>2. flag \in [Daemons -> BOOLEAN] /\ crashed \in BOOLEAN
    BY Zenon DEF Init
  <2>3. cfg \in [Daemons -> Cfgs] /\ bname \in [BrokerNames -> Daemons \cup {None}]
    BY <1>1 DEF Init
  <2> QED BY <2>1, <2>2, <2>3 DEF DaemonTypes
<1>3. OptionsUnread /\ NamesOwned /\ NameIsServed /\ ToldIsRemembered
  BY DEF Init, OptionsUnread, NamesOwned, NameIsServed, ToldIsRemembered, Serving
<1> QED BY <1>2, <1>3 DEF DaemonInv

\* Steps of sessions leave the daemons and their names alone.
LEMMA SessionKeepsDaemons ==
  ASSUME NEW c \in Sessions, SessionStep(c)
  PROVE  UNCHANGED <<place, flag, late, cfg, bname, crashed>>
  BY DEF SessionStep, CTriesName, CRunsOutOfNames, CCreateFails, CConnects, CSendsOpen, CReceives,
         CTimesOut, CGivesUp, CCleansUp, CCrashes, NoDaemon, daemon

\* Every step keeps the invariant.
LEMMA DaemonNext == DaemonInv /\ [Next]_vars => DaemonInv'
<1> SUFFICES ASSUME DaemonInv, [Next]_vars PROVE DaemonInv'
  OBVIOUS
<1> USE DEF DaemonInv, DaemonTypes, OptionsUnread, NamesOwned, NameIsServed, ToldIsRemembered,
            Places, Serving, NoRemoval, Moves
<1> USE LifecycleAssumption, NamesAreNames
<1>1. CASE UNCHANGED <<place, flag, late, cfg, bname, crashed>>
  BY <1>1
<1>2. ASSUME NEW d \in Daemons, DSignal(d) PROVE DaemonInv'
  BY <1>2 DEF DSignal
<1>3. ASSUME NEW d \in Daemons, DResetsFlag(d) PROVE DaemonInv'
  BY <1>3 DEF DResetsFlag
<1>4. ASSUME NEW d \in Daemons, DReadsOptions(d) PROVE DaemonInv'
  <2>1. PICK args \in Args : cfg' = [cfg EXCEPT ![d] = CfgInit(args)]
    BY <1>4 DEF DReadsOptions
  <2>2. place[d] = "options" /\ place' \in [Daemons -> Places]
        /\ place'[d] \in {"remove", "down"} /\ \A e \in Daemons \ {d} : place'[e] = place[e]
    BY <1>4 DEF DReadsOptions
  <2>3. UNCHANGED <<flag, late, bname, crashed>>
    BY <1>4 DEF DReadsOptions
  <2>4. DaemonTypes'
    <3>1. CfgInit(args) \in Cfgs
      BY DEF Cfgs
    <3> QED BY <2>1, <2>2, <2>3, <3>1
  <2>5. cfg[d].remove_queue = FALSE /\ \A e \in Daemons \ {d} : cfg'[e] = cfg[e]
    BY <2>1, <2>2 DEF Defaults
  <2>6. OptionsUnread' /\ ToldIsRemembered'
    BY <2>2, <2>3, <2>5
  <2>7. \A n \in BrokerNames : bname[n] # d
    BY <2>2
  <2>8. NamesOwned'
    BY <2>2, <2>3, <2>5, <2>7
  <2>9. NoRemoval' => NoRemoval
    BY <2>5
  <2>10. NameIsServed'
    BY <2>2, <2>3, <2>5, <2>9
  <2> QED BY <2>4, <2>6, <2>8, <2>10
<1>5. ASSUME NEW d \in Daemons, DRemoves(d) PROVE DaemonInv'
  BY <1>5 DEF DRemoves, Unlinks
<1>6. ASSUME NEW d \in Daemons, DOpens(d) PROVE DaemonInv'
  BY <1>6 DEF DOpens, CanCreate
<1>7. ASSUME NEW d \in Daemons, DFailsToOpen(d) PROVE DaemonInv'
  BY <1>7 DEF DFailsToOpen
<1>8. ASSUME NEW d \in Daemons, DChecksFlag(d) PROVE DaemonInv'
  BY <1>8 DEF DChecksFlag
<1>9. ASSUME NEW d \in Daemons, DWaitsInVain(d) PROVE DaemonInv'
  BY <1>9 DEF DWaitsInVain
<1>10. ASSUME NEW d \in Daemons, DServes(d) PROVE DaemonInv'
  BY <1>10 DEF DServes
<1>11. ASSUME NEW d \in Daemons, DCleansUp(d) PROVE DaemonInv'
  BY <1>11 DEF DCleansUp
<1>13. ASSUME NEW d \in Daemons, DUnlinks(d) PROVE DaemonInv'
  BY <1>13 DEF DUnlinks, Unlinks
<1>12. ASSUME NEW d \in Daemons, DCrashes(d) PROVE DaemonInv'
  BY <1>12 DEF DCrashes
<1> QED
  BY <1>1, <1>2, <1>3, <1>4, <1>5, <1>6, <1>7, <1>8, <1>9, <1>10, <1>11, <1>12, <1>13,
     SessionKeepsDaemons DEF Next, DaemonStep, vars, daemon

\* The daemons' invariant holds throughout.
LEMMA DaemonAlways == Spec => []DaemonInv
  BY DaemonInit, DaemonNext, PTL DEF Spec

(***************************************************************************)
(* However many daemons are started, as long as none is given -r, each one *)
(* that serves can be reached under its name.                              *)
(***************************************************************************)
THEOREM ServedAlways == Spec => []NameIsServed
<1>1. DaemonInv => NameIsServed
  BY DEF DaemonInv
<1> QED BY <1>1, DaemonAlways, PTL

(***************************************************************************)
(* However daemons come and go, -r or not, a name outlives its daemon only *)
(* when some daemon crashes.                                               *)
(***************************************************************************)
THEOREM NoLeftoverAlways == Spec => []NoLeftover
<1>1. DaemonInv => NoLeftover
  BY DEF DaemonInv, NamesOwned, NoLeftover
<1> QED BY <1>1, DaemonAlways, PTL

(***************************************************************************)
(* However its signal falls, a daemon past the reset of the flag handles   *)
(* one more request at most.                                               *)
(***************************************************************************)
THEOREM StopsSoonAlways == Spec => []StopsSoon
<1>1. DaemonInv => StopsSoon
  BY DEF DaemonInv, DaemonTypes, StopsSoon
<1> QED BY <1>1, DaemonAlways, PTL
-----------------------------------------------------------------------------
SessionInv ==
  /\ no \in [Sessions -> 0..MaxClients]
  /\ gname \in [Slots -> Sessions \cup {None, Left}]
  /\ qsub \in [Sessions -> Sessions \cup {None}]
  /\ at \in [Sessions -> {"naming", "connect", "opening", "wait", "ready", "giveup",
                          "nospace", "over"}]
  /\ \A c \in Sessions :
       /\ qsub[c] = None <=> at[c] \in {"naming", "nospace", "over"}
       /\ qsub[c] # None => qsub[c] = c /\ no[c] \in Slots /\ gname[no[c]] = c

\* Steps of daemons leave the sessions and their names alone.
LEMMA DaemonKeepsSessions ==
  ASSUME NEW d \in Daemons, DSignal(d) \/ DaemonStep(d) \/ DCrashes(d)
  PROVE  UNCHANGED <<at, no, qsub, gname>>
  BY DEF DaemonStep, DSignal, DResetsFlag, DReadsOptions, DRemoves, DOpens, DFailsToOpen,
         DChecksFlag, DWaitsInVain, DServes, DCleansUp, DUnlinks, DCrashes, NoSession, session

\* Every step keeps the sessions' invariant.
LEMMA SessionNext == SessionInv /\ [Next]_vars => SessionInv'
<1> SUFFICES ASSUME SessionInv, [Next]_vars PROVE SessionInv'
  OBVIOUS
<1> USE LifecycleAssumption DEF SessionInv, Goes, Closes, Slots
<1>1. CASE UNCHANGED <<at, no, qsub, gname>>
  BY <1>1
<1> DEFINE Moved(c, S) == \E to \in S : at' = [at EXCEPT ![c] = to]
<1>2. ASSUME NEW c \in Sessions, CTriesName(c) PROVE SessionInv'
  <2> DEFINE i == no[c]
  <2>1. at[c] = "naming" /\ i \in Slots
    BY <1>2 DEF CTriesName
  <2>2. CASE gname[i] = None
    <3>1. /\ at' = [at EXCEPT ![c] = "connect"] /\ qsub' = [qsub EXCEPT ![c] = c]
          /\ gname' = [gname EXCEPT ![i] = c] /\ UNCHANGED no
      BY <1>2, <2>2 DEF CTriesName
    <3>2. \A e \in Sessions \ {c} : qsub[e] # None => no[e] # i
      BY <2>2
    <3> QED BY <2>1, <3>1, <3>2
  <2>3. CASE gname[i] # None
    <3>1. no' = [no EXCEPT ![c] = i + 1] /\ i + 1 \in 0..MaxClients
          /\ UNCHANGED <<at, qsub, gname>>
      BY <1>2, <2>1, <2>3 DEF CTriesName
    <3> QED BY <2>1, <3>1
  <2> QED BY <2>2, <2>3
<1>3. ASSUME NEW c \in Sessions, CGivesUp(c) PROVE SessionInv'
  <2>1. /\ at[c] = "giveup" /\ at' = [at EXCEPT ![c] = "over"]
        /\ qsub' = [qsub EXCEPT ![c] = None] /\ gname' = [gname EXCEPT ![no[c]] = None]
        /\ UNCHANGED no
    BY <1>3 DEF CGivesUp
  <2>3. qsub[c] # None
    BY <2>1
  <2>4. no[c] \in Slots /\ gname[no[c]] = c
    BY <2>3
  <2>2. no[c] \in Slots /\ \A e \in Sessions \ {c} : qsub[e] # None => no[e] # no[c]
    BY <2>4
  <2> QED BY <2>1, <2>2
\* Steps that keep the queue.
<1>4. ASSUME NEW c \in Sessions, UNCHANGED <<no, qsub, gname>>, qsub[c] # None,
             Moved(c, {"opening", "wait", "giveup", "ready"})
      PROVE  SessionInv'
  BY <1>4
\* Steps that close it, or find that there is none to be had.
<1>5. ASSUME NEW c \in Sessions, UNCHANGED <<no, gname>>, qsub' = [qsub EXCEPT ![c] = None],
             Moved(c, {"over", "nospace"})
      PROVE  SessionInv'
  BY <1>5
<1>6. ASSUME NEW c \in Sessions, CSendsOpen(c) \/ CReceives(c) \/ CTimesOut(c) PROVE SessionInv'
  <2>1. UNCHANGED <<no, qsub, gname>> /\ at[c] \in {"opening", "wait"}
        /\ Moved(c, {"opening", "wait", "giveup", "ready"})
    BY <1>6 DEF CSendsOpen, CReceives, CTimesOut
  <2> QED BY <1>4, <2>1
<1>7. ASSUME NEW c \in Sessions, CCleansUp(c) \/ CCrashes(c) PROVE SessionInv'
  <2>1. UNCHANGED <<no, gname>> /\ qsub' = [qsub EXCEPT ![c] = None]
        /\ Moved(c, {"over", "nospace"})
    BY <1>7 DEF CCleansUp, CCrashes
  <2> QED BY <1>5, <2>1
<1>8. ASSUME NEW c \in Sessions, CConnects(c) PROVE SessionInv'
  <2>1. UNCHANGED <<no, gname>> /\ at[c] = "connect"
    BY <1>8 DEF CConnects
  <2>2. CASE Closes(c) /\ Goes(c, "over")
    <3>1. qsub' = [qsub EXCEPT ![c] = None] /\ Moved(c, {"over", "nospace"})
      BY <2>2
    <3> QED BY <1>5, <2>1, <3>1
  <2>3. CASE UNCHANGED qsub /\ Goes(c, "opening")
    <3>1. UNCHANGED qsub /\ Moved(c, {"opening", "wait", "giveup", "ready"})
      BY <2>3
    <3> QED BY <1>4, <2>1, <3>1
  <2> QED BY <1>8, <2>2, <2>3 DEF CConnects
<1>9. ASSUME NEW c \in Sessions, CRunsOutOfNames(c) \/ CCreateFails(c) PROVE SessionInv'
  BY <1>9 DEF CRunsOutOfNames, CCreateFails
<1> QED
  BY <1>1, <1>2, <1>3, <1>6, <1>7, <1>8, <1>9, DaemonKeepsSessions
  DEF Next, SessionStep, vars, session

(***************************************************************************)
(* However many sessions come and go, the queue a session reads is its own *)
(* and the name it sent to the broker stands for that queue.               *)
(***************************************************************************)
THEOREM QueueIsOursAlways == Spec => []QueueIsOurs
<1>1. Init => SessionInv
  BY LifecycleAssumption DEF Init, SessionInv
<1>2. SessionInv => QueueIsOurs
  BY LifecycleAssumption DEF SessionInv, QueueIsOurs
<1> QED BY <1>1, <1>2, SessionNext, PTL DEF Spec
-----------------------------------------------------------------------------
(* Requests and answers of the sessions, and the slots they are about.     *)

Requests == [cmd : {"open", "close"}, arg : Slots]

\* A daemon that has its control queue; one that handles requests.
Started(d)   == place[d] \notin {"reset", "options", "remove", "open"}
Answering(d) == place[d] \in {"check", "receive"}

\* The types that DaemonInv and SessionInv leave open.
ServiceTypes ==
  /\ try \in [Daemons -> 1..Tries]
  /\ ctl \in [Daemons -> Seq(Requests)] /\ \A d \in Daemons : Len(ctl[d]) <= ControlMax
  /\ known \in [Daemons -> [Slots -> Sessions \cup {None}]]
  /\ qpub \in [Sessions -> Daemons \cup {None}] /\ slot \in [Sessions -> Slots]
  /\ inbox \in [Sessions -> Seq(Slots \cup {None})]
  /\ abandoned \in BOOLEAN

\* A queue that was there before any session is never asked for.
NothingLeftIsAsked ==
  \A d \in Daemons : \A k \in DOMAIN ctl[d] :
    ctl[d][k].cmd = "open" => gname[ctl[d][k].arg] # Left

\* A session connects to a daemon that has created its queue, and only then sends requests.
Connected ==
  /\ \A c \in Sessions : at[c] \in {"opening", "wait", "ready"} => qpub[c] \in Daemons
  /\ \A d \in Daemons : ~Started(d) =>
       ctl[d] = <<>> /\ \A c \in Sessions : qpub[c] # d

ServiceInv == ServiceTypes /\ NothingLeftIsAsked /\ Connected

\* An OPEN on its way is that of the session whose queue has the name, which still waits for
\* its answer or is over; it has none yet.
OpenIsOwed(d, i) ==
  /\ gname[i] \in Sessions
  /\ no[gname[i]] = i /\ qpub[gname[i]] = d
  /\ at[gname[i]] \in {"wait", "over"} /\ inbox[gname[i]] = <<>>

\* A CLOSE on its way is for a slot of a session that is over.
CloseIsOwed(d, s) == known[d][s] \in Sessions /\ at[known[d][s]] = "over"

Owed(d, r) == /\ r.cmd = "open" => OpenIsOwed(d, r.arg)
              /\ r.cmd = "close" => CloseIsOwed(d, r.arg)

\* No request is there twice.
NoneTwice(q) == \A k, l \in DOMAIN q : q[k] = q[l] => k = l

\* Each request that a daemon is going to handle is owed, and there once.
RequestsOwed ==
  \A d \in Daemons : Answering(d) =>
    NoneTwice(ctl[d]) /\ \A k \in DOMAIN ctl[d] : Owed(d, ctl[d][k])

\* Who has an answer waits for it or is over, and has no other.
OneAnswer ==
  \A c \in Sessions : inbox[c] # <<>> => at[c] \in {"wait", "over"} /\ Len(inbox[c]) = 1

\* The slot offered to a session that waits, or kept by one that is ready, is its own.
SlotIsKnown ==
  \A c \in Sessions : at[c] \in {"wait", "ready"} /\ Answering(qpub[c]) =>
    /\ at[c] = "wait" /\ inbox[c] # <<>> /\ Head(inbox[c]) # None
         => known[qpub[c]][Head(inbox[c])] = c
    /\ at[c] = "ready" => known[qpub[c]][slot[c]] = c

Slotted == RequestsOwed /\ OneAnswer /\ SlotIsKnown
SlottedInv == ~abandoned => Slotted
-----------------------------------------------------------------------------
\* A set of naturals that is not empty has a least element.
LEMMA LeastExists ==
  ASSUME NEW T, T \subseteq Nat, T # {}
  PROVE  \E x \in T : \A y \in T : x <= y
<1> DEFINE R == OpToRel(<, Nat)
<1>1. \A x, y \in Nat : <<y, x>> \in R <=> y < x
  BY DEF OpToRel
<1>2. IsWellFoundedOn(R, Nat)
  BY NatLessThanWellFounded
<1> HIDE DEF R
<1>3. PICK x \in T : \A y \in T : ~ (<<y, x>> \in R)
  BY <1>2, WFMin
<1>4. ASSUME NEW y \in T PROVE x <= y
  <2>1. x \in Nat /\ y \in Nat /\ ~ (y < x)
    BY <1>1, <1>3
  <2> QED
    BY <2>1
<1> QED
  BY <1>3, <1>4

\* What is behind the head of a queue.
LEMMA QueueHead ==
  ASSUME NEW S, NEW q \in Seq(S), q # <<>>
  PROVE  /\ 1 \in DOMAIN q /\ Head(q) = q[1] /\ Head(q) \in S
         /\ Tail(q) \in Seq(S) /\ Len(Tail(q)) + 1 = Len(q)
         /\ \A k \in DOMAIN Tail(q) : k \in Nat \ {0} /\ k + 1 \in DOMAIN q
                                      /\ Tail(q)[k] = q[k + 1]
OBVIOUS

\* What a queue has when something was added.
LEMMA QueueAppend ==
  ASSUME NEW S, NEW q \in Seq(S), NEW m \in S
  PROVE  /\ Append(q, m) \in Seq(S) /\ Append(q, m) # <<>> /\ Len(Append(q, m)) = Len(q) + 1
         /\ \A k \in DOMAIN Append(q, m) :
              \/ k \in DOMAIN q /\ Append(q, m)[k] = q[k]
              \/ k = Len(q) + 1 /\ k \notin DOMAIN q /\ Append(q, m)[k] = m
         /\ q = <<>> => Head(Append(q, m)) = m
OBVIOUS

\* A daemon that answers OPEN: nobody is there to be answered, all slots are taken, or a free
\* slot becomes the session's.
LEMMA OpensIs ==
  ASSUME NEW d \in Daemons, NEW i \in Slots, Opens(d, i)
  PROVE  \/ gname[i] = None /\ UNCHANGED <<known, inbox>>
         \/ /\ gname[i] # None /\ inbox' = [inbox EXCEPT ![gname[i]] = Append(@, None)]
            /\ UNCHANGED known
         \/ \E s \in Slots :
              /\ gname[i] # None /\ known[d][s] = None
              /\ inbox' = [inbox EXCEPT ![gname[i]] = Append(@, s)]
              /\ known' = [known EXCEPT ![d][s] = gname[i]]
<1> DEFINE free == {s \in Slots : known[d][s] = None}
           first == CHOOSE x \in free : \A y \in free : x <= y
<1>1. CASE gname[i] = None
  BY <1>1 DEF Opens
<1>2. CASE gname[i] # None /\ free = {}
  BY <1>2 DEF Opens
<1>3. CASE gname[i] # None /\ free # {}
  <2>1. /\ inbox' = [inbox EXCEPT ![gname[i]] = Append(@, first)]
        /\ known' = [known EXCEPT ![d][first] = gname[i]]
    BY <1>3, Zenon DEF Opens
  <2>2. \E x \in free : \A y \in free : x <= y
    <3>1. free \subseteq Nat
      BY LifecycleAssumption DEF Slots
    <3> HIDE DEF free
    <3> QED BY <1>3, <3>1, LeastExists
  <2>3. first \in free
    <3> HIDE DEF free
    <3> QED BY <2>2, Zenon
  <2> HIDE DEF first
  <2> QED BY <1>3, <2>1, <2>3
<1> QED BY <1>1, <1>2, <1>3

\* What a daemon does with the request it takes.
LEMMA ServesIs ==
  ASSUME ServiceTypes, NEW d \in Daemons, DServes(d)
  PROVE  /\ place[d] = "receive" /\ place' = [place EXCEPT ![d] = "check"]
         /\ ctl[d] \in Seq(Requests) /\ ctl[d] # <<>> /\ ctl[d][1] \in Requests
         /\ ctl' = [ctl EXCEPT ![d] = Tail(@)]
         /\ ctl[d][1].cmd = "open" => Opens(d, ctl[d][1].arg)
         /\ ctl[d][1].cmd = "close" =>
              known' = [known EXCEPT ![d][ctl[d][1].arg] = None] /\ UNCHANGED inbox
         /\ UNCHANGED <<try, session, gname, abandoned>>
<1>1. ctl[d] \in Seq(Requests) /\ ctl[d] # <<>>
  BY DEF ServiceTypes, DServes
<1>2. Head(ctl[d]) = ctl[d][1] /\ ctl[d][1] \in Requests
  BY <1>1, QueueHead
<1>3. ctl[d][1].cmd = "close" => ctl[d][1].cmd # "open"
  OBVIOUS
<1> QED
  BY <1>1, <1>2, <1>3, Zenon DEF DServes, Moves, NoSession

\* The types are kept.
LEMMA ServiceTypesNext ==
  ASSUME DaemonInv, SessionInv, ServiceInv, [Next]_vars
  PROVE  ServiceTypes'
<1> USE DEF ServiceTypes
<1>0. ServiceTypes /\ bname \in [BrokerNames -> Daemons \cup {None}] /\ DefaultName \in BrokerNames
  BY LifecycleAssumption DEF ServiceInv, DaemonInv, DaemonTypes
<1>1. CASE UNCHANGED <<try, ctl, known, qpub, slot, inbox, abandoned>>
  BY <1>0, <1>1
<1>2. ASSUME NEW d \in Daemons, DFailsToOpen(d) PROVE ServiceTypes'
  <2>1. (try' = [try EXCEPT ![d] = @ + 1] /\ try[d] < Tries) \/ UNCHANGED try
    BY <1>2 DEF DFailsToOpen
  <2>2. try[d] \in 1 .. Tries /\ (try[d] < Tries => try[d] + 1 \in 1 .. Tries)
    BY <1>0, LifecycleAssumption
  <2>4. try' \in [Daemons -> 1 .. Tries]
    BY <1>0, <2>1, <2>2
  <2>3. UNCHANGED <<ctl, known, qpub, slot, inbox, abandoned>>
    BY <1>2 DEF DFailsToOpen, NoSession, session
  <2> QED BY <1>0, <2>3, <2>4
<1>3. ASSUME NEW d \in Daemons, DCleansUp(d) \/ DCrashes(d) PROVE ServiceTypes'
  <2>1. known' = [known EXCEPT ![d] = [s \in Slots |-> None]]
    BY <1>3 DEF DCleansUp, DCrashes, Forgets
  <2>2. UNCHANGED <<try, ctl, qpub, slot, inbox, abandoned>>
    BY <1>3 DEF DCleansUp, DCrashes, NoSession, session
  <2> QED BY <1>0, <2>1, <2>2
<1>4. ASSUME NEW d \in Daemons, DServes(d) PROVE ServiceTypes'
  <2> DEFINE r == ctl[d][1]
  <2>1. /\ ctl[d] \in Seq(Requests) /\ ctl[d] # <<>> /\ r \in Requests
        /\ ctl' = [ctl EXCEPT ![d] = Tail(ctl[d])]
        /\ UNCHANGED <<try, qpub, slot, abandoned>>
    BY <1>0, <1>4, ServesIs DEF session
  <2>2. Tail(ctl[d]) \in Seq(Requests) /\ Len(Tail(ctl[d])) <= ControlMax
    <3>1. Tail(ctl[d]) \in Seq(Requests) /\ Len(Tail(ctl[d])) + 1 = Len(ctl[d])
      BY <2>1, QueueHead
    <3>2. Len(ctl[d]) <= ControlMax /\ ControlMax \in Nat /\ Len(Tail(ctl[d])) \in Nat
      BY <1>0, <3>1, LifecycleAssumption
    <3> QED BY <3>1, <3>2
  <2>3. ctl' \in [Daemons -> Seq(Requests)] /\ \A e \in Daemons : Len(ctl'[e]) <= ControlMax
    BY <1>0, <2>1, <2>2
  <2>4. r.arg \in Slots /\ (r.cmd = "open" \/ r.cmd = "close")
    BY <2>1 DEF Requests
  <2>5. CASE r.cmd = "close"
    <3>1. known' = [known EXCEPT ![d][r.arg] = None] /\ UNCHANGED inbox
      BY <1>0, <1>4, <2>5, ServesIs
    <3>2. known' \in [Daemons -> [Slots -> Sessions \cup {None}]]
      BY <1>0, <3>1
    <3> QED BY <1>0, <2>1, <2>3, <3>1, <3>2
  <2>6. CASE r.cmd = "open"
    <3>1. Opens(d, r.arg)
      BY <1>0, <1>4, <2>6, ServesIs
    <3>2. PICK q : q = gname[r.arg]
      OBVIOUS
    <3>3. q # None => q \in Sessions
      <4>1. q # Left
        BY <2>1, <2>6, <3>2 DEF ServiceInv, NothingLeftIsAsked
      <4>2. q \in Sessions \cup {None, Left}
        BY <2>4, <3>2 DEF SessionInv
      <4> QED BY <4>1, <4>2
    <3>4. ASSUME NEW a \in Slots \cup {None}, q # None, inbox' = [inbox EXCEPT ![q] = Append(@, a)]
          PROVE  inbox' \in [Sessions -> Seq(Slots \cup {None})]
      <4>1. Append(inbox[q], a) \in Seq(Slots \cup {None})
        BY <1>0, <3>3, <3>4
      <4> QED BY <1>0, <3>4, <4>1
    <3>5. ASSUME NEW s \in Slots, q # None, known' = [known EXCEPT ![d][s] = q]
          PROVE  known' \in [Daemons -> [Slots -> Sessions \cup {None}]]
      BY <1>0, <3>3, <3>5
    <3>6. /\ known' \in [Daemons -> [Slots -> Sessions \cup {None}]]
          /\ inbox' \in [Sessions -> Seq(Slots \cup {None})]
      <4> DEFINE i == r.arg
      <4>1. i \in Slots /\ Opens(d, i) /\ gname[i] = q
        BY <2>4, <3>1, <3>2
      <4> HIDE DEF i
      <4>2. CASE UNCHANGED <<known, inbox>>
        BY <1>0, <4>2
      <4>3. CASE UNCHANGED known /\ q # None /\ inbox' = [inbox EXCEPT ![q] = Append(@, None)]
        BY <1>0, <3>4, <4>3
      <4>4. ASSUME NEW s \in Slots, q # None, inbox' = [inbox EXCEPT ![q] = Append(@, s)],
                   known' = [known EXCEPT ![d][s] = q]
            PROVE  /\ known' \in [Daemons -> [Slots -> Sessions \cup {None}]]
                   /\ inbox' \in [Sessions -> Seq(Slots \cup {None})]
        BY <3>4, <3>5, <4>4
      <4> QED BY <4>1, <4>2, <4>3, <4>4, OpensIs
    <3> QED BY <1>0, <2>1, <2>3, <3>6
  <2> QED BY <2>4, <2>5, <2>6
<1>5. ASSUME NEW c \in Sessions, CConnects(c) PROVE ServiceTypes'
  <2>1. qpub' = [qpub EXCEPT ![c] = bname[DefaultName]] \/ UNCHANGED qpub
    BY <1>5 DEF CConnects
  <2>2. UNCHANGED <<try, ctl, known, slot, inbox, abandoned>>
    BY <1>5 DEF CConnects, NoDaemon, daemon
  <2> QED BY <1>0, <2>1, <2>2
<1>6. ASSUME NEW c \in Sessions, NEW r \in Requests, Sends(c, r), qpub[c] \in Daemons,
             UNCHANGED <<try, known, qpub, slot, inbox, abandoned>>
      PROVE  ServiceTypes'
  <2>1. PICK d \in Daemons : d = qpub[c]
    BY <1>6
  <2>2. ctl' = [ctl EXCEPT ![d] = Append(ctl[d], r)] /\ Len(ctl[d]) < ControlMax
    BY <1>6, <2>1 DEF Sends
  <2>3. Append(ctl[d], r) \in Seq(Requests) /\ Len(Append(ctl[d], r)) <= ControlMax
    <3>1. ctl[d] \in Seq(Requests) /\ Len(ctl[d]) \in Nat
      BY <1>0
    <3>2. Append(ctl[d], r) \in Seq(Requests) /\ Len(Append(ctl[d], r)) = Len(ctl[d]) + 1
      BY <3>1, <1>6, QueueAppend
    <3> QED BY <2>2, <3>1, <3>2, LifecycleAssumption
  <2>4. ctl' \in [Daemons -> Seq(Requests)] /\ \A e \in Daemons : Len(ctl'[e]) <= ControlMax
    BY <1>0, <2>2, <2>3
  <2> QED BY <1>0, <1>6, <2>4
<1>7. ASSUME NEW c \in Sessions, CSendsOpen(c) PROVE ServiceTypes'
  <2>1. at[c] = "opening" /\ Sends(c, [cmd |-> "open", arg |-> no[c]])
        /\ UNCHANGED <<try, known, qpub, slot, inbox, abandoned>>
    BY <1>7 DEF CSendsOpen, NoDaemon, daemon
  <2>2. no[c] \in Slots
    BY <2>1 DEF SessionInv
  <2>3. qpub[c] \in Daemons
    BY <2>1 DEF ServiceInv, Connected
  <2>4. [cmd |-> "open", arg |-> no[c]] \in Requests
    BY <2>2 DEF Requests
  <2> QED BY <1>6, <2>1, <2>3, <2>4
<1>8. ASSUME NEW c \in Sessions, CCleansUp(c) PROVE ServiceTypes'
  <2>1. at[c] = "ready" /\ Sends(c, [cmd |-> "close", arg |-> slot[c]])
        /\ UNCHANGED <<try, known, qpub, slot, inbox, abandoned>>
    BY <1>8 DEF CCleansUp, NoDaemon, daemon
  <2>2. qpub[c] \in Daemons
    BY <2>1 DEF ServiceInv, Connected
  <2>3. [cmd |-> "close", arg |-> slot[c]] \in Requests
    BY <1>0 DEF Requests
  <2> QED BY <1>6, <2>1, <2>2, <2>3
<1>9. ASSUME NEW c \in Sessions, CReceives(c) PROVE ServiceTypes'
  <2>1. at[c] = "wait" /\ qsub[c] = c
    BY <1>9 DEF CReceives, SessionInv
  <2>2. inbox[c] \in Seq(Slots \cup {None}) /\ inbox[c] # <<>>
    BY <1>0, <1>9, <2>1 DEF CReceives
  <2>3. Head(inbox[c]) \in Slots \cup {None} /\ Tail(inbox[c]) \in Seq(Slots \cup {None})
    BY <2>2, QueueHead
  <2>4. (Head(inbox[c]) # None /\ slot' = [slot EXCEPT ![c] = Head(inbox[c])]) \/ UNCHANGED slot
    BY <1>9, <2>1 DEF CReceives
  <2>5. inbox' = [inbox EXCEPT ![c] = Tail(inbox[c])]
    BY <1>9, <2>1 DEF CReceives
  <2>6. UNCHANGED <<try, ctl, known, qpub, abandoned>>
    BY <1>9 DEF CReceives, NoDaemon, daemon
  <2>7. slot' \in [Sessions -> Slots]
    BY <1>0, <2>3, <2>4
  <2>8. inbox' \in [Sessions -> Seq(Slots \cup {None})]
    BY <1>0, <2>3, <2>5
  <2> QED BY <1>0, <2>6, <2>7, <2>8
<1>10. ASSUME NEW c \in Sessions, CTimesOut(c) PROVE ServiceTypes'
  BY <1>0, <1>10 DEF CTimesOut, daemon
<1>11. ASSUME NEW d \in Daemons,
              DSignal(d) \/ DResetsFlag(d) \/ DReadsOptions(d) \/ DRemoves(d) \/ DOpens(d)
              \/ DChecksFlag(d) \/ DWaitsInVain(d) \/ DUnlinks(d)
       PROVE  UNCHANGED <<try, ctl, known, qpub, slot, inbox, abandoned>>
  BY <1>11 DEF DSignal, DResetsFlag, DReadsOptions, DRemoves, DOpens, DChecksFlag, DWaitsInVain,
              DUnlinks, NoSession, session
<1>12. ASSUME NEW c \in Sessions,
              \/ CTriesName(c) \/ CRunsOutOfNames(c) \/ CCreateFails(c)
              \/ CGivesUp(c) \/ CCrashes(c)
       PROVE  UNCHANGED <<try, ctl, known, qpub, slot, inbox, abandoned>>
  BY <1>12 DEF CTriesName, CRunsOutOfNames, CCreateFails, CGivesUp, CCrashes, NoDaemon, daemon
<1>13. CASE UNCHANGED vars
  BY <1>1, <1>13 DEF vars, daemon, session
<1> HIDE DEF ServiceTypes
<1> QED
  BY <1>1, <1>2, <1>3, <1>4, <1>5, <1>7, <1>8, <1>9, <1>10, <1>11, <1>12, <1>13
  DEF Next, DaemonStep, SessionStep

\* What a session sends, and to whom.
LEMMA SendIs ==
  ASSUME SessionInv, ServiceInv, NEW c \in Sessions, CSendsOpen(c) \/ CCleansUp(c)
  PROVE  \E d \in Daemons, r \in Requests :
           /\ d = qpub[c] /\ Started(d)
           /\ ctl' = [ctl EXCEPT ![d] = Append(ctl[d], r)]
           /\ \/ /\ at[c] = "opening" /\ at' = [at EXCEPT ![c] = "wait"]
                 /\ r = [cmd |-> "open", arg |-> no[c]] /\ gname[no[c]] = c
              \/ /\ at[c] = "ready" /\ at' = [at EXCEPT ![c] = "over"]
                 /\ r = [cmd |-> "close", arg |-> slot[c]]
           /\ UNCHANGED <<place, try, known, no, qpub, slot, inbox, gname, abandoned>>
<1>1. /\ at[c] \in {"opening", "ready"} => qpub[c] \in Daemons
      /\ \A d \in Daemons : ~Started(d) => qpub[c] # d
  BY DEF ServiceInv, Connected
<1>2. CASE CSendsOpen(c)
  <2>1. /\ at[c] = "opening" /\ at' = [at EXCEPT ![c] = "wait"]
        /\ ctl' = [ctl EXCEPT ![qpub[c]] = Append(@, [cmd |-> "open", arg |-> no[c]])]
        /\ UNCHANGED <<place, try, known, no, qpub, slot, inbox, gname, abandoned>>
    BY <1>2 DEF CSendsOpen, Sends, Goes, NoDaemon, daemon
  <2>2. no[c] \in Slots /\ gname[no[c]] = c
    BY <2>1 DEF SessionInv
  <2>3. [cmd |-> "open", arg |-> no[c]] \in Requests
    BY <2>2 DEF Requests
  <2> QED BY <1>1, <2>1, <2>2, <2>3
<1>3. CASE CCleansUp(c)
  <2>1. /\ at[c] = "ready" /\ at' = [at EXCEPT ![c] = "over"]
        /\ ctl' = [ctl EXCEPT ![qpub[c]] = Append(@, [cmd |-> "close", arg |-> slot[c]])]
        /\ UNCHANGED <<place, try, known, no, qpub, slot, inbox, gname, abandoned>>
    BY <1>3 DEF CCleansUp, Sends, Goes, NoDaemon, daemon
  <2>2. [cmd |-> "close", arg |-> slot[c]] \in Requests
    BY DEF ServiceInv, ServiceTypes, Requests
  <2> QED BY <1>1, <2>1, <2>2
<1> QED BY <1>2, <1>3

\* Steps that only daemons take, apart from DServes, touch no request.
LEMMA DaemonsKeepRequests ==
  ASSUME NEW d \in Daemons, DSignal(d) \/ DaemonStep(d) \/ DCrashes(d), ~DServes(d)
  PROVE  UNCHANGED <<ctl, inbox, at, no, qsub, qpub, slot, gname, abandoned>>
  BY DEF DaemonStep, DSignal, DResetsFlag, DReadsOptions, DRemoves, DOpens, DFailsToOpen,
         DChecksFlag, DWaitsInVain, DCleansUp, DUnlinks, DCrashes, NoSession, session

\* Steps of sessions that send nothing.
LEMMA SilentSessions ==
  ASSUME NEW c \in Sessions, SessionStep(c), ~CSendsOpen(c), ~CCleansUp(c)
  PROVE  UNCHANGED <<place, try, known, ctl>>
  BY DEF SessionStep, CTriesName, CRunsOutOfNames, CCreateFails, CConnects, CReceives, CTimesOut,
         CGivesUp, CCrashes, NoDaemon, daemon

\* What was there before any session is still not asked for.
LEMMA NothingLeftNext ==
  ASSUME DaemonInv, SessionInv, ServiceInv, [Next]_vars
  PROVE  NothingLeftIsAsked'
<1> USE DEF NothingLeftIsAsked
<1>0. /\ NothingLeftIsAsked /\ ctl \in [Daemons -> Seq(Requests)]
      /\ gname \in [Slots -> Sessions \cup {None, Left}]
  BY DEF ServiceInv, ServiceTypes, SessionInv
<1>1. CASE UNCHANGED <<ctl, gname>>
  BY <1>0, <1>1
<1>2. ASSUME NEW c \in Sessions, UNCHANGED ctl, NEW i \in Slots, NEW q, q # Left,
             gname' = [gname EXCEPT ![i] = q]
      PROVE  NothingLeftIsAsked'
  BY <1>0, <1>2
<1>3. ASSUME NEW d \in Daemons, DServes(d) PROVE NothingLeftIsAsked'
  <2>1. ctl[d] \in Seq(Requests) /\ ctl[d] # <<>> /\ ctl' = [ctl EXCEPT ![d] = Tail(ctl[d])]
        /\ UNCHANGED gname
    BY <1>3, ServesIs DEF ServiceInv
  <2>2. \A k \in DOMAIN Tail(ctl[d]) : k + 1 \in DOMAIN ctl[d] /\ Tail(ctl[d])[k] = ctl[d][k + 1]
    BY <2>1, QueueHead
  <2>3. \A k \in DOMAIN Tail(ctl[d]) :
          Tail(ctl[d])[k].cmd = "open" => gname[Tail(ctl[d])[k].arg] # Left
    BY <1>0, <2>2
  <2> QED BY <1>0, <2>1, <2>3
<1>4. ASSUME NEW c \in Sessions, CSendsOpen(c) \/ CCleansUp(c) PROVE NothingLeftIsAsked'
  <2>1. PICK d \in Daemons, r \in Requests :
          /\ ctl' = [ctl EXCEPT ![d] = Append(ctl[d], r)] /\ UNCHANGED gname
          /\ r.cmd = "open" => gname[r.arg] = c
    BY <1>4, SendIs
  <2>2. \A k \in DOMAIN Append(ctl[d], r) :
          \/ Append(ctl[d], r)[k] = r
          \/ k \in DOMAIN ctl[d] /\ Append(ctl[d], r)[k] = ctl[d][k]
    BY <1>0, QueueAppend
  <2>3. c # Left
    BY LifecycleAssumption
  <2>4. \A k \in DOMAIN Append(ctl[d], r) :
          Append(ctl[d], r)[k].cmd = "open" => gname[Append(ctl[d], r)[k].arg] # Left
    BY <1>0, <2>1, <2>2, <2>3
  <2> QED BY <1>0, <2>1, <2>4
<1>5. ASSUME NEW c \in Sessions, SessionStep(c), ~CSendsOpen(c), ~CCleansUp(c)
      PROVE  NothingLeftIsAsked'
  <2>1. UNCHANGED ctl
    BY <1>5, SilentSessions
  <2>2. CASE UNCHANGED gname
    BY <1>1, <2>1, <2>2
  <2>3. CASE CTriesName(c) /\ gname' # gname
    <3>1. no[c] \in 0..MaxClients /\ no[c] < MaxClients
      <4>1. no[c] < MaxClients
        BY <2>3 DEF CTriesName
      <4>2. no[c] \in 0..MaxClients
        BY DEF SessionInv
      <4> QED BY <4>1, <4>2
    <3>3. no[c] \in Slots
      BY <3>1, LifecycleAssumption DEF Slots
    <3>2. gname' = [gname EXCEPT ![no[c]] = c] /\ c # Left
      BY <2>3, LifecycleAssumption DEF CTriesName
    <3> QED BY <1>2, <2>1, <3>2, <3>3
  <2>4. CASE CGivesUp(c)
    <3>1. no[c] \in Slots
      BY <2>4 DEF CGivesUp, SessionInv
    <3>2. gname' = [gname EXCEPT ![no[c]] = None] /\ None # Left
      BY <2>4, LifecycleAssumption DEF CGivesUp
    <3> QED BY <1>2, <2>1, <3>1, <3>2
  <2>5. CTriesName(c) \/ CGivesUp(c) \/ UNCHANGED gname
    BY <1>5 DEF SessionStep, CRunsOutOfNames, CCreateFails, CConnects, CReceives, CTimesOut,
       CCrashes
  <2> QED BY <2>2, <2>3, <2>4, <2>5
<1>6. CASE UNCHANGED vars
  BY <1>1, <1>6 DEF vars
<1> QED
  BY <1>1, <1>3, <1>4, <1>5, <1>6, DaemonsKeepRequests DEF Next

\* Nobody is connected to a daemon that has no control queue yet.
LEMMA ConnectedNext ==
  ASSUME DaemonInv, SessionInv, ServiceInv, [Next]_vars
  PROVE  Connected'
<1> USE DEF Connected
<1>0. /\ Connected /\ ctl \in [Daemons -> Seq(Requests)] /\ place \in [Daemons -> Places]
      /\ qpub \in [Sessions -> Daemons \cup {None}]
      /\ at \in [Sessions -> {"naming", "connect", "opening", "wait", "ready", "giveup",
                              "nospace", "over"}]
  BY DEF ServiceInv, ServiceTypes, DaemonInv, DaemonTypes, SessionInv
\* Once a daemon has its queue it has been started for good.
<1>1. ASSUME NEW d \in Daemons, DSignal(d) \/ DaemonStep(d) \/ DCrashes(d)
      PROVE  \A e \in Daemons : Started(e) => Started(e)'
  BY <1>0, <1>1 DEF DaemonStep, DSignal, DResetsFlag, DReadsOptions, DRemoves, DOpens,
     DFailsToOpen, DChecksFlag, DWaitsInVain, DServes, DCleansUp, DUnlinks, DCrashes, Moves,
     Started, Places
<1>2. ASSUME NEW d \in Daemons, DSignal(d) \/ DaemonStep(d) \/ DCrashes(d), ~DServes(d)
      PROVE  Connected'
  BY <1>0, <1>1, <1>2, DaemonsKeepRequests
<1>3. ASSUME NEW d \in Daemons, DServes(d) PROVE Connected'
  <2>1. place[d] = "receive" /\ ctl' = [ctl EXCEPT ![d] = Tail(@)] /\ UNCHANGED <<at, qpub>>
    BY <1>3, ServesIs DEF ServiceInv, session
  <2>2. \A e \in Daemons : Started(e) => Started(e)'
    BY <1>1, <1>3 DEF DaemonStep
  <2>3. Started(d)
    BY <2>1 DEF Started
  <2> QED BY <1>0, <2>1, <2>2, <2>3
<1>4. ASSUME NEW c \in Sessions, CSendsOpen(c) \/ CCleansUp(c) PROVE Connected'
  <2>1. PICK d \in Daemons, r \in Requests :
          /\ d = qpub[c] /\ Started(d) /\ ctl' = [ctl EXCEPT ![d] = Append(ctl[d], r)]
          /\ at' = [at EXCEPT ![c] = "wait"] \/ at' = [at EXCEPT ![c] = "over"]
          /\ UNCHANGED <<place, qpub>>
    BY <1>4, SendIs
  <2> QED BY <1>0, <2>1 DEF Started
<1>5. ASSUME NEW c \in Sessions, CConnects(c) PROVE Connected'
  <2>1. UNCHANGED <<place, ctl>>
    BY <1>5 DEF CConnects, NoDaemon, daemon
  <2>2. CASE Goes(c, "over") /\ UNCHANGED qpub
    BY <1>0, <2>1, <2>2 DEF Started, Goes
  <2>3. CASE /\ bname[DefaultName] # None /\ qpub' = [qpub EXCEPT ![c] = bname[DefaultName]]
             /\ Goes(c, "opening")
    <3>1. PICK d \in Daemons : d = bname[DefaultName]
      BY <2>3, LifecycleAssumption DEF DaemonInv, DaemonTypes
    <3>2. at' = [at EXCEPT ![c] = "opening"] /\ qpub' = [qpub EXCEPT ![c] = d]
      BY <2>3, <3>1 DEF Goes
    <3>3. Started(d)
      BY <2>3, <3>1, LifecycleAssumption DEF DaemonInv, NamesOwned, Serving, Started
    <3> QED BY <1>0, <2>1, <3>2, <3>3 DEF Started
  <2> QED BY <1>5, <2>2, <2>3 DEF CConnects
<1>6. ASSUME NEW c \in Sessions, SessionStep(c), ~CSendsOpen(c), ~CCleansUp(c), ~CConnects(c)
      PROVE  Connected'
  <2>1. UNCHANGED <<place, ctl>>
    BY <1>6, SilentSessions
  <2>2. /\ UNCHANGED qpub
        /\ \A e \in Sessions : at'[e] \in {"opening", "wait", "ready"}
                                 => at[e] \in {"opening", "wait", "ready"}
    BY <1>0, <1>6 DEF SessionStep, CTriesName, CRunsOutOfNames, CCreateFails, CReceives, CTimesOut,
       CGivesUp, CCrashes, Goes
  <2> QED BY <1>0, <2>1, <2>2 DEF Started
<1>7. CASE UNCHANGED vars
  BY <1>0, <1>7 DEF vars, daemon, session, Started
<1> QED
  BY <1>2, <1>3, <1>4, <1>5, <1>6, <1>7 DEF Next

\* The types and the connections hold at the start, and throughout.
LEMMA ServiceInit == Init => ServiceInv
<1> SUFFICES ASSUME Init PROVE ServiceInv
  OBVIOUS
<1>1. 0 \in Slots /\ 1 \in 1 .. Tries /\ 0 <= ControlMax
  BY LifecycleAssumption DEF Slots
<1>2. ServiceTypes
  <2>1. try \in [Daemons -> 1 .. Tries] /\ slot \in [Sessions -> Slots]
    BY <1>1 DEF Init
  <2>2. ctl \in [Daemons -> Seq(Requests)] /\ \A d \in Daemons : Len(ctl[d]) <= ControlMax
    BY <1>1 DEF Init
  <2>3. inbox \in [Sessions -> Seq(Slots \cup {None})]
        /\ qpub \in [Sessions -> Daemons \cup {None}]
        /\ known \in [Daemons -> [Slots -> Sessions \cup {None}]]
    BY DEF Init
  <2>4. abandoned \in BOOLEAN
    BY Zenon DEF Init
  <2> QED BY <2>1, <2>2, <2>3, <2>4 DEF ServiceTypes
<1>3. NothingLeftIsAsked /\ Connected
  BY LifecycleAssumption DEF Init, NothingLeftIsAsked, Connected
<1> QED BY <1>2, <1>3 DEF ServiceInv

\* What holds in every state, whatever sessions do.
LifecycleInv == DaemonInv /\ SessionInv /\ ServiceInv

\* LifecycleInv holds throughout.
THEOREM LifecycleAlways == Spec => []LifecycleInv
<1>1. Init => LifecycleInv
  <2>1. Init => SessionInv
    BY LifecycleAssumption DEF Init, SessionInv
  <2> QED BY <2>1, DaemonInit, ServiceInit DEF LifecycleInv
<1>2. LifecycleInv /\ [Next]_vars => LifecycleInv'
  BY DaemonNext, SessionNext, ServiceTypesNext, NothingLeftNext, ConnectedNext
  DEF LifecycleInv, ServiceInv
<1> QED BY <1>1, <1>2, PTL DEF Spec

(***************************************************************************)
(* Every reachable state of daemons and sessions is well-typed: no request *)
(* makes a broker book a queue that no session made, and no queue holds    *)
(* more than it has room for.                                              *)
(***************************************************************************)
THEOREM LifecycleTypeCorrect == Spec => []TypeOK
<1>1. LifecycleInv => TypeOK
  <2> SUFFICES ASSUME LifecycleInv PROVE TypeOK
    OBVIOUS
  <2> USE DEF LifecycleInv
  <2>1. place \in [Daemons -> Places] /\ bname \in [BrokerNames -> Daemons \cup {None}]
        /\ cfg \in [Daemons -> Cfgs]
    BY DEF DaemonInv, DaemonTypes
  <2>2. late \in [Daemons -> Nat]
    BY DEF DaemonInv, DaemonTypes
  <2>3. flag \in [Daemons -> BOOLEAN] /\ crashed \in BOOLEAN
    BY DEF DaemonInv, DaemonTypes
  <2>4. \A d \in Daemons : cfg[d].broker_name \in BrokerNames /\ cfg[d].remove_queue \in BOOLEAN
    BY <2>1, NamesAreNames, Zenon
  <2> QED
    BY <2>1, <2>2, <2>3, <2>4 DEF SessionInv, ServiceInv, ServiceTypes, TypeOK
<1> QED BY <1>1, LifecycleAlways, PTL
-----------------------------------------------------------------------------
(* Slotted is kept until a session stops waiting for its answer.           *)

\* A daemon that serves has served before, or has just created its queue; apart from DServes
\* it leaves its slots alone as long as it serves.
LEMMA DaemonsKeepSlots ==
  ASSUME DaemonTypes, NEW d \in Daemons, DSignal(d) \/ DaemonStep(d) \/ DCrashes(d), ~DServes(d),
         NEW e \in Daemons, Answering(e)'
  PROVE  known'[e] = known[e] /\ (Answering(e) \/ ~Started(e))
<1>1. CASE DCleansUp(d) \/ DCrashes(d)
  <2>1. /\ \E to \in {"unlink", "down"} : place' = [place EXCEPT ![d] = to]
        /\ known' = [known EXCEPT ![d] = [s \in Slots |-> None]]
    BY <1>1 DEF DCleansUp, DCrashes, Moves, Forgets
  <2>2. e # d
    BY <2>1 DEF DaemonTypes, Answering
  <2>3. place'[e] = place[e] /\ known'[e] = known[e]
    BY <2>1, <2>2
  <2> QED BY <2>3 DEF Answering
<1>2. CASE ~DCleansUp(d) /\ ~DCrashes(d)
  BY <1>2 DEF DaemonStep, DSignal, DResetsFlag, DReadsOptions, DRemoves, DOpens, DFailsToOpen,
     DChecksFlag, DWaitsInVain, DUnlinks, Moves, Answering, Started, DaemonTypes, Places
<1> QED BY <1>1, <1>2

\* Request by request, what is in the control queues is owed.
LEMMA RequestsOwedIf ==
  ASSUME \A e \in Daemons : Answering(e)' =>
           \E q : /\ q = ctl'[e] /\ NoneTwice(q)
                  /\ \A k \in DOMAIN q : Owed(e, q[k])'
  PROVE  RequestsOwed'
<1> SUFFICES ASSUME NEW e \in Daemons, Answering(e)'
             PROVE  (NoneTwice(ctl[e]) /\ \A k \in DOMAIN ctl[e] : Owed(e, ctl[e][k]))'
  BY DEF RequestsOwed
<1>1. PICK q : /\ q = ctl'[e] /\ NoneTwice(q)
               /\ \A k \in DOMAIN q : Owed(e, q[k])'
  OBVIOUS
<1>2. (\A k \in DOMAIN ctl[e] : Owed(e, ctl[e][k]))'
  BY <1>1 DEF Owed, OpenIsOwed, CloseIsOwed
<1> QED BY <1>1, <1>2 DEF NoneTwice

\* Steps of daemons other than DServes.
LEMMA DaemonsKeepSlotted ==
  ASSUME LifecycleInv, Slotted, NEW d \in Daemons, DSignal(d) \/ DaemonStep(d) \/ DCrashes(d),
         ~DServes(d)
  PROVE  Slotted'
<1>1. UNCHANGED <<ctl, inbox, at, no, qpub, slot, gname>>
  BY DaemonsKeepRequests
<1>2. DaemonTypes /\ Connected
  BY DEF LifecycleInv, DaemonInv, ServiceInv
<1>3. \A e \in Daemons : Answering(e)' =>
        /\ known'[e] = known[e]
        /\ Answering(e) \/ (ctl[e] = <<>> /\ \A c \in Sessions : qpub[c] # e)
  BY <1>2, DaemonsKeepSlots DEF Connected
<1>4. RequestsOwed'
  <2>1. ASSUME NEW e \in Daemons, Answering(e)', ctl[e] # <<>>
        PROVE  /\ NoneTwice(ctl[e]) /\ \A k \in DOMAIN ctl[e] : Owed(e, ctl[e][k])
               /\ known'[e] = known[e]
    BY <1>3, <2>1 DEF Slotted, RequestsOwed
  <2>2. ASSUME NEW e \in Daemons, NEW r, known'[e] = known[e], Owed(e, r)
        PROVE  Owed(e, r)'
    BY <1>1, <2>2, Zenon DEF Owed, OpenIsOwed, CloseIsOwed
  <2>3. ASSUME NEW e \in Daemons, Answering(e)'
        PROVE  \E q : /\ q = ctl'[e] /\ NoneTwice(q)
                      /\ \A k \in DOMAIN q : Owed(e, q[k])'
    <3>0. PICK q : q = ctl[e] /\ q = ctl'[e]
      BY <1>1
    <3>1. CASE q # <<>>
      <4>1. NoneTwice(q) /\ (\A k \in DOMAIN q : Owed(e, q[k])) /\ known'[e] = known[e]
        BY <2>1, <2>3, <3>0, <3>1
      <4>2. ASSUME NEW k \in DOMAIN q PROVE Owed(e, q[k])'
        <5>1. PICK r : r = q[k]
          OBVIOUS
        <5>2. Owed(e, r)'
          BY <2>2, <4>1, <5>1
        <5> QED BY <5>1, <5>2
      <4> QED BY <3>0, <4>1, <4>2
    <3>2. CASE q = <<>>
      BY <3>0, <3>2 DEF NoneTwice
    <3> QED BY <3>1, <3>2
  <2>4. \A e \in Daemons : Answering(e)' =>
          \E q : /\ q = ctl'[e] /\ NoneTwice(q)
                 /\ \A k \in DOMAIN q : Owed(e, q[k])'
    BY <2>3
  <2> QED BY <2>4, RequestsOwedIf
<1>5. OneAnswer'
  BY <1>1 DEF Slotted, OneAnswer
<1>6. SlotIsKnown'
  <2>1. \A c \in Sessions : at[c] \in {"wait", "ready"} => qpub[c] \in Daemons
    BY <1>2 DEF Connected
  <2> QED BY <1>1, <1>3, <2>1 DEF Slotted, SlotIsKnown
<1> QED BY <1>4, <1>5, <1>6 DEF Slotted

\* What is in a control queue is a request.
LEMMA RequestsTyped ==
  ASSUME ctl \in [Daemons -> Seq(Requests)], NEW d \in Daemons, NEW k \in DOMAIN ctl[d]
  PROVE  /\ ctl[d][k] \in Requests /\ ctl[d][k].arg \in Slots
         /\ ctl[d][k].cmd = "open" \/ ctl[d][k].cmd = "close"
<1>1. ctl[d] \in Seq(Requests)
  OBVIOUS
<1>2. ctl[d][k] \in Requests
  BY <1>1
<1> QED BY <1>2 DEF Requests

\* Two requests for the same are the same.
LEMMA SameRequest == \A r, t \in Requests : r.cmd = t.cmd /\ r.arg = t.arg => r = t
  BY DEF Requests

\* A session that neither gets nor takes a message goes on, or its process dies.
LEMMA MovesOnKeepSlotted ==
  ASSUME LifecycleInv, Slotted, NEW c \in Sessions, at[c] # "over",
         NEW to \in {"connect", "opening", "over", "nospace", "naming"},
         at' = [at EXCEPT ![c] = to], at[c] = "wait" => to = "over",
         \A e \in Sessions \ {c} : no'[e] = no[e] /\ qpub'[e] = qpub[e],
         at[c] = "wait" => no'[c] = no[c] /\ qpub'[c] = qpub[c],
         \A i \in Slots : gname[i] \in Sessions /\ (gname[i] # c \/ at[c] = "wait")
                            => gname'[i] = gname[i],
         UNCHANGED <<place, known, ctl, inbox, slot>>
  PROVE  Slotted'
<1>1. /\ at \in [Sessions -> {"naming", "connect", "opening", "wait", "ready", "giveup",
                              "nospace", "over"}]
      /\ ctl \in [Daemons -> Seq(Requests)]
  BY DEF LifecycleInv, SessionInv, ServiceInv, ServiceTypes
<1>2. at'[c] = to /\ \A e \in Sessions \ {c} : at'[e] = at[e]
  BY <1>1
<1>3. ASSUME NEW d \in Daemons, NEW i \in Slots, OpenIsOwed(d, i) PROVE OpenIsOwed(d, i)'
  <2>1. PICK e \in Sessions : e = gname[i]
    BY <1>3 DEF OpenIsOwed
  <2>2. no[e] = i /\ qpub[e] = d /\ at[e] \in {"wait", "over"} /\ inbox[e] = <<>>
    BY <1>3, <2>1 DEF OpenIsOwed
  <2>3. gname'[i] = e
    BY <2>1, <2>2
  <2>4. no'[e] = i /\ qpub'[e] = d /\ at'[e] \in {"wait", "over"}
    BY <1>2, <2>2
  <2> QED BY <2>2, <2>3, <2>4 DEF OpenIsOwed
<1>4. ASSUME NEW d \in Daemons, NEW s \in Slots, CloseIsOwed(d, s) PROVE CloseIsOwed(d, s)'
  BY <1>2, <1>4 DEF CloseIsOwed
<1>5. RequestsOwed'
  <2>1. \A d \in Daemons : Answering(d)' = Answering(d)
    BY DEF Answering
  <2>2. \A d \in Daemons : \A k \in DOMAIN ctl[d] : ctl[d][k].arg \in Slots
    BY <1>1, RequestsTyped
  <2> QED BY <1>3, <1>4, <2>1, <2>2 DEF Slotted, RequestsOwed, Owed, NoneTwice
<1>6. OneAnswer'
  <2>1. ASSUME NEW e \in Sessions, inbox[e] # <<>>
        PROVE  at'[e] \in {"wait", "over"} /\ Len(inbox[e]) = 1
    <3>1. at[e] \in {"wait", "over"} /\ Len(inbox[e]) = 1
      BY <2>1 DEF Slotted, OneAnswer
    <3> QED BY <1>2, <3>1
  <2> QED BY <2>1 DEF OneAnswer
<1>7. SlotIsKnown'
  <2>1. ASSUME NEW e \in Sessions, at'[e] \in {"wait", "ready"}
        PROVE  at'[e] = at[e] /\ qpub'[e] = qpub[e]
    BY <1>2, <2>1
  <2> QED BY <2>1 DEF Slotted, SlotIsKnown, Answering
<1> QED BY <1>5, <1>6, <1>7 DEF Slotted

\* The first answer takes a session to its slot, or to its way out.
LEMMA ReceivesKeepSlotted ==
  ASSUME LifecycleInv, Slotted, NEW c \in Sessions, CReceives(c)
  PROVE  Slotted'
<1>1. /\ at \in [Sessions -> {"naming", "connect", "opening", "wait", "ready", "giveup",
                              "nospace", "over"}]
      /\ ctl \in [Daemons -> Seq(Requests)] /\ slot \in [Sessions -> Slots]
      /\ inbox \in [Sessions -> Seq(Slots \cup {None})]
  BY DEF LifecycleInv, SessionInv, ServiceInv, ServiceTypes
<1>2. at[c] = "wait" /\ qsub[c] = c
  BY DEF CReceives, LifecycleInv, SessionInv
<1> DEFINE answer == Head(inbox[c])
<1>3. /\ inbox[c] # <<>> /\ inbox' = [inbox EXCEPT ![c] = Tail(@)]
      /\ UNCHANGED <<place, known, ctl, no, qpub, gname>>
  BY <1>2 DEF CReceives, NoDaemon, daemon
<1>4. \/ at' = [at EXCEPT ![c] = "giveup"] /\ UNCHANGED slot
      \/ /\ answer # None /\ at' = [at EXCEPT ![c] = "ready"]
         /\ slot' = [slot EXCEPT ![c] = answer]
  BY <1>2 DEF CReceives, Goes
<1>5. inbox'[c] = <<>>
  <2>1. Len(inbox[c]) = 1
    BY <1>3 DEF Slotted, OneAnswer
  <2> QED BY <1>1, <1>3, <2>1
<1>6. \A e \in Sessions \ {c} : inbox'[e] = inbox[e] /\ at'[e] = at[e] /\ slot'[e] = slot[e]
  BY <1>1, <1>3, <1>4
<1>7. RequestsOwed'
  <2>1. \A d \in Daemons : Answering(d)' = Answering(d)
    BY <1>3 DEF Answering
  <2>2. \A d \in Daemons, i \in Slots : OpenIsOwed(d, i) => OpenIsOwed(d, i)'
    BY <1>3, <1>6 DEF OpenIsOwed
  <2>3. \A d \in Daemons, s \in Slots : CloseIsOwed(d, s) => CloseIsOwed(d, s)'
    BY <1>2, <1>3, <1>6 DEF CloseIsOwed
  <2>4. \A d \in Daemons : \A k \in DOMAIN ctl[d] : ctl[d][k].arg \in Slots
    BY <1>1, RequestsTyped
  <2> QED BY <1>3, <2>1, <2>2, <2>3, <2>4 DEF Slotted, RequestsOwed, Owed, NoneTwice
<1>8. OneAnswer'
  BY <1>5, <1>6 DEF Slotted, OneAnswer
<1>9. SlotIsKnown'
  <2>1. ASSUME NEW e \in Sessions \ {c}, at'[e] \in {"wait", "ready"}, Answering(qpub[e])
        PROVE  /\ at[e] = "wait" /\ inbox[e] # <<>> /\ Head(inbox[e]) # None
                    => known[qpub[e]][Head(inbox[e])] = e
               /\ at[e] = "ready" => known[qpub[e]][slot[e]] = e
    BY <1>6, <2>1 DEF Slotted, SlotIsKnown
  <2>2. ASSUME Answering(qpub[c]), answer # None PROVE known[qpub[c]][answer] = c
    BY <1>2, <1>3, <2>2 DEF Slotted, SlotIsKnown
  <2>3. at'[c] # "wait" /\ (at'[c] = "ready" => answer # None /\ slot'[c] = answer)
    BY <1>1, <1>4
  <2>4. \A e \in Sessions : Answering(qpub[e])' = Answering(qpub[e])
    BY <1>3 DEF Answering
  <2> HIDE DEF answer
  <2> QED BY <1>3, <1>6, <2>1, <2>2, <2>3, <2>4 DEF SlotIsKnown
<1> QED BY <1>7, <1>8, <1>9 DEF Slotted

\* A session sends its OPEN, or its CLOSE.
LEMMA SendsKeepSlotted ==
  ASSUME LifecycleInv, Slotted, NEW c \in Sessions, CSendsOpen(c) \/ CCleansUp(c)
  PROVE  Slotted'
<1>1. /\ at \in [Sessions -> {"naming", "connect", "opening", "wait", "ready", "giveup",
                              "nospace", "over"}]
      /\ ctl \in [Daemons -> Seq(Requests)] /\ slot \in [Sessions -> Slots]
  BY DEF LifecycleInv, SessionInv, ServiceInv, ServiceTypes
<1>2. PICK d \in Daemons, r \in Requests :
        /\ d = qpub[c] /\ ctl' = [ctl EXCEPT ![d] = Append(ctl[d], r)]
        /\ \/ /\ at[c] = "opening" /\ at' = [at EXCEPT ![c] = "wait"]
              /\ r = [cmd |-> "open", arg |-> no[c]] /\ gname[no[c]] = c
           \/ /\ at[c] = "ready" /\ at' = [at EXCEPT ![c] = "over"]
              /\ r = [cmd |-> "close", arg |-> slot[c]]
        /\ UNCHANGED <<place, known, no, qpub, slot, inbox, gname>>
  BY SendIs DEF LifecycleInv
<1>3. /\ at[c] \in {"opening", "ready"} /\ at'[c] \in {"wait", "over"}
      /\ \A e \in Sessions \ {c} : at'[e] = at[e]
  BY <1>1, <1>2
<1>4. inbox[c] = <<>>
  BY <1>3 DEF Slotted, OneAnswer
<1>5. \A e \in Daemons : Answering(e)' = Answering(e)
  BY <1>2 DEF Answering
<1>6. \A e \in Daemons, i \in Slots : OpenIsOwed(e, i) => OpenIsOwed(e, i)'
  BY <1>2, <1>3 DEF OpenIsOwed
<1>7. \A e \in Daemons, s \in Slots : CloseIsOwed(e, s) => CloseIsOwed(e, s)'
  BY <1>3, <1>2 DEF CloseIsOwed
\* The new request is owed, and there was no such request.
<1>8. ASSUME Answering(d)
      PROVE  Owed(d, r)' /\ \A k \in DOMAIN ctl[d] : ctl[d][k] # r
  <2>1. \A k \in DOMAIN ctl[d] : Owed(d, ctl[d][k])
    BY <1>8 DEF Slotted, RequestsOwed
  <2>2. CASE at[c] = "opening"
    <3>1. r.cmd = "open" /\ r.arg = no[c] /\ gname[no[c]] = c /\ at'[c] = "wait"
      BY <1>1, <1>2, <2>2
    <3>2. OpenIsOwed(d, r.arg)'
      BY <1>2, <1>4, <3>1 DEF OpenIsOwed
    <3>3. ~OpenIsOwed(d, r.arg)
      BY <2>2, <3>1 DEF OpenIsOwed
    <3> QED BY <2>1, <3>1, <3>2, <3>3 DEF Owed
  <2>3. CASE at[c] = "ready"
    <3>1. r.cmd = "close" /\ r.arg = slot[c] /\ at'[c] = "over"
      BY <1>1, <1>2, <2>3
    <3>2. known[d][slot[c]] = c
      BY <1>2, <1>8, <2>3 DEF Slotted, SlotIsKnown
    <3>3. CloseIsOwed(d, r.arg)'
      BY <1>2, <3>1, <3>2 DEF CloseIsOwed
    <3>4. ~CloseIsOwed(d, r.arg)
      BY <2>3, <3>1, <3>2 DEF CloseIsOwed
    <3> QED BY <2>1, <3>1, <3>3, <3>4 DEF Owed
  <2> QED BY <1>3, <2>2, <2>3
<1>9. RequestsOwed'
  <2> SUFFICES ASSUME NEW e \in Daemons, Answering(e)
               PROVE  \E q : /\ q = ctl'[e] /\ NoneTwice(q)
                             /\ \A k \in DOMAIN q : Owed(e, q[k])'
    BY <1>5, RequestsOwedIf
  <2>1. PICK old : old = ctl[e]
    OBVIOUS
  <2>2. NoneTwice(old) /\ \A k \in DOMAIN old : Owed(e, old[k]) /\ old[k].arg \in Slots
    BY <1>1, <2>1, RequestsTyped DEF Slotted, RequestsOwed
  <2>3. \A k \in DOMAIN old : Owed(e, old[k])'
    BY <1>6, <1>7, <2>2 DEF Owed
  <2>4. CASE e # d
    <3>1. ctl'[e] = old
      BY <1>1, <1>2, <2>1, <2>4
    <3> QED BY <2>2, <2>3, <3>1
  <2>5. CASE e = d
    <3>1. PICK new : new = Append(old, r)
      OBVIOUS
    <3>2. ctl'[e] = new
      BY <1>1, <1>2, <2>1, <2>5, <3>1
    <3>3. \A k \in DOMAIN new : \/ k \in DOMAIN old /\ new[k] = old[k]
                                \/ k = Len(old) + 1 /\ new[k] = r
      BY <1>1, <2>1, <3>1, QueueAppend
    <3>4. Owed(e, r)' /\ \A k \in DOMAIN old : old[k] # r
      BY <1>8, <2>1, <2>5
    <3>5. \A k \in DOMAIN new : Owed(e, new[k])'
      BY <2>3, <3>3, <3>4
    <3>6. NoneTwice(new)
      BY <2>2, <3>3, <3>4 DEF NoneTwice
    <3> QED BY <3>2, <3>5, <3>6
  <2> QED BY <2>4, <2>5
<1>10. OneAnswer'
  BY <1>2, <1>3, <1>4 DEF Slotted, OneAnswer
<1>11. SlotIsKnown'
  BY <1>2, <1>3, <1>4 DEF Slotted, SlotIsKnown, Answering
<1> QED BY <1>9, <1>10, <1>11 DEF Slotted

\* A daemon handles a request.
LEMMA ServesKeepSlotted ==
  ASSUME LifecycleInv, Slotted, NEW d \in Daemons, DServes(d)
  PROVE  Slotted'
<1>1. /\ ctl \in [Daemons -> Seq(Requests)] /\ place \in [Daemons -> Places]
      /\ known \in [Daemons -> [Slots -> Sessions \cup {None}]]
      /\ inbox \in [Sessions -> Seq(Slots \cup {None})] /\ None \notin Sessions
  BY LifecycleAssumption DEF LifecycleInv, DaemonInv, DaemonTypes, ServiceInv, ServiceTypes
<1>2. PICK r \in Requests : r = ctl[d][1]
  BY ServesIs DEF LifecycleInv, ServiceInv
<1>3. /\ place[d] = "receive" /\ place' = [place EXCEPT ![d] = "check"]
      /\ ctl[d] # <<>> /\ ctl' = [ctl EXCEPT ![d] = Tail(ctl[d])]
      /\ r.cmd = "open" => Opens(d, r.arg)
      /\ r.cmd = "close" => known' = [known EXCEPT ![d][r.arg] = None] /\ UNCHANGED inbox
      /\ UNCHANGED <<at, no, qpub, slot, gname>>
  BY <1>2, ServesIs DEF LifecycleInv, ServiceInv, session
<1>4. \A e \in Daemons : Answering(e)' = Answering(e)
  BY <1>1, <1>3 DEF Answering
<1>5. Answering(d) /\ r.arg \in Slots /\ (r.cmd = "open" \/ r.cmd = "close")
  BY <1>3 DEF Answering, Requests
\* What is left in the daemon's queue was there, and is not the request in hand.
<1>6. ASSUME NEW k \in DOMAIN Tail(ctl[d])
      PROVE  k + 1 \in DOMAIN ctl[d] /\ Tail(ctl[d])[k] = ctl[d][k + 1] /\ ctl[d][k + 1] # r
  <2>1. /\ 1 \in DOMAIN ctl[d] /\ k \in Nat \ {0} /\ k + 1 \in DOMAIN ctl[d]
        /\ Tail(ctl[d])[k] = ctl[d][k + 1]
    BY <1>1, <1>3, QueueHead
  <2>2. ctl[d][k + 1] # ctl[d][1]
    BY <1>5, <2>1 DEF Slotted, RequestsOwed, NoneTwice
  <2> QED BY <1>2, <2>1, <2>2
<1>7. /\ r.cmd = "open" => OpenIsOwed(d, r.arg)
      /\ r.cmd = "close" => CloseIsOwed(d, r.arg)
  BY <1>1, <1>2, <1>3, <1>5, QueueHead DEF Slotted, RequestsOwed, Owed
\* The other requests are still owed.
<1>8. ASSUME \A e \in Daemons : \A t \in Requests :
               Owed(e, t) /\ (e = d => t # r) => Owed(e, t)'
      PROVE  RequestsOwed'
  <2> SUFFICES ASSUME NEW e \in Daemons, Answering(e)
               PROVE  \E q : /\ q = ctl'[e] /\ NoneTwice(q)
                             /\ \A k \in DOMAIN q : Owed(e, q[k])'
    BY <1>4, RequestsOwedIf
  <2>1. PICK old : old = ctl[e]
    OBVIOUS
  <2>2. NoneTwice(old) /\ \A k \in DOMAIN old : Owed(e, old[k]) /\ old[k] \in Requests
    BY <1>1, <2>1, RequestsTyped DEF Slotted, RequestsOwed
  <2>3. CASE e # d
    <3>1. ctl'[e] = old
      BY <1>1, <1>3, <2>1, <2>3
    <3>2. \A k \in DOMAIN old : Owed(e, old[k])'
      BY <1>8, <2>2, <2>3
    <3> QED BY <2>2, <3>1, <3>2
  <2>4. CASE e = d
    <3>1. PICK new : new = Tail(old)
      OBVIOUS
    <3>2. ctl'[e] = new
      BY <1>1, <1>3, <2>1, <2>4, <3>1
    <3>3. \A k \in DOMAIN new : k + 1 \in DOMAIN old /\ new[k] = old[k + 1] /\ new[k] # r
      BY <1>6, <2>1, <2>4, <3>1
    <3>4. \A k \in DOMAIN new : k \in Nat
      BY <1>1, <1>3, <2>1, <2>4, <3>1, QueueHead
    <3>5. \A k \in DOMAIN new : Owed(e, new[k])'
      BY <1>8, <2>2, <3>3
    <3>6. NoneTwice(new)
      BY <2>2, <3>3, <3>4 DEF NoneTwice
    <3> QED BY <3>2, <3>5, <3>6
  <2> QED BY <2>3, <2>4
<1>9. CASE r.cmd = "close"
  <2>1. /\ known' = [known EXCEPT ![d][r.arg] = None] /\ UNCHANGED inbox
        /\ known[d][r.arg] \in Sessions /\ at[known[d][r.arg]] = "over"
    BY <1>3, <1>7, <1>9 DEF CloseIsOwed
  <2>2. \A e \in Daemons : \A s \in Slots :
          known'[e][s] = IF e = d /\ s = r.arg THEN None ELSE known[e][s]
    BY <1>1, <1>5, <2>1
  <2>3. RequestsOwed'
    <3>1. ASSUME NEW e \in Daemons, NEW t \in Requests, Owed(e, t), e = d => t # r
          PROVE  Owed(e, t)'
      <4>1. t.cmd = "close" /\ e = d => t.arg # r.arg
        BY <1>9, <3>1, SameRequest
      <4>2. t.arg \in Slots
        BY DEF Requests
      <4>3. t.cmd = "close" => known'[e][t.arg] = known[e][t.arg]
        BY <2>2, <4>1, <4>2
      <4> QED BY <1>3, <2>1, <3>1, <4>3 DEF Owed, OpenIsOwed, CloseIsOwed
    <3> QED BY <1>8, <3>1
  <2>4. OneAnswer'
    BY <1>3, <2>1 DEF Slotted, OneAnswer
  <2>5. SlotIsKnown'
    <3>1. ASSUME NEW c \in Sessions, at[c] \in {"wait", "ready"}, NEW s \in Slots \cup {None},
                 known[qpub[c]][s] = c, qpub[c] \in Daemons, s \in Slots
          PROVE  known'[qpub[c]][s] = c
      BY <2>1, <2>2, <3>1
    <3>2. \A c \in Sessions : at[c] \in {"wait", "ready"} => qpub[c] \in Daemons
      BY DEF LifecycleInv, ServiceInv, Connected
    <3>3. \A c \in Sessions : slot[c] \in Slots
      BY DEF LifecycleInv, ServiceInv, ServiceTypes
    <3>4. \A c \in Sessions : inbox[c] # <<>> => Head(inbox[c]) \in Slots \cup {None}
      BY <1>1
    <3> QED BY <1>3, <1>4, <2>1, <3>1, <3>2, <3>3, <3>4 DEF Slotted, SlotIsKnown
  <2> QED BY <2>3, <2>4, <2>5 DEF Slotted
<1>10. CASE r.cmd = "open"
  <2>1. PICK c \in Sessions : c = gname[r.arg]
    BY <1>7, <1>10 DEF OpenIsOwed
  <2>2. /\ no[c] = r.arg /\ qpub[c] = d /\ at[c] \in {"wait", "over"} /\ inbox[c] = <<>>
        /\ c # None
    BY <1>1, <1>7, <1>10, <2>1 DEF OpenIsOwed
  \* Its answer is all there is, and no other OPEN of the session.
  <2>3. ASSUME NEW a \in Slots \cup {None}, inbox' = [inbox EXCEPT ![c] = Append(@, a)],
               \A e \in Daemons, s \in Slots : known[e][s] # None => known'[e][s] = known[e][s],
               a # None => known'[d][a] = c
        PROVE  Slotted'
    <3>1. /\ inbox'[c] # <<>> /\ Len(inbox'[c]) = 1 /\ Head(inbox'[c]) = a
          /\ \A e \in Sessions \ {c} : inbox'[e] = inbox[e]
      <4>1. inbox'[c] = Append(inbox[c], a)
        BY <1>1, <2>3
      <4>2. Append(inbox[c], a) # <<>> /\ Len(Append(inbox[c], a)) = 1
            /\ Head(Append(inbox[c], a)) = a
        BY <2>2
      <4> QED BY <1>1, <2>3, <4>1, <4>2
    <3>2. RequestsOwed'
      <4>1. ASSUME NEW e \in Daemons, NEW t \in Requests, Owed(e, t), e = d => t # r
            PROVE  Owed(e, t)'
        <5>1. ASSUME t.cmd = "open", OpenIsOwed(e, t.arg) PROVE gname[t.arg] # c
          <6>1. CASE e = d
            <7>1. t.arg # r.arg
              BY <1>10, <4>1, <5>1, <6>1, SameRequest
            <7> QED BY <2>2, <5>1, <7>1 DEF OpenIsOwed
          <6>2. CASE e # d
            BY <2>2, <5>1, <6>2 DEF OpenIsOwed
          <6> QED BY <6>1, <6>2
        <5>2. ASSUME t.cmd = "open", OpenIsOwed(e, t.arg) PROVE OpenIsOwed(e, t.arg)'
          BY <1>3, <3>1, <5>1, <5>2 DEF OpenIsOwed
        <5>3. ASSUME t.cmd = "close", CloseIsOwed(e, t.arg) PROVE CloseIsOwed(e, t.arg)'
          <6>1. t.arg \in Slots
            BY DEF Requests
          <6>2. known'[e][t.arg] = known[e][t.arg]
            BY <1>1, <2>3, <5>3, <6>1 DEF CloseIsOwed
          <6> QED BY <1>3, <5>3, <6>2 DEF CloseIsOwed
        <5> QED BY <4>1, <5>2, <5>3 DEF Owed
      <4> QED BY <1>8, <4>1
    <3>3. OneAnswer'
      BY <1>3, <2>2, <3>1 DEF Slotted, OneAnswer
    <3>4. SlotIsKnown'
      <4>1. ASSUME NEW e \in Sessions, at[e] \in {"wait", "ready"}, NEW s \in Slots,
                   known[qpub[e]][s] = e, qpub[e] \in Daemons
            PROVE  known'[qpub[e]][s] = e
        BY <1>1, <2>3, <4>1
      <4>2. \A e \in Sessions : at[e] \in {"wait", "ready"} => qpub[e] \in Daemons
        BY DEF LifecycleInv, ServiceInv, Connected
      <4>3. \A e \in Sessions : slot[e] \in Slots
        BY DEF LifecycleInv, ServiceInv, ServiceTypes
      <4>4. \A e \in Sessions : inbox[e] # <<>> => Head(inbox[e]) \in Slots \cup {None}
        BY <1>1
      <4>5. ASSUME NEW e \in Sessions \ {c}, at[e] \in {"wait", "ready"}, Answering(qpub[e])
            PROVE  /\ at[e] = "wait" /\ inbox'[e] # <<>> /\ Head(inbox'[e]) # None
                        => known'[qpub[e]][Head(inbox'[e])] = e
                   /\ at[e] = "ready" => known'[qpub[e]][slot[e]] = e
        BY <3>1, <4>1, <4>2, <4>3, <4>4, <4>5 DEF Slotted, SlotIsKnown
      <4>6. at[c] # "ready" /\ (a # None => known'[qpub[c]][a] = c)
        BY <2>2, <2>3
      <4> QED BY <1>3, <1>4, <3>1, <4>2, <4>5, <4>6 DEF SlotIsKnown
    <3> QED BY <3>2, <3>3, <3>4 DEF Slotted
  <2>4. CASE UNCHANGED known /\ inbox' = [inbox EXCEPT ![c] = Append(@, None)]
    BY <2>3, <2>4
  <2>5. ASSUME NEW s \in Slots, known[d][s] = None, inbox' = [inbox EXCEPT ![c] = Append(@, s)],
               known' = [known EXCEPT ![d][s] = c]
        PROVE  Slotted'
    <3>1. \A e \in Daemons, x \in Slots : known[e][x] # None => known'[e][x] = known[e][x]
      BY <1>1, <2>5
    <3>2. known'[d][s] = c
      BY <1>1, <2>5
    <3> QED BY <2>3, <2>5, <3>1, <3>2
  <2> QED
    <3> DEFINE i == r.arg
    <3>1. i \in Slots /\ Opens(d, i) /\ gname[i] = c
      BY <1>3, <1>5, <1>10, <2>1
    <3> HIDE DEF i
    <3>2. \/ gname[i] = None
          \/ inbox' = [inbox EXCEPT ![gname[i]] = Append(@, None)] /\ UNCHANGED known
          \/ \E s \in Slots : /\ known[d][s] = None
                              /\ inbox' = [inbox EXCEPT ![gname[i]] = Append(@, s)]
                              /\ known' = [known EXCEPT ![d][s] = gname[i]]
      BY <3>1, OpensIs
    <3>3. \/ inbox' = [inbox EXCEPT ![c] = Append(@, None)] /\ UNCHANGED known
          \/ \E s \in Slots : /\ known[d][s] = None
                              /\ inbox' = [inbox EXCEPT ![c] = Append(@, s)]
                              /\ known' = [known EXCEPT ![d][s] = c]
      BY <2>2, <3>1, <3>2, Zenon
    <3> QED BY <2>4, <2>5, <3>3, Zenon
<1> QED BY <1>5, <1>9, <1>10

\* Nothing but a session that stops waiting ends Slotted.
LEMMA SlottedNext == LifecycleInv /\ SlottedInv /\ [Next]_vars => SlottedInv'
<1> SUFFICES ASSUME LifecycleInv, SlottedInv, [Next]_vars, ~abandoned' PROVE Slotted'
  BY DEF SlottedInv
<1>1. ~abandoned
  <2>1. ASSUME NEW d \in Daemons, DSignal(d) \/ DaemonStep(d) \/ DCrashes(d)
        PROVE  UNCHANGED abandoned
    BY <2>1 DEF DaemonStep, DSignal, DResetsFlag, DReadsOptions, DRemoves, DOpens, DFailsToOpen,
       DChecksFlag, DWaitsInVain, DServes, DCleansUp, DUnlinks, DCrashes, NoSession
  <2>2. ASSUME NEW c \in Sessions, SessionStep(c) PROVE UNCHANGED abandoned \/ abandoned' = TRUE
    BY <2>2 DEF SessionStep, CTriesName, CRunsOutOfNames, CCreateFails, CConnects, CSendsOpen,
       CReceives, CTimesOut, CGivesUp, CCleansUp, CCrashes, NoDaemon
  <2> QED BY <2>1, <2>2 DEF Next, vars
<1>2. Slotted
  BY <1>1 DEF SlottedInv
<1>3. ASSUME NEW d \in Daemons, DSignal(d) \/ DaemonStep(d) \/ DCrashes(d) PROVE Slotted'
  BY <1>2, <1>3, DaemonsKeepSlotted, ServesKeepSlotted
<1>4. ASSUME NEW c \in Sessions, SessionStep(c) PROVE Slotted'
  <2>1. CASE CReceives(c)
    BY <1>2, <2>1, ReceivesKeepSlotted
  <2>2. CASE CSendsOpen(c) \/ CCleansUp(c)
    BY <1>2, <2>2, SendsKeepSlotted
  <2>3. CASE CTimesOut(c)
    BY <2>3 DEF CTimesOut
  <2> DEFINE Quiet == UNCHANGED <<place, known, ctl, inbox, slot>>
             MovesTo(to) == at' = [at EXCEPT ![c] = to]
  <2>4. at \in [Sessions -> {"naming", "connect", "opening", "wait", "ready", "giveup",
                             "nospace", "over"}]
        /\ no \in [Sessions -> 0 .. MaxClients]
    BY DEF LifecycleInv, SessionInv
  <2>5. CASE CTriesName(c)
    <3>1. at[c] = "naming" /\ Quiet /\ UNCHANGED qpub
      BY <2>5 DEF CTriesName, NoDaemon, daemon
    <3>2. CASE gname[no[c]] = None
      <4>1. MovesTo("connect") /\ gname' = [gname EXCEPT ![no[c]] = c] /\ UNCHANGED no
        BY <2>5, <3>2 DEF CTriesName, Goes
      <4>2. \A i \in Slots : gname[i] \in Sessions => gname'[i] = gname[i]
        BY <3>2, <4>1, LifecycleAssumption DEF LifecycleInv, SessionInv
      <4> QED BY <1>2, <3>1, <4>1, <4>2, MovesOnKeepSlotted
    <3>3. CASE gname[no[c]] # None
      <4>1. no' = [no EXCEPT ![c] = @ + 1] /\ UNCHANGED <<at, gname>>
        BY <2>5, <3>3 DEF CTriesName
      <4>2. MovesTo("naming") /\ \A e \in Sessions \ {c} : no'[e] = no[e]
        BY <2>4, <3>1, <4>1
      <4> QED BY <1>2, <3>1, <4>1, <4>2, MovesOnKeepSlotted
    <3> QED BY <3>2, <3>3
  <2>6. CASE CRunsOutOfNames(c) \/ CCreateFails(c)
    <3>1. at[c] = "naming" /\ Quiet /\ UNCHANGED <<no, qpub, gname>>
      BY <2>6 DEF CRunsOutOfNames, CCreateFails, NoDaemon, daemon
    <3>2. PICK to \in {"nospace", "over"} : MovesTo(to)
      BY <2>6 DEF CRunsOutOfNames, CCreateFails, Goes
    <3> QED BY <1>2, <3>1, <3>2, MovesOnKeepSlotted
  <2>7. CASE CConnects(c)
    <3>1. at[c] = "connect" /\ Quiet /\ UNCHANGED <<no, gname>>
      BY <2>7 DEF CConnects, NoDaemon, daemon
    <3>2. PICK to \in {"over", "opening"} : MovesTo(to)
      BY <2>7 DEF CConnects, Goes
    <3>3. \A e \in Sessions \ {c} : qpub'[e] = qpub[e]
      <4>1. UNCHANGED qpub \/ qpub' = [qpub EXCEPT ![c] = bname[DefaultName]]
        BY <2>7 DEF CConnects
      <4>2. qpub \in [Sessions -> Daemons \cup {None}]
        BY DEF LifecycleInv, ServiceInv, ServiceTypes
      <4> QED BY <4>1, <4>2
    <3> QED BY <1>2, <3>1, <3>2, <3>3, MovesOnKeepSlotted
  <2>8. CASE CGivesUp(c)
    <3>1. at[c] = "giveup" /\ MovesTo("over") /\ Quiet /\ UNCHANGED <<no, qpub>>
          /\ gname' = [gname EXCEPT ![no[c]] = None]
      BY <2>8 DEF CGivesUp, Goes, NoDaemon, daemon
    <3>2. no[c] \in Slots /\ gname[no[c]] = c
      BY <3>1 DEF LifecycleInv, SessionInv
    <3>3. \A i \in Slots : gname[i] # c => gname'[i] = gname[i]
      BY <3>1, <3>2 DEF LifecycleInv, SessionInv
    <3> QED BY <1>2, <3>1, <3>3, MovesOnKeepSlotted
  <2>9. CASE CCrashes(c)
    <3>1. qsub[c] # None /\ MovesTo("over") /\ Quiet /\ UNCHANGED <<no, qpub, gname>>
      BY <2>9 DEF CCrashes, Goes, NoDaemon, daemon
    <3>2. at[c] # "over"
      BY <3>1 DEF LifecycleInv, SessionInv
    <3> QED BY <1>2, <3>1, <3>2, MovesOnKeepSlotted
  <2> QED BY <1>4, <2>1, <2>2, <2>3, <2>5, <2>6, <2>7, <2>8, <2>9 DEF SessionStep
<1>5. CASE UNCHANGED vars
  <2>1. /\ UNCHANGED <<ctl, inbox, at, no, qpub, slot, gname, known>>
        /\ \A e \in Daemons : Answering(e)' <=> Answering(e)
    BY <1>5 DEF vars, daemon, session, Answering
  <2>2. RequestsOwed'
    <3>1. \A d \in Daemons : \A r : Owed(d, r) => Owed(d, r)'
      BY <2>1 DEF Owed, OpenIsOwed, CloseIsOwed
    <3>2. \A d \in Daemons : Answering(d)' =>
            NoneTwice(ctl[d]) /\ \A k \in DOMAIN ctl[d] : Owed(d, ctl[d][k])
      BY <1>2, <2>1 DEF Slotted, RequestsOwed
    <3>3. \A d \in Daemons : Answering(d)' =>
            \E q : /\ q = ctl'[d] /\ NoneTwice(q)
                   /\ \A k \in DOMAIN q : Owed(d, q[k])'
      <4> SUFFICES ASSUME NEW d \in Daemons, Answering(d)'
                   PROVE  \E q : /\ q = ctl'[d] /\ NoneTwice(q)
                                 /\ \A k \in DOMAIN q : Owed(d, q[k])'
        OBVIOUS
      <4>1. PICK q : q = ctl[d] /\ q = ctl'[d]
        BY <2>1
      <4>2. NoneTwice(q) /\ \A k \in DOMAIN q : Owed(d, q[k])
        BY <3>2, <4>1
      <4>3. ASSUME NEW k \in DOMAIN q PROVE Owed(d, q[k])'
        <5>1. PICK r : r = q[k]
          OBVIOUS
        <5>2. Owed(d, r)'
          BY <3>1, <4>2, <5>1
        <5> QED BY <5>1, <5>2
      <4> QED BY <4>1, <4>2, <4>3
    <3> QED BY <3>3, RequestsOwedIf
  <2>3. OneAnswer' <=> OneAnswer
    BY <2>1 DEF OneAnswer
  <2>4. SlotIsKnown' <=> SlotIsKnown
    BY <1>5 DEF vars, daemon, session, SlotIsKnown, Answering
  <2> QED BY <1>2, <2>2, <2>3, <2>4 DEF Slotted
<1> QED BY <1>3, <1>4, <1>5 DEF Next

\* As long as no session abandons its OPEN, requests and answers in flight are owed.
THEOREM SlottedAlways == Spec => [](LifecycleInv /\ SlottedInv)
<1>1. Init => SlottedInv
  <2> SUFFICES ASSUME Init PROVE Slotted
    BY DEF SlottedInv
  <2> QED
    BY DEF Init, Slotted, RequestsOwed, OneAnswer, SlotIsKnown, Answering
<1>2. SlottedInv /\ LifecycleInv /\ [Next]_vars => SlottedInv'
  BY SlottedNext
<1> QED BY <1>1, <1>2, LifecycleAlways, PTL DEF Spec

(***************************************************************************)
(* As long as no session abandons its OPEN, a session that is ready has    *)
(* its slot at its broker while that serves, whatever number of sessions   *)
(* and brokers start, crash, give names back or take them from each other  *)
(* (psmq.c:402-451, broker.c:404-425).                                     *)
(***************************************************************************)
THEOREM SlotIsOursAlways == Spec => []SlotIsOurs
<1>1. LifecycleInv /\ SlottedInv => SlotIsOurs
  BY DEF LifecycleInv, SessionInv, SlottedInv, Slotted, SlotIsKnown, Answering, SlotIsOurs
<1> QED BY <1>1, SlottedAlways, PTL
=============================================================================
