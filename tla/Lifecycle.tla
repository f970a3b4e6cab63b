----------------------------- MODULE Lifecycle -----------------------------
(***************************************************************************)
(* Processes that come and go: psmqd from main() to its exit (psmqd.c,     *)
(* cfg.c, psmqd_broker_init and _cleanup in broker.c) and programs from    *)
(* psmq_init, with a queue name the library generates, to psmq_cleanup.    *)
(* Several daemons may be started, on one name or on different ones, be    *)
(* interrupted at any moment, or crash.                                    *)
(*                                                                         *)
(* A message queue is named here by the process that created it, and a     *)
(* name in the system stands for a queue or for None.  Each process runs   *)
(* once; a restart is another member of Daemons or Sessions.  Of the       *)
(* broker's service only OPEN and CLOSE are here, the rest is in Broker.   *)
(***************************************************************************)
EXTENDS Naturals, Integers, Sequences, SequencesExt

CONSTANTS
  Daemons,      \* runs of psmqd
  Sessions,     \* calls of psmq_init, each with the session it begins
  None,         \* no process, no queue
  Left,         \* a queue that some earlier program left under its name
  LeftNames,    \* sets of numbers of such names, as they may be at the start
  Args,         \* command lines of psmqd, sequences of options
  BrokerNames,  \* names a control queue can have
  DefaultName,  \* PSMQD_DEFAULT_QNAME, "/psmqd"
  MaxClients,   \* PSMQ_MAX_CLIENTS: slots of a broker and names for clients
  ControlMax,   \* room in a control queue
  MqMsgMax,     \* the most messages the system lets a queue have
  IntMax,       \* INT_MAX
  Tries         \* how often psmqd_broker_init tries to open its queue, 10 in the code

Slots == 0..MaxClients-1

ASSUME LifecycleAssumption ==
  /\ MaxClients \in Nat /\ MaxClients > 0
  /\ Tries \in Nat /\ Tries > 0 /\ ControlMax \in Nat
  /\ DefaultName \in BrokerNames
  /\ None \notin Daemons /\ None \notin Sessions
  /\ Left \notin Sessions /\ Left # None /\ LeftNames \subseteq SUBSET Slots

VARIABLES
  place,    \* where in main() a daemon is
  flag,     \* g_psmqd_shutdown
  cfg,      \* g_psmqd_cfg
  try,      \* psmqd_broker_init's i
  ctl,      \* requests in the control queue a daemon created
  known,    \* clients[].mq: the queue a slot of a daemon stands for
  bname,    \* the control queue a name stands for
  at,       \* where in the library a session is
  no,       \* number in the name the session's queue has or would have
  qsub,     \* the queue the session reads
  qpub,     \* the control queue it writes to
  slot,     \* struct psmq's fd
  inbox,    \* answers to OPEN in the queue a session created
  gname,    \* the queue that the name /psmqcNNN stands for
  crashed,  \* (auxiliary) some daemon crashed
  late,     \* (auxiliary) once a daemon past "reset" was told to stop, 1 + requests since
  abandoned \* (auxiliary) some session stopped waiting for the answer to its OPEN

daemon  == <<place, flag, late, cfg, try, known>>
session == <<at, no, qsub, qpub, slot>>
vars    == <<daemon, ctl, bname, session, inbox, gname, crashed, abandoned>>
-----------------------------------------------------------------------------
(* The command line, psmqd_cfg_init.                                       *)

Defaults == [ret |-> 0, log_level |-> 6, broker_maxmsg |-> 10,
             broker_name |-> DefaultName, remove_queue |-> FALSE]

\* PARSE_INT: a number with nothing behind it, from min to max.
ParseInt(c, field, o, min, max) ==
  IF o.whole /\ min <= o.num /\ o.num <= max THEN [c EXCEPT ![field] = o.num]
  ELSE [c EXCEPT !.ret = -1]

\* One turn of getopt's loop; parsing ends at the first option that makes ret non-zero.
ParseOption(c, o) ==
  CASE c.ret # 0       -> c
    [] o.opt = "l"     -> ParseInt(c, "log_level", o, 0, 7)
    [] o.opt = "m"     -> ParseInt(c, "broker_maxmsg", o, 0, IntMax)
    [] o.opt = "b"     -> [c EXCEPT !.broker_name = o.name]
    [] o.opt = "r"     -> [c EXCEPT !.remove_queue = TRUE]
    [] o.opt \in {"c", "p"} -> c
    [] o.opt = "h"     -> [c EXCEPT !.ret = -2]
    [] o.opt = "v"     -> [c EXCEPT !.ret = -3]
    [] o.opt = "noarg" -> [c EXCEPT !.ret = -4]
    [] OTHER           -> [c EXCEPT !.ret = -5]

CfgInit(args) == FoldLeft(ParseOption, Defaults, args)

ASSUME ArgsAssumption ==
  \A args \in Args : /\ CfgInit(args).broker_name \in BrokerNames
                     /\ CfgInit(args).remove_queue \in BOOLEAN

Init ==
  /\ place = [d \in Daemons |-> "reset"] /\ late = [d \in Daemons |-> 0]
  /\ flag = [d \in Daemons |-> FALSE]
  /\ cfg = [d \in Daemons |-> Defaults] /\ try = [d \in Daemons |-> 1]
  /\ ctl = [d \in Daemons |-> <<>>]
  /\ known = [d \in Daemons |-> [s \in Slots |-> None]]
  /\ bname = [n \in BrokerNames |-> None]
  /\ at = [c \in Sessions |-> "naming"] /\ no = [c \in Sessions |-> 0]
  /\ qsub = [c \in Sessions |-> None] /\ qpub = [c \in Sessions |-> None]
  /\ slot = [c \in Sessions |-> 0] /\ inbox = [c \in Sessions |-> <<>>]
  /\ \E left \in LeftNames : gname = [i \in Slots |-> IF i \in left THEN Left ELSE None]
  /\ crashed = FALSE /\ abandoned = FALSE
-----------------------------------------------------------------------------
(* main() of psmqd.                                                        *)

Moves(d, to)  == place' = [place EXCEPT ![d] = to]
NoSession     == UNCHANGED <<session, gname, abandoned>>
Unlinks(name) == bname' = [bname EXCEPT ![name] = None]
Forgets(d)    == known' = [known EXCEPT ![d] = [s \in Slots |-> None]]

\* sigint_handler, at any moment from sigaction until the process is gone.
DSignal(d) ==
  /\ place[d] # "down"
  /\ flag' = [flag EXCEPT ![d] = TRUE]
  /\ late' = [late EXCEPT ![d] = IF place[d] # "reset" /\ @ = 0 THEN 1 ELSE @]
  /\ UNCHANGED <<place, cfg, try, known, ctl, bname, inbox, crashed>> /\ NoSession

DResetsFlag(d) ==
  /\ place[d] = "reset" /\ Moves(d, "options")
  /\ flag' = [flag EXCEPT ![d] = FALSE]
  /\ UNCHANGED <<late, cfg, try, known, ctl, bname, inbox, crashed>> /\ NoSession

\* Help, version and mistakes end the program before it touches any queue.
DReadsOptions(d) ==
  /\ place[d] = "options"
  /\ \E args \in Args : cfg' = [cfg EXCEPT ![d] = CfgInit(args)]
  /\ Moves(d, IF cfg'[d].ret = 0 THEN "remove" ELSE "down")
  /\ UNCHANGED <<flag, late, try, known, ctl, bname, inbox, crashed>> /\ NoSession

\* psmqd_broker_init: with -r, mq_unlink of the name, whichever queue it stands for.
DRemoves(d) ==
  /\ place[d] = "remove" /\ Moves(d, "open")
  /\ IF cfg[d].remove_queue THEN Unlinks(cfg[d].broker_name) ELSE UNCHANGED bname
  /\ UNCHANGED <<flag, late, cfg, try, known, ctl, inbox, crashed>> /\ NoSession

\* mq_open with O_CREAT | O_EXCL.
CanCreate(d) ==
  bname[cfg[d].broker_name] = None /\ cfg[d].broker_maxmsg \in 1..MqMsgMax

\* Mutant of DOpens: the shutdown flag is reset once the broker is up.
DOpensResetsFlag(d) ==
  /\ place[d] = "open" /\ CanCreate(d) /\ Moves(d, "check")
  /\ bname' = [bname EXCEPT ![cfg[d].broker_name] = d]
  /\ flag' = [flag EXCEPT ![d] = FALSE]
  /\ UNCHANGED <<late, cfg, try, known, ctl, inbox, crashed>> /\ NoSession

DOpens(d) ==
  /\ place[d] = "open" /\ CanCreate(d) /\ Moves(d, "check")
  /\ bname' = [bname EXCEPT ![cfg[d].broker_name] = d]
  /\ UNCHANGED <<flag, late, cfg, try, known, ctl, inbox, crashed>> /\ NoSession

\* Mutant of DFailsToOpen: the way out of main goes through psmqd_broker_cleanup.
DFailsAndCleansUp(d) ==
  /\ place[d] = "open"
  /\ IF try[d] < Tries
     THEN try' = [try EXCEPT ![d] = @ + 1] /\ UNCHANGED <<place, bname>>
     ELSE Moves(d, "down") /\ Unlinks(cfg[d].broker_name) /\ UNCHANGED try
  /\ UNCHANGED <<flag, late, cfg, known, ctl, inbox, crashed>> /\ NoSession

\* Mutant of DFailsToOpen: one try too many.
DTriesOnceMore(d) ==
  /\ place[d] = "open"
  /\ IF try[d] <= Tries THEN try' = [try EXCEPT ![d] = @ + 1] /\ UNCHANGED place
     ELSE Moves(d, "down") /\ UNCHANGED try
  /\ UNCHANGED <<flag, late, cfg, known, ctl, bname, inbox, crashed>> /\ NoSession

\* mq_open may fail for want of memory or descriptors as well.  After the last try main
\* returns without a cleanup: the name may be another daemon's.
DFailsToOpen(d) ==
  /\ place[d] = "open"
  /\ IF try[d] < Tries THEN try' = [try EXCEPT ![d] = @ + 1] /\ UNCHANGED place
     ELSE Moves(d, "down") /\ UNCHANGED try
  /\ UNCHANGED <<flag, late, cfg, known, ctl, bname, inbox, crashed>> /\ NoSession

\* psmqd_broker_start looks at the flag, then waits for a request.
DChecksFlag(d) ==
  /\ place[d] = "check" /\ Moves(d, IF flag[d] THEN "cleanup" ELSE "receive")
  /\ UNCHANGED <<flag, late, cfg, try, known, ctl, bname, inbox, crashed>> /\ NoSession

\* EINTR, or nothing came for five seconds.
DWaitsInVain(d) ==
  /\ place[d] = "receive" /\ ctl[d] = <<>> /\ Moves(d, "check")
  /\ UNCHANGED <<flag, late, cfg, try, known, ctl, bname, inbox, crashed>> /\ NoSession

\* psmqd_broker_open by the name in the request; a queue that is gone gets no answer.
Opens(d, i) ==
  LET q    == gname[i]
      free == {s \in Slots : known[d][s] = None}
      s    == CHOOSE x \in free : \A y \in free : x <= y
  IN  IF q = None THEN UNCHANGED <<known, inbox>>
      ELSE IF free = {} THEN /\ inbox' = [inbox EXCEPT ![q] = Append(@, None)]
                             /\ UNCHANGED known
      ELSE /\ inbox' = [inbox EXCEPT ![q] = Append(@, s)]
           /\ known' = [known EXCEPT ![d][s] = q]

DServes(d) ==
  /\ place[d] = "receive" /\ ctl[d] # <<>> /\ Moves(d, "check")
  /\ LET r == Head(ctl[d])
     IN  IF r.cmd = "open" THEN Opens(d, r.arg)
         ELSE known' = [known EXCEPT ![d][r.arg] = None] /\ UNCHANGED inbox
  /\ ctl' = [ctl EXCEPT ![d] = Tail(@)]
  /\ late' = [late EXCEPT ![d] = IF @ = 0 THEN 0 ELSE @ + 1]
  /\ UNCHANGED <<flag, cfg, try, bname, crashed>> /\ NoSession

\* psmqd_broker_cleanup closes all clients (Broker has that slot by slot) and the control queue.
DCleansUp(d) ==
  /\ place[d] = "cleanup" /\ Moves(d, "unlink")
  /\ Forgets(d)
  /\ UNCHANGED <<flag, late, cfg, try, ctl, bname, inbox, crashed>> /\ NoSession

\* Mutant of DUnlinks: the control queue keeps its name.
DUnlinksNot(d) ==
  /\ place[d] = "unlink" /\ Moves(d, "down")
  /\ UNCHANGED <<flag, late, cfg, try, known, ctl, bname, inbox, crashed>> /\ NoSession

\* mq_unlink of the name, whichever queue it stands for by now.
DUnlinks(d) ==
  /\ place[d] = "unlink" /\ Moves(d, "down")
  /\ Unlinks(cfg[d].broker_name)
  /\ UNCHANGED <<flag, late, cfg, try, known, ctl, inbox, crashed>> /\ NoSession

DCrashes(d) ==
  /\ place[d] # "down" /\ Moves(d, "down")
  /\ Forgets(d) /\ crashed' = TRUE
  /\ UNCHANGED <<flag, late, cfg, try, ctl, bname, inbox>> /\ NoSession

DaemonStep(d) ==
  \/ DResetsFlag(d) \/ DReadsOptions(d) \/ DRemoves(d) \/ DOpens(d) \/ DFailsToOpen(d)
  \/ DChecksFlag(d) \/ DWaitsInVain(d) \/ DServes(d)
  \/ DCleansUp(d) \/ DUnlinks(d)
-----------------------------------------------------------------------------
(* psmq_init with a generated name, and psmq_cleanup.                      *)

Goes(c, to) == at' = [at EXCEPT ![c] = to]
NoDaemon    == UNCHANGED <<daemon, bname, crashed, abandoned>>
Closes(c)   == qsub' = [qsub EXCEPT ![c] = None]
Sends(c, r) == /\ Len(ctl[qpub[c]]) < ControlMax
               /\ ctl' = [ctl EXCEPT ![qpub[c]] = Append(@, r)]

\* Mutant of CTriesName: no O_EXCL, the queue is created or, if it exists, just opened.
CTriesNameShared(c) ==
  /\ at[c] = "naming" /\ no[c] < MaxClients /\ Goes(c, "connect")
  /\ LET q == IF gname[no[c]] = None THEN c ELSE gname[no[c]]
     IN  qsub' = [qsub EXCEPT ![c] = q] /\ gname' = [gname EXCEPT ![no[c]] = q]
  /\ UNCHANGED <<no, ctl, qpub, slot, inbox>> /\ NoDaemon

\* mq_open with O_EXCL of /psmqc000, /psmqc001, ... until one is free.
CTriesName(c) ==
  /\ at[c] = "naming" /\ no[c] < MaxClients
  /\ IF gname[no[c]] = None
     THEN /\ Goes(c, "connect")
          /\ qsub' = [qsub EXCEPT ![c] = c] /\ gname' = [gname EXCEPT ![no[c]] = c]
          /\ UNCHANGED no
     ELSE no' = [no EXCEPT ![c] = @ + 1] /\ UNCHANGED <<at, qsub, gname>>
  /\ UNCHANGED <<ctl, qpub, slot, inbox>> /\ NoDaemon

\* All names are taken: ENOSPC.
CRunsOutOfNames(c) ==
  /\ at[c] = "naming" /\ no[c] = MaxClients /\ Goes(c, "nospace")
  /\ UNCHANGED <<no, qsub, qpub, slot, ctl, inbox, gname>> /\ NoDaemon

\* mq_open fails otherwise, for want of memory or descriptors.
CCreateFails(c) ==
  /\ at[c] = "naming" /\ no[c] < MaxClients /\ Goes(c, "over")
  /\ UNCHANGED <<no, qsub, qpub, slot, ctl, inbox, gname>> /\ NoDaemon

\* mq_open of the control queue; when it fails, as it does when there is none, the client's
\* queue keeps its name.
CConnects(c) ==
  /\ at[c] = "connect"
  /\ \/ Goes(c, "over") /\ Closes(c) /\ UNCHANGED qpub
     \/ /\ bname[DefaultName] # None /\ qpub' = [qpub EXCEPT ![c] = bname[DefaultName]]
        /\ Goes(c, "opening") /\ UNCHANGED qsub
  /\ UNCHANGED <<no, slot, ctl, inbox, gname>> /\ NoDaemon

CSendsOpen(c) ==
  /\ at[c] = "opening" /\ Goes(c, "wait")
  /\ Sends(c, [cmd |-> "open", arg |-> no[c]])
  /\ UNCHANGED <<no, qsub, qpub, slot, inbox, gname>> /\ NoDaemon

\* Mutant of CReceives: the slot in the answer is not kept.
CReceivesNoSlot(c) ==
  /\ at[c] = "wait" /\ inbox[qsub[c]] # <<>>
  /\ Goes(c, IF Head(inbox[qsub[c]]) = None THEN "giveup" ELSE "ready")
  /\ inbox' = [inbox EXCEPT ![qsub[c]] = Tail(@)]
  /\ UNCHANGED <<slot, no, qsub, qpub, ctl, gname>> /\ NoDaemon

\* The first answer to OPEN, a slot or ENOSPC.
CReceives(c) ==
  /\ at[c] = "wait" /\ inbox[qsub[c]] # <<>>
  /\ LET answer == Head(inbox[qsub[c]])
     IN  IF answer = None THEN Goes(c, "giveup") /\ UNCHANGED slot
         ELSE Goes(c, "ready") /\ slot' = [slot EXCEPT ![c] = answer]
  /\ inbox' = [inbox EXCEPT ![qsub[c]] = Tail(@)]
  /\ UNCHANGED <<no, qsub, qpub, ctl, gname>> /\ NoDaemon

\* Nothing came for 30 seconds.
CTimesOut(c) ==
  /\ at[c] = "wait" /\ inbox[qsub[c]] = <<>> /\ Goes(c, "giveup")
  /\ abandoned' = TRUE
  /\ UNCHANGED <<no, qsub, qpub, slot, ctl, inbox, gname, daemon, bname, crashed>>

\* psmq_init_wq's error path closes both queues and unlinks its own.
CGivesUp(c) ==
  /\ at[c] = "giveup" /\ Goes(c, "over") /\ Closes(c)
  /\ gname' = [gname EXCEPT ![no[c]] = None]
  /\ UNCHANGED <<no, qpub, slot, ctl, inbox>> /\ NoDaemon

\* psmq_cleanup sends CLOSE and closes both queues; the name stays in the system.
CCleansUp(c) ==
  /\ at[c] = "ready" /\ Goes(c, "over") /\ Closes(c)
  /\ Sends(c, [cmd |-> "close", arg |-> slot[c]])
  /\ UNCHANGED <<no, qpub, slot, inbox, gname>> /\ NoDaemon

CCrashes(c) ==
  /\ qsub[c] # None /\ Goes(c, "over") /\ Closes(c)
  /\ UNCHANGED <<no, qpub, slot, ctl, inbox, gname>> /\ NoDaemon

SessionStep(c) ==
  \/ CTriesName(c) \/ CRunsOutOfNames(c) \/ CCreateFails(c) \/ CConnects(c) \/ CSendsOpen(c)
  \/ CReceives(c) \/ CTimesOut(c) \/ CGivesUp(c) \/ CCleansUp(c) \/ CCrashes(c)

Next ==
  \/ \E d \in Daemons : DSignal(d) \/ DaemonStep(d) \/ DCrashes(d)
  \/ \E c \in Sessions : SessionStep(c)

Spec == Init /\ [][Next]_vars
-----------------------------------------------------------------------------
(* Properties.                                                             *)

Places == {"reset", "options", "remove", "open", "check", "receive", "cleanup", "unlink",
           "down"}

TypeOK ==
  /\ place \in [Daemons -> Places] /\ flag \in [Daemons -> BOOLEAN]
  /\ try \in [Daemons -> 1..Tries] /\ late \in [Daemons -> Nat]
  /\ \A d \in Daemons :
       /\ Len(ctl[d]) <= ControlMax
       /\ cfg[d].broker_name \in BrokerNames /\ cfg[d].remove_queue \in BOOLEAN
  /\ known \in [Daemons -> [Slots -> Sessions \cup {None}]]
  /\ bname \in [BrokerNames -> Daemons \cup {None}]
  /\ at \in [Sessions -> {"naming", "connect", "opening", "wait", "ready", "giveup",
                          "nospace", "over"}]
  /\ no \in [Sessions -> 0..MaxClients] /\ slot \in [Sessions -> Slots]
  /\ qsub \in [Sessions -> Sessions \cup {None}]
  /\ qpub \in [Sessions -> Daemons \cup {None}]
  /\ gname \in [Slots -> Sessions \cup {None, Left}]
  /\ crashed \in BOOLEAN /\ abandoned \in BOOLEAN

Serving(d) == place[d] \in {"check", "receive", "cleanup", "unlink"}
NoRemoval  == \A d \in Daemons : ~cfg[d].remove_queue

(***************************************************************************)
(* Unless somebody uses -r, a daemon that serves can be reached under its  *)
(* name, whatever other daemons are started on that name, fail, crash or   *)
(* exit beside it (broker.c:899-913, psmqd.c:153-166).                     *)
(***************************************************************************)
NameIsServed ==
  NoRemoval => \A d \in Daemons : Serving(d) => bname[cfg[d].broker_name] = d

(***************************************************************************)
(* As long as no daemon crashes, a name never outlives the daemon that     *)
(* created its queue, so the next psmqd needs no -r; not even when -r took *)
(* the name from a daemon that was still running (broker.c:1077-1079).     *)
(***************************************************************************)
NoLeftover ==
  ~crashed => \A n \in BrokerNames : bname[n] # None => Serving(bname[n])

(***************************************************************************)
(* While a session has its queue, nobody else reads that queue, and the    *)
(* name it sends to the broker stands for it, whatever names sessions left *)
(* behind or gave back (psmq.c:453-474, 570-590).                          *)
(***************************************************************************)
QueueIsOurs ==
  \A c \in Sessions : qsub[c] # None =>
    /\ gname[no[c]] = qsub[c]
    /\ \A e \in Sessions \ {c} : qsub[e] # qsub[c]

(***************************************************************************)
(* As long as no session stops waiting for its answer, a session that      *)
(* psmq_init declared ready has the slot it thinks it has, at the broker   *)
(* it writes to, while that broker serves: sessions that crash, brokers    *)
(* that crash, restart or lose their name come nowhere near it.  (The OPEN *)
(* a session abandons is answered to the next session under its name, and  *)
(* that one may by then be connected to another broker; psmq.c:402-451.)   *)
(***************************************************************************)
SlotIsOurs ==
  ~abandoned =>
    \A c \in Sessions : at[c] = "ready" /\ place[qpub[c]] \in {"check", "receive"}
                          => known[qpub[c]][slot[c]] = qsub[c]

(***************************************************************************)
(* A daemon that was told to stop handles one more request at most, though *)
(* the signal comes while it starts up, or between the look at the flag    *)
(* and the wait for a request (broker.c:942-977); only a signal that comes *)
(* before psmqd.c:103 is forgotten.  ShutdownCompletes of Broker has the   *)
(* rest: a broker that stops handling requests exits.                      *)
(***************************************************************************)
StopsSoon == \A d \in Daemons : late[d] <= 2
-----------------------------------------------------------------------------
(***************************************************************************)
(* psmq_init.3:141: ENOSPC says that the broker is full of clients, and    *)
(* goes away when any of them disconnects.  So when psmq_init says it and  *)
(* the broker is there, all its slots are taken, or at least all names     *)
(* belong to sessions that are about to take them.  Names come back        *)
(* neither with psmq_cleanup nor with a failed connection (psmq.c:571-597).*)
(***************************************************************************)
NoSpaceMeansFull ==
  [][\A c \in Sessions, d \in Daemons :
       (/\ at[c] = "naming" /\ at'[c] = "nospace"
        /\ bname[DefaultName] = d /\ place[d] \in {"check", "receive"})
       => \/ \A s \in Slots : known[d][s] # None
          \/ \A i \in Slots : \E e \in Sessions : qsub[e] # None /\ gname[i] = qsub[e]]_vars
=============================================================================
