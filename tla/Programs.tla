------------------------------ MODULE Programs ------------------------------
(***************************************************************************)
(* psmq-sub and psmq-pub, the programs that come with the library, against *)
(* the broker of System.  A program is sequential and makes its calls in   *)
(* the order of its main(); it is killed, interrupted by SIGINT or SIGTERM *)
(* and, psmq-sub, told to flush by SIGUSR1 at any moment, and started      *)
(* again.  Each step is a step of System together with a move of main().   *)
(***************************************************************************)
EXTENDS System, Integers

CONSTANTS
  Subs,        \* the clients that are psmq-sub; the others are psmq-pub
  Lines,       \* command lines of psmq-sub, sequences of options
  Publishes,   \* what psmq-pub publishes, run after run: <<topic, prio>>
  MaxRuns      \* bound: how often psmq-sub is started

Pubs == Clients \ Subs

\* -t topic, -b broker, -o logfile and, for all that end main() at once, -h.
CommandOptions == [opt : {"t"}, arg : Filters] \cup [opt : {"b", "o", "h"}, arg : STRING]

\* A program that leaves main() without psmq_cleanup is, for System, one that crashed.
ASSUME ProgramsAssumption ==
  /\ Subs \subseteq Clients /\ MaxRuns \in Nat
  /\ Lines \subseteq Seq(CommandOptions)
  /\ \A line \in Lines : \A i \in DOMAIN line : line[i].opt = "h" => "crash" \in Calls
  /\ Publishes \in Seq(Topics \X Prios)

VARIABLES
  argv,     \* the command line of a psmq-sub
  prog,     \* where in main() a program is
  opt,      \* psmq-sub: the option it is at, getopt's optind
  run,      \* psmq-sub's run, cleared by SIGINT and SIGTERM
  flush,    \* psmq-sub's flush, set by SIGUSR1
  runs,     \* times a program was started
  left,     \* (auxiliary) messages a psmq-sub that was told to stop may still take
  unclean,  \* (auxiliary) a program was killed, or left before it could send CLOSE
  unread    \* (auxiliary) ... or before it read the answer to its OPEN

pown  == <<argv, prog, opt, run, flush, runs, left, unclean, unread>>
pvars == <<svars, pown>>

PInit ==
  /\ SInit
  /\ argv = [c \in Subs |-> <<>>] /\ prog = [c \in Clients |-> "off"] /\ opt = [c \in Subs |-> 1]
  /\ run = [c \in Subs |-> FALSE] /\ flush = [c \in Subs |-> FALSE]
  /\ runs = [c \in Clients |-> 0]
  /\ left = [c \in Subs |-> 0]
  /\ unclean = FALSE /\ unread = FALSE

MovesTo(c, p) == prog' = [prog EXCEPT ![c] = p]
OtherwiseAs   == UNCHANGED <<argv, runs, unclean, unread, evicted>>
SubAsBefore   == UNCHANGED <<opt, run, flush, left>>
NoCall        == UNCHANGED <<vars, own>>

\* A handler ran: a call that was blocked may return EINTR.  (One that was only about to
\* block blocks all the same.)
Interrupted(c) == ~run[c] \/ flush[c]
Options(c) == argv[c]
AtOption(c, o) == prog[c] = "options" /\ opt[c] \in DOMAIN Options(c) /\ Options(c)[opt[c]].opt = o
AtEnd(c)   == prog[c] = "options" /\ opt[c] = Len(Options(c)) + 1
Seen(c, o) == \E i \in 1..opt[c]-1 : Options(c)[i].opt = o
\* Mutant of NextOption: the argument of an option is taken for an option as well.
NextOptionSkips(c) == opt' = [opt EXCEPT ![c] = @ + 2] /\ UNCHANGED prog

NextOption(c) == opt' = [opt EXCEPT ![c] = @ + 1] /\ UNCHANGED prog
-----------------------------------------------------------------------------
(* What both programs do: connect, clean up, unlink, die.                  *)

\* psmq_init_named returns: psmq-sub is done with its option if that was -b, and still has
\* to subscribe if it was -t; without a connection a program exits.
Connects(c) ==
  LET atB == c \in Subs /\ Options(c)[opt[c]].opt = "b"
  IN  /\ MovesTo(c, CASE at'[c] = "ready" /\ c \in Subs -> "options"
                      [] at'[c] = "ready" /\ c \in Pubs -> "publish"
                      [] at'[c] = "idle" -> "off"
                      [] OTHER -> "connecting")
      /\ opt' = IF at'[c] = "ready" /\ atB THEN [opt EXCEPT ![c] = @ + 1] ELSE opt

\* psmq_init_named is on its way in the library.
Connecting(c) ==
  /\ prog[c] = "connecting"
  /\ InitCreate(c) \/ InitCreateFails(c) \/ InitConnect(c) \/ InitReceive(c) \/ InitGivesUp(c)
  /\ Connects(c)
  /\ UNCHANGED <<run, flush, left>> /\ OtherwiseAs

ConnectingSends(c) ==
  /\ prog[c] = "connecting" /\ InitSendOpen(c)
  /\ UNCHANGED pown /\ UNCHANGED evicted

\* It is interrupted, or nothing comes for 30 seconds: what it sent is answered to nobody.
ConnectingFails(c) ==
  /\ prog[c] = "connecting"
  /\ InitTimesOut(c) \/ ((c \in Subs => Interrupted(c)) /\ InitInterrupted(c))
  /\ unclean' = TRUE /\ unread' = (unread \/ at[c] = "wait")
  /\ UNCHANGED <<argv, prog, runs, evicted>> /\ SubAsBefore

\* psmq_cleanup, on the way to a regular exit or, from main()'s error paths, to an exit
\* that leaves the queue's name in the system.
CleansUp(c) ==
  /\ prog[c] \in {"done", "failed", "invalid"} /\ CallCleanup(c)
  /\ MovesTo(c, IF prog[c] = "done" THEN "leaving" ELSE "aborting")
  /\ SubAsBefore /\ OtherwiseAs

CleanedUp(c) == MovesTo(c, IF prog[c] = "leaving" THEN "unlink" ELSE "off")

SendsClose(c) ==
  /\ prog[c] \in {"leaving", "aborting"} /\ CleanupSendsClose(c)
  /\ CleanedUp(c)
  /\ SubAsBefore /\ OtherwiseAs

\* A second signal while psmq_cleanup waits for room: the broker never learns of the exit.
CloseInterrupted(c) ==
  /\ prog[c] \in {"leaving", "aborting"} /\ CleanupInterrupted(c)
  /\ CleanedUp(c)
  /\ unclean' = TRUE
  /\ SubAsBefore /\ UNCHANGED <<argv, runs, unread, evicted>>

Unlinks(c) ==
  /\ prog[c] = "unlink" /\ MovesTo(c, "off")
  /\ AppUnlink(c) \/ (names[c] = NoQueue /\ NoCall)
  /\ SubAsBefore /\ OtherwiseAs

Killed(c) ==
  /\ prog[c] # "off" /\ Crash(c)
  /\ MovesTo(c, "off") /\ unclean' = TRUE /\ unread' = (unread \/ at[c] = "wait")
  /\ SubAsBefore /\ UNCHANGED <<argv, runs, evicted>>
-----------------------------------------------------------------------------
(* psmq-sub.                                                               *)

\* The process is there and its handlers are installed, run and flush are still 0.
SubStarts(c) ==
  /\ prog[c] = "off" /\ runs[c] < MaxRuns
  /\ \E line \in Lines : argv' = [argv EXCEPT ![c] = line]
  /\ MovesTo(c, "starting") /\ opt' = [opt EXCEPT ![c] = 1]
  /\ run' = [run EXCEPT ![c] = FALSE] /\ flush' = [flush EXCEPT ![c] = FALSE]
  /\ runs' = [runs EXCEPT ![c] = @ + 1]
  /\ left' = [left EXCEPT ![c] = 0]
  /\ NoCall /\ UNCHANGED <<unclean, unread, evicted>>

\* flush = 0 and run = 1: a signal that came before is forgotten.
SubInitialises(c) ==
  /\ prog[c] = "starting" /\ MovesTo(c, "options")
  /\ run' = [run EXCEPT ![c] = TRUE] /\ flush' = [flush EXCEPT ![c] = FALSE]
  /\ NoCall /\ UNCHANGED <<opt, left>> /\ OtherwiseAs

\* psmq_sub_connect, for -b or for the first -t without one.
SubConnects(c) ==
  /\ ~Seen(c, "b") /\ ~Seen(c, "t")
  /\ AtOption(c, "b") \/ AtOption(c, "t")
  /\ at[c] = "idle" /\ InitUnlink(c) /\ MovesTo(c, "connecting")
  /\ SubAsBefore /\ OtherwiseAs

\* A second -b is ignored.
SubConnectsNoMore(c) ==
  /\ AtOption(c, "b") /\ at[c] = "ready" /\ NextOption(c)
  /\ NoCall /\ UNCHANGED <<run, flush, left>> /\ OtherwiseAs

\* -o: opening the log file may fail.  Without a connection psmq_cleanup refuses the handle.
SubLogs(c) ==
  /\ AtOption(c, "o")
  /\ \/ NextOption(c)
     \/ MovesTo(c, IF at[c] = "ready" THEN "failed" ELSE "off") /\ UNCHANGED opt
  /\ NoCall /\ UNCHANGED <<run, flush, left>> /\ OtherwiseAs

\* -h, -v and what getopt does not know end main() on the spot, connected or not.
SubQuits(c) ==
  /\ AtOption(c, "h") /\ MovesTo(c, "off")
  /\ EndsSession(c) /\ UNCHANGED vars
  /\ unclean' = (unclean \/ at[c] = "ready")
  /\ SubAsBefore /\ UNCHANGED <<argv, runs, unread, evicted>>

\* Mutant of SubSubscribes: the reply timeout is set first, and its answer is not awaited.
SubSubscribesLast(c) ==
  /\ AtOption(c, "t") /\ CallIoctl(c, "positive") /\ MovesTo(c, "ack")
  /\ SubAsBefore /\ OtherwiseAs

SubSubscribes(c) ==
  /\ AtOption(c, "t") /\ CallSubscribe(c, Options(c)[opt[c]].arg) /\ MovesTo(c, "ack")
  /\ SubAsBefore /\ OtherwiseAs

\* The reply is taken for the acknowledgement, and any error but EBADMSG for success.
AckAccepted(m) == m.cmd = "subscribe" /\ m.data # "EBADMSG"

\* A message is taken: what psmq-sub may still take counts down once run is cleared.
Takes(c) == left' = [left EXCEPT ![c] = IF run[c] THEN @ ELSE @ - 1]

\* The first message after a subscription has to be its acknowledgement.
SubAcked(c) ==
  /\ prog[c] = "ack" /\ CallReceive(c)
  /\ LET m == MqHead(mqs[qsub[c]])
     IN  IF AckAccepted(m) THEN MovesTo(c, "options") /\ opt' = [opt EXCEPT ![c] = @ + 1]
         ELSE MovesTo(c, IF m.cmd = "subscribe" THEN "failed" ELSE "invalid") /\ UNCHANGED opt
  /\ Takes(c)
  /\ UNCHANGED <<run, flush>> /\ OtherwiseAs

\* There was no -t: psmq_cleanup, which refuses a handle that is not connected.
SubHasNoTopic(c) ==
  /\ AtEnd(c) /\ ~Seen(c, "t")
  /\ MovesTo(c, IF at[c] = "ready" THEN "done" ELSE "unlink")
  /\ NoCall /\ SubAsBefore /\ OtherwiseAs

SubSetsTimeout(c) ==
  /\ AtEnd(c) /\ Seen(c, "t") /\ CallIoctl(c, "positive") /\ MovesTo(c, "check")
  /\ SubAsBefore /\ OtherwiseAs

SubChecksRun(c) ==
  /\ prog[c] = "check" /\ MovesTo(c, IF run[c] THEN "receive" ELSE "done")
  /\ NoCall /\ SubAsBefore /\ OtherwiseAs

\* Mutant of AfterMessage: for (;;), with run checked once.
AfterMessageReceives == "receive"

AfterMessage == "check"

\* on_receive: publishes are CLOSE and what it does not know end the program.
SubReceives(c) ==
  /\ prog[c] = "receive" /\ CallReceive(c)
  /\ MovesTo(c, IF MqHead(mqs[qsub[c]]).cmd \in {"publish", "ioctl"} THEN AfterMessage ELSE "done")
  /\ Takes(c)
  /\ UNCHANGED <<opt, run, flush>> /\ OtherwiseAs

\* What psmq-sub takes before it looks at run: the message it is about to receive or, before
\* its main loop, the answers to the -t it is at and to those behind.
MayTake(c) ==
  CASE prog[c] = "receive" -> 1
    [] prog[c] \in {"options", "connecting", "ack"} ->
         Cardinality({i \in opt[c] .. Len(Options(c)) : Options(c)[i].opt = "t"})
    [] OTHER -> 0

\* sigint_handler.  SIGUSR1 asks for a flush, the others for an end.
SubSignal(c) ==
  /\ prog[c] # "off"
  /\ \/ run' = [run EXCEPT ![c] = FALSE] /\ UNCHANGED flush
        /\ left' = [left EXCEPT ![c] = IF run[c] THEN MayTake(c) ELSE @]
     \/ flush' = [flush EXCEPT ![c] = TRUE] /\ UNCHANGED <<run, left>>
  /\ NoCall /\ UNCHANGED <<prog, opt>> /\ OtherwiseAs

\* In the main loop a flush is done and the loop goes on, anything else ends it.
ReceiveInterrupted(c) ==
  /\ prog[c] = "receive" /\ mqs[qsub[c]] = <<>> /\ Interrupted(c)
  /\ IF flush[c] THEN MovesTo(c, "check") /\ flush' = [flush EXCEPT ![c] = FALSE]
     ELSE MovesTo(c, "done") /\ UNCHANGED flush
  /\ NoCall /\ UNCHANGED <<opt, run, left>> /\ OtherwiseAs

\* While it subscribes either signal is an error, and a lost ioctl is none.
SetupInterrupted(c) ==
  /\ Interrupted(c)
  /\ \/ prog[c] = "ack" /\ mqs[qsub[c]] = <<>> /\ MovesTo(c, "failed")
     \/ AtOption(c, "t") /\ at[c] = "ready" /\ MqFull(ctrl, CtrlMax) /\ MovesTo(c, "failed")
     \/ AtEnd(c) /\ Seen(c, "t") /\ MqFull(ctrl, CtrlMax) /\ MovesTo(c, "check")
  /\ NoCall /\ SubAsBefore /\ OtherwiseAs
-----------------------------------------------------------------------------
(* psmq-pub: connect with room for two messages, publish, clean up.        *)

PubStarts(c) ==
  /\ prog[c] = "off" /\ runs[c] < Len(Publishes)
  /\ InitUnlink(c) /\ MovesTo(c, "connecting")
  /\ runs' = [runs EXCEPT ![c] = @ + 1]
  /\ SubAsBefore /\ UNCHANGED <<argv, unclean, unread, evicted>>

PubPublishes(c) ==
  /\ prog[c] = "publish"
  /\ CallPublish(c, Publishes[runs[c]][1], Publishes[runs[c]][2])
  /\ MovesTo(c, "done")
  /\ SubAsBefore /\ OtherwiseAs

\* A signal while it waits for room: the message is lost, the program goes on to its exit.
PubInterrupted(c) ==
  /\ prog[c] = "publish" /\ MqFull(ctrl, CtrlMax) /\ MovesTo(c, "done")
  /\ NoCall /\ SubAsBefore /\ OtherwiseAs
-----------------------------------------------------------------------------
\* Steps a program takes by itself, unless it waits for somebody.
SubMoves(c) ==
  \/ SubInitialises(c)
  \/ SubConnects(c) \/ SubConnectsNoMore(c) \/ SubLogs(c) \/ SubQuits(c)
  \/ SubAcked(c) \/ SubHasNoTopic(c) \/ SubChecksRun(c) \/ SubReceives(c)
Moves(c) == Connecting(c) \/ CleansUp(c) \/ Unlinks(c) \/ (c \in Subs /\ SubMoves(c))

\* Steps that wait for room in the control queue.
SendsRequest(c) ==
  \/ ConnectingSends(c) \/ SendsClose(c)
  \/ c \in Subs /\ (SubSubscribes(c) \/ SubSetsTimeout(c))
  \/ c \in Pubs /\ PubPublishes(c)

\* What happens to it.
Happens(c) ==
  \/ ConnectingFails(c) \/ CloseInterrupted(c) \/ Killed(c)
  \/ c \in Subs /\ (SubStarts(c) \/ SubSignal(c) \/ ReceiveInterrupted(c) \/ SetupInterrupted(c))
  \/ c \in Pubs /\ (PubStarts(c) \/ PubInterrupted(c))

PNext ==
  \/ (BrokerStep \/ SignalStep) /\ UNCHANGED pown
  \/ \E c \in Clients : Moves(c) \/ SendsRequest(c) \/ Happens(c)

PSpec == PInit /\ [][PNext]_pvars

\* As in System: the broker runs, programs run, and who waits for room gets it in turn.
PFairSpec ==
  /\ PSpec
  /\ WF_pvars(BrokerStep /\ UNCHANGED pown)
  /\ \A c \in Clients : WF_pvars(Moves(c)) /\ SF_pvars(SendsRequest(c))
-----------------------------------------------------------------------------
(* Properties.                                                             *)

PTypeOK ==
  /\ prog \in [Clients -> {"off", "starting", "connecting", "options", "ack", "check",
                            "receive", "publish", "done", "failed", "invalid", "leaving",
                            "aborting", "unlink"}]
  /\ argv \in [Subs -> Lines \cup {<<>>}]
  /\ opt \in [Subs -> Nat] /\ \A c \in Subs : opt[c] \in 1..Len(Options(c)) + 1
  /\ run \in [Subs -> BOOLEAN] /\ flush \in [Subs -> BOOLEAN]
  /\ runs \in [Clients -> Nat] /\ left \in [Subs -> Int]
  /\ unclean \in BOOLEAN /\ unread \in BOOLEAN

(***************************************************************************)
(* When nothing is published with a priority, the answer to the first -t   *)
(* comes before anything else, so psmq-sub may insist on it: no message of *)
(* an earlier owner of its slot or its queue name is in between.  Only a   *)
(* broker that evicts or shuts down can be first, or the answer to the     *)
(* OPEN of a program that did not wait for it (psmq-sub.c:378-391).        *)
(***************************************************************************)
FirstAnswerFirst ==
  (\A i \in DOMAIN Publishes : Publishes[i][2] = 0) /\ ~evicted /\ ~shutdown /\ ~unread =>
    \A c \in Subs : prog[c] = "invalid" => Seen(c, "t")

(***************************************************************************)
(* A psmq-sub that is told to stop takes one more message at most, when    *)
(* the signal comes behind its look at run, or, when it is still starting  *)
(* up, the answer to each -t there is left (psmq-sub.c:335-391, 478-507).  *)
(* A signal that comes before psmq-sub.c:317 is forgotten.                 *)
(***************************************************************************)
SubStopsSoon == \A c \in Subs : left[c] >= 0

(***************************************************************************)
(* Programs that come and go in good order leave no slot behind: once they *)
(* are gone and the broker has nothing more to do, all slots are free      *)
(* (psmq.c:660, psmq-sub.c:509, psmq-pub.c:411).                           *)
(***************************************************************************)
SlotsComeBack ==
  ~unclean /\ pc = "receive" /\ ctrl = <<>> /\ (\A c \in Clients : prog[c] = "off") =>
    FreeSlots = Slots

(***************************************************************************)
(* A program that was started gets to its exit or, psmq-sub, to its main   *)
(* loop, while the broker is there: psmq_init and psmq_cleanup return, and *)
(* -t is answered, although the broker waits for other clients' queues,    *)
(* gives up on them, and may have evicted the program and found no room to *)
(* say so (psmq.c:451, 660, psmq-sub.c:378, reply_timeout).                *)
(***************************************************************************)
RunsThrough ==
  \A c \in Clients : prog[c] \notin {"off", "check", "receive"}
                       ~> prog[c] \in {"off", "check", "receive"} \/ ~BrokerUp
=============================================================================
