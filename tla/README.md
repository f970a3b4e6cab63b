# TLA+ models of psmq

psmq is a publish-subscribe broker on POSIX message queues: a daemon (`psmqd`),
a client library (`libpsmq`) and two command line programs (`psmq-pub`,
`psmq-sub`).  This directory holds models of the daemon and of its clients,
instances of them for TLC, and proofs about them that TLAPS checks.  Paths below
are relative to the repository's root; `broker.c` is `src/broker.c` and `psmq.c`
is `lib/psmq.c`.

## The system

| Part | State | Operations | How it interacts |
|---|---|---|---|
| Broker (`src/broker.c`) | `clients[]`: queue, topic list, missed_pubs, reply_timeout per slot; the control queue | open, close, subscribe, unsubscribe, publish, ioctl; main loop; cleanup | takes requests from its control queue, answers on the queue of the slot a request names |
| Topic matching (`src/broker.c:144`) | none | does a topic match a filter? | called for each topic of each slot on each publish |
| Topic list (`src/topic-list.c`) | a linked list | add, find, delete, destroy | one list per slot |
| Client library (`lib/psmq.c`) | `struct psmq`: own queue, broker's queue, fd | init, cleanup, subscribe, unsubscribe, publish, ioctl, receive | blocking sends to the control queue, (timed) receives from its own |
| Daemon start-up (`src/psmqd.c`, `src/cfg.c`) | `g_psmqd_shutdown`, configuration | signal handlers, main | the handler interrupts the broker's waits |
| psmq-sub, psmq-pub (`src/psmq-sub.c`, `src/psmq-pub.c`) | run and flush flags | connect, subscribe and print; read and publish | clients of the library |
| POSIX message queues | bounded queues with priorities; names | send, receive, timed variants, open, unlink | the only way the processes talk |

The broker is one thread, but not alone: every client is a process, and every
message crosses a bounded queue.  What is hard in this code comes from that:

- **Slots are numbers.**  A client names its slot in every request; the broker
  believes it.  A slot changes hands when a client closes, and when the broker
  *evicts* a client that missed `PSMQ_MAX_MISSED_PUBS` messages in a row, which the
  client learns only when it reads its queue.  Requests already queued then hit
  somebody else's slot.
- **State that survives.**  `psmqd_broker_open` sets nothing but `mq`; topics,
  missed_pubs and reply_timeout are what the last owner left.
- **Everything may be full.**  A send to a client may fail at any time, at once or
  after reply_timeout; a send to the broker blocks.  So the broker may wait for a
  client while clients wait for the broker.
- **Signals** come between any two instructions, of the daemon and of the programs.
- **Names outlive processes.**  Queue names stay when their process dies, and
  sometimes when it exits; daemons and sessions are started beside what others left.
- **Priorities** let a message overtake another, so the "oldest" message is not
  the next one.

What makes each part correct: descriptors balance slots on every path (broker);
a publish reaches each subscriber once, or is recorded as missed (broker, topic
list); an evicted client is told (broker); shutdown completes (broker, daemon); the
matching agrees with the manual (topic matching); a session owns its slot and gets
only what it asked for (library and broker); calls of the library return (library);
a name leads to the daemon that serves under it and to the queue of the session that
made it (daemon, library); programs get through their start, stop when told to and
leave nothing behind (psmq-sub, psmq-pub); what is read from standard input, sent
and printed is the same text (programs, library, broker).

## Modules

| Module | Models | Correspondence |
|---|---|---|
| `Mqueue` | a POSIX queue | a sequence in order of sending; a reader takes the oldest message of the highest priority |
| `TopicMatch` | topic matching, and the syntax check of subscriptions | a path is the sequence of what stands between slashes; the strtok loop is a recursive function |
| `PubSub` | the service psmqd promises, with no queues and no program | who is connected, who subscribed to what, and, while a publish is served, who got it and who missed it |
| `Broker` | `psmqd`'s handlers and loop | variables named as in `broker.c`; `pc` is the place between two calls on a shared object, and one action is what happens from one such place to the next |
| `BrokerPubSub` | the refinement mapping from `Broker` to `PubSub` | a slot is a place, a topic list how often each topic is in it, the scan one publish in service |
| `System` | the broker and clients using `libpsmq` | extends `Broker`; per client: its place in a library call (`at`), `qsub`, `fd` |
| `Programs` | psmq-sub and psmq-pub against the broker | extends `System`; `prog` is the place in main(), `opt` getopt's optind, `run` and `flush` the flags of the signal handler; each step is a step of `System` together with a move of main() |
| `Lifecycle` | psmqd's main(), options, creation and removal of its queue, several daemons; psmq_init with generated names to psmq_cleanup, several sessions | `place`, `flag`, `cfg`, `try` per daemon; `at`, `no`, `qsub`, `qpub`, `slot` per session; `bname` and `gname` are the names in the system |
| `WireFormat` | `struct psmq_msg` as bytes: layout, psmq_real_msg_size, the checks of the main loop, what handlers and clients read | operators on sequences of bytes |
| `PubStdin`, `SubPrint` | what psmq-pub makes of its standard input, what psmq-sub prints of a payload | operators on sequences of bytes |
| `Deadline` | psmq_ms_to_tp | an operator on the two fields of struct timespec |
| `MCTopicMatch`, `MCMessages`, `MCBroker`, `MCSystem`, `MCPrograms`, `MCLifecycle` | | instances for TLC |
| `BrokerProofs`, `ServiceProofs`, `SystemProofs`, `SessionProofs`, `ProgramsProofs`, `AnswerProofs`, `LifecycleProofs`, `WireProofs` | | theorems; `ServiceProofs` is about fan-out and the refinement of `PubSub`, `SessionProofs` about who gets whose messages in `System`, `AnswerProofs` about what psmq-sub reads first, `WireProofs` about `WireFormat`, `SubPrint`, `MCMessages` and `Deadline` |

Three layers describe the daemon at work.  `PubSub` is the service it gives.  `Broker` is
the daemon with clients that create and remove queues, read them and send any request
of a set, in any order, and implements `PubSub` (`PubSubSpec`).  `System` has clients
that follow `psmq.c`; it is built from `Broker`'s steps and implements it by
construction (lemma `SystemIsBroker`, which carries theorems over).  `Programs` restricts
`System` to the programs that come with it.  So a property of a layer is one of those
below it.  `Lifecycle` is about what surrounds that work, and has only OPEN
and CLOSE of the protocol.

`PubSub` counts subscriptions: a client that subscribed twice to a topic and unsubscribed
once still gets its messages, as in the code, and not as in the manual (see below).

In `Broker`, the steps of one handler are separate wherever another process can
tell: a publish is one step per matching topic and client (`ScanToHit`, then
`Wait` while the broker is blocked in mq_timedsend, then `Delivered` or `NotDelivered`),
an eviction is the removal of a message (`Evict`) and a close (`CloseAcked`,
`CloseUnacked`).  What nobody else can see (the scan over topics that do not
match) is part of the step around it.  `psmqd_broker_close` is called from three
places; `ret` says which.

Data is abstract: topics are names, with matching given as a set of pairs that the
instances compute with `TopicMatch`; payloads are left out of `Broker`, since it reads
none, and have their own modules; a timeout is `zero` or `positive` (`Deadline` says
why a positive one is a moment in the future); a queue has an identity and a
name that may later stand for another queue.

Auxiliary variables record what happened for the properties, and no guard reads them:
`copies` and `lost` (Broker), `asked`, `timed` and `evicted` (System), `left`,
`unclean` and `unread` (Programs), `late`, `crashed` and `abandoned` (Lifecycle).

mq_open may fail whenever it is called, for want of memory or descriptors: on a client's
queue in the library (`InitCreateFails`, `CCreateFails`), on the broker's (`InitConnect`,
`CConnects`, `DFailsToOpen`), and on a client's in the broker (`OpenFails`), where the
constant `OpenMayFail` says whether it does although the queue is there.  It does in all
passing runs but programs_live: a broker that cannot open its client's queue cannot answer
it, and psmq_init then waits for its 30 seconds, which `RunsThrough` is not about.  It does
not in the runs of `System` with a violation, whose behaviours need no such failure.

Definitions marked "Mutant of X" are what X would be with a plausible bug.  They
are used nowhere; with one of them put in X's place, the property it was written
for fails, which shows that the property depends on that part of the code.

## What TLC checks

Each passing run explores its whole state space.

| Run (cfg) | Properties | Bounds | What it shows |
|---|---|---|---|
| messages (`MCMessages`) | `MatchesAsDocumented`, `GeneralisingLosesNothing`, `PublishArrives`, `RequestsArrive`, `LinesArrive`, `StreamArrives`, `PrintedAsSent` | topic and filter of up to 3 parts out of "", a, b, +, *; PSMQ_MSG_MAX 7; topics of up to 7 bytes, payloads of 6, inputs of 7 (83 thousand states) | matching agrees with psmq_overview(7) where '*' is last, and putting '+' for a part never loses a match; what the library accepts is accepted and read unchanged; psmq-pub loses and repeats no byte of its input, psmq-sub prints what was sent |
| broker_fan_out (`MCBrokerFanOut`) | `PublishedOnce`, `PublishReachesAll`, `EvictedIsTold`, `PubSubSpec` | 2 slots opened on one queue, 2 filters that overlap, lists of 2 that may hold one filter twice, an unsubscription, queue of 1 (2.7 million states) | nobody gets a publish twice, nobody is passed over, through failures and evictions; the CLOSE is on the queue when an evicted slot is given up; the broker implements the service, in which an UNSUBSCRIBE takes back one SUBSCRIBE |
| broker_live (`MCBrokerLive`) | `TypeOK`, `DescriptorsBalanced`, `NothingHeldAtExit`, `ShutdownCompletes`, `AlwaysBack` | every kind of request, granted and refused; queues of 1 (760 thousand states) | no descriptor leaks or is closed twice on any path; a broker told to stop exits; it always comes back to its loop |
| system_sessions (`MCSystemSessions`) | `STypeOK`, `SessionIsolated` | 2 clients, 3 queues; crashes, timeouts, retries, signals; names and slots that others had (710 thousand states) | without an eviction a slot has one owner, and the owner's queue |
| programs (`MCPrograms`) | `PTypeOK`, `OnlyWhatWasAsked`, `FirstAnswerFirst`, `SubStopsSoon`, `SlotsComeBack` | a psmq-sub with one of 4 command lines and a psmq-pub, each run once, 2 slots, 3 queues; killed or signalled anywhere (1 million states) | a program gets nothing it did not ask for; what psmq-sub reads first is its answer; told to stop it takes one more message at most, or the answers to the `-t` left; slots come back |
| programs_live (`MCProgramsLive`) | `RunsThrough` | the same two programs, one topic, nobody killed or signalled (300 thousand states) | psmq_init, the subscriptions and psmq_cleanup return while the broker is there, evictions and full queues notwithstanding |
| lifecycle (`MCLifecycle`) | `TypeOK`, `NameIsServed`, `NoLeftover`, `QueueIsOurs`, `SlotIsOurs`, `StopsSoon` | 2 daemons with 5 command lines on 2 names, 2 tries, 2 sessions, 2 generated names of which one may be left over from before (4.3 million states) | a name leads to who serves under it, none outlives its daemon, each session has its own queue and slot; a daemon told to stop handles at most one more request |

Why the bounds are enough: the hazards are about a slot and one other (before or
behind in the scan, owner and next owner), a queue with room or full, a counter
below or at its limit, a list with one or two matches, a process and one that is
started beside it.  Two of each, queues of one or two and a limit of one or two reach
each of these, and the theorems cover the rest for the properties that are proved.
`UCharMod` is small so that the counter of misses wraps within reach (broker_live).
A message of 7 bytes has room for a topic of six, or for one of two and a payload of
four, and not for both; `MsgMax` 7 is also the least for which
requests arrive (see below).  `Tries` is 2, for a first and a last try; nothing in the
code depends on its being 10.
In broker_fan_out both slots stand for the same queue, which a client that opens
twice brings about; that keeps the run small, and the proofs have no such limit.
A process of `Lifecycle` runs once, and a restart is another one.
Each program runs once in programs, so slots pass from one to the other there, but no
queue name is used again: a second run of psmq-sub makes it seven times as large.  Names
that are used again are in system_sessions, for `SessionIsolated`; that a program gets nothing meant for
an earlier one of its name is shown for `OnlyWhatWasAsked` by the theorem alone.
`CHECK_DEADLOCK` is off everywhere: the broker and the programs exit, and the modules
that grow messages stop at their bounds.

### Where the code and its documentation differ

Each of these runs checks one statement of a comment or a manual page, and TLC
finds a behaviour of the code that violates it.

| Run (cfg) | Statement | What happens |
|---|---|---|
| topic_star (`MCTopicStar`) | psmq_overview.7:203: '*' that is not last is an ordinary part (`StarInsideIsOrdinary`) | it matches everything from there on |
| never_unasked (`MCNeverUnasked`) | psmq_subscribe.3:16: only messages that are interesting (`NeverUnasked`) | after an eviction a stale SUBSCRIBE is booked on the slot's next owner |
| never_waits (`MCNeverWaits`) | psmq_ioctl_reply_timeout.3:15: dropped without hesitation (`NeverWaitsUnasked`) | a new client inherits reply_timeout, and the broker waits for it |
| cleanup_returns (`MCCleanupReturns`) | psmq.c:657: nothing can stop us (`CleanupReturns`) | the blocking mq_send of CLOSE does, when the broker has exited and its queue is full |
| names_run_out (`MCNamesRunOut`) | psmq_init.3:142: ENOSPC is a broker full of clients, until one disconnects (`NoSpaceMeansFull`) | psmq_cleanup and a failed connection leave generated names behind; when all are taken psmq_init fails, with the broker there and slots free |

The model shows more of the kind, which have no run of their own:

- A client that subscribed twice to a topic, as one that retries after a lost
  acknowledgement does, and unsubscribed once goes on getting its messages
  (broker.c:576 deletes one node; `PubSub` says it so), where psmq_subscribe.3:28 says
  "you won't receive messages, that matches this topic anymore".
- psmq-sub forgets a SIGINT or SIGTERM that comes between sigaction (psmq-sub.c:299) and
  `run = 1` (317) and goes on for ever, as psmqd does with one between sigaction and
  psmqd.c:103; `SubStopsSoon` and `StopsSoon` are about what comes behind those lines.
- An evicted client and its slot's new owner share an fd that psmq.h.in:46 calls
  unique, until the first reads its CLOSE.
- The OPEN a client abandoned after 30 s is answered all the same, to the next session
  under its name; that is why `SlotIsOurs` and `FirstAnswerFirst` except it.
- psmq-sub exits when a publish on its first topic comes before the answer to its
  second `-t` (psmq-sub.1:48 allows any number of them); when SIGUSR1 comes while it
  waits for an answer; and leaves its slot taken when `-h` or a mistake is behind a
  `-t`.  It takes any error but EBADMSG for a successful subscription.
- With PSMQ_MSG_MAX at 6, the least that configure.ac:136 accepts, an ioctl with two
  non-zero bytes of timeout does not pass the broker's check for a topic and payload:
  `RequestsArrive` fails with `MsgMax` 6.
- With -r a broker takes the name of a running one, which on its exit unlinks the
  name of the new one.
- A new client starts with the miss that its slot's last CLOSE left in
  missed_pubs; failed replies to control requests count as misses with no check of the
  limit, and wrap the byte.
- The message removed to make room for a CLOSE is the oldest of the highest priority;
  cleanup passes over topics booked on a free slot; and `/a/+/b/+`
  (psmq_overview.7:157) does not match `/a/b/c/d`.

### Fairness

The safety runs assume none.  `FairSpec` assumes weak fairness of the broker's
steps: it is one thread, its waits are timed (five seconds on the control queue,
reply_timeout at most 65 s on a client's), and the scheduler runs it.  A wait that
nobody ends is ended by its timeout (`SendFails` with `waiting`, `ReceiveTimesOut`).
`SFairSpec` adds that a client that has called psmq_init runs on through it (weak),
and that a send blocked on the control queue gets its turn (strong fairness): POSIX
wakes the waiting sender of the highest priority, then the one that waited longest.
`PFairSpec` says the same of programs: each runs on by itself (`Moves`, weak), and
one that waits for room is served in turn (`SendsRequest`, strong).
Nothing is assumed about what applications call, whether they read their queues, or
that signals come, and no program is assumed to be started.

## What is proved

For any number of slots up to 254, any capacities, any requests, any number of
clients, programs, daemons and sessions, any command lines of psmq-sub, and messages
of any length:

| Theorem | Statement |
|---|---|
| `BrokerProofs!TypeCorrect` | `Spec => []TypeOK` |
| `BrokerProofs!DescriptorsAreBalanced` | `Spec => []DescriptorsBalanced` |
| `BrokerProofs!EvictedAreTold` | `Spec => EvictedIsTold` |
| `BrokerProofs!NothingIsHeldAtExit` | `Spec => []NothingHeldAtExit` |
| `ServiceProofs!NobodyGetsItTwice` | `Spec => []PublishedOnce` |
| `ServiceProofs!NobodyIsPassedOver` | `Spec => []PublishReachesAll` |
| `ServiceProofs!BrokerIsService` | `Spec => PubSubSpec` |
| `SystemProofs!SystemTypeCorrect` | `SSpec => []STypeOK` |
| `SessionProofs!SessionsAreIsolated` | `SSpec => []SessionIsolated` |
| `SessionProofs!OnlyAskedArrives` | `SSpec => []OnlyWhatWasAsked` |
| `ProgramsProofs!ProgramsAreClients` | `PSpec => SSpec` |
| `ProgramsProofs!ProgramsTypeCorrect` | `PSpec => []PTypeOK` |
| `ProgramsProofs!ProgramsGetOnlyAsked` | `PSpec => []OnlyWhatWasAsked` |
| `ProgramsProofs!SubAlwaysStopsSoon` | `PSpec => []SubStopsSoon` |
| `ProgramsProofs!SlotsAlwaysComeBack` | `PSpec => []SlotsComeBack` |
| `AnswerProofs!FirstAnswerAlwaysFirst` | `PSpec => []FirstAnswerFirst` |
| `LifecycleProofs!LifecycleTypeCorrect` | `Spec => []TypeOK` |
| `LifecycleProofs!ServedAlways` | `Spec => []NameIsServed` |
| `LifecycleProofs!NoLeftoverAlways` | `Spec => []NoLeftover` |
| `LifecycleProofs!StopsSoonAlways` | `Spec => []StopsSoon` |
| `LifecycleProofs!QueueIsOursAlways` | `Spec => []QueueIsOurs` |
| `LifecycleProofs!SlotIsOursAlways` | `Spec => []SlotIsOurs` |
| `WireProofs!PublishesArrive`, `SubscriptionsArrive` | what psmq_publish and psmq_subscribe accept arrives byte for byte |
| `WireProofs!ReplyTimeoutsArrive` | with PSMQ_MSG_MAX 7 or more, so does any reply timeout |
| `WireProofs!PublishesShown` | psmq-sub prints any payload as it was published, a line without its NUL |
| `WireProofs!PublishAlwaysArrives` | `MSpec => []PublishArrives` |
| `WireProofs!RequestsAlwaysArrive` | with PSMQ_MSG_MAX 7 or more, `MSpec => []RequestsArrive` |
| `WireProofs!AlwaysPrintedAsSent` | `MSpec => []PrintedAsSent` |
| `WireProofs!DeadlineIsExact`, `ZeroNeverWaits` | a deadline is as far ahead as asked and valid; that of 0 ms is past |

The proofs assume `BrokerAssumption` (at least one slot and at most 254, since slot
numbers are bytes and 255 means "none", which psmq-common.h enforces; queues hold
something; the limit of misses fits its byte; requests carry a number as slot and as
priority), `SystemAssumption` (what clients send is among the requests),
`ProgramsAssumption` (command lines are made of the options there are; -h needs that
System's clients may crash, which is what leaving main() without psmq_cleanup is to
it), `LifecycleAssumption` (at least one slot and one try; names, daemons and sessions
are told apart), `ArgsAssumption` (what CfgInit makes of a command line has the fields
it should; CfgInit is a fold, so TLC evaluates this for the command lines of the runs)
and `WireAssumption` (PSMQ_MSG_MAX is a number).

**The inductive invariant of the broker.**  `TypeOK` is not inductive: that `held`
stays a natural number when a descriptor is closed needs that the slot really had one,
and that a handler updates a slot at all needs that the slot exists.  `TypeInv` is
`TypeOK`, `Control` (what `pc` and `ret` say of the slot in service: it exists, and
where `mq_close` or a delivery follows it is in use) and `Balanced` (descriptors equal
slots, as the cardinality of a set).  Each of the conjuncts has its step theorem
(`ClientsStep`, `QueuesStep`, `PlaceStep`, `ControlStep`, `BalanceStep`), with the
actions that leave the conjunct's variables alone taken together first.

On top of it, one conjunct per property:

- `RoomForClose`: while an evicted client is being closed its queue is not full.
  It holds since the message was removed by the broker itself, and clients only
  take messages.  `EvictedIsTold` follows: the send cannot fail.
- `PassedAreFree`: the slots that cleanup has passed are free, and at exit all are.
- `FanInv`: slots ahead of the scan have no copy yet, and each slot and topic
  behind it that matches is served (`copies`) or missed (`lost`).  An eviction
  empties the slot, which then wants nothing.
- `Evicting`: the client an eviction closes missed the publish in service.  With
  `FanInv` and `PublishReachesAll` each action of the broker is an action of `PubSub`
  or changes nothing of it, one lemma per kind of action (`AcceptStep` to `UnseenStep`);
  what the topic list is for the service is how often each topic is in it, and
  `AddTimes` and `DeleteTimes` say what a change of the list does to that.
- `SInv`: a client that is past the creation of its queue has one, or a receive could
  read no queue at all.

**Sessions.**  `SessionIsolated` says nothing of what is in flight, and that is where
it would be broken: a CLOSE or a SUBSCRIBE sent before the slot changed hands.
`SessionsInv` says whose each of them is.  While slots change hands by OPEN and CLOSE
alone (`Undisturbed`: nobody evicted, the broker not on its way out),

- the CLOSE of a slot is for a slot in use whose session is over, and is the only one
  (`ClosesOver`); so no CLOSE frees the slot of a session that goes on;
- a slot that is offered in a client's queue, or held by it, has that queue
  (`SlotsTold`), and one about to be offered has nothing on its way (`SlotFresh`);
- a SUBSCRIBE or an ioctl is for a slot whose reader asked for it, and comes before
  that slot's CLOSE (`RequestsOwn`; control requests have one priority, so they are
  served in order), and so is the answer to it that is being sent; so a slot's list
  holds only what its reader asked for (`ListsOwn`).

Queues are told apart from all this (`QueuesOwn`): a publish in a client's queue
matches what the client asked for.  This is true also while the broker shuts down,
when slots are freed under their owners, which is why it has a premise of its own.

**Programs.**  `PInv` relates the place in main() to the place in the library
(`InLibrary`), and says that psmq-sub is at an option when it connects, and at a -t when it
waits for an answer (`AtWork`).  Each step of a program is then a step that `System` lets its clients
take (`ProgramsAllowed`): `QuitsIsCrash` has the one case where that is not plain,
psmq-sub leaving main() at -h with a session open.  `left` is what psmq-sub may
still take once it was told to stop: what `MayTake` says for the place where the signal
finds it, less what it has taken since, acknowledgements included.  `SubStopsSoon` says
that this never falls below zero; `Stopping`, the invariant behind it, that it covers
what psmq-sub may take from wherever it is.  `SlotsComeBack` is about the last moment, when everybody is gone; its
invariant is about every moment before, while all programs leave in order: a slot in
use is always `Claimed`, that is, about to be offered, offered to a program that waits
for it, held by one that is connected, or its CLOSE is on its way.  For an offer to
be taken up, `Opening` is needed: a program that connects has one OPEN on its way or
one answer, and not both (`Connect`), what is in service for it is that OPEN
(`Welcome`), and no two slots have one queue.  `Opening` outlasts a program that leaves
in disorder, as long as it did not leave an answer to its OPEN behind (`unread`);
`Claimed` does not, which is why `ClaimsInv` has the two parts with a premise each.

**The first answer.**  psmq-sub gives up if what it reads after its first SUBSCRIBE is
anything but the answer.  `FirstAnswerFirst` speaks of the moment when it gave up;
`AnswersInv` follows the request and its answer there.  All that is ever on its way was
made by a program or answers one (`AllMade`), and psmq-sub asks for nothing before its
first -t (`FirstTopic`).  While nobody is evicted, the broker is not on its way out and
no OPEN was left unread (`Peaceful`),

- the queue of a client that has asked for nothing is empty, but for the answer to its
  OPEN (`Calm`): no publish matches an empty list (`ListsOwn`), and no answer
  belongs to somebody else's request (`RequestsOwn`);
- from the first SUBSCRIBE on (`Answered`), its answer is what the queue begins with
  (`AnswerIn`), or the queue is empty and nothing can come before the answer: the slot
  has no topic yet, or the broker is about to send the answer (`AnswerDue`).  Between
  that the topic is in the list and that the answer is on the queue the broker
  serves nothing else; this order in `psmqd_broker_subscribe` is what the property
  rests on.

**The lifecycle** has two invariants that know nothing of each other, since daemons
and sessions share no names.  `DaemonInv`: a name stands for the queue of a daemon
that was given the name and serves or crashed (`NamesOwned`), and a daemon told to
stop keeps its flag (`ToldIsRemembered`).  `SessionInv`: a session's queue is the one
it created, and the name with its number stands for it; O_EXCL gives it the name, and
only its own error path takes it away.  `ServiceInv` joins them: a session connects to
a daemon that has created its queue (`Connected`), and no OPEN names a queue that was
there before any session (`NothingLeftIsAsked`), or the broker would book it.
`SlotIsOurs` needs `Slotted`, true until a session abandons its OPEN: a request that
a serving daemon has before it is owed, an OPEN to a session that waits or is over and
has no answer yet, a CLOSE to a session that is over (`RequestsOwed`, `OneAnswer`); and
the slot in an answer, or kept from one, is booked on the session (`SlotIsKnown`).
An OPEN goes by a name, and the proof shows why that is safe: only psmq_init's error
path gives a name back, and a session gets there, unless it timed out, by an answer,
after which its OPEN is gone.

These invariants (`SessionsInv`, `PInv`, `ClaimsInv`, `AnswersInv`, `LifecycleInv` and
`SlottedInv`)
hold in every state of the instances of the runs too, and TLC searched larger ones
(three sessions and two daemons, for instance) without finding a violation.

**Messages** need no invariant but that a topic is a string and a payload bytes
(`Sent`): `StrLenIs` says where a string ends, `TextLaidOut` what
is read back from a layout of which only `SentBytes` arrived; `PublishesArrive` is
that lemma on the way to the broker, and again on the way to the subscriber.  An ioctl
is no text: `StrLenSmall` bounds what the broker takes for its topic, and
`IoctlReceived` says that its three bytes arrive both ways whatever the reader's
buffer holds.  What printf shows is `LineIsString`: the NUL at the end of a line is the
first one behind the topic, so nothing of an earlier message is printed.  The run has
two characters and NUL; `PublishesShown` holds for any set of bytes.

**Only model-checked**: liveness (`ShutdownCompletes`, `AlwaysBack`, `RunsThrough`),
since ENABLED and fairness are out of the prover's reach; and what `TokensMatch`,
`SendStdin` and `SendBinary` compute, since that is induction over data
(`MatchesAsDocumented`, `GeneralisingLosesNothing`, `LinesArrive`, `StreamArrives`).
All other properties of the passing runs are theorems.

## Not modelled, and why

- The nodes and pointers of topic-list.c, and the heap: one thread walks short lists,
  and `src/tst/topic-list.c` reaches all their shapes.
- Fatal errors of the operating system (a control queue that breaks): the broker
  exits at once, as after a signal.
- Logging, and the text of messages and errors; the wording of --help.
- Calls with a NULL handle or argument: they return at once.
- The shell commands of the Zephyr port (`src/zephyr`): they call the main() of the
  programs, and nothing there is part of the protocol.
- Builds without signals (PSMQ_NO_SIGNALS) or threads instead of processes.
- psmq-sub's `-n` and psmq-pub's options before the connection: a program of `Programs`
  has a queue name of its own, and two with the same name (the default ones are
  /psmq-sub and /psmq_pub) do not run at once.
- Topics that leave less than two bytes for a line, and NULs in text that psmq-pub
  reads by line: `PubStdin` assumes that there are none.
- A client that sends what `libpsmq` would not: `Broker`'s `Requests` may be any
  set, but a queue that others write to is left out.
- Build files, packaging, web pages and tests.

## Plan

Done: `Mqueue`, `TopicMatch`, `Broker`, `System`, their proofs, `PubSub` with
`BrokerPubSub` and its refinement proof, the generated names and the daemon's start
(`Lifecycle`), bytes (`WireFormat`, `PubStdin`, `SubPrint`, `Deadline`), and the
programs (`Programs`), and a theorem for each safety property but those about
recursive functions.  Open:

1. The nodes of topic-list.c, refining the sequence that `Broker` uses.
