# Herrscher in TLA+

Herrscher runs coding agents as *sessions* of a daemon. Each session has a git
worktree, a bridge process that drives one backend, and a turn loop in the
daemon that gives the bridge one piece of work at a time. Operators, chat
gateways, schedules and other sessions all send work to that loop.

This directory models the concurrent core of the daemon. TLC checks each model
on small instances, and TLAPS proves the properties that matter most for every
value of the constants.

## 1. The system

### Parts, their state and their operations

| Part | Source | State | Operations |
|---|---|---|---|
| Session turn loop | `core/host/turnloop.go` | `queue`, `turn` (a token), `hangup`, `pendingReply` | submit, Seed, SeedAndWait, Pick, Interrupt, claimIdle; pump, serveConn |
| Compaction | `core/host/compaction.go` | a pending manual request | requestCompaction, runCompaction, compactThroughBridge, maybeAutoCompact |
| Bridge turn loop | `core/bridge/hub.go`, `compact.go` | `turnController.cancel` | scanner, runOneTurn, runPick, runCompact, interrupt |
| Control connection | `core/internal/control` | one Unix-socket connection per bridge | Accept, Scan, Write, Close |
| Event stream | `core/host/eventsocket.go` | subscribers, their channels and priority lists | add, Publish, next, remove, closeAll |
| Scheduler | `core/host/scheduler.go`, `schedule_cmd.go`, `core/internal/schedule`, `core/internal/state/schedules.go` | schedule rows on disk, `inflight` | tick, catchUp, dispatch, fireNow, the verbs |
| Supervisor | `core/internal/supervisor` | `runs`, and per run a context, `stopping`, `done` | Start, StartWith, Stop, Restart, runLoop |
| Live sessions | `core/host/hub.go`, `serve.go` | `live`, a dispatch lock and a lifecycle lock | goLive, goDead, stopLive, reconcile, Dispatch, Resume, RestartWithResume, the boot loop |
| Approvals | `core/host/approve.go`, `approve_cmd.go`, `core/internal/approval` | pending approvals, what drivers remember, rules, modes | ask, rate, register, settle, remember; the `approve` verbs |
| Coordinator | `core/host/coordinator.go` | `reported`, `expected` | Handoff, Delegate, Route, FanOut, Seal, Report, Merge, forget |
| State store | `core/internal/state` | one JSON file, under a mutex | setters, snapshots, saveLocked |
| Session manager | `core/internal/manager` | none of its own | create, close, resume, rename, switch, archive |
| Checkpoints | `core/internal/checkpoint`, `core/host/checkpoint_cmd.go` | git refs | Take, Restore, Undo, rewind |
| Handoff limiter | `core/host/session_handoff.go` | in-flight trees, grants of the hour | acquire, release |
| Key proxy | `core/keyproxy` | keys, cooldowns, budget | pick, cool, forward |

Everything else (leases, worktrees, forge, authorisation, agents, configuration,
the service installer, the `manage` CLI, the terminal plugin, the translation
tools) is I/O, parsing or rendering. `PROJECT.json` lists each with its reason.

### How they interact

* A **message** reaches `submit` from a gateway's poll loop or an operator's
  command, and blocks if the session's `queue` is full. Schedules, reports and
  handoffs use `Seed`; an agent that wants the answer uses `SeedAndWait`.
* The **pump** takes an item, takes the turn token, asks the budget gate, drains
  a leftover hangup, offers the event to `serveConn` over an unbuffered channel
  and waits for the reply, a hangup or the session's end.
* **serveConn** writes events on the connection while one **scanner** goroutine
  per connection hands what it reads to the pump. When the connection ends, its
  deferred calls post the hangup, close the connection and cancel its context.
* The **bridge** has a scanner, which acts on interrupts itself, and a turn loop,
  which does one piece of work at a time. The supervisor restarts it if it dies.
* A **rewind** claims the turn token from outside the pump while it resets the
  worktree.
* Every turn **publishes** events from the pump, under the event stream's mutex.
* A **verb** on a session runs under the hub's dispatch lock, writes the row, starts
  or stops the bridge through the supervisor, and is followed by **reconcile**,
  which makes the live sessions those of the rows. The boot loop, the picker's
  Resume and a fork's restart take no dispatch lock.
* The **supervisor** keeps one loop per name. A stop marks the run, cancels it and
  waits for it outside its mutex; a start that meets a stopping run waits too.
* A bridge's hook **asks** the daemon before a tool call. The call waits in the
  approval table while operators answer from other goroutines, and what they
  answer may be remembered by the session's driver or written as a rule.
* A turn may end with an order to the **coordinator**, which the pump carries out
  before it reads its queue again: it creates sessions, counts their reports and
  tells a session by seeding it, that is, by putting a message on its queue.
* The **scheduler** reads copies of the rows and delivers through goroutines that
  stamp the rows when the session has taken the task.

### What is hard, and what makes it right

The hard parts are the interleavings on Go channels, which unit tests with a
fake bridge seldom reach:

* the hangup token is drained at the start of a turn and posted at the end of a
  connection: losing the wrong one wedges the session, keeping an old one aborts
  the wrong work;
* replies, compaction results and picks come back on one channel and are told
  apart by order;
* interrupts race the turn they are meant for;
* a rewind and the pump compete for one token;
* a caller's reply channel is installed, overwritten, cleared and filled by
  different goroutines, and filled with a mutex held;
* the event stream sends on channels that others close, with a mutex held that
  every session needs;
* the scheduler acts on copies that deliveries and operators have changed since;
* a bridge, its driver, its control socket and its row are four things created and
  torn down in steps by verbs, boot, picker and crashes, which must agree when all
  is quiet;
* an answer, a timer and a second answer race for one waiting call;
* a cohort is counted by calls of several sessions while its members are created,
  closed, archived and rewound, and the daemon restarts.

`hazards` in `PROJECT.json` lists all of them by line, with the property that
covers each, or why none does.

## 2. The modules

| Module | What it is |
|---|---|
| `TurnService` | What a session promises: items queued in order, one turn at a time, each item settled exactly once. Nothing about bridges. |
| `TurnLoop` | The session: driver, connections, bridge, callers. Refines `TurnService`. |
| `EventSocket` | The event stream: Publish step by step against the readers. |
| `Scheduler` | The schedules: ticks, deliveries, verbs, sessions, daemon restarts. |
| `BridgeSlot` | What the supervisor promises: one slot per name, taken only when free, freed only when its loop has returned. |
| `Supervisor` | The runs table, its callers and the loops. Refines `BridgeSlot`. |
| `Lifecycle` | The session verbs, the state store, the hub, the drivers and the daemon's life, over `Supervisor`. |
| `ApprovalPolicy` | Rules, modes and ratings: pure operators. |
| `Approvals` | The calls that wait, the answers, the grants, the edits, over `ApprovalPolicy`. |
| `Coordinator` | The sessions that spawn, count, seal, merge and report to one another. |
| `MC*` | Constants for TLC. |
| `TurnLoopProofs`, `TurnServiceProofs`, `EventSocketProofs`, `SchedulerProofs`, `SupervisorProofs`, `LifecycleProofs`, `ApprovalProofs`, `CoordinatorProofs` | Theorems and proofs. |

### TurnLoop

One action is one step between two channel operations or shared accesses of one
goroutine. `pc` is the pump's place in `pump`/`runTurn`/`awaitTurn`; `phase` is
`serveConn`'s, with the deferred calls in the order Go runs them; `scan` is the
state of each connection's scanner. An unbuffered send and its receive are one
action: `TakenByConn` for events going down, `Deliver` for frames coming up. The
two directions of each connection are the sequences `down` and `up`.

The items sent to a session are the constants `Message` (submit, poll, Seed),
`Waiter` (SeedAndWait callers, each with one input), `Pick` and `Compact`.
`Heavy` are the inputs whose turn ends in an automatic compaction, and `Escaped`
those an operator interrupts. `outcome` records how each item ended and `answer`
whose reply ended it. These two, with the turn an interrupt names, are history:
the program does not keep them.

Abstractions:

* Progress events, text, cost and usage are left out; a reply's text is the item
  it answers.
* The budget gate refuses or not, freely, when `Gated`.
* The branch of the pump that only emits notices is left out.
* Compaction stages that do not leave the driver are left out.
* A send that times out on a full queue is an item that stays "new".
* The pump's `d.seen` bookkeeping is left out.
* The supervisor is one action, `BridgeDials`, and `BridgeExits`/`BridgeDies`
  end a process.

Bounds: `MaxConns` bridge processes; the last one neither dies nor sends a line
its peer cannot decode while the session lives.

### EventSocket

`event` is the line whose Publish holds the mutex and `todo` the subscribers it
has yet to visit. The forced wake is three actions, `TryWake`, `DropOldest` and
`ForceWake`, since the reader takes no mutex and may empty the channel between
them. `at` is a reader's place in `serve`/`next`. The code looks for an empty set
of subscribers before it takes the mutex; the model does so with it, so that an
event nobody is there for counts as published at that look. Bound: `MaxLines`
events.

### Scheduler

Time is in minutes, the grain of the loop and of cron. A tick reads the clock,
copies the rows (`TickReadsClock`, `TickReadsRows`), then visits them in some
order, each visit a step; a delivery is a record in `fires` that finds its
target, hands over its task and stamps its window. `anchor` is `LastRun` or
`CreatedAt`. A cadence is a set of windows: multiples of `Period` from the
anchor, or the minutes in `Cron`. Ticks are not tied to the clock, so any number
may fall in a minute or a minute pass without one. `up`, `driven` and `pending`
are what the scheduler sees of its target sessions. Parsing and validation of
cadences, per-schedule graces and failed saves are left out.

`overtaken` is history: the schedules an operator resumed, or removed and added
again, while a delivery of them was under way or a tick had yet to visit them. Such
a delivery stamps a window of the old cadence over the new one. For a cron this
changes nothing, but the windows of an `--every` schedule are counted from its
anchor, so the stamp shifts them under the tick, which may then pass over a fresh
one. `SkipsOnlyStale` therefore leaves an `--every` schedule out until a tick finds
nothing of it under way. TLC shows why on one schedule of period 3 and grace 1 over
ten minutes: without the exemption the property fails there, with it it holds.

### Supervisor and Lifecycle

`Supervisor` has one action per critical section: a caller is on its way to the
mutex ("enter") or blocked on the `done` of the run it found ("wait"), and a run is
at the `top` of its loop, running a `bridge`, `parked` because the bridge cannot be
launched, in its `backoff`, or `ended`. `Restart` is a `Stop` whose caller goes on
to `Start`, as in the code. Ghost: `seen`, the runs that were alive when a call
began. The map to `BridgeSlot` reads the slot of a name off its loop: free when no
loop of the name runs, held while its run is not cancelled, ending otherwise.

`Lifecycle` extends it. A caller's `job` is the verb it runs and the step it is
at; a step ends where the code calls the supervisor, writes the store, takes a
lock or waits. `Disp` is whoever holds the dispatch lock and always reconciles
after its verb. `rec` is the store in memory and `disk` the file: a save that fails
leaves the change in memory, and a setter that finds nothing to change does not
save again. A driver is one goroutine of a live session; its turns are reduced to
the resume token they report, which is stored by name, also after the session was
cancelled. `socket` is who listens at the path a bridge dials: an acceptor that
closes removes the file, whoever bound it last. `goDead` is three steps: it takes the
entry out of `h.live` under the locks (`DeadDelete`), cancels the session with none
held (`DeadCancel`, where a goLive of another goroutine may have come in between) and
waits for it (`DeadWait`). `stopLive` copies the table and cancels one by one: after
`Shutdown`, `StopLive` cancels any driver at work, which includes those of the copy
and may include one raised since.

`marred` is a history variable. It holds the names for which the properties claim
nothing any more:

* a save, a bind of the socket or a teardown failed or timed out;
* an unlocked call (picker, fork, boot) overlapped another call on the name;
* a turn was in flight when the session was restarted or switched, or the name was
  given again while a turn of its former session was not over, or a rewind began
  while a turn of a driver no longer live was not over.

`OneDriver`'s second half, `TreeIsFree`, `AtRest` and `Continues` leave these names
out, and claim nothing while the daemon stops. That is wider than the failures known
to need it: a name once marred stays so, for whatever reason. The
exemptions are where the code really fails, as the traces without them show:

* the picker's Resume between the delete and the cancel of a `goDead` raises a second
  driver while the first is still at work (`hub.go:169-176`, `494-508`);
* a setter retried after a failed save is acknowledged and never written
  (`state.go:532-545`, and the same early return in `SetResumeToken`);
* the picker's Resume racing a close leaves a bridge nobody stops
  (`hub.go:494-508`);
* a switch with a turn in flight is followed by the old vendor's token, which
  `SetBackendTarget` had just cleared (`state.go:507-513`);
* a create whose row cannot be saved leaves the row in memory, which reconcile
  hosts without a bridge;
* a restart whose token cannot be saved leaves the session without one
  (`hub.go:479-492`);
* `goDead` waits for the session's goroutine and not for its pump, so a late token
  may be stored in a new session of the same name (`hub.go:98-103`); a rewind claims
  the turn of the live driver only (`checkpoint_cmd.go:153`), so after an archive and
  a resume the token of the driver that went may undo the cut.

### ApprovalPolicy and Approvals

A pattern is a name; which subjects it matches, loosely (a deny or ask rule, or a
tool that runs no command) or tightly (no wildcard over a shell operator), is given
by the constants `Loose` and `Tight`. Rules are a set: `Decide` takes the strictest
match, so their order says nothing. `Apply` has one line per mode, also for the
empty mode of a session created without one.

In `Approvals` a call goes through `askApproval` in the steps between two shared
accesses: it reads the rules (`Ask`), the mode (`Verdict`), what its driver
remembers (`Recall`), may be rated (`Rate`, `RateFails`), takes a slot
(`RegisterApproval`), posts its menus (`Posted`), and waits for its answer or its
timer (`TakeAnswer`, `GiveUp`), then frees the slot (`Release`). An answer is looked
up (`Answer`), sent (`Send`) and remembered (`Remember`) in three steps with no lock
between. `own` is the daemon's part of the rules a call read, without its agent's;
`first`, `passed`, `kept` and `own` are history. `AllowedByRight` asks for a right
whenever the merged rules leave a call to a human, and whenever the daemon's alone
would, unless none of these matches it and the agent's allow it (`OnlyAgentAllows`):
there the code contradicts its documentation, and the run `approvals_agent` shows it.
Bounds: `MaxEdits`, `MaxAnswers`.

What else the model shows, and nothing in the repository states otherwise:

* an answer that comes late, or second, is acknowledged as an allowance, and its
  rule is written, although the call was denied (`approve.go:237-253`);
* a session created without a mode asks nothing of unmatched edits and commands,
  while `session mode` calls it "ask" (`session_mode.go:60-61`);
* a rating that fails is said to be decided as in ask mode, but an unmatched
  command then runs unasked, unlike in that mode.

### Coordinator

Each session has one pump, hence at most one call: `call[s]`. An order is accepted
or refused on the snapshot it reads (`Order`, `QuietTurn`), then goes through the
steps between which other calls interleave: the check of the tree and of a free
name, `Create` under the dispatch lock, attempts to seed, the roll-back, and the
update of `reported` or `expected` under the mutex. `Route` is a delegation to the
agent it picks. A close removes the row, then `Reap` (reconcile and goDead) drops
the driver and forgets the session, still under the dispatch lock. The operator may
close, archive, unarchive, rename and rewind any session between two steps of a call,
and the picker's `Resume`, which takes no dispatch lock, may fall into a reap. Names are
constants probed in order; git is reduced to whether a step succeeds. Left out: the
second driver a one-shot `session seed` makes for its session, sessions given a
parent by the operator, and a `Resume` whose row is removed while it runs, which
`Lifecycle` has. `seeded`, `marred` and `cohort` are history: a name made
again, whose branch `git worktree add` takes up where it was, starts without a task,
and a cohort leaves out the workers a failure left behind. `NoIdleWorker` leaves out
the same workers, and one more kind that the code does leave idle without any failure:

* a worker renamed while its spawn has it in hand: the seed goes to the old name, finds
  nobody, and so does the roll-back (`coordinator.go:174-176`), so the row stays under
  its new name, among its lead's workers and without a task.

What the model has and no property claims:

* renaming a lead leaves its workers' `Parent` at the old name, so their reports are
  refused from then on. `state.go:352` calls the schedules "the only other place in
  state.json that holds a session name", and `Parent` is another (`state.go:106-109`);
* a report accepted before its session was closed is recorded after `forget`, and
  counts for a worker that is gone (`coordinator.go:234-241`); `CompleteIsTrue`
  speaks of barriers where only the cohort's workers are counted;
* without a seal the count is against the children of the report's own snapshot:
  the first worker of a fan-out can be announced as the last;
* archiving a worker forgets its report but keeps its row, and a rewind forgets the
  session's counters, so the sealed number may never be reached.

## 3. What is checked

Every run sets `CHECK_DEADLOCK FALSE`: finitely many items, events and minutes
exist, so a model that has done everything stops.

| Run | Instance | Shows |
|---|---|---|
| `turnloop` | 2 SeedAndWait inputs (one heavy, one interrupted), 1 manual compaction, queue of 2, 2 connections; about 1.9 M states | types; `OneTokenHolder`; `DeadConnWakesPump`; `BridgeRunsOnlyTheTurn`; `AnsweredByItsOwn`; `PendingReplyHasRoom`; refinement of `TurnService` (`ServiceSpec`) |
| `turnloop_live` | 1 heavy input, 1 pick, queue of 1, 2 connections, the session may close; about 70 k states | `EveryItemEnds`, `PumpEndsWithSession` |
| `eventsocket` | 2 subscribers, buffer 1, 3 lines, 2 of them coordination; about 96 k states | types; `SendsOnlyToOpen`; `WakeHasRoom`; `NoLostWakeup`; `CoordinationKept`; `InOrder`; `CoordinationReaches` |
| `scheduler` | 1 cron schedule of an agent, windows 1 and 3 of 5 minutes, grace 1, 1 manual run; about 390 k states | types; `OneDelivery`; `SkipsOnlyStale`; `NoWindowWaitsForEver` |
| `lifecycle` | 2 names (one on disk at boot or not), 2 vendors, dispatcher, boot loop and picker, 4 runs, 2 drivers, 2 calls, 1 fault, 1 turn; about 512 k states | types; `OneLoop`; `Reachable`; `OneDriver`; `TreeIsFree`; `AtRest`; `Continues`; `StopMeansStopped`; refinement of `BridgeSlot` (`ImplementsSlots`) |
| `approvals` | 2 sessions (smart, whose agent allows one of 2 commands; created without a mode), 2 calls, 1 slot each, 2 answers, 1 edit; about 745 k states | types; `SlotsHold`; `AllowedByRight`; `DenyStands`; `FirstAnswerStands`; `EveryCallReturns` |
| `coordinator` | 1 lead, 2 workers, queues of 1, 2 attempts to seed, 3 orders, 1 fault; about 250 k states | types; `NoIdleWorker`; `CompleteIsTrue`; `ReportsAreKept`; `EveryCallReturns` |

Why the bounds are enough:

* Two connections are one that dies and one that replaces it, with a hangup of
  the first left over; a queue of two holds an item behind the one in the pump.
  Three items give a turn, its automatic compaction and a manual one between two
  turns, with a rewind and an interrupt around them.
* A subscriber's buffer of one is full after one line, which is an event or a wake;
  three lines are one more than fills the channel and a reader's hands, and two
  subscribers are one that leaves while the publisher has yet to visit the other.
* Schedules share nothing but the loop's pass over them, and the pass keeps a
  stale copy of one while its own delivery goes on, so one schedule meets every
  race. Five minutes at grace 1 hold a fresh window, a stale one and one more.
* Two names are what a rename and a stale socket need; two calls are a verb and what
  undoes it, or a verb and one that overlaps it. (What needs three, such as the late
  token of a rewind after an archive and a resume, was looked for on one name with
  three and four calls, and on two names with three.) A call made while the boot loop
  runs uses the bound up. Of the unlocked calls this run has the picker's; a fork's
  restart is the one a rewind takes under the lock. Four runs are two per name: the
  one that ends and the one that replaces it.
* Two calls compete for one slot and answer each other's grants; two answers race
  for one call or settle both; one edit adds a deny, changes the mode or ends the
  session at any step.
* Two workers are the first and the last of a cohort. Three orders hold a fan-out and
  its two reports, a delegation, a fan-out and a report, or a seal among them; one
  fault is one close, archive, rename, rewind, restart or failure between any two
  steps. (Resumes are bounded by what is archived or has no driver.)

Three properties are shown by their runs only in part, and by their theorems in full:
`AnsweredByItsOwn` without picks, which `turnloop` leaves out; `InOrder` for coordination
events, since the run has one ordinary line; `SkipsOnlyStale` for a cron schedule.

### Disagreements with the documentation

Each run below checks one property, the one a document, test or comment states,
and TLC finds a behaviour of the code that breaks it.

* `turnloop_claim`, `ClaimRefusesQueued`. `core/host/session_claim_test.go:33`:
  "a session with a queued message must not be claimable". The pump dequeues
  before it takes the token, and `claimIdle` looks at the queue before it tries
  the token, so a rewind can slip in front of a message in either gap.
* `turnloop_compact`, `CompactionNeverOverlapsATurn`. The test of that name
  (`core/host/compaction_test.go:166`). `compactThroughBridge` does not drain the
  hangup as `runTurn` does, so an old one fails a compaction that the live
  bridge goes on with while the next turn is sent.
* `scheduler_inflight`, `NeverTwoInFlight`. `README.md:173-175`: "A schedule never
  has two turns in flight: a cadence faster than a turn degrades to as often as
  it can, instead of building a queue with no bottom". The claim is held while
  the task is handed over, not while its turn runs, so a fast cadence fills the
  session's queue. In the trace TLC prints, the second turn even serves the same
  window: the tick had copied the row before the first delivery stamped it.

* `lifecycle_archived`, `ArchivedHasNoBridge`.
  `core/host/reconcile_supervisor_test.go:59`: "an archived session must not leave a
  supervised bridge behind". A close that cannot remove the worktree puts the bridge
  back, also when the session was archived and had none
  (`core/internal/manager/session.go:917-926`), and reconcile only reaps names that
  are live. Renaming or switching an archived session starts its bridge too.

* `approvals_agent`, `AgentNeverWidens`. `README.md:243-244`: "an agent's own
  `APPROVALS` file can only tighten what the daemon set, never widen it", and the comment
  of `Merge`: "There is no case to handle where an agent widens what the operator
  narrowed" (`policy.go:321-324`). An agent's allow rule makes a call a match that no
  rule of the daemon's was, so `Apply` and `Judged` no longer hand it to a human or
  the judge, as ask, strict and smart mode would (`policy.go:275-279`, `355-379`;
  `approve_cmd.go:298-324` merges the rules). `AgentWidensOnlyTheUnmatched` proves
  that this is the only way an agent widens anything, and never past a deny.

One more that no run states: "A single `Esc` always interrupts a turn in progress"
(`README.md:693`), while an interrupt that the bridge's scanner reads before
`runOneTurn` has registered its cancel does nothing (`core/bridge/hub.go:50-60`,
`250-251`). `TurnLoop` has the step: `esc` is then "missed".

One hazard contradicts no document: a pick sent to a backend that cannot inject a
choice is answered by nothing (`core/bridge/hub.go:325-329`). With
`Injects = FALSE`, `EveryItemEnds` fails.

### Fairness

* `TurnLoop!Fairness`: every goroutine that can run does (weak fairness on the
  pump, on serveConn's steps, on each scanner that has a reason to end, on the
  bridge's loops); the supervisor restarts a bridge, which its loop does without
  bound; a rewind ends. `EnterTurn` is strongly fair: it is a blocking send on a
  Go channel, served in arrival order when the token returns, while a claim only
  tries. Nothing makes a caller send, a process die or a session close.
* `EventSocket!Fairness`: a publisher in its loop and a reader run; `Remove` waits
  for a Go mutex, which is starvation-free, hence strong fairness.
* `Scheduler!FairSpec`: the loop and each delivery run, turns end, a session that
  stays gets its driver. `NoWindowWaitsForEver` assumes of the environment that
  the schedule and its session stay and the daemon is not restarted for ever.
* `Approvals!Fairness`: a call's goroutine runs and its timer fires; nothing makes an
  operator answer or a model rate.
* `Coordinator!Fairness`: a pump goes on with the call it is in, the call's timers
  fire, and a close ends. Nothing makes a session take its turn or a queue empty.
* `Lifecycle` has no fairness: its properties are safety.

## 4. What is proved

Assumptions are the named `ASSUME`s of the modules: the kinds of items are
disjoint, bounds are positive naturals, coordination events are events, the
bridges of `Lifecycle` are launched with a target and a token of its sets, its
verbs are those of the session command, and the marks for "no row", "no driver" and
"no token" are no session, no driver and no token. The
cadences of the schedules are not restricted for the proofs.

| Theorem | States | Argument |
|---|---|---|
| `TurnLoopProofs!TypeCorrect` | `[]TypeOK` | Inductive as it stands; one step per action, by the part of the type it disturbs. |
| `TurnLoopProofs!HangupNeverLost` | `[]DeadConnWakesPump` | Inductive with `TypeOK`: a drain happens before the event is sent, and an awaited connection leaves `serve`/`exit` only through `PostHangup`. |
| `TurnLoopProofs!TokenExclusive` | `[]OneTokenHolder` | Inductive: the token moves only with `pc` or `rpc`. |
| `TurnLoopProofs!ReplyNeverBlocks` | `[]PendingReplyHasRoom` | Not inductive alone: a waiter that registers must find its channel empty, so the invariant adds that a caller not yet registered has nothing in its box. |
| `TurnServiceProofs!SessionImplementsService` | `Spec => ServiceSpec` | Needs that the queued items, and the one the pump holds before it is settled, are still "waiting" and in no other place; then each step of a session is a step of the service or a stutter. |
| `TurnLoopProofs!BridgeRunsOne`, `AnswersAreOwn` | `[]BridgeRunsOnlyTheTurn`, `[]AnsweredByItsOwn` | `WireInv` follows a piece of work and its answer through both streams: until a connection is lost there is one work frame at most, in the stream down or in the bridge's hands, or one answer, in the stream up or with the pump, and it is of the item the pump is on. |
| `EventSocketProofs!SocketTyped` | `[]TypeOK` | Inductive; channels and lists by two lemmas on one changed entry. |
| `EventSocketProofs!NeverSendsOnClosed` | `[]SendsOnlyToOpen` | Strengthened: registered subscribers have an open channel, and `todo` is empty when the mutex is free. |
| `EventSocketProofs!WakeNeverBlocks` | `[]WakeHasRoom` | Inductive with `TypeOK`: only the publisher adds to a channel, and it holds the mutex. |
| `EventSocketProofs!WakeupNeverLost` | `[]NoLostWakeup` | Inductive with `TypeOK`: a reader goes to sleep only with an empty list. |
| `EventSocketProofs!CoordinationIsKept` | `[]CoordinationKept` | `KeptInv`: where the line being published can still be, and that a reader's hands hold what left its list until it is written. |
| `EventSocketProofs!SeenInOrder` | `[]InOrder` | `OrderInv`: what is written, in hand, queued and being published follow one another, for ordinary events along the channel and for coordination events along the list. |
| `SchedulerProofs!ScheduleTyped` | `[]TypeOK` | Inductive with `DeliveryInv`; a window served is the maximum of a finite set of minutes, hence a minute. |
| `SchedulerProofs!OneDeliveryAtATime` | `[]OneDelivery` | Strengthened by the shape of a delivery's record; claims and releases move with `fires`. |
| `SchedulerProofs!CadenceSkipsOnlyStale` | `SkipsOnlyStale` | `PhaseInv`: a delivery under way, and the tick's copy of a row, count windows in phase with the row as it is now, unless the schedule was overtaken. So what a stamp passes over is a window the delivery had before it, and what a realignment passes over was stale on the copy and on the row. |
| `SupervisorProofs!LoopIsReachable` | `[]Reachable` | `SupInv`: a loop that has not returned is its name's entry, an entry was launched for its name, and a caller that waits waits for a run of its name. |
| `SupervisorProofs!OneLoopPerName` | `[]OneLoop` | From `Reachable`: two loops of a name would both be its one entry. |
| `SupervisorProofs!StopWaits` | `StopMeansStopped` | `SupInv` adds that the loops a call saw at its start have ended or are the one it waits for. |
| `SupervisorProofs!SupervisorIsSlots` | `SupSpec => ImplementsSlots` | Under `SupInv` the slot of a name is a function of its entry; each step is then a step of `BridgeSlot` or a stutter. |
| `LifecycleProofs!LifecycleSupervises` | `Spec => SupSpec` | `LifeInv` types the job of every caller by the step it is at (`JobInv`), so that each call reaches the supervisor with a session that exists: a switch reads its row again, which only the holder of the dispatch lock could have removed (`SwitchInv`), and the boot loop starts rows it loaded. |
| `LifecycleProofs!LoopsOfTheDaemon` | `[]OneLoop`, `StopMeansStopped` | The supervisor's theorems, through `LifecycleSupervises`. |
| `LifecycleProofs!HubTyped`, `OneDriverPerName` | `[]HubTypeOK`, `[]OneDriver` | Types and `DriverKept` are part of `LifeInv`, one lemma per verb: a driver at work is the entry of its name, or the `goDead` that took it out has yet to cancel it. That there is one at most needs `RestInv`: whoever is about to cancel a driver acts alone on a name nobody marred (`OneActs`), whose entry then stays empty. |
| `LifecycleProofs!TreeIsFreeOnClose` | `[]TreeIsFree` | `TreeInv`: callers under and outside the dispatch lock keep apart on a name nobody marred, the call of a caller into the supervisor is for the name of its verb, and from the stop of a close to its removal of the worktree no loop of that name runs. The stop leaves none by `StopMeansStopped`'s invariant, and no one else may start one. |
| `LifecycleProofs!RestsWhenQuiet` | `[]AtRest` | `RestInv`: for a name that nobody marred, where the row, the bridge, the entry of the table, the driver and the socket differ, the one caller that may act on the name is on its way to put it right (`BridgeBy`, `HostedBy`), or reconcile still has the name to sweep or to raise (`Swept`). The verbs and the boot loop know enough of their row for that (`Knows`, `BootKnows`): a `Stop` that returned has left no entry, a bridge is launched with the backend of the row. A step of a caller changes only names it acts on (`Rests`, one lemma per kind of step), so `RestsKeeps` carries the others over. |
| `LifecycleProofs!ContinuesOwn` | `[]Continues` | `TokInv`, inductive only together with `RestInv`: of a name that nobody marred, the row, the conversation its bridge was launched with, the conversation a call about to launch one carries and the token each turn will report or reports agree (`Told`), or differ by the one step in which a turn names the conversation it began (`Fits`, `Tells`), or a switch is about to restart the bridge. A job knows what it read of its row (`Recalls`). The steps that would break this are those that write the token or give the name again; for them the invariant says that no turn is about the name (`Hushed`): none at all for a restart, a switch, a create or the new name of a rename, none but the live driver's for a rewind, whose claim then holds that driver's turn until the session is dead. |
| `ApprovalProofs!ApprovalsTyped`, `SlotsAreHeld` | `[]TypeOK`, `[]SlotsHold` | Inductive together; the caps by the cardinality of one more and one fewer call. |
| `ApprovalProofs!DenyAlwaysStands` | `[]DenyStands` | Strengthened: past its verdict, a call that a rule denies is on its way to a refusal, and never to a slot. |
| `ApprovalProofs!TheFirstAnswerStands` | `FirstAnswerStands` | Strengthened: an answer in a channel is the first sent to that call, and a call that took one returns it. |
| `ApprovalProofs!AllowedOnlyByRight` | `[]AllowedByRight` | Strengthened: what drivers remember and rate was allowed or rated low by somebody (`kept`, `passed`), and each stage names where its verdict came from. |
| `ApprovalProofs!AgentWidensOnlyTheUnmatched`, `RuleNamesOneCall` | on `Merge`, `Decide`, `Apply`, `Judged`, `RuleFor` | From the definitions; about all rules and requests, without a specification. |
| `CoordinatorProofs!TypeCorrect` | `[]TypeOK` | Inductive with `CallInv`: what a call carries at each of its steps, a fan-out at its seal at least one worker made, a name in hand never one of the operator's. |
| `CoordinatorProofs!NoWorkerIdles` | `[]NoIdleWorker` | Inductive with the types: the call that has a worker in hand leaves it only with the task given, the row gone, or a failure or a rename recorded. |
| `CoordinatorProofs!BarrierIsTrue` | `[]CompleteIsTrue` | Strengthened: a call counts at least the workers at hand but for the one it is making (`Counted`), which rests on a name about to be used being no worker of its own session (`Fresh`); so a number, when set, covers its cohort (`CohortFits`), and as many reports from a cohort are all of it. |
| `CoordinatorProofs!ReportsKept` | `ReportsAreKept` | From the types and `ClosingGone`: what waits to be reaped has no row or an archived one. |

Each inductive invariant was first checked by TLC on the instance of the module's
run, or a smaller one; `PhaseInv` on the periodic schedule described above.

Only model-checked: the liveness properties (`EveryItemEnds`, `PumpEndsWithSession`,
`CoordinationReaches`, `NoWindowWaitsForEver` and the two `EveryCallReturns`), since
fairness is beyond the prover. Every safety invariant, action property and refinement
that a run checks is also a theorem.

## 5. What is not modelled, and the plan

Not modelled:

* Handoff limiter: one map under one mutex with a deferred release. Key proxy:
  `pick`, `cool` and the cooldowns are each under one mutex, around an HTTP reverse
  proxy. Both would be small models of their own, apart from the rest.
* Checkpoints: the refs are git's; what the daemon adds, the claim of a session and
  its restart, is in `TurnLoop` and `Lifecycle`.
* Worktrees, forge, configuration, authorisation and agent lookups: pure functions
  over files and commands. The service installer and `manage`: process I/O. The
  terminal plugin: rendering. Translations and repository tools.
* Of the modelled parts, what `PROJECT.json` says under "components".

What is left, in this order:

1. The composition of `Coordinator` with `TurnLoop`, whose queue it now models as a
   number.
2. The key proxy's pool and the handoff limiter.
