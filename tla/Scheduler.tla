------------------------------ MODULE Scheduler ------------------------------
(***************************************************************************)
(* The proactive schedules of the daemon: the loop of core/host/           *)
(* scheduler.go, the rules of core/internal/schedule, the rows of          *)
(* core/internal/state/schedules.go and the verbs of                       *)
(* core/host/schedule_cmd.go.                                              *)
(*                                                                         *)
(* The loop reads the clock, copies the rows, then goes through its copy   *)
(* while goroutines it started at earlier ticks deliver and stamp, and     *)
(* operators pause, resume, remove and fire by hand.  The daemon may die   *)
(* between any two steps; only the rows are on disk.                       *)
(*                                                                         *)
(* Time is counted in minutes, the grain of cron and of the loop.          *)
(***************************************************************************)
EXTENDS Naturals, FiniteSetsExt

CONSTANTS
    Sched,        \* the schedules
    Agents,       \* those with an --agent target, which open their session
    Period,       \* --every, in minutes, or 0 for a cron
    Cron,         \* the minutes a cron matches
    Grace,        \* --grace, in minutes
    Capacity,     \* turnQueueCapacity of a target session
    MaxTime,      \* bound: the last minute
    MaxRuns       \* bound: how many times schedules are fired by hand

Time == 0..MaxTime

ASSUME CadenceAssumption ==
    /\ Agents \subseteq Sched
    /\ Period \in [Sched -> Nat]
    /\ Cron \in [Sched -> SUBSET Time]
ASSUME BoundAssumption ==
    /\ MaxTime \in Nat /\ MaxRuns \in Nat
    /\ Grace \in Nat \ {0} /\ Capacity \in Nat \ {0}

VARIABLES
    now,          \* the clock
    rows,         \* the schedules on disk
    anchor,       \* the point each counts from: LastRun, or CreatedAt
    paused,       \* Paused
    resuming,     \* the schedules a resume has unpaused and not yet stamped
    overtaken,    \* history: those restarted by an operator under a tick or a delivery
    caughtUp,     \* whether Run has had its first tick since the daemon started
    loop,         \* the tick in progress: what it read, and what it has to do
    inflight,     \* s.inflight
    fires,        \* the turns being delivered, by dispatch and by fireNow
    runs,         \* how many times schedules were fired by hand
    up,           \* the schedules whose target session exists, unarchived
    driven,       \* those whose session has a driver to take a seed
    pending       \* how many turns of each are queued or running in its session

disk == <<rows, anchor, paused>>
operator == <<resuming, overtaken>>
sessions == <<up, driven, pending>>
vars == <<now, disk, operator, caughtUp, loop, inflight, fires, runs, sessions>>

\* A turn being delivered.  One fired by hand has no window to stamp; none opens
\* at minute 0, from which the first anchors count.
Manual == 0
Fire == [sched : Sched, when : Time, step : {"target", "seed", "stamp"}]
\* A tick has read the clock, then the rows; todo is what it has yet to visit.
Tick == [pc : {"idle", "clock", "catchUp", "tick"}, at : Time, todo : SUBSET Sched,
         paused : SUBSET Sched, anchor : [Sched -> Time]]
Idle == [pc |-> "idle", at |-> 0, todo |-> {}, paused |-> {}, anchor |-> [s \in Sched |-> 0]]

TypeOK ==
    /\ now \in Time
    /\ rows \subseteq Sched /\ anchor \in [Sched -> Time] /\ paused \subseteq Sched
    /\ resuming \subseteq Sched /\ overtaken \subseteq Sched
    /\ caughtUp \in BOOLEAN
    /\ loop \in Tick
    /\ inflight \subseteq Sched
    /\ fires \subseteq Fire
    /\ runs \in 0..MaxRuns
    /\ driven \subseteq up /\ up \subseteq Sched
    /\ pending \in [Sched -> 0..Capacity] /\ \A s \in Sched \ driven : pending[s] = 0

Init ==
    /\ now = 0
    /\ rows = Sched /\ anchor = [s \in Sched |-> 0] /\ paused = {}
    /\ resuming = {} /\ overtaken = {} /\ caughtUp = FALSE /\ loop = Idle
    /\ inflight = {} /\ fires = {} /\ runs = 0
    /\ up = Sched \ Agents /\ driven = {}
    /\ pending = [s \in Sched |-> 0]

-----------------------------------------------------------------------------
(* core/internal/schedule: windows counted from an anchor a, seen at t.    *)

Opens(s, a, w) == IF Period[s] > 0 THEN (w - a) % Period[s] = 0 ELSE w \in Cron[s]

\* The windows since the anchor.  Due asks only whether the first has come.
Missed(s, a, t) == {w \in (a + 1)..t : Opens(s, a, w)}
Due(s, a, t) == Missed(s, a, t) # {}

\* Those the grace still serves; CatchUp, Window and stampFor take the last.
Fresh(s, a, t) == {w \in Missed(s, a, t) : t - w <= Grace}
Stale(s, a, t) == Due(s, a, t) /\ Fresh(s, a, t) = {}

-----------------------------------------------------------------------------
(* The loop.                                                               *)

\* now := s.now(); the rows are copied later.
TickReadsClock ==
    /\ loop.pc = "idle"
    /\ loop' = [Idle EXCEPT !.pc = "clock", !.at = now]
    /\ UNCHANGED <<now, disk, operator, caughtUp, inflight, fires, runs, sessions>>

\* SnapshotSchedules.  The first tick of a daemon catches up.
TickReadsRows ==
    /\ loop.pc = "clock"
    /\ loop' = [pc |-> IF caughtUp THEN "tick" ELSE "catchUp", at |-> loop.at,
                todo |-> rows, paused |-> paused, anchor |-> anchor]
    /\ caughtUp' = TRUE
    /\ overtaken' = overtaken \cap inflight
    /\ UNCHANGED <<now, disk, resuming, inflight, fires, runs, sessions>>

\* What the tick knows of s: its copy, however old.
SeenFresh(s) == Fresh(s, loop.anchor[s], loop.at)
SeenStale(s) == Stale(s, loop.anchor[s], loop.at)

Visited(s) ==
    loop' = IF loop.todo = {s} THEN Idle ELSE [loop EXCEPT !.todo = @ \ {s}]

TickHasNothing ==
    /\ loop.pc \in {"tick", "catchUp"}
    /\ loop.todo = {}
    /\ loop' = Idle
    /\ UNCHANGED <<now, disk, operator, caughtUp, inflight, fires, runs, sessions>>

\* Mutant: the window is served whatever has been claimed since.
ClaimAlways(f) ==
    /\ inflight' = inflight \cup {f.sched}
    /\ fires' = fires \cup {f}

\* claim, and the goroutine that has it.
Claim(f) ==
    /\ f.sched \notin inflight
    /\ inflight' = inflight \cup {f.sched}
    /\ fires' = fires \cup {f}

\* dispatch, by a tick or by the catch-up; the latter leaves a stale window be.
Dispatch(s) ==
    /\ s \in loop.todo
    /\ s \notin loop.paused
    /\ SeenFresh(s) # {}
    /\ Claim([sched |-> s, when |-> Max(SeenFresh(s)), step |-> "target"])
    /\ Visited(s)
    /\ UNCHANGED <<now, disk, operator, caughtUp, runs, sessions>>

\* Mutant: a stale window is left as it is.
LeaveStale(s) ==
    /\ loop.pc = "tick"
    /\ s \in loop.todo
    /\ s \notin loop.paused /\ s \notin inflight
    /\ SeenStale(s)
    /\ Visited(s)
    /\ UNCHANGED <<now, disk, operator, caughtUp, inflight, fires, runs, sessions>>

\* realign: the cadence restarts from the tick; a row removed meanwhile is not
\* written back.
Realign(s) ==
    /\ loop.pc = "tick"
    /\ s \in loop.todo
    /\ s \notin loop.paused /\ s \notin inflight
    /\ SeenStale(s)
    /\ anchor' = [anchor EXCEPT ![s] = IF s \in rows THEN loop.at ELSE @]
    /\ Visited(s)
    /\ UNCHANGED <<now, rows, paused, operator, caughtUp, inflight, fires, runs, sessions>>

Skip(s) ==
    /\ s \in loop.todo
    /\ \/ s \in loop.paused
       \/ s \in inflight
       \/ SeenFresh(s) = {} /\ (loop.pc = "catchUp" \/ ~SeenStale(s))
    /\ Visited(s)
    /\ UNCHANGED <<now, disk, operator, caughtUp, inflight, fires, runs, sessions>>

-----------------------------------------------------------------------------
(* The delivery of a turn.                                                 *)

\* The deferred release.
GiveUp(f) ==
    /\ fires' = fires \ {f}
    /\ inflight' = inflight \ {f.sched}

Proceed(f, step) ==
    /\ fires' = (fires \ {f}) \cup {[f EXCEPT !.step = step]}
    /\ UNCHANGED inflight

\* target finds the session there.
TargetLive(f) ==
    /\ f.step = "target"
    /\ f.sched \in up
    /\ Proceed(f, "seed")
    /\ UNCHANGED <<now, disk, operator, caughtUp, loop, runs, sessions>>

\* An agent's session is created under the schedule's own name; its driver
\* registers later.
TargetCreated(f) ==
    /\ f.step = "target"
    /\ f.sched \in Agents \ up
    /\ up' = up \cup {f.sched}
    /\ Proceed(f, "seed")
    /\ UNCHANGED <<now, disk, operator, caughtUp, loop, runs, driven, pending>>

\* The session is not there, or could not be created before fireTimeout.
TargetFails(f) ==
    /\ f.step = "target"
    /\ f.sched \notin up
    /\ GiveUp(f)
    /\ UNCHANGED <<now, disk, operator, caughtUp, loop, runs, sessions>>

\* Mutant: the queue of the session has no bound.
SeedUnbounded(f) ==
    /\ f.step = "seed"
    /\ f.sched \in driven
    /\ pending' = [pending EXCEPT ![f.sched] = @ + 1]
    /\ IF f.when = Manual THEN GiveUp(f) ELSE Proceed(f, "stamp")
    /\ UNCHANGED <<now, disk, operator, caughtUp, loop, runs, up, driven>>

\* seed: the driver queues the task and answers at once.
Seed(f) ==
    /\ f.step = "seed"
    /\ f.sched \in driven
    /\ pending[f.sched] < Capacity
    /\ pending' = [pending EXCEPT ![f.sched] = @ + 1]
    /\ IF f.when = Manual THEN GiveUp(f) ELSE Proceed(f, "stamp")
    /\ UNCHANGED <<now, disk, operator, caughtUp, loop, runs, up, driven>>

\* No driver takes it, or its queue stays full for enqueueTimeout.
SeedFails(f) ==
    /\ f.step = "seed"
    /\ f.sched \notin driven \/ pending[f.sched] = Capacity
    /\ GiveUp(f)
    /\ UNCHANGED <<now, disk, operator, caughtUp, loop, runs, sessions>>

\* Mutant: the moment of the delivery is stamped, not its window.
StampNow(f) ==
    /\ f.step = "stamp"
    /\ anchor' = [anchor EXCEPT ![f.sched] = IF f.sched \in rows THEN now ELSE @]
    /\ GiveUp(f)
    /\ UNCHANGED <<now, rows, paused, operator, caughtUp, loop, runs, sessions>>

\* StampScheduleRun with the window served, then the release.
Stamp(f) ==
    /\ f.step = "stamp"
    /\ anchor' = [anchor EXCEPT ![f.sched] = IF f.sched \in rows THEN f.when ELSE @]
    /\ GiveUp(f)
    /\ UNCHANGED <<now, rows, paused, operator, caughtUp, loop, runs, sessions>>

-----------------------------------------------------------------------------
(* The verbs, the sessions, the clock and the daemon.                      *)

\* fireNow, which neither the cadence nor a pause holds back.
FireNow(s) ==
    /\ s \in rows
    /\ runs < MaxRuns
    /\ runs' = runs + 1
    /\ Claim([sched |-> s, when |-> Manual, step |-> "target"])
    /\ UNCHANGED <<now, disk, operator, caughtUp, loop, sessions>>

Pause(s) ==
    /\ s \in rows \ paused
    /\ paused' = paused \cup {s}
    /\ UNCHANGED <<now, rows, anchor, operator, caughtUp, loop, inflight, fires, runs, sessions>>

\* The cadence of s restarts now: a tick that has yet to visit s, or a delivery
\* of s, has its windows from the old one.
Restarted(s) ==
    overtaken' = IF s \in loop.todo \cup inflight THEN overtaken \cup {s} ELSE overtaken

\* schedule resume clears the pause, then restarts the cadence: two writes.
Resume(s) ==
    /\ s \in rows \ resuming
    /\ paused' = paused \ {s}
    /\ resuming' = resuming \cup {s}
    /\ UNCHANGED <<now, rows, anchor, overtaken, caughtUp, loop, inflight, fires, runs, sessions>>

ResumeStamp(s) ==
    /\ s \in resuming
    /\ resuming' = resuming \ {s}
    /\ anchor' = [anchor EXCEPT ![s] = IF s \in rows THEN now ELSE @]
    /\ Restarted(s)
    /\ UNCHANGED <<now, rows, paused, caughtUp, loop, inflight, fires, runs, sessions>>

\* schedule add of a new name; one that exists is refused.
Add(s) ==
    /\ s \notin rows
    /\ rows' = rows \cup {s}
    /\ anchor' = [anchor EXCEPT ![s] = now]
    /\ Restarted(s)
    /\ UNCHANGED <<now, paused, resuming, caughtUp, loop, inflight, fires, runs, sessions>>

Remove(s) ==
    /\ s \in rows
    /\ rows' = rows \ {s}
    /\ paused' = paused \ {s}
    /\ UNCHANGED <<now, anchor, operator, caughtUp, loop, inflight, fires, runs, sessions>>

\* The bridge of a session that exists is driven.
SessionLive(s) ==
    /\ s \in up \ driven
    /\ driven' = driven \cup {s}
    /\ UNCHANGED <<now, disk, operator, caughtUp, loop, inflight, fires, runs, up, pending>>

\* It is closed or archived; what it had queued is lost.
SessionGone(s) ==
    /\ s \in up
    /\ up' = up \ {s}
    /\ driven' = driven \ {s}
    /\ pending' = [pending EXCEPT ![s] = 0]
    /\ UNCHANGED <<now, disk, operator, caughtUp, loop, inflight, fires, runs>>

\* One of its turns ends.
TurnEnds(s) ==
    /\ pending[s] > 0
    /\ pending' = [pending EXCEPT ![s] = @ - 1]
    /\ UNCHANGED <<now, disk, operator, caughtUp, loop, inflight, fires, runs, up, driven>>

Minute ==
    /\ now < MaxTime
    /\ now' = now + 1
    /\ UNCHANGED <<disk, operator, caughtUp, loop, inflight, fires, runs, sessions>>

\* The daemon dies and starts again: the rows and the sessions are on disk.
Restart ==
    /\ resuming' = {} /\ overtaken' = {} /\ caughtUp' = FALSE /\ loop' = Idle
    /\ inflight' = {} /\ fires' = {}
    /\ driven' = {} /\ pending' = [s \in Sched |-> 0]
    /\ UNCHANGED <<now, disk, runs, up>>

-----------------------------------------------------------------------------

Loop ==
    \/ TickReadsClock \/ TickReadsRows \/ TickHasNothing
    \/ \E s \in Sched : Dispatch(s) \/ Realign(s) \/ Skip(s)

Deliver(f) ==
    \/ TargetLive(f) \/ TargetCreated(f) \/ TargetFails(f)
    \/ Seed(f) \/ SeedFails(f) \/ Stamp(f)

Verb(s) == Add(s) \/ FireNow(s) \/ Pause(s) \/ Resume(s) \/ ResumeStamp(s) \/ Remove(s)
Session(s) == SessionLive(s) \/ SessionGone(s) \/ TurnEnds(s)

Next ==
    \/ Loop \/ Minute \/ Restart
    \/ \E f \in fires : Deliver(f)
    \/ \E s \in Sched : Verb(s) \/ Session(s)

Spec == Init /\ [][Next]_vars

\* The loop and the goroutines run; turns end; a session that stays is driven.
FairSpec ==
    /\ Spec
    /\ WF_vars(Loop)
    /\ \A s \in Sched :
           /\ WF_vars(\E f \in fires : f.sched = s /\ Deliver(f))
           /\ WF_vars(TurnEnds(s)) /\ WF_vars(SessionLive(s))

-----------------------------------------------------------------------------
(* Properties.                                                             *)

\* Whatever fires a schedule, at most one delivery of it is under way, and it
\* holds the claim: an agent's session is never created twice, and a claim is
\* never left behind to silence a schedule for good.
OneDelivery ==
    /\ \A f, g \in fires : f.sched = g.sched => f = g
    /\ inflight = {f.sched : f \in fires}

\* The cadence passes over a window, without delivering it or a later one, only
\* when it is older than the grace, or when an operator resumes the schedule.
\* A delivery that an operator has overtaken stamps its window over the new
\* cadence of an --every schedule and shifts its windows under the tick: until
\* the next tick that finds nothing of it under way, such a schedule is left out.
SkipsOnlyStale ==
    [][\A s \in rows :
           /\ anchor'[s] > anchor[s] /\ resuming' = resuming
           /\ Period[s] = 0 \/ s \notin overtaken
           => \A w \in Fresh(s, anchor[s], anchor'[s]) :
                  \E f \in fires : f.sched = s /\ f.when # Manual /\ f.when >= w]_vars

\* A window that has come is served or given up, whatever tick, delivery or
\* operator it met: once its schedule is left live with a session to go to, in
\* a daemon that stays up, the schedule does not stay due.
NoWindowWaitsForEver ==
    \A s \in Sched :
        /\ <>[](s \in (rows \cap up) \ paused)
        /\ <>[][~Restart]_vars
        => []<>~Due(s, anchor[s], now)

\* README.md: a schedule never has two turns in flight.
NeverTwoInFlight == \A s \in Sched : pending[s] <= 1

=============================================================================
