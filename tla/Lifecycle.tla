----------------------------- MODULE Lifecycle ------------------------------
(***************************************************************************)
(* The life of a session: the verbs of core/internal/manager/session.go,   *)
(* the state store they write (core/internal/state/state.go), the hub's    *)
(* live sessions (core/host/hub.go), the checkpoint verbs that restart a   *)
(* session (core/host/checkpoint_cmd.go) and the supervisor of its bridge. *)
(*                                                                         *)
(* Disp is the goroutine that holds h.dispatchMu: it runs one verb, then   *)
(* reconcile.  The Unlocked callers take no dispatchMu: the boot loop, the *)
(* terminal's Resume, the restart a fork ends with.  A driver is one       *)
(* runSessionIdentified goroutine with its control acceptor and its        *)
(* turn loop, whose turns are reduced to the resume token they report.     *)
(***************************************************************************)
EXTENDS Supervisor

CONSTANTS
  Disp, Unlocked,     \* the callers
  Boot,               \* the unlocked caller that runs the boot loop
  Vendor,             \* backends
  Driver,             \* live sessions a behaviour can have at once
  Verb,               \* the dispatched verbs a behaviour uses
  UnlockedVerb,       \* the unlocked calls it uses, out of resume and restart
  Absent, NoToken, NoDriver,
  MaxCalls, MaxFaults, MaxTurns,   \* bounds; a fault is a failure or the exit of a bridge
  Rows                \* the names that can be on disk when the daemon boots

ASSUME CallerAssumption == Caller = {Disp} \cup Unlocked /\ Boot \in Unlocked /\ Disp \notin Unlocked

\* A resume token names a conversation of a vendor: the one the session had, or
\* the one a rewind or a fork cut from it.
Token == [vendor : Vendor, conv : {"own", "cut"}] \cup {NoToken}
Session == [vendor : Vendor, token : Token, archived : BOOLEAN]
ConfOf(s) == [vendor |-> s.vendor, token |-> s.token]

\* A bridge is launched with a target and a conversation.  The verbs that take
\* the dispatch lock, and the calls that do not.
ASSUME ConfAssumption == Conf = [vendor : Vendor, token : Token]
ASSUME VerbAssumption ==
  /\ Verb \subseteq {"create", "close", "archive", "unarchive", "switch", "rewind", "rename", "other"}
  /\ UnlockedVerb \subseteq {"resume", "restart"}
ASSUME DriverAssumption == NoDriver \notin Driver /\ Absent \notin Session
ASSUME TokenAssumption == NoToken \notin [vendor : Vendor, conv : {"own", "cut"}]

VARIABLES
  rec,      \* state.Sessions in memory: [Name -> Session \cup {Absent}]
  disk,     \* state.json
  live,     \* h.live: [Name -> Driver \cup {NoDriver}]
  driver,   \* [Driver -> [at, name, cancelled]]
  turn,     \* the turn a driver is in
  socket,   \* the driver whose acceptor listens on the control socket's path
  job,      \* what each caller is doing, outside the supervisor
  marred,   \* names for which a save, an accept or a teardown went wrong, or an
            \* unlocked call overlapped another call, or a turn was in flight while
            \* its session was restarted or switched, or its name given again, or one
            \* of a cancelled driver while its session was rewound (history)
  count     \* calls, faults and turns so far

hubVars == <<rec, disk, live, driver, turn, socket, marred, count>>
vars == <<supVars, hubVars, job>>

NoJob == [verb |-> "none"]
Job(v, n, m, s) ==
  [verb |-> v, at |-> v, name |-> n, to |-> m, sess |-> s, cur |-> n, ret |-> "finish",
   all |-> rec, todo |-> {}, drv |-> NoDriver, claim |-> NoDriver, ok |-> TRUE]

Busy(c) == job[c] # NoJob
At(c, l) == Busy(c) /\ job[c].at = l /\ call[c] = Idle
Recorded(n) == rec[n] # Absent
InUse(n) == rec[n] # Absent /\ ~rec[n].archived
Quiet == \A c \in Caller : ~Busy(c) /\ call[c] = Idle

IdleTurn == [at |-> "idle"]

Init ==
  /\ SupInit
  /\ rec \in [Name -> {Absent} \cup [vendor : {CHOOSE w \in Vendor : TRUE}, token : {NoToken}, archived : BOOLEAN]]
  /\ \A n \in Name \ Rows : rec[n] = Absent
  /\ disk = rec
  /\ live = [n \in Name |-> NoDriver]
  /\ driver = [d \in Driver |-> [at |-> "unused", name |-> CHOOSE n \in Name : TRUE, cancelled |-> FALSE]]
  /\ turn = [d \in Driver |-> IdleTurn]
  /\ socket = [n \in Name |-> NoDriver]
  /\ marred = {}
  /\ count = [calls |-> 0, faults |-> 0, turns |-> 0]
  /\ LET n0 == CHOOSE n \in Name : TRUE IN
     job = [c \in Caller |->
              IF c = Boot THEN [Job("boot", n0, n0, Absent) EXCEPT !.todo = {n \in Name : InUse(n)}]
              ELSE NoJob]

-----------------------------------------------------------------------------
(* Building blocks *)

Go(c, l) == job' = [job EXCEPT ![c].at = l]
Fail(c) == job' = [job EXCEPT ![c].at = "finish", ![c].ok = FALSE]
Count(f) == count' = [count EXCEPT ![f] = @ + 1]

\* A call into the supervisor; the caller goes on at l when it returns.
SupCall(c, op, n, s, l) ==
  /\ Begin(c, op, n, ConfOf(s))
  /\ Go(c, l)
  /\ UNCHANGED hubVars

\* saveLocked after a change of the rows in memory: it reaches the disk, whole,
\* or fails and leaves the change in memory.
SaveWorks(new) ==
  rec' = new /\ disk' = new /\ UNCHANGED <<marred, count>>
SaveFails(new, names) ==
  /\ count.faults < MaxFaults /\ Count("faults")
  /\ rec' = new /\ marred' = marred \cup names /\ UNCHANGED disk

\* A setter that returns early when nothing changes.
Unchanged(new) == new = rec /\ UNCHANGED <<rec, disk, marred, count>>

\* A step of the caller that changes the rows: l when it succeeds, an error
\* to the end of the verb otherwise.
Write(c, new, names, l) ==
  /\ \/ SaveWorks(new) /\ Go(c, l)
     \/ SaveFails(new, names) /\ Fail(c)
  /\ UNCHANGED <<supVars, live, driver, turn, socket>>

WriteIfChanged(c, new, names, l) ==
  IF new = rec
  THEN Unchanged(new) /\ Go(c, l) /\ UNCHANGED <<supVars, live, driver, turn, socket>>
  ELSE Write(c, new, names, l)

SetArchived(n, b) == IF Recorded(n) THEN [rec EXCEPT ![n].archived = b] ELSE rec
SetResumeToken(n, t) == IF Recorded(n) THEN [rec EXCEPT ![n].token = t] ELSE rec

\* An entry that stands for a driver yet to be created: nothing of the one it
\* stood for is left.
Fresh(d) == /\ driver[d].at # "driving" /\ turn[d] = IdleTurn
            /\ \A n \in Name : live[n] # d
            /\ \A b \in Caller : Busy(b) => d \notin {job[b].drv, job[b].claim}

\* goLive of n, all of it under h.lifecycle: nothing if the name is live, nothing
\* but a warning if the control socket cannot be bound.
GoLive(n) ==
  /\ \/ live[n] # NoDriver /\ UNCHANGED <<live, driver, socket, marred, count>>
     \/ /\ live[n] = NoDriver /\ count.faults < MaxFaults /\ Count("faults")
        /\ marred' = marred \cup {n}
        /\ UNCHANGED <<live, driver, socket>>
     \/ /\ live[n] = NoDriver
        /\ \E d \in Driver :
             /\ Fresh(d) /\ \A e \in Driver : e < d => ~Fresh(e)
             /\ live' = [live EXCEPT ![n] = d]
             /\ driver' = [driver EXCEPT ![d] = [at |-> "driving", name |-> n, cancelled |-> FALSE]]
             /\ socket' = [socket EXCEPT ![n] = d]
        /\ UNCHANGED <<marred, count>>
  /\ UNCHANGED <<supVars, rec, disk, turn>>

\* goDead of n: stop the bridge, take the session out of the table, cancel it once
\* the locks are released, then wait for its goroutine, but not longer than
\* teardownGrace.  The caller goes on at l.
GoDead(c, n, l) ==
  /\ Begin(c, "stop", n, CHOOSE k \in Conf : TRUE)
  /\ job' = [job EXCEPT ![c].at = "dead.delete", ![c].ret = l, ![c].cur = n, ![c].todo = @ \ {n}]

\* Mutant: what is taken out of the table is not kept to be cancelled.
DeadDeleteOnly(c) ==
  /\ At(c, "dead.delete")
  /\ live' = [live EXCEPT ![job[c].cur] = NoDriver]
  /\ Go(c, "dead.cancel")
  /\ UNCHANGED <<supVars, rec, disk, driver, turn, socket, marred, count>>

DeadDelete(c) ==
  LET n == job[c].cur IN
  /\ At(c, "dead.delete")
  /\ live' = [live EXCEPT ![n] = NoDriver]
  /\ job' = [job EXCEPT ![c].at = "dead.cancel", ![c].drv = live[n]]
  /\ UNCHANGED <<supVars, rec, disk, driver, turn, socket, marred, count>>

DeadCancel(c) ==
  LET d == job[c].drv IN
  /\ At(c, "dead.cancel")
  /\ driver' = IF d = NoDriver THEN driver ELSE [driver EXCEPT ![d].cancelled = TRUE]
  /\ Go(c, "dead.wait")
  /\ UNCHANGED <<supVars, rec, disk, live, turn, socket, marred, count>>

\* Mutant: the goroutine of the session is not waited for.
DeadWaitNot(c) ==
  /\ At(c, "dead.wait")
  /\ job' = [job EXCEPT ![c].at = job[c].ret, ![c].drv = NoDriver]
  /\ UNCHANGED <<supVars, hubVars>>

DeadWait(c) ==
  LET d == job[c].drv IN
  /\ At(c, "dead.wait")
  /\ \/ (d # NoDriver => driver[d].at = "ended") /\ UNCHANGED <<marred, count>>
     \/ /\ d # NoDriver /\ driver[d].at # "ended" /\ count.faults < MaxFaults
        /\ Count("faults") /\ marred' = marred \cup {job[c].cur}
  /\ job' = [job EXCEPT ![c].at = job[c].ret, ![c].drv = NoDriver]
  /\ UNCHANGED <<supVars, rec, disk, live, driver, turn, socket>>

-----------------------------------------------------------------------------
(* The verbs: parsed and checked against the rows, they go to the label of  *)
(* their name.  A verb refused by its checks, and every verb that only      *)
(* reads, is "other": reconcile runs after it all the same.                 *)

\* The names the calls in progress are about.
Touches(c) == IF ~Busy(c) THEN {}
              ELSE IF job[c].verb = "boot" THEN job[c].todo \cup {job[c].cur}
              ELSE {job[c].name, job[c].to}
TurnsOf(n) == {d \in Driver : driver[d].name = n /\ turn[d] # IdleTurn}
InTurn(n) == TurnsOf(n) # {}
Late(n) == TurnsOf(n) \ {live[n]} # {}    \* a turn of a driver that is no longer live
Touched == UNION {Touches(c) : c \in Caller}

\* The bound on calls; one made while the boot loop runs uses it up.
CountCall == /\ count.calls < (IF Busy(Boot) THEN 1 ELSE MaxCalls)
             /\ count' = [count EXCEPT !.calls = IF Busy(Boot) THEN MaxCalls ELSE @ + 1]

Dispatch(v, n, m, w) ==
  /\ ~Busy(Disp) /\ CountCall
  /\ CASE v = "create" -> rec[n] = Absent /\ m = n
       [] v = "rename" -> rec[n] # Absent /\ rec[m] = Absent
       [] v = "other" -> m = n
       [] OTHER -> rec[n] # Absent /\ m = n
  /\ v # "switch" => w = CHOOSE x \in Vendor : TRUE
  /\ LET fresh == [vendor |-> w, token |-> NoToken, archived |-> FALSE]
         s == IF v \in {"create", "switch"} THEN fresh ELSE rec[n] IN
     job' = [job EXCEPT ![Disp] = Job(v, n, m, s)]
  /\ marred' = marred \cup Touched
       \cup {x \in {m} : \/ v \in {"switch", "create", "rename"} /\ InTurn(x)
                         \/ v = "rewind" /\ Late(x)}
       \cup (IF {n, m} \cap (Touched \cup marred) = {} THEN {} ELSE {n, m})
  /\ UNCHANGED <<supVars, rec, disk, live, driver, turn, socket>>

\* session create, its worktree and channel made: the row, then the bridge.
Create(c) ==
  \/ /\ At(c, "create")
     /\ Write(c, [rec EXCEPT ![job[c].name] = job[c].sess], {job[c].name}, "create.start")
  \/ At(c, "create.start") /\ SupCall(c, "start", job[c].name, job[c].sess, "finish")

\* session close: stop the bridge, remove the worktree (refused while it is
\* dirty, and the bridge is put back), remove the row (the bridge is put back
\* when that cannot be saved).
Close(c) ==
  \/ At(c, "close") /\ SupCall(c, "stop", job[c].name, job[c].sess, "close.tree")
  \/ At(c, "close.tree") /\ Go(c, "close.remove") /\ UNCHANGED <<supVars, hubVars>>
  \/ At(c, "close.tree") /\ SupCall(c, "start", job[c].name, job[c].sess, "finish")
  \/ /\ At(c, "close.remove")
     /\ LET new == [rec EXCEPT ![job[c].name] = Absent] IN
        \/ SaveWorks(new) /\ Go(c, "finish")
        \/ SaveFails(new, {job[c].name}) /\ Go(c, "close.failed")
     /\ UNCHANGED <<supVars, live, driver, turn, socket>>
  \/ At(c, "close.failed") /\ SupCall(c, "start", job[c].name, job[c].sess, "finish")

\* session archive.
Archive(c) ==
  \/ At(c, "archive") /\ SupCall(c, "stop", job[c].name, job[c].sess, "archive.set")
  \/ /\ At(c, "archive.set")
     /\ WriteIfChanged(c, SetArchived(job[c].name, TRUE), {job[c].name}, "finish")

\* session resume.
Unarchive(c) ==
  \/ /\ At(c, "unarchive")
     /\ WriteIfChanged(c, SetArchived(job[c].name, FALSE), {job[c].name}, "unarchive.start")
  \/ At(c, "unarchive.start") /\ SupCall(c, "start", job[c].name, job[c].sess, "finish")

\* session rename: the row moves to the new name, the bridge follows it.
Rename(c) ==
  LET n == job[c].name  m == job[c].to IN
  \/ At(c, "rename") /\ SupCall(c, "stop", n, job[c].sess, "rename.set")
  \/ /\ At(c, "rename.set")
     /\ LET new == [rec EXCEPT ![m] = rec[n], ![n] = Absent] IN
        \/ SaveWorks(new) /\ Go(c, "rename.start")
        \/ SaveFails(new, {n, m}) /\ Go(c, "rename.failed")
     /\ UNCHANGED <<supVars, live, driver, turn, socket>>
  \/ At(c, "rename.start") /\ SupCall(c, "start", m, job[c].sess, "finish")
  \/ At(c, "rename.failed") /\ SupCall(c, "start", n, job[c].sess, "finish")

\* session switch: the new target is recorded and the token dropped, then the
\* row is read again and its bridge restarted.
Switch(c) ==
  LET n == job[c].name IN
  \/ /\ At(c, "switch")
     /\ Write(c, [rec EXCEPT ![n].vendor = job[c].sess.vendor, ![n].token = NoToken], {n}, "switch.restart")
  \/ At(c, "switch.restart") /\ SupCall(c, "restart", n, rec[n], "finish")

\* Mutant: the turn of the session is not claimed.
RewindUnclaimed(c) ==
  /\ At(c, "rewind")
  /\ Go(c, "restart")
  /\ UNCHANGED <<supVars, hubVars>>

\* session rewind takes the turn of an idle driver, then restarts the session
\* on the conversation cut at the checkpoint.
Rewind(c) ==
  LET n == job[c].name  d == live[n] IN
  /\ At(c, "rewind")
  /\ d # NoDriver => turn[d] = IdleTurn
  /\ turn' = IF d = NoDriver THEN turn ELSE [turn EXCEPT ![d] = [at |-> "claimed"]]
  /\ job' = [job EXCEPT ![c].at = "restart", ![c].claim = d]
  /\ UNCHANGED <<supVars, rec, disk, live, driver, socket, marred, count>>

\* ... and is refused while a turn is in flight.
RewindBusy(c) ==
  LET d == live[job[c].name] IN
  /\ At(c, "rewind") /\ d # NoDriver /\ turn[d] # IdleTurn
  /\ Fail(c) /\ UNCHANGED <<supVars, hubVars>>

\* RestartWithResume after its goDead: record the token, go live, start.
CutToken(c) == [vendor |-> job[c].sess.vendor, conv |-> "cut"]
Restart(c) ==
  LET n == job[c].name IN
  \/ At(c, "restart") /\ GoDead(c, n, "restart.set") /\ UNCHANGED hubVars
  \/ At(c, "restart.set") /\ WriteIfChanged(c, SetResumeToken(n, CutToken(c)), {n}, "restart.live")
  \/ At(c, "restart.live") /\ GoLive(n) /\ Go(c, "restart.start")
  \/ At(c, "restart.start")
       /\ SupCall(c, "start", n, [job[c].sess EXCEPT !.token = CutToken(c)], "finish")

\* The end of a verb: the claim of a rewind is released; an unlocked call is
\* over, the dispatcher goes on to reconcile and snapshots the rows.
Finish(c) ==
  /\ At(c, "finish")
  /\ turn' = IF job[c].claim = NoDriver THEN turn ELSE [turn EXCEPT ![job[c].claim] = IdleTurn]
  /\ job' = IF c = Disp THEN [job EXCEPT ![c].at = "reap", ![c].all = rec, ![c].claim = NoDriver]
            ELSE [job EXCEPT ![c] = NoJob]
  /\ UNCHANGED <<supVars, rec, disk, live, driver, socket, marred, count>>

\* reconcile: a live name without a row, or with an archived one, goes dead;
\* every other row of the snapshot goes live.
Reconcile(c) ==
  LET all == job[c].all IN
  \/ /\ At(c, "reap")
     /\ job' = [job EXCEPT ![c].at = "reaping",
                  ![c].todo = {n \in Name : live[n] # NoDriver /\ (all[n] = Absent \/ all[n].archived)}]
     /\ UNCHANGED <<supVars, hubVars>>
  \/ /\ At(c, "reaping") /\ job[c].todo # {}
     /\ \E n \in job[c].todo : GoDead(c, n, "reaping")
     /\ UNCHANGED hubVars
  \/ /\ At(c, "reaping") /\ job[c].todo = {}
     /\ job' = [job EXCEPT ![c].at = "raising", ![c].todo = {n \in Name : all[n] # Absent /\ ~all[n].archived}]
     /\ UNCHANGED <<supVars, hubVars>>
  \/ /\ At(c, "raising") /\ job[c].todo # {}
     /\ \E n \in job[c].todo : GoLive(n) /\ job' = [job EXCEPT ![c].todo = @ \ {n}]
  \/ /\ At(c, "raising") /\ job[c].todo = {}
     /\ job' = [job EXCEPT ![c] = NoJob]
     /\ UNCHANGED <<supVars, hubVars>>

-----------------------------------------------------------------------------
(* The unlocked callers *)

\* The picker resumes any row it lists; a fork restarts, on the conversation it
\* cut, the session it has just created (any session in use stands for it).
UnlockedCall(c, v, n) ==
  /\ c # Boot /\ ~Busy(c) /\ Recorded(n)
  /\ v = "restart" => InUse(n)
  /\ CountCall
  /\ job' = [job EXCEPT ![c] = Job(v, n, n, rec[n])]
  /\ marred' = IF \/ \E b \in Caller : Busy(b)
                  \/ v = "restart" /\ InTurn(n)
               THEN marred \cup {n} \cup UNION {Touches(b) : b \in {x \in Caller : n \in Touches(x)}}
               ELSE marred
  /\ UNCHANGED <<supVars, rec, disk, live, driver, turn, socket>>

\* Resume of the hub, for the terminal's picker: unarchive, go live, start.
Resume(c) ==
  LET n == job[c].name IN
  \/ At(c, "resume") /\ WriteIfChanged(c, IF job[c].sess.archived THEN SetArchived(n, FALSE) ELSE rec, {n}, "resume.live")
  \/ At(c, "resume.live") /\ GoLive(n) /\ Go(c, "resume.start")
  \/ At(c, "resume.start") /\ SupCall(c, "start", n, job[c].sess, "finish")

\* goLiveSessions, over the rows the daemon loaded: live, then the bridge.
BootLoop(c) ==
  \/ /\ At(c, "boot") /\ job[c].todo = {}
     /\ job' = [job EXCEPT ![c] = NoJob]
     /\ UNCHANGED <<supVars, hubVars>>
  \/ /\ At(c, "boot")
     /\ \E n \in job[c].todo :
          GoLive(n) /\ job' = [job EXCEPT ![c].at = "boot.start", ![c].cur = n, ![c].todo = @ \ {n}]
  \/ At(c, "boot.start") /\ SupCall(c, "start", job[c].cur, job[c].all[job[c].cur], "boot")

-----------------------------------------------------------------------------
(* The drivers *)

\* A turn starts on the bridge that dialled the socket this driver listens on.
StartTurn(d) ==
  /\ driver[d].at = "driving" /\ ~driver[d].cancelled /\ turn[d] = IdleTurn
  /\ socket[driver[d].name] = d
  /\ count.turns < MaxTurns /\ Count("turns")
  /\ \E r \in AliveOf(driver[d].name) :
       phase[r] = "bridge" /\ turn' = [turn EXCEPT ![d] = [at |-> "busy", run |-> r]]
  /\ marred' = marred \cup {n \in {driver[d].name} :
                             \E c \in Caller : job[c].verb \in {"restart", "switch"} /\ job[c].name = n}
  /\ UNCHANGED <<supVars, rec, disk, live, driver, socket, job>>

\* The bridge answers, naming the conversation it continued or began; or it is gone.
TurnAnswered(d) ==
  /\ turn[d].at = "busy"
  /\ LET r == turn[d].run
         began == [vendor |-> conf[r].vendor, conv |-> "own"] IN
     turn' = [turn EXCEPT ![d] =
                IF phase[r] # "bridge" THEN IdleTurn
                ELSE [at |-> "result", token |-> IF conf[r].token = NoToken THEN began ELSE conf[r].token]]
  /\ UNCHANGED <<supVars, rec, disk, live, driver, socket, job, marred, count>>

\* The turn loop hands the token to the store, even when its session has been
\* cancelled meanwhile: nothing waits for that goroutine.
StoreToken(d) ==
  /\ turn[d].at = "result"
  /\ turn' = [turn EXCEPT ![d] = IdleTurn]
  /\ LET n == driver[d].name  new == SetResumeToken(n, turn[d].token) IN
     \/ Unchanged(new)
     \/ new # rec /\ (SaveWorks(new) \/ SaveFails(new, {}))
  /\ UNCHANGED <<supVars, live, driver, socket, job>>

\* ... or notices the cancellation first.
DropToken(d) ==
  /\ turn[d].at = "result" /\ driver[d].cancelled
  /\ turn' = [turn EXCEPT ![d] = IdleTurn]
  /\ UNCHANGED <<supVars, rec, disk, live, driver, socket, job, marred, count>>

\* A cancelled session ends: its acceptor closes and removes the socket file at
\* its path, whoever listens there.
DriverEnds(d) ==
  /\ driver[d].at = "driving" /\ driver[d].cancelled
  /\ driver' = [driver EXCEPT ![d].at = "ended"]
  /\ socket' = [socket EXCEPT ![driver[d].name] = NoDriver]
  /\ turn' = IF turn[d].at = "busy" THEN [turn EXCEPT ![d] = IdleTurn] ELSE turn
  /\ UNCHANGED <<supVars, rec, disk, live, job, marred, count>>

\* The daemon stops: its context ends, which ends the loops and no driver.  (It
\* counts as a call, to bound what can precede and follow it.)
Shutdown ==
  /\ CtxEnds /\ CountCall
  /\ UNCHANGED <<rec, disk, live, driver, turn, socket, job, marred>>

\* A driver at work: nobody has cancelled it.
Drives(d) == driver[d].at = "driving" /\ ~driver[d].cancelled

\* stopLive then cancels the sessions it has found in the table, one by one and
\* with no lock held.  (Which ones it found is not kept: here it may also cancel
\* one that was raised since.)
StopLive(d) ==
  /\ outer /\ Drives(d)
  /\ driver' = [driver EXCEPT ![d].cancelled = TRUE]
  /\ UNCHANGED <<supVars, rec, disk, live, turn, socket, job, marred, count>>

-----------------------------------------------------------------------------
VerbStep(c) == \/ Create(c) \/ Close(c) \/ Archive(c) \/ Unarchive(c) \/ Rename(c) \/ Switch(c)
               \/ Rewind(c) \/ RewindBusy(c) \/ Restart(c) \/ Resume(c) \/ BootLoop(c)
               \/ (At(c, "other") /\ Go(c, "finish") /\ UNCHANGED <<supVars, hubVars>>)
               \/ Finish(c) \/ Reconcile(c)
               \/ DeadDelete(c) \/ DeadCancel(c) \/ DeadWait(c)
               \/ (CallerStep(c) /\ UNCHANGED <<hubVars, job>>)
BridgeStep(r) ==
  /\ LoopStep(r)
  /\ IF phase[r] = "bridge" /\ ~Cancelled(r)
     THEN count.faults < MaxFaults /\ Count("faults") ELSE UNCHANGED count
  /\ UNCHANGED <<rec, disk, live, driver, turn, socket, marred, job>>
DriverStep(d) == StartTurn(d) \/ TurnAnswered(d) \/ StoreToken(d) \/ DropToken(d) \/ DriverEnds(d) \/ StopLive(d)

Next ==
  \/ \E v \in Verb, n, m \in Name, w \in Vendor : Dispatch(v, n, m, w)
  \/ \E c \in Unlocked, v \in UnlockedVerb, n \in Name : UnlockedCall(c, v, n)
  \/ \E c \in Caller : VerbStep(c)
  \/ \E r \in Run : BridgeStep(r)
  \/ \E d \in Driver : DriverStep(d)
  \/ Shutdown

Spec == Init /\ [][Next]_vars

-----------------------------------------------------------------------------
(* Properties *)

HubTypeOK ==
  /\ TypeOK
  /\ rec \in [Name -> Session \cup {Absent}] /\ disk \in [Name -> Session \cup {Absent}]
  /\ live \in [Name -> Driver \cup {NoDriver}] /\ socket \in [Name -> Driver \cup {NoDriver}]
  /\ driver \in [Driver -> [at : {"unused", "driving", "ended"}, name : Name, cancelled : BOOLEAN]]
  /\ marred \subseteq Name

Untouched(n) == n \notin marred /\ ~outer

\* A driver that a goDead has taken out of h.live and is about to cancel.
Leaving(d) == \E c \in Caller : Busy(c) /\ job[c].at = "dead.cancel" /\ job[c].drv = d

\* No driver is lost: one that is at work is in h.live under its name, or about to
\* be cancelled by the goDead that took it out.
DriverKept == \A d \in Driver : Drives(d) => live[driver[d].name] = d \/ Leaving(d)

\* No driver is lost; and a name has one at work at most (hub.go:77-186), unless
\* the history marred it or the daemon is stopping.  The exemption is needed where
\* an unlocked call overlapped another call on the name: goDead cancels with no
\* lock held, so a goLive of the picker's resume may come in between.
OneDriver ==
  /\ DriverKept
  /\ \A d, e \in Driver :
       /\ Drives(d) /\ Drives(e) /\ driver[d].name = driver[e].name
       /\ Untouched(driver[d].name)
       => d = e

\* No worktree is removed under a running bridge: when close is about to remove
\* it, the loop of the session has returned (session.go:913-927), unless the
\* history marred the name for any of its causes (see marred) or the daemon is
\* stopping.  The exemption is needed for an unlocked call that overlaps the close.
TreeIsFree ==
  \A c \in Caller : At(c, "close.tree") /\ Untouched(job[c].name) => AliveOf(job[c].name) = {}

\* When no verb is in progress, every session in use has its bridge, a driver
\* and the control socket the bridge dials, and nothing else is live
\* (hub.go:77-214, session.go:417-1080).
AtRest ==
  Quiet => \A n \in Name : Untouched(n) =>
    /\ InUse(n) <=> live[n] # NoDriver
    /\ InUse(n) => /\ Running(n) /\ conf[runs[n]].vendor = rec[n].vendor
                   /\ socket[n] = live[n]

\* A bridge that continues a conversation continues the recorded one: a rewound
\* or forked session does not go back to the conversation it left.  The recorded
\* conversation is one of the session's vendor, unless a turn was in flight when
\* the session was switched or its name given again (state.go:514-530), or a
\* cancelled driver still had a turn when it was rewound: the rewind claims the
\* driver of the table alone (checkpoint_cmd.go:153, hub.go:101-107).
Continues ==
  Quiet => \A n \in Name : Untouched(n) /\ InUse(n) =>
    /\ conf[runs[n]].token # NoToken => rec[n].token = conf[runs[n]].token
    /\ rec[n].token # NoToken => rec[n].token.vendor = rec[n].vendor

\* reconcile_supervisor_test.go:59: "an archived session must not leave a
\* supervised bridge behind".
ArchivedHasNoBridge ==
  Quiet => \A n \in Name : Untouched(n) /\ Recorded(n) => (rec[n].archived => ~Running(n))
=============================================================================
