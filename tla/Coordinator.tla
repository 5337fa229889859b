----------------------------- MODULE Coordinator -----------------------------
(***************************************************************************)
(* The coordinator (core/host/coordinator.go): sessions that spawn, count,  *)
(* seal, merge and report to one another.                                  *)
(*                                                                         *)
(* A session's pump makes one call at a time, at the end of a turn, and     *)
(* reads the next message of its queue only when the call is over.  Calls   *)
(* of different sessions interleave: each reads a snapshot of the rows,     *)
(* runs git, and updates the join counters under a mutex held for that      *)
(* update alone.  Rows come, go and change their names under the hub's      *)
(* dispatch lock, and a session that went is forgotten after its row is;    *)
(* the picker resumes an archived session without that lock.               *)
(***************************************************************************)
EXTENDS Naturals, Sequences, FiniteSets

CONSTANTS
    Name,              \* the names of sessions
    First,             \* the sessions the operator created
    SpawnNames,        \* the names a spawn probes, in order, for each session
    Orders,            \* the orders a turn of each session may end with
    QueueCap,          \* the size of a driver's queue
    SeedAttempts,
    MaxOrders,         \* bound: orders over a run
    MaxFaults,         \* bound: closes, archives, renames, rewinds, restarts, failures
    None

OrderKind == {"handoff", "delegate", "fanout", "seal", "report", "merge"}

ASSUME CoordinatorAssumption ==
    /\ First \subseteq Name /\ None \notin Name
    /\ SpawnNames \in [Name -> Seq(Name)]
    /\ Orders \in [Name -> SUBSET [op : OrderKind, n : Nat]]
    /\ QueueCap \in Nat \ {0} /\ SeedAttempts \in Nat \ {0}
    /\ MaxOrders \in Nat /\ MaxFaults \in Nat
    /\ IsFiniteSet(Name)

VARIABLES
    rows,       \* the sessions of the state
    archived,   \* those that are archived
    parent,     \* state.Session.Parent
    branches,   \* the session branches of the repository
    live,       \* the sessions with a driver
    queue,      \* the messages waiting in each driver's queue
    reported,   \* coordinator.reported
    expected,   \* coordinator.expected
    call,       \* the call each session's pump is in
    closing,    \* the row removed, archived or renamed, still to be reaped
    orders, faults,
    seeded,     \* history: the operator's sessions, and those that got a task
    marred,     \* history: those a failure, or a rename, left behind
    cohort      \* history: the workers at hand when expected was set

coordVars == <<reported, expected, cohort>>
rowVars == <<rows, archived, parent, branches, live>>
history == <<orders, faults, marred>>
vars == <<rowVars, coordVars, history, queue, call, closing, seeded>>

Idle == [op |-> "none", at |-> "idle", parent |-> None, name |-> None,
         left |-> 0, made |-> 0, seen |-> 0, tries |-> 0]

Init ==
    /\ rows = First /\ archived = {} /\ branches = First /\ live = First
    /\ parent = [n \in Name |-> None]
    /\ queue = [n \in Name |-> 0]
    /\ reported = [n \in {} |-> {}] /\ expected = [n \in {} |-> 0]
    /\ call = [n \in Name |-> Idle]
    /\ closing = None
    /\ orders = 0 /\ faults = 0
    /\ seeded = First /\ marred = {} /\ cohort = [n \in {} |-> {}]

\* childCount, over the rows of a snapshot.
Children(l) == {w \in rows : parent[w] = l}

\* hub.Close and hub.CreateCoordinated hold the dispatch lock to the end.
LockFree == closing = None

HasRoom(n) == n \in live /\ queue[n] < QueueCap
Deliver(n) == queue' = [queue EXCEPT ![n] = @ + 1]

Put(f, k, v) == [x \in DOMAIN f \cup {k} |-> IF x = k THEN v ELSE f[x]]
Drop(f, k) == [x \in DOMAIN f \ {k} |-> f[x]]

Faulty == faults < MaxFaults /\ faults' = faults + 1

-----------------------------------------------------------------------------
(* The end of a turn: maybeCoordinate makes at most one call. *)

\* The operator prompts a session.
Prompt(s) ==
    /\ HasRoom(s) /\ Deliver(s)
    /\ UNCHANGED <<rowVars, coordVars, history, call, closing, seeded>>

TakeTurn(s) ==
    /\ s \in live /\ call[s].at = "idle" /\ queue[s] > 0
    /\ queue' = [queue EXCEPT ![s] = @ - 1]

\* A turn that ends with no order, or with one refused for what the snapshot
\* shows.
QuietTurn(s) ==
    /\ TakeTurn(s)
    /\ UNCHANGED <<rowVars, coordVars, history, call, closing, seeded>>

\* The call an accepted order starts, on the snapshot it read: Handoff,
\* Delegate and Route spawn one session, FanOut as many as it has tasks.
SpawnCall(s, o) ==
    [Idle EXCEPT !.op = o.op, !.at = "check", !.left = o.n,
                 !.parent = IF o.op = "handoff" THEN None ELSE s,
                 !.seen = Cardinality(Children(s))]

\* Seal refuses a number below the workers there are.
SealAcceptedAny(s, n) == n > 0
SealAccepted(s, n) == n > 0 /\ n >= Cardinality(Children(s))

SealCall(s, o) == [Idle EXCEPT !.op = "seal", !.at = "mark", !.seen = o.n]

\* Report needs a parent that the snapshot holds.
ReportCall(s) ==
    [Idle EXCEPT !.op = "report", !.at = "mark", !.parent = parent[s],
                 !.seen = Cardinality(Children(parent[s]))]

MergeCall(s) == [Idle EXCEPT !.op = "merge", !.at = "mark", !.parent = s]

Order(s, o) ==
    /\ TakeTurn(s) /\ s \in rows /\ orders < MaxOrders
    /\ orders' = orders + 1
    /\ \/ /\ o.op \in {"handoff", "delegate", "fanout"} /\ o.n > 0
          /\ call' = [call EXCEPT ![s] = SpawnCall(s, o)]
       \/ /\ o.op = "seal" /\ SealAccepted(s, o.n)
          /\ call' = [call EXCEPT ![s] = SealCall(s, o)]
       \/ /\ o.op = "report" /\ parent[s] \in rows
          /\ call' = [call EXCEPT ![s] = ReportCall(s)]
       \/ /\ o.op = "merge" /\ Children(s) \cap branches # {}
          /\ call' = [call EXCEPT ![s] = MergeCall(s)]
    /\ UNCHANGED <<rowVars, coordVars, faults, marred, closing, seeded>>

-----------------------------------------------------------------------------
(* spawn. *)

\* The call is over, in success or not.
Ended(s) == call' = [call EXCEPT ![s] = Idle]

\* A spawn failed: FanOut stops and seals to those it made, if any.
SpawnOver(s) ==
    IF call[s].op = "fanout" /\ call[s].made > 0
    THEN call' = [call EXCEPT ![s].at = "mark", ![s].left = 0, ![s].name = None]
    ELSE Ended(s)

\* The tree is clean and a name is free: the first without a branch.
CheckSpawn(s) ==
    LET names == SpawnNames[s]
        free == {i \in DOMAIN names : names[i] \notin branches}
    IN  /\ call[s].at = "check" /\ s \in live
        /\ \E i \in free :
              /\ \A j \in free : i <= j
              /\ call' = [call EXCEPT ![s].at = "create", ![s].name = names[i]]
        /\ UNCHANGED <<rowVars, coordVars, history, queue, closing, seeded>>

\* The tree is dirty or unreadable, no name is free, or the session is closed.
SpawnRefused(s) ==
    /\ call[s].at = "check"
    /\ SpawnOver(s)
    /\ UNCHANGED <<rowVars, coordVars, history, queue, closing, seeded>>

\* What reconcile leaves, and a boot: every row that is not archived hosted.
Hosted == live' = rows' \ archived'

AddRow(s) ==
    LET w == call[s].name
    IN  /\ LockFree /\ call[s].at = "create" /\ w \notin rows
        /\ {s, w} \cap branches # {}
        /\ rows' = rows \cup {w} /\ branches' = branches \cup {w}
        /\ parent' = [parent EXCEPT ![w] = call[s].parent]
        /\ queue' = [queue EXCEPT ![w] = 0] /\ seeded' = seeded \ {w}
        /\ UNCHANGED <<archived, coordVars, orders, closing>>

\* CreateCoordinated, whose reconcile hosts the new session, unless its
\* control socket cannot be opened.
Create(s) ==
    /\ AddRow(s)
    /\ call' = [call EXCEPT ![s].at = "seed", ![s].tries = 0]
    /\ \/ Hosted /\ UNCHANGED faults
       \/ Faulty /\ live' = rows \ archived
    /\ marred' = marred \ {call[s].name}

\* The row is added and hosted but not saved: create fails and the row stays.
CreateUnsaved(s) ==
    /\ AddRow(s) /\ SpawnOver(s)
    /\ Faulty /\ marred' = marred \cup {call[s].name}
    /\ Hosted

\* Nothing is created: the name is taken, the sessions are too many, or the
\* worktree fails, whose branch may stay.
CreateFails(s) ==
    /\ LockFree /\ call[s].at = "create" /\ SpawnOver(s)
    /\ branches' \in {branches, branches \cup {call[s].name}}
    /\ UNCHANGED <<rows, archived, parent, coordVars, history, queue, closing,
                   seeded>>
    /\ Hosted

\* seedWithRetry gives the new session its task; FanOut goes on to the next.
SeedTask(s) ==
    LET w == call[s].name
        c == [call[s] EXCEPT !.left = @ - 1, !.made = @ + 1, !.name = None,
                             !.tries = 0]
    IN  /\ call[s].at = "seed" /\ HasRoom(w) /\ Deliver(w)
        /\ seeded' = seeded \cup {w}
        /\ call' = [call EXCEPT ![s] =
              IF c.left > 0 THEN [c EXCEPT !.at = "check"]
              ELSE IF c.op = "fanout" THEN [c EXCEPT !.at = "mark"] ELSE Idle]
        /\ UNCHANGED <<rowVars, coordVars, history, closing>>

\* Attempts are left, and the call's session is not closed.
TriesAgain(s) == call[s].tries + 1 < SeedAttempts /\ s \in live

GiveUp(s) ==
    IF call[s].at = "seed"
    THEN call' = [call EXCEPT ![s].at = "rollback", ![s].tries = 0]
    ELSE Ended(s)

MissForEver(s, to) ==
    /\ ~HasRoom(to)
    /\ (s \notin live /\ GiveUp(s)) \/ (s \in live /\ UNCHANGED call)
    /\ UNCHANGED <<rowVars, coordVars, history, queue, closing, seeded>>

\* The task or the message finds no driver, or no room.  Out of attempts, a
\* spawn closes the session it made and the others give up.
Miss(s, to) ==
    /\ ~HasRoom(to)
    /\ \/ TriesAgain(s) /\ call' = [call EXCEPT ![s].tries = @ + 1]
       \/ ~TriesAgain(s) /\ GiveUp(s)
    /\ UNCHANGED <<rowVars, coordVars, history, queue, closing, seeded>>

SeedMisses(s) == call[s].at = "seed" /\ Miss(s, call[s].name)

\* Close(bName, force): the row goes, then the session is reaped.
RemoveRow(x) ==
    /\ LockFree /\ x \in rows
    /\ rows' = rows \ {x} /\ archived' = archived \ {x}
    /\ parent' = [parent EXCEPT ![x] = None]
    /\ closing' = x

RollbackNot(s) ==
    /\ call[s].at = "rollback" /\ LockFree /\ SpawnOver(s)
    /\ UNCHANGED <<rowVars, coordVars, history, queue, closing, seeded>>
Rollback(s) ==
    /\ call[s].at = "rollback" /\ RemoveRow(call[s].name)
    /\ call' = [call EXCEPT ![s].at = "closed"]
    /\ UNCHANGED <<branches, live, coordVars, history, queue, seeded>>

\* Close failed, its worktree not removed, or found the row already gone.
RollbackFails(s) ==
    /\ call[s].at = "rollback" /\ LockFree /\ SpawnOver(s)
    /\ \/ /\ call[s].name \in rows
          /\ Faulty /\ marred' = marred \cup {call[s].name}
       \/ call[s].name \notin rows /\ UNCHANGED <<faults, marred>>
    /\ UNCHANGED <<rows, archived, parent, branches, coordVars, orders, queue,
                   closing, seeded>>
    /\ Hosted

\* Close returned once its session was reaped.
RolledBack(s) ==
    /\ call[s].at = "closed" /\ closing # call[s].name /\ SpawnOver(s)
    /\ UNCHANGED <<rowVars, coordVars, history, queue, closing, seeded>>

-----------------------------------------------------------------------------
(* The join: Report, Seal, FanOut's seal, Merge. *)

Reported(l) == IF l \in DOMAIN reported THEN reported[l] ELSE {}

\* Report found the tree clean and records its session under the mutex, which
\* it does also when the session was closed meanwhile, then tells the parent.
Record(s) ==
    LET l == call[s].parent
    IN  /\ call[s].at = "mark" /\ call[s].op = "report"
        /\ reported' = Put(reported, l, Reported(l) \cup {s})
        /\ call' = [call EXCEPT ![s].at = "tell"]
        /\ UNCHANGED <<rowVars, expected, cohort, history, queue, closing,
                       seeded>>

\* Merge found both trees clean and merged, or met a conflict and aborted;
\* either way the lead tells itself.
Merged(s) ==
    /\ call[s].at = "mark" /\ call[s].op = "merge" /\ s \in live
    /\ call' = [call EXCEPT ![s].at = "tell"]
    /\ UNCHANGED <<rowVars, coordVars, history, queue, closing, seeded>>

\* A tree is dirty or unreadable, or git failed.
TreeRefused(s) ==
    /\ call[s].at = "mark" /\ call[s].op \in {"report", "merge"}
    /\ Ended(s)
    /\ UNCHANGED <<rowVars, coordVars, history, queue, closing, seeded>>

Expect(s, n) ==
    /\ expected' = Put(expected, s, n)
    /\ cohort' = Put(cohort, s, (Children(s) \cap seeded) \ marred)
    /\ Ended(s)
    /\ UNCHANGED <<rowVars, reported, history, queue, closing, seeded>>

Seal(s) ==
    /\ call[s].at = "mark" /\ call[s].op = "seal"
    /\ Expect(s, call[s].seen)

\* FanOut counts the workers its first snapshot showed and those it made.
FanOutSealsNew(s) ==
    /\ call[s].at = "mark" /\ call[s].op = "fanout"
    /\ Expect(s, call[s].made)
FanOutSeals(s) ==
    /\ call[s].at = "mark" /\ call[s].op = "fanout"
    /\ Expect(s, call[s].seen + call[s].made)

\* seedWithRetry to the parent, or to the merging session itself.
Tell(s) ==
    LET to == call[s].parent
    IN  /\ call[s].at = "tell" /\ HasRoom(to) /\ Deliver(to)
        /\ Ended(s)
        /\ UNCHANGED <<rowVars, coordVars, history, closing, seeded>>
TellMisses(s) == call[s].at = "tell" /\ Miss(s, call[s].parent)

\* forget: what a closed or archived session reported, or was to expect.
ForgottenEmpty(x) == [l \in DOMAIN reported \ {x} |-> reported[l] \ {x}]
ForgottenCohort(x) ==
    [l \in {k \in DOMAIN reported \ {x} : x \notin reported[k]} |-> reported[l]]
Forgotten(x) ==
    LET workers == [l \in DOMAIN reported \ {x} |-> reported[l] \ {x}]
    IN  [l \in {k \in DOMAIN workers : workers[k] # {}} |-> workers[l]]

-----------------------------------------------------------------------------
(* The operator and the daemon. *)

\* The operator closes a session, or archives it: its row stays.
Close(x) ==
    /\ RemoveRow(x) /\ Faulty
    /\ UNCHANGED <<branches, live, coordVars, orders, marred, queue,
                   call, seeded>>
Archive(x) ==
    /\ LockFree /\ x \in rows \ archived /\ Faulty
    /\ archived' = archived \cup {x} /\ closing' = x
    /\ UNCHANGED <<rows, parent, branches, live, coordVars, orders, marred, queue, call, seeded>>

\* A set of sessions follows the one whose name changes.
Moved(S, x, y) == IF x \in S THEN (S \ {x}) \cup {y} ELSE S \ {y}

\* A spawn made the session and has not given it its task.
InHand(x) ==
    \E s \in Name : call[s].name = x /\ call[s].at \in {"seed", "rollback"}

\* `session rename`: the row moves, with its parent; its branch keeps its name,
\* its workers the parent they had, and a spawn that has it in hand its name.
\* reconcile then reaps the old name and hosts the new one.
Rename(x, y) ==
    /\ LockFree /\ x \in rows /\ y \notin rows /\ Faulty
    /\ rows' = Moved(rows, x, y) /\ archived' = Moved(archived, x, y)
    /\ parent' = [parent EXCEPT ![y] = parent[x], ![x] = None]
    /\ closing' = x
    /\ seeded' = Moved(seeded, x, y)
    /\ marred' = Moved(marred, x, y) \cup {n \in {y} : InHand(x)}
    /\ cohort' = [l \in DOMAIN cohort |-> Moved(cohort[l], x, y)]
    /\ UNCHANGED <<branches, live, reported, expected, orders, queue, call>>

\* `session resume`: the row is no longer archived, and reconcile hosts it.
Unarchive(x) ==
    /\ LockFree /\ x \in archived
    /\ archived' = archived \ {x}
    /\ UNCHANGED <<rows, parent, branches, coordVars, history, queue, call,
                   closing, seeded>>
    /\ Hosted

\* The picker's Resume takes no dispatch lock: it may fall into a reap.
Resume(x) ==
    /\ x \in archived \/ x \in rows \ live
    /\ archived' = archived \ {x} /\ live' = live \cup {x}
    /\ UNCHANGED <<rows, parent, branches, coordVars, history, queue, call,
                   closing, seeded>>

\* goDead drops a session's driver, then forgets the session.
GoneDead(x) ==
    /\ queue' = [queue EXCEPT ![x] = 0]
    /\ reported' = Forgotten(x)
    /\ expected' = Drop(expected, x) /\ cohort' = Drop(cohort, x)

\* reconcile: a session with a driver and no row, or an archived one, goes dead.
\* One resumed meanwhile is spared, unless reconcile copied the rows before:
\* then it goes dead all the same, its old driver or the resume's next one.
Reap ==
    /\ closing # None /\ closing' = None
    /\ UNCHANGED <<rows, archived, parent, branches, history, call, seeded>>
    /\ \/ /\ closing \notin live \/ closing \in rows \ archived
          /\ UNCHANGED <<coordVars, queue>> /\ Hosted
       \/ /\ closing \in live /\ GoneDead(closing)
          /\ \/ Hosted
             \/ /\ closing \in rows \ archived
                /\ live' = (rows \ archived) \ {closing}

\* A rewind of an idle session goes through goDead too, and so forgets it: the
\* row and the new driver stay, the counters go.
Rewind(x) ==
    /\ LockFree /\ x \in rows \ archived /\ call[x].at = "idle" /\ Faulty
    /\ GoneDead(x)
    /\ live' = live \cup {x}
    /\ UNCHANGED <<rows, archived, parent, branches, orders, marred, call,
                   closing, seeded>>

\* The daemon dies and starts again: the rows are all it kept.
Restart ==
    /\ Faulty
    /\ marred' = marred \cup {call[s].name :
                    s \in {t \in Name : call[t].at \in {"seed", "rollback"}}}
    /\ reported' = [n \in {} |-> {}] /\ expected' = [n \in {} |-> 0]
    /\ cohort' = [n \in {} |-> {}]
    /\ call' = [n \in Name |-> Idle] /\ queue' = [n \in Name |-> 0]
    /\ closing' = None
    /\ UNCHANGED <<rows, archived, parent, branches, orders, seeded>>
    /\ Hosted

-----------------------------------------------------------------------------
CallStep(s) ==
    \/ CheckSpawn(s) \/ SpawnRefused(s)
    \/ Create(s) \/ CreateUnsaved(s) \/ CreateFails(s)
    \/ SeedTask(s) \/ SeedMisses(s)
    \/ Rollback(s) \/ RollbackFails(s) \/ RolledBack(s)
    \/ Record(s) \/ Merged(s) \/ TreeRefused(s) \/ Tell(s) \/ TellMisses(s)
    \/ Seal(s) \/ FanOutSeals(s)

Next ==
    \/ \E s \in Name :
          \/ CallStep(s) \/ Prompt(s) \/ QuietTurn(s)
          \/ Close(s) \/ Archive(s) \/ Unarchive(s) \/ Resume(s) \/ Rewind(s)
          \/ \E y \in Name : Rename(s, y)
          \/ \E o \in Orders[s] : Order(s, o)
    \/ Reap \/ Restart

Spec == Init /\ [][Next]_vars

\* A pump goes on with the call it is in, and a close reaps.
Fairness == WF_vars(Reap) /\ \A s \in Name : WF_vars(CallStep(s))
FairSpec == Spec /\ Fairness

-----------------------------------------------------------------------------
CallType ==
    [op : OrderKind \cup {"none"},
     at : {"idle", "check", "create", "seed", "rollback", "closed", "mark",
           "tell"},
     parent : Name \cup {None}, name : Name \cup {None},
     left : Nat, made : Nat, seen : Nat, tries : 0..SeedAttempts - 1]

(* Every variable has its type; a lead has a set of reports only if a worker *)
(* reported, since having one makes it a lead in the operator's view.       *)
TypeOK ==
    /\ rows \subseteq Name /\ archived \subseteq rows /\ live \subseteq Name
    /\ branches \subseteq Name
    /\ parent \in [Name -> Name \cup {None}]
    /\ queue \in [Name -> 0..QueueCap]
    /\ reported \in [DOMAIN reported -> (SUBSET Name) \ {{}}]
    /\ DOMAIN reported \subseteq Name
    /\ expected \in [DOMAIN expected -> Nat \ {0}]
    /\ cohort \in [DOMAIN expected -> SUBSET Name]
    /\ DOMAIN expected \subseteq Name
    /\ call \in [Name -> CallType]
    /\ closing \in Name \cup {None}
    /\ orders \in 0..MaxOrders /\ faults \in 0..MaxFaults
    /\ seeded \subseteq Name /\ marred \subseteq Name

\* CoordinationView's barrier.
Complete(l) == l \in DOMAIN expected /\ Cardinality(Reported(l)) >= expected[l]

(* A session a spawn created has its task, unless the spawn is still at it, a *)
(* failure (of a close or a save, the daemon's end) left it, or it was renamed *)
(* while the spawn had it in hand, whose seed and roll-back then go to the old *)
(* name: otherwise it idles, counted in its lead's cohort, which never joins. *)
NoIdleWorker ==
    \A w \in rows \ (seeded \cup marred) : InHand(w)

(* When the barrier opens, with none but the workers it was set for counted,  *)
(* each of them reported: closes, partial fan-outs and failed roll-backs      *)
(* never make it open early.                                                *)
CompleteIsTrue ==
    \A l \in DOMAIN expected :
        Complete(l) /\ Reported(l) \subseteq cohort[l] => cohort[l] \subseteq Reported(l)

(* A report stays counted for as long as the lead and the worker have rows    *)
(* and are not archived, whichever other session is forgotten meanwhile; only *)
(* a rewind of one of the two, the reap of one of them that was archived and  *)
(* resumed before it was over, or the end of the daemon loses it.           *)
ReportsAreKept ==
    [][\A l \in Name : \A w \in Reported(l) :
          {l, w} \subseteq rows' \ archived'
              => \/ w \in Reported(l)' \/ Rewind(l) \/ Rewind(w) \/ Restart
                 \/ Reap /\ closing \in {l, w}]_vars

(* Every call of a pump ends, so the session reads its queue again, also when  *)
(* the message is for its own full queue, which nobody else empties.         *)
EveryCallReturns == \A s \in Name : call[s].at # "idle" ~> call[s].at = "idle"
=============================================================================
