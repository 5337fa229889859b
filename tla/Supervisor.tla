----------------------------- MODULE Supervisor -----------------------------
(***************************************************************************)
(* core/internal/supervisor/supervisor.go: the table of supervised loops,  *)
(* one per session name, and the loop that keeps a bridge process up.      *)
(*                                                                         *)
(* A Run is one supervisedRun: the goroutine StartWith launches, its       *)
(* cancel function and its done channel (closed when phase is "ended").    *)
(* Any number of Callers may be inside Start, Stop or Restart at once;     *)
(* each critical section of s.mu is one action.                            *)
(***************************************************************************)
EXTENDS Naturals, FiniteSets

CONSTANTS
  Name,     \* session names
  Caller,   \* goroutines that call Start, Stop and Restart
  Run,      \* supervised runs; the bound on how many a behaviour launches
  Conf,     \* what a bridge is launched with: the fields of state.Session
  NoRun     \* no entry in the runs table

\* Runs are numbered in the order they are launched.
ASSUME RunAssumption == Run \subseteq Nat /\ NoRun \notin Run
ASSUME NonEmptyAssumption == Name # {} /\ Conf # {}

VARIABLES
  runs,       \* s.runs: [Name -> Run \cup {NoRun}]
  phase,      \* where the goroutine of a run stands in runLoop
  owner,      \* the session name a run was launched for
  conf,       \* the session it was launched with
  stopping,   \* run.stopping
  cancelled,  \* run.cancel was called
  outer,      \* the context Start was given (the daemon's) has ended
  call        \* what each caller is doing

supVars == <<runs, phase, owner, conf, stopping, cancelled, outer, call>>

Phase == {"unused", "top", "bridge", "parked", "backoff", "ended"}

\* A caller outside the supervisor.
Idle == [op |-> "none"]

\* A caller inside it: on its way to the mutex ("enter"), or blocked on the
\* done channel of the run it found ("wait").  seen: the runs of the name that
\* were alive when the call began (history, for the property below).
Call == [op : {"start", "stop", "restart"}, at : {"enter", "wait"}, name : Name,
         conf : Conf, run : Run \cup {NoRun}, seen : SUBSET Run]

Alive(r) == phase[r] \notin {"unused", "ended"}
AliveOf(n) == {r \in Run : Alive(r) /\ owner[r] = n}
Cancelled(r) == cancelled[r] \/ outer

\* Running: the one question an operator can ask.
Running(n) == runs[n] # NoRun /\ ~stopping[runs[n]]

TypeOK ==
  /\ runs \in [Name -> Run \cup {NoRun}]
  /\ phase \in [Run -> Phase]
  /\ owner \in [Run -> Name]
  /\ conf \in [Run -> Conf]
  /\ stopping \in [Run -> BOOLEAN]
  /\ cancelled \in [Run -> BOOLEAN]
  /\ outer \in BOOLEAN
  /\ call \in [Caller -> Call \cup {Idle}]
  /\ \A r \in Run : stopping[r] => cancelled[r]
  /\ \A c \in Caller : call[c] # Idle /\ call[c].at = "wait" => call[c].run # NoRun

SupInit ==
  /\ runs = [n \in Name |-> NoRun]
  /\ phase = [r \in Run |-> "unused"]
  /\ owner = [r \in Run |-> CHOOSE n \in Name : TRUE]
  /\ conf = [r \in Run |-> CHOOSE k \in Conf : TRUE]
  /\ stopping = [r \in Run |-> FALSE]
  /\ cancelled = [r \in Run |-> FALSE]
  /\ outer = FALSE
  /\ call = [c \in Caller |-> Idle]

-----------------------------------------------------------------------------
(* The callers *)

\* A goroutine calls Start, Stop or Restart.
Begin(c, op, n, k) ==
  /\ call[c] = Idle
  /\ call' = [call EXCEPT ![c] = [op |-> op, at |-> "enter", name |-> n, conf |-> k,
                                  run |-> NoRun, seen |-> AliveOf(n)]]
  /\ UNCHANGED <<runs, phase, owner, conf, stopping, cancelled, outer>>

Return(c) == call' = [call EXCEPT ![c] = Idle]

\* Where a call goes on, and for which run it waits.
Moved(k, op, at, r) == [op |-> op, at |-> at, name |-> k.name, conf |-> k.conf, run |-> r, seen |-> k.seen]

\* The caller releases the mutex and waits for run r to be done.
WaitFor(c, r) == call' = [call EXCEPT ![c] = Moved(call[c], call[c].op, "wait", r)]

\* The caller is at the mutex of StartWith: again, or after a Stop.
ToStart(c) == call' = [call EXCEPT ![c] = Moved(call[c], "start", "enter", NoRun)]

\* StartWith, no entry: register a fresh run and launch its goroutine.
Launch(c) ==
  LET n == call[c].name IN
  /\ call[c].op = "start" /\ call[c].at = "enter" /\ runs[n] = NoRun
  /\ \E r \in Run :
       /\ phase[r] = "unused" /\ \A q \in Run : q < r => phase[q] # "unused"
       /\ runs' = [runs EXCEPT ![n] = r]
       /\ phase' = [phase EXCEPT ![r] = "top"]
       /\ owner' = [owner EXCEPT ![r] = n]
       /\ conf' = [conf EXCEPT ![r] = call[c].conf]
  /\ Return(c)
  /\ UNCHANGED <<stopping, cancelled, outer>>

\* StartWith, an entry: already running, or stopping and to be waited for.
FindRunning(c) ==
  LET r == runs[call[c].name] IN
  /\ call[c].op = "start" /\ call[c].at = "enter" /\ r # NoRun
  /\ IF stopping[r] THEN WaitFor(c, r) ELSE Return(c)
  /\ UNCHANGED <<runs, phase, owner, conf, stopping, cancelled, outer>>

\* Stop is over: Restart goes on to Start, Stop returns.
AfterStop(c) ==
  IF call[c].op = "restart" THEN ToStart(c) ELSE Return(c)

\* Stop, no entry.
StopNothing(c) ==
  /\ call[c].op \in {"stop", "restart"} /\ call[c].at = "enter"
  /\ runs[call[c].name] = NoRun
  /\ AfterStop(c)
  /\ UNCHANGED <<runs, phase, owner, conf, stopping, cancelled, outer>>

\* Mutant: Stop marks the run and leaves its context alone.
StopRunGently(c) ==
  LET r == runs[call[c].name] IN
  /\ call[c].op \in {"stop", "restart"} /\ call[c].at = "enter" /\ r # NoRun
  /\ stopping' = [stopping EXCEPT ![r] = TRUE]
  /\ WaitFor(c, r)
  /\ UNCHANGED <<runs, phase, owner, conf, cancelled, outer>>

\* Mutant: Stop drops the entry at once and waits for nobody.
StopRunUnwaited(c) ==
  LET r == runs[call[c].name] IN
  /\ call[c].op \in {"stop", "restart"} /\ call[c].at = "enter" /\ r # NoRun
  /\ stopping' = [stopping EXCEPT ![r] = TRUE]
  /\ cancelled' = [cancelled EXCEPT ![r] = TRUE]
  /\ runs' = [runs EXCEPT ![call[c].name] = NoRun]
  /\ AfterStop(c)
  /\ UNCHANGED <<phase, owner, conf, outer>>

\* Stop, an entry: mark it, cancel it, wait for it.
StopRun(c) ==
  LET r == runs[call[c].name] IN
  /\ call[c].op \in {"stop", "restart"} /\ call[c].at = "enter" /\ r # NoRun
  /\ stopping' = [stopping EXCEPT ![r] = TRUE]
  /\ cancelled' = [cancelled EXCEPT ![r] = TRUE]
  /\ WaitFor(c, r)
  /\ UNCHANGED <<runs, phase, owner, conf, outer>>

\* Mutant: the entry of the name is dropped, whatever run it is.
ForgetAlways(n, r) == runs' = [runs EXCEPT ![n] = NoRun]

\* The entry is dropped only if it is still the run that was waited for.
Forget(n, r) == runs' = IF runs[n] = r THEN [runs EXCEPT ![n] = NoRun] ELSE runs

\* The run waited for is done: StartWith tries again, Stop is over.
Waited(c) ==
  /\ call[c] # Idle /\ call[c].at = "wait" /\ phase[call[c].run] = "ended"
  /\ Forget(call[c].name, call[c].run)
  /\ IF call[c].op = "start" THEN ToStart(c) ELSE AfterStop(c)
  /\ UNCHANGED <<phase, owner, conf, stopping, cancelled, outer>>

CallerStep(c) ==
  /\ call[c] # Idle
  /\ Launch(c) \/ FindRunning(c) \/ StopNothing(c) \/ StopRun(c) \/ Waited(c)

-----------------------------------------------------------------------------
(* The loop of a run *)

GoTo(r, p) == /\ phase' = [phase EXCEPT ![r] = p]
              /\ UNCHANGED <<runs, owner, conf, stopping, cancelled, outer, call>>

\* The top of runLoop: give up, launch the bridge, or find it cannot be launched.
LoopTop(r) ==
  /\ phase[r] = "top"
  /\ IF Cancelled(r) THEN GoTo(r, "ended")
     ELSE \E p \in {"bridge", "parked"} : GoTo(r, p)

\* The bridge process exits, by itself or killed through its context.
BridgeExits(r) ==
  /\ phase[r] = "bridge"
  /\ GoTo(r, IF Cancelled(r) THEN "ended" ELSE "backoff")

\* A bridge that cannot be launched waits for its context.
Unpark(r) == phase[r] = "parked" /\ Cancelled(r) /\ GoTo(r, "ended")

\* The back-off ends: on the timer, or on the context.
BackoffEnds(r) ==
  /\ phase[r] = "backoff"
  /\ \/ GoTo(r, "top")
     \/ Cancelled(r) /\ GoTo(r, "ended")

LoopStep(r) == LoopTop(r) \/ BridgeExits(r) \/ Unpark(r) \/ BackoffEnds(r)

\* The daemon's context ends.
CtxEnds == /\ ~outer
           /\ outer' = TRUE
           /\ UNCHANGED <<runs, phase, owner, conf, stopping, cancelled, call>>

SupNext ==
  \/ \E c \in Caller, op \in {"start", "stop", "restart"}, n \in Name, k \in Conf : Begin(c, op, n, k)
  \/ \E c \in Caller : CallerStep(c)
  \/ \E r \in Run : LoopStep(r)
  \/ CtxEnds

SupSpec == SupInit /\ [][SupNext]_supVars

-----------------------------------------------------------------------------
(* Properties *)

\* A session name never has two supervised loops: Start, Stop and Restart may
\* overlap in any order (supervisor.go:199-270).
OneLoop == \A r, q \in Run : Alive(r) /\ Alive(q) /\ owner[r] = owner[q] => r = q

\* The loop of a name is the one in the table, so a Stop reaches it: the entry
\* is not dropped, nor replaced, while its loop is alive.
Reachable == \A r \in Run : Alive(r) => runs[owner[r]] = r

\* When a Stop returns, and when a Restart launches, no loop that was alive
\* when it was called is still running: the caller may remove the worktree.
StopMeansStopped ==
  [][\A c \in Caller :
       call[c] # Idle /\ call[c].op \in {"stop", "restart"}
         /\ (call'[c] = Idle \/ call'[c].op = "start")
       => \A r \in call[c].seen : ~Alive(r)']_supVars

\* The view of BridgeSlot: a slot is held from Launch to the end of the loop.
slotView ==
  [n \in Name |-> IF AliveOf(n) = {} THEN "free"
                  ELSE IF \E r \in AliveOf(n) : ~Cancelled(r) THEN "held" ELSE "ending"]

Slots == INSTANCE BridgeSlot WITH Name <- Name, slot <- slotView, closed <- outer

\* The supervisor is a set of slots, each taken by one loop at a time.
ImplementsSlots == Slots!Spec
=============================================================================
