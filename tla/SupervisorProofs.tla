-------------------------- MODULE SupervisorProofs --------------------------
(***************************************************************************)
(* For every set of sessions, callers and runs: one loop per name, always  *)
(* the one in the table, and gone when a Stop returns; the supervisor      *)
(* implements BridgeSlot.                                                  *)
(***************************************************************************)
EXTENDS Supervisor, TLAPS

\* What the table holds was launched for the name it is under, and nothing has
\* been asked of a run that was not launched.
TableInv ==
  /\ \A n \in Name : runs[n] # NoRun => phase[runs[n]] # "unused" /\ owner[runs[n]] = n
  /\ \A r \in Run : phase[r] = "unused" => ~cancelled[r]

\* A loop that was alive when a Stop began belongs to the name being stopped,
\* and is the run the Stop waits for as long as it is alive.
SeenInv ==
  \A c \in Caller : call[c] # Idle /\ call[c].op \in {"stop", "restart"} =>
    \A r \in call[c].seen :
      /\ phase[r] # "unused" /\ owner[r] = call[c].name
      /\ call[c].at = "wait" /\ Alive(r) => r = call[c].run

SupInv == TypeOK /\ Reachable /\ TableInv /\ SeenInv

-----------------------------------------------------------------------------

LEMMA InitInv == SupInit => SupInv
<1> SUFFICES ASSUME SupInit PROVE SupInv
  OBVIOUS
<1>1. (CHOOSE n \in Name : TRUE) \in Name /\ (CHOOSE k \in Conf : TRUE) \in Conf
  BY NonEmptyAssumption
<1>2. TypeOK
  BY <1>1 DEF SupInit, TypeOK, Phase, Idle
<1>3. Reachable /\ TableInv
  BY DEF SupInit, Reachable, TableInv, Alive
<1>4. SeenInv
  BY DEF SupInit, SeenInv, Idle
<1> QED  BY <1>2, <1>3, <1>4 DEF SupInv

\* A caller is outside the supervisor or at one of its calls.
LEMMA Callers ==
  ASSUME TypeOK, NEW c \in Caller, call[c] # Idle
  PROVE  /\ call[c] \in Call /\ call[c].name \in Name /\ call[c].conf \in Conf
         /\ call[c].seen \subseteq Run /\ call[c].run \in Run \cup {NoRun}
  BY DEF TypeOK, Call

\* What a step does to the calls keeps them typed.
CallsOK ==
  /\ call \in [Caller -> Call \cup {Idle}]
  /\ \A c \in Caller : call[c] # Idle /\ call[c].at = "wait" => call[c].run # NoRun

LEMMA MovedFields ==
  ASSUME NEW k, NEW op, NEW at, NEW r
  PROVE  /\ Moved(k, op, at, r).op = op /\ Moved(k, op, at, r).at = at
         /\ Moved(k, op, at, r).run = r /\ Moved(k, op, at, r).name = k.name
         /\ Moved(k, op, at, r).seen = k.seen
  BY DEF Moved

LEMMA ReturnTyped ==
  ASSUME TypeOK, NEW c \in Caller, Return(c)
  PROVE  /\ CallsOK'
         /\ call'[c] = Idle
         /\ \A d \in Caller : d # c => call'[d] = call[d]
  BY DEF TypeOK, Return, CallsOK

LEMMA MovedTyped ==
  ASSUME TypeOK, NEW c \in Caller, call[c] # Idle, NEW r \in Run \cup {NoRun},
         NEW op \in {"start", "stop", "restart"}, NEW at \in {"enter", "wait"},
         at = "wait" => r # NoRun,
         call' = [call EXCEPT ![c] = Moved(call[c], op, at, r)]
  PROVE  /\ CallsOK'
         /\ call'[c].op = op /\ call'[c].at = at /\ call'[c].run = r
         /\ call'[c].name = call[c].name /\ call'[c].seen = call[c].seen
         /\ \A d \in Caller : d # c => call'[d] = call[d]
<1>1. Moved(call[c], op, at, r) \in Call
  BY Callers DEF Call, Moved
<1>2. call'[c] = Moved(call[c], op, at, r) /\ \A d \in Caller : d # c => call'[d] = call[d]
  BY DEF TypeOK
<1>3. call' \in [Caller -> Call \cup {Idle}]
  BY <1>1 DEF TypeOK
<1>4. \A d \in Caller : call'[d] # Idle /\ call'[d].at = "wait" => call'[d].run # NoRun
  BY <1>2, MovedFields DEF TypeOK
<1> QED  BY <1>2, <1>3, <1>4, MovedFields DEF CallsOK

LEMMA WaitTyped ==
  ASSUME TypeOK, NEW c \in Caller, call[c] # Idle, NEW r \in Run, WaitFor(c, r)
  PROVE  /\ CallsOK'
         /\ call'[c].op = call[c].op /\ call'[c].at = "wait" /\ call'[c].run = r
         /\ call'[c].name = call[c].name /\ call'[c].seen = call[c].seen
         /\ \A d \in Caller : d # c => call'[d] = call[d]
<1>1. call[c].op \in {"start", "stop", "restart"}
  BY Callers DEF Call
<1> QED  BY <1>1, MovedTyped, RunAssumption DEF WaitFor

LEMMA ToStartTyped ==
  ASSUME TypeOK, NEW c \in Caller, call[c] # Idle, ToStart(c)
  PROVE  /\ CallsOK'
         /\ call'[c].op = "start" /\ call'[c].at = "enter"
         /\ \A d \in Caller : d # c => call'[d] = call[d]
  BY MovedTyped DEF ToStart

LEMMA BeginTyped ==
  ASSUME TypeOK, NEW c \in Caller, NEW op \in {"start", "stop", "restart"}, NEW n \in Name,
         NEW k \in Conf, Begin(c, op, n, k)
  PROVE  /\ CallsOK'
         /\ call'[c].at = "enter" /\ call'[c].op = op /\ call'[c].name = n
         /\ call'[c].seen = AliveOf(n)
         /\ \A d \in Caller : d # c => call'[d] = call[d]
<1> DEFINE new == [op |-> op, at |-> "enter", name |-> n, conf |-> k, run |-> NoRun, seen |-> AliveOf(n)]
<1>1. new \in Call
  BY DEF Call, AliveOf
<1>2. call' = [call EXCEPT ![c] = new]
  BY DEF Begin
<1>3. call' \in [Caller -> Call \cup {Idle}]
  <2> HIDE DEF new
  <2> QED  BY <1>1, <1>2 DEF TypeOK
<1>4. call'[c] = new /\ \A d \in Caller : d # c => call'[d] = call[d]
  <2> HIDE DEF new
  <2> QED  BY <1>2 DEF TypeOK
<1>5. new.at = "enter" /\ new.op = op /\ new.name = n /\ new.seen = AliveOf(n)
  OBVIOUS
<1>6. CallsOK'
  <2> HIDE DEF new
  <2> QED  BY <1>3, <1>4, <1>5 DEF TypeOK, CallsOK
<1> QED
  <2> HIDE DEF new
  <2> QED  BY <1>4, <1>5, <1>6

-----------------------------------------------------------------------------

LEMMA TypeKept == TypeOK /\ [SupNext]_supVars => TypeOK'
<1> SUFFICES ASSUME TypeOK, [SupNext]_supVars PROVE TypeOK'
  OBVIOUS
<1> DEFINE Rest == /\ runs' \in [Name -> Run \cup {NoRun}] /\ phase' \in [Run -> Phase]
                   /\ owner' \in [Run -> Name] /\ conf' \in [Run -> Conf]
                   /\ stopping' \in [Run -> BOOLEAN] /\ cancelled' \in [Run -> BOOLEAN]
                   /\ outer' \in BOOLEAN
                   /\ \A r \in Run : stopping'[r] => cancelled'[r]
<1>1. ASSUME NEW c \in Caller, NEW op \in {"start", "stop", "restart"}, NEW n \in Name, NEW k \in Conf,
             Begin(c, op, n, k)
      PROVE  TypeOK'
  <2>1. Rest
    BY <1>1 DEF Begin, TypeOK
  <2> QED  BY <1>1, <2>1, BeginTyped DEF TypeOK, CallsOK
<1>2. ASSUME NEW c \in Caller, call[c] # Idle, Launch(c) PROVE TypeOK'
  <2>1. PICK r \in Run : /\ runs' = [runs EXCEPT ![call[c].name] = r]
                         /\ phase' = [phase EXCEPT ![r] = "top"]
                         /\ owner' = [owner EXCEPT ![r] = call[c].name]
                         /\ conf' = [conf EXCEPT ![r] = call[c].conf]
    BY <1>2 DEF Launch
  <2>2. Rest
    BY <1>2, <2>1, Callers DEF Launch, TypeOK, Phase
  <2> QED  BY <1>2, <2>2, ReturnTyped DEF Launch, TypeOK, CallsOK
<1>3. ASSUME NEW c \in Caller, call[c] # Idle, FindRunning(c) PROVE TypeOK'
  <2>1. Rest
    BY <1>3 DEF FindRunning, TypeOK
  <2>2. runs[call[c].name] \in Run
    BY <1>3, Callers DEF FindRunning, TypeOK
  <2>3. CASE Return(c)
    BY <2>1, <2>3, ReturnTyped DEF TypeOK, CallsOK
  <2>4. CASE WaitFor(c, runs[call[c].name])
    BY <1>3, <2>1, <2>2, <2>4, WaitTyped DEF TypeOK, CallsOK
  <2> QED  BY <1>3, <2>3, <2>4 DEF FindRunning
<1>4. ASSUME NEW c \in Caller, call[c] # Idle, StopNothing(c) PROVE TypeOK'
  <2>1. Rest
    BY <1>4 DEF StopNothing, TypeOK
  <2>2. CASE Return(c)
    BY <2>1, <2>2, ReturnTyped DEF TypeOK, CallsOK
  <2>3. CASE ToStart(c)
    BY <1>4, <2>1, <2>3, ToStartTyped DEF TypeOK, CallsOK
  <2> QED  BY <1>4, <2>2, <2>3 DEF StopNothing, AfterStop
<1>5. ASSUME NEW c \in Caller, call[c] # Idle, StopRun(c) PROVE TypeOK'
  <2>1. Rest
    BY <1>5 DEF StopRun, TypeOK
  <2>2. runs[call[c].name] \in Run /\ WaitFor(c, runs[call[c].name])
    BY <1>5, Callers DEF StopRun, TypeOK
  <2> QED  BY <1>5, <2>1, <2>2, WaitTyped DEF TypeOK, CallsOK
<1>6. ASSUME NEW c \in Caller, call[c] # Idle, Waited(c) PROVE TypeOK'
  <2>1. Rest
    BY <1>6, Callers DEF Waited, Forget, TypeOK
  <2>2. CASE Return(c)
    BY <2>1, <2>2, ReturnTyped DEF TypeOK, CallsOK
  <2>3. CASE ToStart(c)
    BY <1>6, <2>1, <2>3, ToStartTyped DEF TypeOK, CallsOK
  <2> QED  BY <1>6, <2>2, <2>3 DEF Waited, AfterStop
<1>7. ASSUME NEW r \in Run, LoopStep(r) PROVE TypeOK'
  BY <1>7 DEF LoopStep, LoopTop, BridgeExits, Unpark, BackoffEnds, GoTo, TypeOK, Phase
<1>8. CASE CtxEnds \/ UNCHANGED supVars
  BY <1>8 DEF CtxEnds, TypeOK, supVars
<1> QED  BY <1>1, <1>2, <1>3, <1>4, <1>5, <1>6, <1>7, <1>8 DEF SupNext, CallerStep

\* The only loop a name can have is the one in the table.
LEMMA Holder ==
  ASSUME SupInv, NEW n \in Name
  PROVE  /\ runs[n] = NoRun => AliveOf(n) = {}
         /\ runs[n] # NoRun /\ Alive(runs[n]) => AliveOf(n) = {runs[n]}
         /\ runs[n] # NoRun /\ ~Alive(runs[n]) => AliveOf(n) = {}
<1>1. \A r \in AliveOf(n) : r \in Run /\ Alive(r) /\ runs[n] = r
  BY DEF SupInv, Reachable, AliveOf
<1>2. runs[n] # NoRun => runs[n] \in Run /\ owner[runs[n]] = n
  BY DEF SupInv, TypeOK, TableInv
<1>3. runs[n] # NoRun /\ Alive(runs[n]) => runs[n] \in AliveOf(n)
  BY <1>2 DEF AliveOf
<1> QED  BY <1>1, <1>3, RunAssumption

\* No step moves a loop that has ended, nor changes the name of one launched.
LEMMA LoopMoves ==
  ASSUME TypeOK, NEW r \in Run, LoopStep(r)
  PROVE  /\ Alive(r)
         /\ \E p \in Phase \ {"unused"} : phase' = [phase EXCEPT ![r] = p]
         /\ UNCHANGED <<runs, owner, conf, stopping, cancelled, outer, call>>
  BY DEF LoopStep, LoopTop, BridgeExits, Unpark, BackoffEnds, GoTo, TypeOK, Phase, Alive

LEMMA TableKept == SupInv /\ [SupNext]_supVars => (Reachable /\ TableInv)'
<1> SUFFICES ASSUME SupInv, [SupNext]_supVars PROVE (Reachable /\ TableInv)'
  OBVIOUS
<1> USE DEF Reachable, TableInv, Alive
<1>0. TypeOK /\ Reachable /\ TableInv
  BY DEF SupInv
<1>1. ASSUME NEW c \in Caller, call[c] # Idle, Launch(c) PROVE (Reachable /\ TableInv)'
  <2> DEFINE n == call[c].name
  <2>1. PICK r \in Run : /\ phase[r] = "unused"
                         /\ runs' = [runs EXCEPT ![n] = r]
                         /\ phase' = [phase EXCEPT ![r] = "top"]
                         /\ owner' = [owner EXCEPT ![r] = n]
    BY <1>1 DEF Launch
  <2>2. n \in Name /\ runs[n] = NoRun /\ UNCHANGED cancelled
    BY <1>0, <1>1, Callers DEF Launch
  <2>3. \A q \in Run : Alive(q) => owner[q] # n
    BY <1>0, <2>2, RunAssumption
  <2>4. \A m \in Name : runs[m] # r
    BY <1>0, <2>1, RunAssumption DEF TypeOK
  <2> HIDE DEF n
  <2> QED  BY <1>0, <2>1, <2>2, <2>3, <2>4, RunAssumption DEF TypeOK
<1>2. ASSUME NEW c \in Caller, call[c] # Idle, StopRun(c) PROVE (Reachable /\ TableInv)'
  BY <1>0, <1>2, Callers DEF StopRun, TypeOK
<1>3. ASSUME NEW c \in Caller, call[c] # Idle, Waited(c) PROVE (Reachable /\ TableInv)'
  BY <1>0, <1>3, Callers, RunAssumption DEF Waited, Forget, TypeOK
<1>4. ASSUME NEW c \in Caller, call[c] # Idle, FindRunning(c) \/ StopNothing(c) PROVE (Reachable /\ TableInv)'
  BY <1>0, <1>4 DEF FindRunning, StopNothing
<1>5. ASSUME NEW c \in Caller, NEW op \in {"start", "stop", "restart"}, NEW n \in Name, NEW k \in Conf,
             Begin(c, op, n, k)
      PROVE  (Reachable /\ TableInv)'
  BY <1>0, <1>5 DEF Begin
<1>6. ASSUME NEW r \in Run, LoopStep(r) PROVE (Reachable /\ TableInv)'
  BY <1>0, <1>6, LoopMoves DEF TypeOK
<1>7. CASE CtxEnds \/ UNCHANGED supVars
  BY <1>0, <1>7 DEF CtxEnds, supVars
<1> QED  BY <1>1, <1>2, <1>3, <1>4, <1>5, <1>6, <1>7 DEF SupNext, CallerStep

LEMMA SeenKept == SupInv /\ [SupNext]_supVars => SeenInv'
<1> SUFFICES ASSUME SupInv, [SupNext]_supVars PROVE SeenInv'
  OBVIOUS
<1> USE DEF SeenInv, Alive
<1>0. TypeOK /\ Reachable /\ TableInv /\ SeenInv
  BY DEF SupInv
<1>1. ASSUME NEW c \in Caller, call[c] # Idle, Launch(c) PROVE SeenInv'
  <2>1. PICK r \in Run : /\ phase[r] = "unused"
                         /\ phase' = [phase EXCEPT ![r] = "top"]
                         /\ owner' = [owner EXCEPT ![r] = call[c].name]
    BY <1>1 DEF Launch
  <2>2. \A d \in Caller : call[d] # Idle => call[d].seen \subseteq Run
    BY <1>0, Callers
  <2> QED  BY <1>0, <1>1, <2>1, <2>2, ReturnTyped DEF Launch, TypeOK
<1>2. ASSUME NEW c \in Caller, call[c] # Idle, StopRun(c) PROVE SeenInv'
  <2> DEFINE r == runs[call[c].name]
  <2>1. r \in Run /\ WaitFor(c, r) /\ UNCHANGED <<phase, owner>>
    BY <1>0, <1>2, Callers DEF StopRun, TypeOK
  <2>2. \A q \in call[c].seen : Alive(q) /\ owner[q] = call[c].name => q = r
    <3>1. call[c].seen \subseteq Run
      BY <1>0, <1>2, Callers
    <3> QED  BY <1>0, <3>1 DEF Reachable
  <2> HIDE DEF r
  <2> QED  BY <1>0, <1>2, <2>1, <2>2, WaitTyped DEF StopRun
<1>3. ASSUME NEW c \in Caller, call[c] # Idle, Waited(c) \/ StopNothing(c) PROVE SeenInv'
  <2>1. UNCHANGED <<phase, owner>>
    BY <1>3 DEF Waited, StopNothing
  <2>2. CASE Return(c)
    BY <1>0, <2>1, <2>2, ReturnTyped
  <2>3. CASE ToStart(c)
    BY <1>0, <1>3, <2>1, <2>3, ToStartTyped
  <2> QED  BY <1>3, <2>2, <2>3 DEF Waited, StopNothing, AfterStop
<1>4. ASSUME NEW c \in Caller, call[c] # Idle, FindRunning(c) PROVE SeenInv'
  <2>1. UNCHANGED <<phase, owner>> /\ call[c].op = "start"
    BY <1>4 DEF FindRunning
  <2>2. CASE Return(c)
    BY <1>0, <2>1, <2>2, ReturnTyped
  <2>3. CASE WaitFor(c, runs[call[c].name]) /\ runs[call[c].name] \in Run
    BY <1>0, <1>4, <2>1, <2>3, WaitTyped
  <2>4. runs[call[c].name] \in Run
    BY <1>0, <1>4, Callers DEF FindRunning, TypeOK
  <2> QED  BY <1>4, <2>2, <2>3, <2>4 DEF FindRunning
<1>5. ASSUME NEW c \in Caller, NEW op \in {"start", "stop", "restart"}, NEW n \in Name, NEW k \in Conf,
             Begin(c, op, n, k)
      PROVE  SeenInv'
  BY <1>0, <1>5, BeginTyped DEF Begin, AliveOf
<1>6. ASSUME NEW r \in Run, LoopStep(r) PROVE SeenInv'
  <2>1. \A d \in Caller : call[d] # Idle => call[d].seen \subseteq Run
    BY <1>0, Callers
  <2> QED  BY <1>0, <1>6, <2>1, LoopMoves DEF TypeOK
<1>7. CASE CtxEnds \/ UNCHANGED supVars
  BY <1>0, <1>7 DEF CtxEnds, supVars
<1> QED  BY <1>1, <1>2, <1>3, <1>4, <1>5, <1>6, <1>7 DEF SupNext, CallerStep

LEMMA StepInv == SupInv /\ [SupNext]_supVars => SupInv'
  BY TypeKept, TableKept, SeenKept DEF SupInv

\* In every behaviour of the supervisor the invariant holds.
THEOREM SupervisorInvariant == SupSpec => []SupInv
  BY InitInv, StepInv, PTL DEF SupSpec

\* The table, the loops and the calls keep their types, and a run is never
\* marked as stopping without being cancelled (supervisor.go:199-253).
THEOREM SupervisorTyped == SupSpec => []TypeOK
<1>1. SupInv => TypeOK
  BY DEF SupInv
<1> QED  BY <1>1, SupervisorInvariant, PTL

\* The loop of a name is the one in the table (supervisor.go:199-253).
THEOREM LoopIsReachable == SupSpec => []Reachable
<1>1. SupInv => Reachable
  BY DEF SupInv
<1> QED  BY <1>1, SupervisorInvariant, PTL

\* A session name never has two supervised loops, however many goroutines start,
\* stop and restart it (supervisor.go:199-270).
THEOREM OneLoopPerName == SupSpec => []OneLoop
<1>1. SupInv => OneLoop
  BY DEF SupInv, Reachable, OneLoop, TypeOK
<1> QED  BY <1>1, SupervisorInvariant, PTL

-----------------------------------------------------------------------------

\* A call that leaves the Stop it was in has no loop left of those it found.
StopEnds ==
  \A c \in Caller :
    call[c] # Idle /\ call[c].op \in {"stop", "restart"}
      /\ (call'[c] = Idle \/ call'[c].op = "start")
    => \A r \in call[c].seen : ~Alive(r)'

LEMMA StopStep == SupInv /\ [SupNext]_supVars => StopEnds
<1> SUFFICES ASSUME SupInv, [SupNext]_supVars, NEW c \in Caller,
                    call[c] # Idle, call[c].op \in {"stop", "restart"},
                    call'[c] = Idle \/ call'[c].op = "start",
                    NEW r \in call[c].seen
             PROVE  ~Alive(r)'
  BY DEF StopEnds
<1>0. TypeOK /\ Reachable /\ SeenInv /\ r \in Run /\ call[c].name \in Name
  BY Callers DEF SupInv
<1>1. call'[c] # call[c]
  BY DEF Idle
<1>2. phase[r] # "unused" /\ owner[r] = call[c].name
  BY <1>0 DEF SeenInv
<1>3. ASSUME NEW d \in Caller, call[d] # Idle, StopNothing(d) PROVE ~Alive(r)'
  <2>1. d = c
    BY <1>0, <1>1, <1>3, ReturnTyped, ToStartTyped DEF StopNothing, AfterStop
  <2>2. ~Alive(r)
    BY <1>0, <1>2, <1>3, <2>1, RunAssumption DEF StopNothing, Reachable
  <2> QED  BY <1>3, <2>2 DEF StopNothing, Alive
<1>4. ASSUME NEW d \in Caller, call[d] # Idle, Waited(d) PROVE ~Alive(r)'
  <2>1. d = c
    BY <1>0, <1>1, <1>4, ReturnTyped, ToStartTyped DEF Waited, AfterStop
  <2>2. ~Alive(r)
    BY <1>0, <1>4, <2>1 DEF Waited, SeenInv, Alive
  <2> QED  BY <1>4, <2>2 DEF Waited, Alive
<1>5. ASSUME NEW d \in Caller, call[d] # Idle, Launch(d) \/ FindRunning(d) PROVE FALSE
  <2>1. d # c
    BY <1>5 DEF Launch, FindRunning
  <2>2. CASE Return(d)
    BY <1>0, <1>1, <2>1, <2>2, ReturnTyped
  <2>3. CASE FindRunning(d) /\ WaitFor(d, runs[call[d].name])
    <3>1. runs[call[d].name] \in Run
      BY <1>0, <1>5, <2>3, Callers DEF FindRunning, TypeOK
    <3> QED  BY <1>0, <1>1, <1>5, <2>1, <2>3, <3>1, WaitTyped
  <2> QED  BY <1>5, <2>2, <2>3 DEF Launch, FindRunning
<1>6. ASSUME NEW d \in Caller, call[d] # Idle, StopRun(d) PROVE FALSE
  <2>1. runs[call[d].name] \in Run /\ WaitFor(d, runs[call[d].name])
    BY <1>0, <1>6, Callers DEF StopRun, TypeOK
  <2>2. d = c => call'[c] # Idle /\ call'[c].op = call[c].op
    BY <1>0, <1>6, <2>1, WaitTyped DEF Idle
  <2> QED  BY <1>0, <1>1, <1>6, <2>1, <2>2, WaitTyped
<1>7. ASSUME NEW d \in Caller, NEW op \in {"start", "stop", "restart"}, NEW n \in Name, NEW k \in Conf,
             Begin(d, op, n, k)
      PROVE  FALSE
  BY <1>0, <1>1, <1>7, BeginTyped DEF Begin
<1>8. CASE (\E q \in Run : LoopStep(q)) \/ CtxEnds \/ UNCHANGED supVars
  BY <1>0, <1>1, <1>8, LoopMoves DEF CtxEnds, supVars
<1> QED  BY <1>3, <1>4, <1>5, <1>6, <1>7, <1>8 DEF SupNext, CallerStep

\* When a Stop returns, and when a Restart launches, no loop that was alive when
\* it was called is running (supervisor.go:229-253, 262-270).
THEOREM StopWaits == SupSpec => StopMeansStopped
<1>1. SupInv /\ [SupNext]_supVars => [StopEnds]_supVars
  BY StopStep
<1> QED  BY <1>1, SupervisorInvariant, PTL DEF SupSpec, StopMeansStopped, StopEnds

-----------------------------------------------------------------------------

\* The slot of a name, from the table instead of the loops.
LEMMA SlotOf ==
  ASSUME SupInv, NEW n \in Name
  PROVE  slotView[n] = IF runs[n] = NoRun \/ ~Alive(runs[n]) THEN "free"
                       ELSE IF Cancelled(runs[n]) THEN "ending" ELSE "held"
<1>1. CASE runs[n] = NoRun \/ ~Alive(runs[n])
  BY <1>1, Holder DEF slotView
<1>2. CASE runs[n] # NoRun /\ Alive(runs[n])
  <2>1. AliveOf(n) = {runs[n]}
    BY <1>2, Holder
  <2> QED  BY <1>2, <2>1 DEF slotView
<1> QED  BY <1>1, <1>2

\* The same, as one function of the table.
tableView == [n \in Name |-> IF runs[n] = NoRun \/ ~Alive(runs[n]) THEN "free"
                             ELSE IF Cancelled(runs[n]) THEN "ending" ELSE "held"]

LEMMA Views == SupInv => slotView = tableView
<1> SUFFICES ASSUME SupInv PROVE slotView = tableView
  OBVIOUS
<1>1. \A n \in Name : slotView[n] = tableView[n]
  BY SlotOf DEF tableView
<1> QED  BY <1>1 DEF slotView, tableView

LEMMA SlotInit == SupInit => Slots!Init
  BY DEF SupInit, Slots!Init, slotView, AliveOf, Alive

LEMMA SlotStep == SupInv /\ SupInv' /\ [SupNext]_supVars => [Slots!Next]_<<slotView, outer>>
<1> SUFFICES ASSUME SupInv, SupInv', [SupNext]_supVars
             PROVE  Slots!Next \/ (slotView' = slotView /\ outer' = outer)
  OBVIOUS
<1> DEFINE Same == slotView' = slotView /\ outer' = outer
<1>a. (SupInv => slotView = tableView)'
  BY Views, PTL
<1>0. TypeOK /\ Reachable /\ TableInv /\ slotView = tableView /\ slotView' = tableView'
  BY <1>a, Views DEF SupInv
<1> USE DEF Alive, Cancelled
<1>1. ASSUME NEW c \in Caller, call[c] # Idle, Launch(c) PROVE Slots!Take(call[c].name)
  <2> DEFINE n == call[c].name
  <2>1. PICK r \in Run : /\ phase[r] = "unused"
                         /\ runs' = [runs EXCEPT ![n] = r]
                         /\ phase' = [phase EXCEPT ![r] = "top"]
    BY <1>1 DEF Launch
  <2>2. n \in Name /\ runs[n] = NoRun /\ UNCHANGED <<cancelled, outer>>
    BY <1>0, <1>1, Callers DEF Launch
  <2>3. \A m \in Name : runs[m] # r
    BY <1>0, <2>1, RunAssumption DEF TableInv
  <2> HIDE DEF n
  <2>4. tableView'[n] = (IF outer THEN "ending" ELSE "held")
    BY <1>0, <2>1, <2>2, RunAssumption DEF TypeOK, TableInv, tableView
  <2>5. \A m \in Name \ {n} : tableView'[m] = tableView[m]
    BY <1>0, <2>1, <2>2, <2>3 DEF TypeOK, tableView
  <2>6. tableView[n] = "free"
    BY <2>2 DEF tableView
  <2>7. tableView' = [tableView EXCEPT ![n] = IF outer THEN "ending" ELSE "held"]
    BY <2>2, <2>4, <2>5 DEF tableView
  <2> QED  BY <1>0, <2>2, <2>6, <2>7 DEF Slots!Take, n
<1>2. ASSUME NEW c \in Caller, call[c] # Idle, StopRun(c) PROVE Slots!Cancel(call[c].name) \/ Same
  <2> DEFINE n == call[c].name  r == runs[n]
  <2>1. n \in Name /\ r \in Run /\ r # NoRun
    BY <1>0, <1>2, Callers DEF StopRun, TypeOK
  <2>2. cancelled' = [cancelled EXCEPT ![r] = TRUE] /\ UNCHANGED <<runs, phase, outer>>
    BY <1>2 DEF StopRun
  <2>3. \A m \in Name \ {n} : runs[m] # r
    BY <1>0, <2>1 DEF TableInv
  <2>4. \A m \in Name \ {n} : tableView'[m] = tableView[m]
    BY <1>0, <2>1, <2>2, <2>3 DEF TypeOK, tableView
  <2>5. CASE tableView[n] = "held"
    <3>1. tableView'[n] = "ending"
      BY <1>0, <2>1, <2>2, <2>5 DEF TypeOK, tableView
    <3>2. tableView' = [tableView EXCEPT ![n] = "ending"]
      <4> HIDE DEF n, r
      <4> QED  BY <2>1, <2>4, <3>1 DEF tableView
    <3> QED  BY <1>0, <2>2, <2>5, <3>2 DEF Slots!Cancel
  <2>6. CASE tableView[n] # "held"
    <3>1. tableView'[n] = tableView[n]
      BY <1>0, <2>1, <2>2, <2>6 DEF TypeOK, tableView
    <3>2. tableView' = tableView
      <4> HIDE DEF n, r
      <4> QED  BY <2>1, <2>4, <3>1 DEF tableView
    <3> QED  BY <1>0, <2>2, <3>2
  <2> QED  BY <2>5, <2>6
<1>3. ASSUME NEW c \in Caller, call[c] # Idle, Waited(c) PROVE Same
  <2>1. UNCHANGED <<phase, cancelled, outer>> /\ phase[call[c].run] = "ended"
    BY <1>3 DEF Waited
  <2>2. \A m \in Name : runs'[m] = runs[m] \/ (runs'[m] = NoRun /\ runs[m] = call[c].run)
    BY <1>0, <1>3 DEF Waited, Forget, TypeOK
  <2> QED  BY <1>0, <2>1, <2>2 DEF tableView
<1>4. ASSUME NEW r \in Run, LoopStep(r) PROVE Slots!Release(owner[r]) \/ Same
  <2>1. PICK p \in Phase \ {"unused"} : phase' = [phase EXCEPT ![r] = p] /\ (p = "ended" => Cancelled(r))
    BY <1>0, <1>4 DEF LoopStep, LoopTop, BridgeExits, Unpark, BackoffEnds, GoTo, Phase
  <2>2. Alive(r) /\ UNCHANGED <<runs, cancelled, outer>>
    BY <1>0, <1>4, LoopMoves
  <2>3. owner[r] \in Name /\ runs[owner[r]] = r /\ r # NoRun
    BY <1>0, <2>2, RunAssumption DEF Reachable, TypeOK
  <2>4. \A m \in Name \ {owner[r]} : tableView'[m] = tableView[m]
    BY <1>0, <2>1, <2>2, <2>3 DEF TableInv, TypeOK, tableView
  <2>5. CASE p = "ended"
    <3>1. tableView[owner[r]] = "ending" /\ tableView'[owner[r]] = "free"
      BY <1>0, <2>1, <2>2, <2>3, <2>5 DEF TypeOK, tableView
    <3>2. tableView' = [tableView EXCEPT ![owner[r]] = "free"]
      BY <2>3, <2>4, <3>1 DEF tableView
    <3> QED  BY <1>0, <2>2, <3>1, <3>2 DEF Slots!Release
  <2>6. CASE p # "ended"
    <3>1. tableView'[owner[r]] = tableView[owner[r]]
      BY <1>0, <2>1, <2>2, <2>3, <2>6 DEF TypeOK, tableView
    <3>2. tableView' = tableView
      BY <2>4, <3>1 DEF tableView
    <3> QED  BY <1>0, <2>2, <3>2
  <2> QED  BY <2>5, <2>6
<1>5. CASE CtxEnds
  <2>1. ~outer /\ outer' = TRUE /\ UNCHANGED <<runs, phase, cancelled>>
    BY <1>5 DEF CtxEnds
  <2>2. tableView' = [n \in Name |-> IF tableView[n] = "held" THEN "ending" ELSE tableView[n]]
    BY <1>0, <2>1 DEF tableView, TypeOK
  <2> QED  BY <1>0, <2>1, <2>2 DEF Slots!Next, Slots!CloseAll
<1>6. ASSUME NEW c \in Caller, FindRunning(c) \/ StopNothing(c) PROVE Same
  BY <1>0, <1>6 DEF FindRunning, StopNothing, tableView
<1>7. ASSUME NEW c \in Caller, NEW op \in {"start", "stop", "restart"}, NEW n \in Name, NEW k \in Conf,
             Begin(c, op, n, k)
      PROVE  Same
  BY <1>0, <1>7 DEF Begin, tableView
<1>8. CASE UNCHANGED supVars
  BY <1>0, <1>8 DEF supVars, tableView
<1>9. \A c \in Caller : call[c] # Idle => call[c].name \in Name
  BY <1>0, Callers
<1>10. \A r \in Run : owner[r] \in Name
  BY <1>0 DEF TypeOK
<1> QED
  BY <1>1, <1>2, <1>3, <1>4, <1>5, <1>6, <1>7, <1>8, <1>9, <1>10 DEF SupNext, CallerStep, Slots!Next

\* The supervisor is a set of slots, each taken by one loop at a time and free
\* again only when that loop has returned (supervisor.go:199-290).
THEOREM SupervisorIsSlots == SupSpec => ImplementsSlots
<1>1. SupInv /\ SupInv' /\ [SupNext]_supVars => [Slots!Next]_(Slots!vars)
  BY SlotStep DEF Slots!vars
<1> QED  BY <1>1, SlotInit, SupervisorInvariant, PTL DEF SupSpec, ImplementsSlots, Slots!Spec
=============================================================================
