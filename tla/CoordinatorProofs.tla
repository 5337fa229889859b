-------------------------- MODULE CoordinatorProofs --------------------------
(***************************************************************************)
(* For every set of sessions, of orders and of names, and for any number of *)
(* failures: the types, no idle worker, no report lost, and the barrier of a *)
(* lead never opens early.                                                 *)
(***************************************************************************)
EXTENDS Coordinator, FiniteSetTheorems, TLAPS

\* The steps of a spawn, and those at which it has a name.
Spawning == {"check", "create", "seed", "rollback", "closed"}
Named == {"create", "seed", "rollback", "closed"}

\* What a call carries at each step: a spawn its own session as the parent, the
\* name it probed, the tasks still to give; a seal the number it will set; a
\* message the session it is for.
CallOK(s) ==
  LET k == call[s]
  IN  /\ k.at \in Spawning =>
           /\ k.op \in {"handoff", "delegate", "fanout"}
           /\ k.parent \in {None, s} /\ k.left > 0
      /\ k.at \in Named => k.name \in Name
      /\ k.at \notin Named => k.name = None
      /\ k.at = "mark" => k.op \in {"fanout", "seal", "report", "merge"}
      /\ k.at = "mark" /\ k.op = "fanout" => k.made > 0
      /\ k.op = "seal" => k.at = "mark" /\ k.seen > 0 /\ k.made = 0
      /\ k.op \in {"report", "merge"} \/ k.at = "tell" => k.parent \in Name
      /\ k.op = "none" <=> k.at = "idle"

CallInv == call \in [Name -> CallType] /\ \A s \in Name : CallOK(s)

RowsTyped ==
  /\ rows \subseteq Name /\ archived \subseteq rows /\ live \subseteq Name
  /\ branches \subseteq Name
  /\ parent \in [Name -> Name \cup {None}]
  /\ closing \in Name \cup {None}

JoinTyped ==
  /\ reported \in [DOMAIN reported -> (SUBSET Name) \ {{}}]
  /\ DOMAIN reported \subseteq Name
  /\ expected \in [DOMAIN expected -> Nat \ {0}]
  /\ cohort \in [DOMAIN expected -> SUBSET Name]
  /\ DOMAIN expected \subseteq Name

QueueTyped == queue \in [Name -> 0..QueueCap]

HistoryTyped ==
  /\ orders \in 0..MaxOrders /\ faults \in 0..MaxFaults
  /\ seeded \subseteq Name /\ marred \subseteq Name

\* The worker a lead's spawn has made and not yet given its task.
Making(s) == {w \in {call[s].name} : call[s].at \in {"seed", "rollback"}}

\* The workers a lead has at hand but for the one it is making, leaving out
\* those a failure or a rename left behind.
AtHand(s) == (Children(s) \ marred) \ Making(s)

\* A fan-out has counted every worker at hand; a seal is for no fewer.
Counted ==
  \A s \in Name : call[s].op \in {"fanout", "seal"} =>
    Cardinality(AtHand(s)) <= call[s].seen + call[s].made

\* A lead expects no fewer reports than it had workers when it was set.
CohortFits == \A l \in DOMAIN expected : Cardinality(cohort[l]) <= expected[l]

Typed == RowsTyped /\ JoinTyped /\ QueueTyped /\ CallInv /\ HistoryTyped

Inv == Typed /\ Counted /\ CohortFits /\ NoIdleWorker

-----------------------------------------------------------------------------
LEMMA TypedImplies == Typed => TypeOK
BY DEF Typed, RowsTyped, JoinTyped, QueueTyped, CallInv, HistoryTyped, TypeOK

LEMMA NoTries == 0 \in 0..SeedAttempts - 1
BY CoordinatorAssumption

LEMMA IdleTyped == Idle \in CallType
BY CoordinatorAssumption DEF Idle, CallType

LEMMA InitInv == Init => Inv
<1> SUFFICES ASSUME Init PROVE Inv
  OBVIOUS
<1> USE CoordinatorAssumption
<1>1. RowsTyped /\ JoinTyped /\ QueueTyped /\ HistoryTyped
  BY DEF Init, RowsTyped, JoinTyped, QueueTyped, HistoryTyped
<1>2. CallInv
  BY IdleTyped DEF Init, CallInv, CallOK, Idle, Spawning, Named
<1>3. Counted /\ CohortFits /\ NoIdleWorker
  BY DEF Init, Counted, CohortFits, NoIdleWorker, Idle
<1> QED  BY <1>1, <1>2, <1>3 DEF Inv, Typed

-----------------------------------------------------------------------------
(* The calls. *)

LEMMA EndedCall ==
  ASSUME CallInv, NEW s \in Name, Ended(s)
  PROVE  CallInv' /\ call'[s] = Idle /\ \A t \in Name \ {s} : call'[t] = call[t]
BY IdleTyped DEF Ended, CallInv, CallOK, Idle, Spawning, Named

LEMMA SpawnOverCall ==
  ASSUME CallInv, NEW s \in Name, SpawnOver(s), call[s].at \in Spawning
  PROVE  /\ CallInv'
         /\ \A t \in Name \ {s} : call'[t] = call[t]
         /\ call'[s] = Idle
              \/ /\ call'[s].op = "fanout" /\ call[s].op = "fanout"
                 /\ call'[s].at = "mark" /\ call'[s].name = None
                 /\ call'[s].seen = call[s].seen /\ call'[s].made = call[s].made
<1>1. CASE ~(call[s].op = "fanout" /\ call[s].made > 0)
  BY <1>1, EndedCall DEF SpawnOver
<1>2. CASE call[s].op = "fanout" /\ call[s].made > 0
  <2> DEFINE k == [op |-> "fanout", at |-> "mark", parent |-> call[s].parent, name |-> None,
                   left |-> 0, made |-> call[s].made, seen |-> call[s].seen,
                   tries |-> call[s].tries]
  <2>1. k \in CallType
    BY <1>2 DEF CallInv, CallType
  <2>2. call' = [call EXCEPT ![s] = k]
    BY <1>2 DEF SpawnOver, CallInv, CallType
  <2>3. call'[s] = k /\ \A t \in Name \ {s} : call'[t] = call[t]
    BY <2>2 DEF CallInv
  <2>4. CallInv'
    BY <2>1, <2>2, <2>3, <1>2 DEF CallInv, CallOK, Spawning, Named
  <2> QED  BY <2>3, <2>4, <1>2
<1> QED  BY <1>1, <1>2

LEMMA ChildrenFinite ==
  ASSUME RowsTyped, NEW l
  PROVE  /\ IsFiniteSet(Children(l)) /\ Cardinality(Children(l)) \in Nat
         /\ \A S \in SUBSET Children(l) :
               /\ IsFiniteSet(S) /\ Cardinality(S) \in Nat
               /\ Cardinality(S) <= Cardinality(Children(l))
<1>1. Children(l) \subseteq Name
  BY DEF Children, RowsTyped
<1>2. IsFiniteSet(Children(l))
  BY <1>1, FS_Subset, CoordinatorAssumption
<1> QED  BY <1>2, FS_Subset, FS_CardinalityType

\* A call that moves to another record.
LEMMA CallMoved ==
  ASSUME CallInv, NEW s \in Name, NEW k \in CallType,
         call' = [call EXCEPT ![s] = k]
  PROVE  /\ call' \in [Name -> CallType] /\ call'[s] = k
         /\ \A t \in Name \ {s} : call'[t] = call[t]
BY DEF CallInv

\* The other calls are as they were, and the one that moved is right.
LEMMA CallKept ==
  ASSUME CallInv, NEW s \in Name, call' \in [Name -> CallType],
         \A t \in Name \ {s} : call'[t] = call[t],
         CallOK(s)'
  PROVE  CallInv'
BY DEF CallInv, CallOK

LEMMA OrderCall ==
  ASSUME CallInv, RowsTyped, NEW s \in Name, NEW o \in Orders[s], Order(s, o)
  PROVE  /\ CallInv'
         /\ \A t \in Name \ {s} : call'[t] = call[t]
         /\ call'[s].at \in {"check", "mark"}
         /\ call'[s].made = 0
         /\ call'[s].op \in {"fanout", "seal"} => Cardinality(Children(s)) <= call'[s].seen
<1> USE CoordinatorAssumption
<1>0. o \in [op : OrderKind, n : Nat] /\ s \in rows
  BY DEF Order
<1>1. Cardinality(Children(s)) \in Nat /\ Cardinality(Children(parent[s])) \in Nat
  BY ChildrenFinite
<1>2. ASSUME o.op \in {"handoff", "delegate", "fanout"}, o.n > 0,
             call' = [call EXCEPT ![s] = SpawnCall(s, o)]
      PROVE  /\ CallInv' /\ \A t \in Name \ {s} : call'[t] = call[t]
             /\ call'[s].at = "check" /\ call'[s].made = 0
             /\ call'[s].seen = Cardinality(Children(s)) /\ call'[s].op # "seal"
  <2>1. SpawnCall(s, o) \in CallType
    BY <1>0, <1>1, IdleTyped DEF SpawnCall, CallType
  <2>2. call' \in [Name -> CallType] /\ call'[s] = SpawnCall(s, o)
        /\ \A t \in Name \ {s} : call'[t] = call[t]
    BY <1>2, <2>1, CallMoved
  <2>3. /\ call'[s].op = o.op /\ call'[s].at = "check" /\ call'[s].name = None
        /\ call'[s].left = o.n /\ call'[s].made = 0 /\ call'[s].parent \in {None, s}
        /\ call'[s].seen = Cardinality(Children(s))
    BY <2>2 DEF SpawnCall, Idle
  <2>4. CallOK(s)'
    BY <2>3, <1>0, <1>2 DEF CallOK, Spawning, Named
  <2> QED  BY <2>2, <2>3, <2>4, <1>2, CallKept
<1>3. ASSUME o.op = "seal", SealAccepted(s, o.n), call' = [call EXCEPT ![s] = SealCall(s, o)]
      PROVE  /\ CallInv' /\ \A t \in Name \ {s} : call'[t] = call[t]
             /\ call'[s].at = "mark" /\ call'[s].made = 0
             /\ Cardinality(Children(s)) <= call'[s].seen
  <2>1. SealCall(s, o) \in CallType
    BY <1>0, IdleTyped DEF SealCall, CallType, OrderKind
  <2>2. call' \in [Name -> CallType] /\ call'[s] = SealCall(s, o)
        /\ \A t \in Name \ {s} : call'[t] = call[t]
    BY <1>3, <2>1, CallMoved
  <2>3. /\ call'[s].op = "seal" /\ call'[s].at = "mark" /\ call'[s].name = None
        /\ call'[s].made = 0 /\ call'[s].seen = o.n
    BY <2>2 DEF SealCall, Idle
  <2>4. CallOK(s)'
    BY <2>3, <1>0, <1>3 DEF CallOK, Spawning, Named, SealAccepted
  <2>5. Cardinality(Children(s)) <= call'[s].seen
    BY <2>3, <1>0, <1>1, <1>3 DEF SealAccepted
  <2> QED  BY <2>2, <2>3, <2>4, <2>5, CallKept
<1>4. ASSUME parent[s] \in rows, call' = [call EXCEPT ![s] = ReportCall(s)]
      PROVE  /\ CallInv' /\ \A t \in Name \ {s} : call'[t] = call[t]
             /\ call'[s].at = "mark" /\ call'[s].made = 0 /\ call'[s].op = "report"
  <2>1. ReportCall(s) \in CallType
    BY <1>1, <1>4, IdleTyped DEF ReportCall, CallType, OrderKind, RowsTyped
  <2>2. call' \in [Name -> CallType] /\ call'[s] = ReportCall(s)
        /\ \A t \in Name \ {s} : call'[t] = call[t]
    BY <1>4, <2>1, CallMoved
  <2>3. /\ call'[s].op = "report" /\ call'[s].at = "mark" /\ call'[s].name = None
        /\ call'[s].made = 0 /\ call'[s].parent = parent[s]
    BY <2>2 DEF ReportCall, Idle
  <2>4. CallOK(s)'
    BY <2>3, <1>4 DEF CallOK, Spawning, Named, RowsTyped
  <2> QED  BY <2>2, <2>3, <2>4, CallKept
<1>5. ASSUME call' = [call EXCEPT ![s] = MergeCall(s)]
      PROVE  /\ CallInv' /\ \A t \in Name \ {s} : call'[t] = call[t]
             /\ call'[s].at = "mark" /\ call'[s].made = 0 /\ call'[s].op = "merge"
  <2>1. MergeCall(s) \in CallType
    BY IdleTyped DEF MergeCall, CallType, OrderKind
  <2>2. call' \in [Name -> CallType] /\ call'[s] = MergeCall(s)
        /\ \A t \in Name \ {s} : call'[t] = call[t]
    BY <1>5, <2>1, CallMoved
  <2>3. /\ call'[s].op = "merge" /\ call'[s].at = "mark" /\ call'[s].name = None
        /\ call'[s].made = 0 /\ call'[s].parent = s
    BY <2>2 DEF MergeCall, Idle
  <2>4. CallOK(s)'
    BY <2>3 DEF CallOK, Spawning, Named
  <2> QED  BY <2>2, <2>3, <2>4, CallKept
<1> QED  BY <1>1, <1>2, <1>3, <1>4, <1>5 DEF Order

\* A step of one call leaves the others as they are.
Others(s) == \A t \in Name \ {s} : call'[t] = call[t]

LEMMA MissCall ==
  ASSUME CallInv, NEW s \in Name, NEW to, Miss(s, to), call[s].at \in {"seed", "tell"}
  PROVE  /\ CallInv' /\ Others(s)
         /\ \/ call'[s] = Idle /\ call[s].at = "tell"
            \/ /\ call'[s].at \in {call[s].at, "rollback"} /\ call'[s].name = call[s].name
               /\ call'[s].op = call[s].op /\ call'[s].seen = call[s].seen
               /\ call'[s].made = call[s].made
               /\ call[s].at = "seed" => call'[s].at \in {"seed", "rollback"}
<1>1. CASE TriesAgain(s) /\ call' = [call EXCEPT ![s].tries = @ + 1]
  <2>1. call[s].tries + 1 \in 0..SeedAttempts - 1
    BY <1>1, CoordinatorAssumption DEF TriesAgain, CallInv, CallType
  <2>2. [call[s] EXCEPT !.tries = @ + 1] \in CallType
    BY <2>1 DEF CallInv, CallType
  <2>3. call' = [call EXCEPT ![s] = [call[s] EXCEPT !.tries = @ + 1]]
    BY <1>1
  <2>4. call' \in [Name -> CallType] /\ Others(s)
        /\ call'[s] = [call[s] EXCEPT !.tries = @ + 1]
    BY <2>2, <2>3, CallMoved DEF Others
  <2>5. /\ call'[s].at = call[s].at /\ call'[s].name = call[s].name
        /\ call'[s].op = call[s].op /\ call'[s].seen = call[s].seen
        /\ call'[s].made = call[s].made /\ call'[s].left = call[s].left
        /\ call'[s].parent = call[s].parent
    BY <2>4 DEF CallInv, CallType
  <2>6. CallOK(s)'
    BY <2>5 DEF CallInv, CallOK, Spawning, Named
  <2> QED  BY <2>4, <2>5, <2>6, CallKept DEF Others
<1>2. CASE GiveUp(s) /\ call[s].at = "seed"
  <2> DEFINE k == [call[s] EXCEPT !.at = "rollback", !.tries = 0]
  <2>1. k \in CallType
    BY NoTries DEF CallInv, CallType
  <2>2. call' = [call EXCEPT ![s] = k]
    BY <1>2 DEF GiveUp
  <2>3. call' \in [Name -> CallType] /\ Others(s) /\ call'[s] = k
    BY <2>1, <2>2, CallMoved DEF Others
  <2>4. /\ call'[s].at = "rollback" /\ call'[s].name = call[s].name
        /\ call'[s].op = call[s].op /\ call'[s].seen = call[s].seen
        /\ call'[s].made = call[s].made /\ call'[s].left = call[s].left
        /\ call'[s].parent = call[s].parent
    BY <2>3 DEF CallInv, CallType
  <2>5. CallOK(s)'
    BY <2>4, <1>2 DEF CallInv, CallOK, Spawning, Named
  <2> QED  BY <2>3, <2>4, <2>5, <1>2, CallKept DEF Others
<1>3. CASE GiveUp(s) /\ call[s].at # "seed"
  BY <1>3, EndedCall DEF GiveUp, Others
<1> QED  BY <1>1, <1>2, <1>3 DEF Miss

LEMMA SeedMissed ==
  ASSUME CallInv, NEW s \in Name, SeedMisses(s)
  PROVE  call'[s].name = call[s].name /\ call'[s].at \in {"seed", "rollback"}
BY MissCall DEF SeedMisses

\* A call that moves on to another step, with another name.
Moves(s, at, w) ==
  /\ call' \in [Name -> CallType] /\ Others(s)
  /\ call'[s].at = at /\ call'[s].name = w
  /\ call'[s].op = call[s].op /\ call'[s].seen = call[s].seen
  /\ call'[s].made = call[s].made /\ call'[s].left = call[s].left
  /\ call'[s].parent = call[s].parent

LEMMA MovesOK ==
  ASSUME CallInv, NEW s \in Name, NEW at, NEW w, Moves(s, at, w),
         \/ at \in Named /\ call[s].at \in Spawning /\ w \in Name
         \/ at = "tell" /\ w = None /\ call[s].op \in {"report", "merge"}
  PROVE  CallInv'
<1>1. CallOK(s)'
  BY DEF Moves, CallInv, CallOK, Spawning, Named
<1> QED  BY <1>1, CallKept DEF Moves, Others

LEMMA CheckCall ==
  ASSUME CallInv, RowsTyped, NEW s \in Name, CheckSpawn(s)
  PROVE  CallInv' /\ \E w \in Name \ branches : Moves(s, "create", w)
<1> DEFINE names == SpawnNames[s]
           k(w) == [call[s] EXCEPT !.at = "create", !.name = w]
<1>1. names \in Seq(Name)
  BY CoordinatorAssumption
<1>2. PICK i \in DOMAIN names :
         names[i] \notin branches /\ call' = [call EXCEPT ![s] = k(names[i])]
  BY DEF CheckSpawn
<1>3. names[i] \in Name \ branches
  BY <1>1, <1>2
<1>4. \A w \in Name : k(w) \in CallType
  BY DEF CallInv, CallType
<1>5. call' \in [Name -> CallType] /\ Others(s) /\ call'[s] = k(names[i])
  BY <1>2, <1>3, <1>4, CallMoved DEF Others
<1>6. Moves(s, "create", names[i])
  BY <1>5 DEF CallInv, CallType, Moves
<1>7. CallInv'
  BY <1>3, <1>6, MovesOK DEF CheckSpawn, Spawning, Named, RowsTyped
<1> QED  BY <1>3, <1>6, <1>7

LEMMA CreateCall ==
  ASSUME CallInv, NEW s \in Name, Create(s)
  PROVE  CallInv' /\ Moves(s, "seed", call[s].name)
<1> DEFINE k == [call[s] EXCEPT !.at = "seed", !.tries = 0]
<1>1. k \in CallType
  BY NoTries DEF CallInv, CallType
<1>2. call' = [call EXCEPT ![s] = k] /\ call[s].at = "create"
  BY DEF Create, AddRow
<1>3. call' \in [Name -> CallType] /\ Others(s) /\ call'[s] = k
  BY <1>1, <1>2, CallMoved DEF Others
<1>4. Moves(s, "seed", call[s].name)
  BY <1>3 DEF CallInv, CallType, Moves
<1>5. CallInv'
  BY <1>2, <1>4, MovesOK DEF CallInv, CallOK, Spawning, Named
<1> QED  BY <1>4, <1>5

LEMMA RollbackCall ==
  ASSUME CallInv, NEW s \in Name, Rollback(s)
  PROVE  CallInv' /\ Moves(s, "closed", call[s].name)
<1> DEFINE k == [call[s] EXCEPT !.at = "closed"]
<1>1. k \in CallType
  BY DEF CallInv, CallType
<1>2. call' = [call EXCEPT ![s] = k] /\ call[s].at = "rollback"
  BY DEF Rollback
<1>3. call' \in [Name -> CallType] /\ Others(s) /\ call'[s] = k
  BY <1>1, <1>2, CallMoved DEF Others
<1>4. Moves(s, "closed", call[s].name)
  BY <1>3 DEF CallInv, CallType, Moves
<1>5. CallInv'
  BY <1>2, <1>4, MovesOK DEF CallInv, CallOK, Spawning, Named
<1> QED  BY <1>4, <1>5

LEMMA TellCall ==
  ASSUME CallInv, NEW s \in Name, Record(s) \/ Merged(s)
  PROVE  CallInv' /\ Moves(s, "tell", None) /\ call[s].op \in {"report", "merge"}
<1> DEFINE k == [call[s] EXCEPT !.at = "tell"]
<1>1. k \in CallType
  BY DEF CallInv, CallType
<1>2. /\ call' = [call EXCEPT ![s] = k] /\ call[s].at = "mark"
      /\ call[s].op \in {"report", "merge"}
  BY DEF Record, Merged
<1>3. call' \in [Name -> CallType] /\ Others(s) /\ call'[s] = k
  BY <1>1, <1>2, CallMoved DEF Others
<1>4. call[s].name = None
  BY <1>2 DEF CallInv, CallOK, Named
<1>5. Moves(s, "tell", None)
  BY <1>3, <1>4 DEF CallInv, CallType, Moves
<1>6. CallInv'
  BY <1>2, <1>5, MovesOK
<1> QED  BY <1>2, <1>5, <1>6

LEMMA SeedCall ==
  ASSUME CallInv, NEW s \in Name, SeedTask(s)
  PROVE  /\ CallInv' /\ Others(s)
         /\ \/ call'[s] = Idle
            \/ /\ call'[s].at \in {"check", "mark"} /\ call'[s].name = None
               /\ call'[s].op = call[s].op /\ call'[s].seen = call[s].seen
               /\ call'[s].made = call[s].made + 1
<1> DEFINE c == [call[s] EXCEPT !.left = @ - 1, !.made = @ + 1, !.name = None, !.tries = 0]
           moved(at) == [c EXCEPT !.at = at]
<1>1. call[s].left > 0 /\ call[s].at = "seed" /\ call[s].op \in {"handoff", "delegate", "fanout"}
  BY DEF SeedTask, CallInv, CallOK, Spawning
<1>2. call[s].left - 1 \in Nat /\ call[s].made + 1 \in Nat
  BY <1>1 DEF CallInv, CallType
<1>3. /\ c \in CallType /\ c.left = call[s].left - 1 /\ c.made = call[s].made + 1
      /\ c.name = None /\ c.op = call[s].op /\ c.seen = call[s].seen
      /\ c.parent = call[s].parent
  BY <1>2, NoTries DEF CallInv, CallType
<1>4. ASSUME NEW at \in {"check", "mark"}, call' = [call EXCEPT ![s] = moved(at)],
             at = "check" => c.left > 0, at = "mark" => c.op = "fanout"
      PROVE  /\ CallInv' /\ Others(s)
             /\ call'[s].at \in {"check", "mark"} /\ call'[s].name = None
             /\ call'[s].op = call[s].op /\ call'[s].seen = call[s].seen
             /\ call'[s].made = call[s].made + 1
  <2> HIDE DEF c
  <2>1. moved(at) \in CallType
    BY <1>3 DEF CallType
  <2>2. call' \in [Name -> CallType] /\ Others(s) /\ call'[s] = moved(at)
    BY <1>4, <2>1, CallMoved DEF Others
  <2>3. /\ call'[s].at = at /\ call'[s].name = c.name /\ call'[s].op = c.op
        /\ call'[s].seen = c.seen /\ call'[s].made = c.made /\ call'[s].left = c.left
        /\ call'[s].parent = c.parent
    BY <2>2, <1>3 DEF CallType
  <2>4. call'[s].made > 0
    BY <2>3, <1>2, <1>3 DEF CallInv, CallType
  <2>5. CallOK(s)'
    BY <2>3, <2>4, <1>1, <1>3, <1>4 DEF CallInv, CallOK, Spawning, Named
  <2> QED  BY <2>2, <2>3, <2>5, <1>3, CallKept DEF Others
<1>5. \/ call' = [call EXCEPT ![s] = moved("check")] /\ c.left > 0
      \/ call' = [call EXCEPT ![s] = moved("mark")] /\ c.op = "fanout"
      \/ Ended(s)
  BY DEF SeedTask, Ended
<1>6. CASE Ended(s)
  BY <1>6, EndedCall DEF Others
<1> HIDE DEF c
<1> QED  BY <1>4, <1>5, <1>6

-----------------------------------------------------------------------------
(* The types, step by step. *)

\* What the operator does to a session's row.
Manages(s) ==
  \/ Close(s) \/ Archive(s) \/ Unarchive(s) \/ Resume(s)
  \/ \E y \in Name : Rename(s, y)

LEMMA ManagesCalls ==
  ASSUME NEW s \in Name, Manages(s)
  PROVE  UNCHANGED <<call, queue>>
BY DEF Manages, Close, Archive, Unarchive, Resume, Rename

LEMMA MovedTyped ==
  ASSUME NEW S, S \subseteq Name, NEW x \in Name, NEW y \in Name
  PROVE  Moved(S, x, y) \subseteq Name
BY DEF Moved

\* A set of sessions grows by no rename.
LEMMA MovedSize ==
  ASSUME NEW S, IsFiniteSet(S), NEW x, NEW y
  PROVE  /\ IsFiniteSet(Moved(S, x, y))
         /\ Cardinality(Moved(S, x, y)) \in Nat /\ Cardinality(S) \in Nat
         /\ Cardinality(Moved(S, x, y)) <= Cardinality(S)
<1>0. Cardinality(S) \in Nat
  BY FS_CardinalityType
<1>1. CASE x \in S
  <2> DEFINE T == S \ {x}
  <2>1. IsFiniteSet(T) /\ Cardinality(T) = Cardinality(S) - 1
    BY <1>1, FS_RemoveElement
  <2>2. /\ IsFiniteSet(T \cup {y})
        /\ Cardinality(T \cup {y}) \in {Cardinality(T), Cardinality(T) + 1}
    BY <2>1, FS_AddElement
  <2>3. Moved(S, x, y) = T \cup {y}
    BY <1>1 DEF Moved
  <2> HIDE DEF T
  <2> QED  BY <1>0, <2>1, <2>2, <2>3, FS_CardinalityType
<1>2. CASE x \notin S
  <2>1. Moved(S, x, y) \subseteq S
    BY <1>2 DEF Moved
  <2> QED  BY <1>0, <2>1, FS_Subset, FS_CardinalityType
<1> QED  BY <1>1, <1>2

LEMMA CallStepCalls ==
  ASSUME CallInv, RowsTyped, NEW s \in Name, CallStep(s)
  PROVE  CallInv' /\ Others(s)
<1>1. CASE CheckSpawn(s)
  BY <1>1, CheckCall DEF Moves
<1>2. CASE SpawnRefused(s) \/ CreateUnsaved(s) \/ CreateFails(s) \/ RollbackFails(s)
           \/ RolledBack(s)
  BY <1>2, SpawnOverCall DEF SpawnRefused, CreateUnsaved, AddRow, CreateFails,
     RollbackFails, RolledBack, Spawning, Others
<1>3. CASE Create(s)
  BY <1>3, CreateCall DEF Moves
<1>4. CASE SeedTask(s)
  BY <1>4, SeedCall
<1>5. CASE SeedMisses(s) \/ TellMisses(s)
  BY <1>5, MissCall DEF SeedMisses, TellMisses
<1>6. CASE Rollback(s)
  BY <1>6, RollbackCall DEF Moves
<1>7. CASE Record(s) \/ Merged(s)
  BY <1>7, TellCall DEF Moves
<1>8. CASE TreeRefused(s) \/ Tell(s) \/ Seal(s) \/ FanOutSeals(s)
  BY <1>8, EndedCall DEF TreeRefused, Tell, Seal, FanOutSeals, Expect, Others
<1> QED  BY <1>1, <1>2, <1>3, <1>4, <1>5, <1>6, <1>7, <1>8 DEF CallStep

LEMMA CallsStep ==
  ASSUME CallInv, RowsTyped, [Next]_vars
  PROVE  CallInv'
<1>1. CASE \E s \in Name : CallStep(s)
  BY <1>1, CallStepCalls
<1>2. CASE \E s \in Name : \E o \in Orders[s] : Order(s, o)
  BY <1>2, OrderCall
<1>3. CASE Restart
  BY <1>3, IdleTyped DEF Restart, CallInv, CallOK, Idle, Spawning, Named
<1>4. CASE \/ \E s \in Name : \/ Prompt(s) \/ QuietTurn(s) \/ Manages(s)
                              \/ Rewind(s)
           \/ Reap \/ UNCHANGED vars
  <2>1. UNCHANGED call
    BY <1>4, ManagesCalls DEF Prompt, QuietTurn, Rewind, Reap, vars
  <2> QED  BY <2>1 DEF CallInv, CallOK
<1> QED  BY <1>1, <1>2, <1>3, <1>4 DEF Next, Manages

\* The steps that leave the rows and what waits to be reaped alone.
LEMMA RowsAlone ==
  ASSUME NEW s \in Name,
         \/ CheckSpawn(s) \/ SpawnRefused(s) \/ SeedTask(s) \/ SeedMisses(s)
         \/ RolledBack(s) \/ Record(s) \/ Merged(s) \/ TreeRefused(s) \/ Tell(s)
         \/ TellMisses(s) \/ Seal(s) \/ FanOutSeals(s) \/ Prompt(s) \/ QuietTurn(s)
         \/ \E o \in Orders[s] : Order(s, o)
  PROVE  UNCHANGED <<rowVars, closing, marred>>
BY DEF CheckSpawn, SpawnRefused, SeedTask, SeedMisses, RolledBack, Record, Merged,
   TreeRefused, Tell, TellMisses, Miss, Seal, FanOutSeals, Expect, Prompt, QuietTurn,
   Order, rowVars, history

LEMMA RowsStep ==
  ASSUME RowsTyped, CallInv, [Next]_vars
  PROVE  RowsTyped'
<1>1. ASSUME NEW s \in Name, Create(s) \/ CreateUnsaved(s)
      PROVE  RowsTyped'
  <2>1. call[s].name \in Name
    BY <1>1 DEF CallInv, CallOK, Named, Create, CreateUnsaved, AddRow
  <2>2. call[s].parent \in Name \cup {None}
    BY DEF CallInv, CallType
  <2>3. /\ rows' = rows \cup {call[s].name} /\ branches' = branches \cup {call[s].name}
        /\ parent' = [parent EXCEPT ![call[s].name] = call[s].parent]
        /\ live' \subseteq rows'
        /\ UNCHANGED <<archived, closing>>
    BY <1>1 DEF Create, CreateUnsaved, AddRow, Hosted
  <2> QED  BY <2>1, <2>2, <2>3 DEF RowsTyped
<1>2. ASSUME NEW s \in Name, CreateFails(s)
      PROVE  RowsTyped'
  <2>1. call[s].name \in Name
    BY <1>2 DEF CallInv, CallOK, Named, CreateFails
  <2> QED  BY <1>2, <2>1 DEF RowsTyped, CreateFails, Hosted
<1>3. ASSUME NEW s \in Name, Rollback(s)
      PROVE  RowsTyped'
  BY <1>3 DEF RowsTyped, Rollback, RemoveRow
<1>4. ASSUME NEW s \in Name, RollbackFails(s)
      PROVE  RowsTyped'
  BY <1>4 DEF RowsTyped, RollbackFails, Hosted
<1>5. ASSUME NEW s \in Name, Close(s)
      PROVE  RowsTyped'
  BY <1>5 DEF RowsTyped, Close, RemoveRow
<1>6. ASSUME NEW s \in Name, Archive(s)
      PROVE  RowsTyped'
  BY <1>6 DEF RowsTyped, Archive
<1>7. ASSUME NEW s \in Name, Rewind(s)
      PROVE  RowsTyped'
  BY <1>7 DEF RowsTyped, Rewind
<1>8. CASE Reap \/ Restart
  BY <1>8 DEF RowsTyped, Reap, Restart, Hosted
<1>9. ASSUME UNCHANGED <<rowVars, closing>>
      PROVE  RowsTyped'
  BY <1>9 DEF RowsTyped, rowVars
<1>10. ASSUME NEW s \in Name, Unarchive(s) \/ Resume(s)
       PROVE  RowsTyped'
  BY <1>10 DEF RowsTyped, Unarchive, Resume, Hosted
<1>11. ASSUME NEW s \in Name, NEW y \in Name, Rename(s, y)
       PROVE  RowsTyped'
  BY <1>11 DEF RowsTyped, Rename, Moved
<1> QED  BY <1>1, <1>2, <1>3, <1>4, <1>5, <1>6, <1>7, <1>8, <1>9, <1>10, <1>11, RowsAlone
         DEF Next, CallStep, vars

LEMMA QueueStep ==
  ASSUME QueueTyped, RowsTyped, CallInv, [Next]_vars
  PROVE  QueueTyped'
<1> USE CoordinatorAssumption
<1>1. ASSUME NEW n \in Name, HasRoom(n), Deliver(n)
      PROVE  QueueTyped'
  BY <1>1 DEF HasRoom, Deliver, QueueTyped
<1>2. ASSUME NEW n \in Name, queue' = [queue EXCEPT ![n] = 0]
      PROVE  QueueTyped'
  BY <1>2 DEF QueueTyped
<1>3. ASSUME NEW s \in Name, TakeTurn(s)
      PROVE  QueueTyped'
  BY <1>3 DEF TakeTurn, QueueTyped
<1>4. ASSUME NEW s \in Name, CallStep(s)
      PROVE  QueueTyped'
  <2>1. CASE SeedTask(s)
    <3>1. call[s].name \in Name /\ HasRoom(call[s].name) /\ Deliver(call[s].name)
      BY <2>1 DEF SeedTask, CallInv, CallOK, Named
    <3> QED  BY <3>1, <1>1
  <2>2. CASE Tell(s)
    <3>1. call[s].parent \in Name /\ HasRoom(call[s].parent) /\ Deliver(call[s].parent)
      BY <2>2 DEF Tell, CallInv, CallOK
    <3> QED  BY <3>1, <1>1
  <2>3. CASE Create(s) \/ CreateUnsaved(s)
    <3>1. call[s].name \in Name /\ queue' = [queue EXCEPT ![call[s].name] = 0]
      BY <2>3 DEF Create, CreateUnsaved, AddRow, CallInv, CallOK, Named
    <3> QED  BY <3>1, <1>2
  <2>4. CASE \/ CheckSpawn(s) \/ SpawnRefused(s) \/ CreateFails(s) \/ SeedMisses(s)
             \/ Rollback(s) \/ RollbackFails(s) \/ RolledBack(s) \/ Record(s)
             \/ Merged(s) \/ TreeRefused(s) \/ TellMisses(s) \/ Seal(s) \/ FanOutSeals(s)
    <3>1. UNCHANGED queue
      BY <2>4 DEF CheckSpawn, SpawnRefused, CreateFails, SeedMisses, TellMisses, Miss,
         Rollback, RollbackFails, RolledBack, Record, Merged, TreeRefused, Seal,
         FanOutSeals, Expect
    <3> QED  BY <3>1 DEF QueueTyped
  <2> QED  BY <1>4, <2>1, <2>2, <2>3, <2>4 DEF CallStep
<1>5. ASSUME NEW s \in Name, Prompt(s)
      PROVE  QueueTyped'
  BY <1>1, <1>5 DEF Prompt
<1>6. ASSUME NEW s \in Name, QuietTurn(s) \/ \E o \in Orders[s] : Order(s, o)
      PROVE  QueueTyped'
  BY <1>3, <1>6 DEF QuietTurn, Order
<1>7. ASSUME NEW s \in Name, Manages(s) \/ Rewind(s)
      PROVE  QueueTyped'
  BY <1>2, <1>7, ManagesCalls DEF Rewind, GoneDead, QueueTyped
<1>8. CASE Reap
  BY <1>2, <1>8 DEF Reap, GoneDead, RowsTyped, QueueTyped
<1>9. CASE Restart \/ UNCHANGED vars
  BY <1>9 DEF Restart, vars, QueueTyped
<1> QED  BY <1>4, <1>5, <1>6, <1>7, <1>8, <1>9 DEF Next, Manages

LEMMA HistoryStep ==
  ASSUME HistoryTyped, RowsTyped, CallInv, [Next]_vars
  PROVE  HistoryTyped'
<1> USE CoordinatorAssumption
<1>1. ASSUME Faulty
      PROVE  faults' \in 0..MaxFaults
  BY <1>1 DEF Faulty, HistoryTyped
<1>2. ASSUME NEW s \in Name, CallStep(s)
      PROVE  HistoryTyped'
  <2>1. CASE Create(s) \/ CreateUnsaved(s)
    <3>1. call[s].name \in Name
      BY <2>1 DEF Create, CreateUnsaved, AddRow, CallInv, CallOK, Named
    <3> QED  BY <1>1, <2>1, <3>1 DEF Create, CreateUnsaved, AddRow, HistoryTyped
  <2>2. CASE RollbackFails(s)
    <3>1. call[s].name \in Name
      BY <2>2 DEF RollbackFails, CallInv, CallOK, Named
    <3> QED  BY <1>1, <2>2, <3>1 DEF RollbackFails, HistoryTyped
  <2>3. CASE SeedTask(s)
    <3>1. call[s].name \in Name
      BY <2>3 DEF SeedTask, CallInv, CallOK, Named
    <3> QED  BY <2>3, <3>1 DEF SeedTask, history, HistoryTyped
  <2>4. CASE \/ CheckSpawn(s) \/ SpawnRefused(s) \/ CreateFails(s) \/ SeedMisses(s)
             \/ Rollback(s) \/ RolledBack(s) \/ Record(s) \/ Merged(s) \/ TreeRefused(s)
             \/ Tell(s) \/ TellMisses(s) \/ Seal(s) \/ FanOutSeals(s)
    <3>1. UNCHANGED <<history, seeded>>
      BY <2>4 DEF CheckSpawn, SpawnRefused, CreateFails, SeedMisses, TellMisses, Miss,
         Rollback, RolledBack, Record, Merged, TreeRefused, Tell, Seal, FanOutSeals, Expect
    <3> QED  BY <3>1 DEF HistoryTyped, history
  <2> QED  BY <1>2, <2>1, <2>2, <2>3, <2>4 DEF CallStep
<1>3. ASSUME NEW s \in Name, NEW o \in Orders[s], Order(s, o)
      PROVE  HistoryTyped'
  BY <1>3 DEF Order, HistoryTyped
<1>4. ASSUME NEW s \in Name, Manages(s) \/ Rewind(s)
      PROVE  HistoryTyped'
  <2>1. CASE Close(s) \/ Archive(s) \/ Rewind(s)
    BY <1>1, <2>1 DEF Close, Archive, Rewind, HistoryTyped
  <2>2. CASE Unarchive(s) \/ Resume(s)
    BY <2>2 DEF Unarchive, Resume, history, HistoryTyped
  <2>3. ASSUME NEW y \in Name, Rename(s, y)
        PROVE  HistoryTyped'
    <3>1. seeded' \subseteq Name /\ marred' \subseteq Name
      BY <2>3, MovedTyped DEF Rename, HistoryTyped
    <3> QED  BY <1>1, <2>3, <3>1 DEF Rename, HistoryTyped
  <2> QED  BY <1>4, <2>1, <2>2, <2>3 DEF Manages
<1>5. CASE Restart
  <2>1. \A t \in Name : call[t].at \in {"seed", "rollback"} => call[t].name \in Name
    BY DEF CallInv, CallOK, Named
  <2> QED  BY <1>1, <1>5, <2>1 DEF Restart, HistoryTyped
<1>6. CASE \/ \E s \in Name : Prompt(s) \/ QuietTurn(s)
           \/ Reap \/ UNCHANGED vars
  BY <1>6 DEF Prompt, QuietTurn, Reap, vars, history, HistoryTyped
<1> QED  BY <1>2, <1>3, <1>4, <1>5, <1>6 DEF Next, Manages

LEMMA DropTyped ==
  ASSUME NEW f, NEW k, NEW T, f \in [DOMAIN f -> T]
  PROVE  /\ Drop(f, k) \in [DOMAIN f \ {k} -> T]
         /\ DOMAIN Drop(f, k) = DOMAIN f \ {k}
         /\ \A x \in DOMAIN f \ {k} : Drop(f, k)[x] = f[x]
BY DEF Drop

\* What forgetting a session leaves of the reports: all but its own, and those
\* it was to be told.
LEMMA ForgottenLeaves ==
  ASSUME JoinTyped, NEW x
  PROVE  /\ Forgotten(x) \in [DOMAIN Forgotten(x) -> (SUBSET Name) \ {{}}]
         /\ DOMAIN Forgotten(x) \subseteq DOMAIN reported \ {x}
         /\ \A l \in DOMAIN reported \ {x} : \A w \in reported[l] \ {x} :
               l \in DOMAIN Forgotten(x) /\ w \in Forgotten(x)[l]
<1> DEFINE kept == [l \in DOMAIN reported \ {x} |-> reported[l] \ {x}]
           left == {k \in DOMAIN kept : kept[k] # {}}
<1>1. Forgotten(x) = [l \in left |-> kept[l]]
  BY DEF Forgotten
<1>2. \A l \in left : kept[l] = reported[l] \ {x} /\ kept[l] \in (SUBSET Name) \ {{}}
  BY DEF JoinTyped
<1>3. DOMAIN Forgotten(x) = left /\ \A l \in left : Forgotten(x)[l] = kept[l]
  BY <1>1
<1>4. left \subseteq DOMAIN reported \ {x}
  OBVIOUS
<1>5. \A l \in DOMAIN reported \ {x} : \A w \in reported[l] \ {x} : l \in left /\ w \in kept[l]
  OBVIOUS
<1> QED  BY <1>1, <1>2, <1>3, <1>4, <1>5

\* What the join counters were set to.
LEMMA ExpectTyped ==
  ASSUME JoinTyped, RowsTyped, NEW s \in Name, NEW n \in Nat \ {0}, Expect(s, n)
  PROVE  /\ JoinTyped'
         /\ DOMAIN expected' = DOMAIN expected \cup {s}
         /\ expected'[s] = n /\ cohort'[s] = (Children(s) \cap seeded) \ marred
         /\ \A l \in DOMAIN expected \ {s} :
               expected'[l] = expected[l] /\ cohort'[l] = cohort[l]
<1> DEFINE C == (Children(s) \cap seeded) \ marred
<1>1. C \in SUBSET Name
  BY DEF Children, RowsTyped
<1>2. expected' = Put(expected, s, n) /\ cohort' = Put(cohort, s, C) /\ UNCHANGED reported
  BY DEF Expect
<1>3. /\ expected \in [DOMAIN expected -> Nat \ {0}]
      /\ cohort \in [DOMAIN cohort -> SUBSET Name] /\ DOMAIN cohort = DOMAIN expected
  BY DEF JoinTyped
<1> HIDE DEF C
<1>4. /\ Put(expected, s, n) \in [DOMAIN expected \cup {s} -> Nat \ {0}]
      /\ DOMAIN Put(expected, s, n) = DOMAIN expected \cup {s}
      /\ Put(expected, s, n)[s] = n
      /\ \A l \in DOMAIN expected \ {s} : Put(expected, s, n)[l] = expected[l]
  BY <1>3 DEF Put
<1>5. /\ Put(cohort, s, C) \in [DOMAIN cohort \cup {s} -> SUBSET Name]
      /\ Put(cohort, s, C)[s] = C
      /\ \A l \in DOMAIN cohort \ {s} : Put(cohort, s, C)[l] = cohort[l]
  BY <1>1, <1>3 DEF Put
<1>6. JoinTyped'
  BY <1>2, <1>3, <1>4, <1>5 DEF JoinTyped
<1> QED  BY <1>2, <1>3, <1>4, <1>5, <1>6 DEF C

LEMMA ForgetTyped ==
  ASSUME JoinTyped, NEW x, GoneDead(x)
  PROVE  /\ JoinTyped'
         /\ DOMAIN expected' = DOMAIN expected \ {x}
         /\ \A l \in DOMAIN expected' :
               expected'[l] = expected[l] /\ cohort'[l] = cohort[l]
<1>1. DOMAIN cohort = DOMAIN expected
  BY DEF JoinTyped
<1>2. /\ expected' \in [DOMAIN expected \ {x} -> Nat \ {0}]
      /\ DOMAIN expected' = DOMAIN expected \ {x}
      /\ \A l \in DOMAIN expected \ {x} : expected'[l] = expected[l]
  BY DropTyped DEF GoneDead, JoinTyped
<1>3. /\ cohort' \in [DOMAIN expected \ {x} -> SUBSET Name]
      /\ \A l \in DOMAIN expected \ {x} : cohort'[l] = cohort[l]
  BY <1>1, DropTyped DEF GoneDead, JoinTyped
<1> QED  BY <1>2, <1>3, ForgottenLeaves DEF GoneDead, JoinTyped

\* The steps that leave the join counters alone.
LEMMA JoinAlone ==
  ASSUME NEW s \in Name,
         \/ CheckSpawn(s) \/ SpawnRefused(s) \/ Create(s) \/ CreateUnsaved(s)
         \/ CreateFails(s) \/ SeedTask(s) \/ SeedMisses(s) \/ Rollback(s)
         \/ RollbackFails(s) \/ RolledBack(s) \/ Merged(s) \/ TreeRefused(s) \/ Tell(s)
         \/ TellMisses(s) \/ Prompt(s) \/ QuietTurn(s) \/ Close(s) \/ Archive(s)
         \/ Unarchive(s) \/ Resume(s) \/ \E o \in Orders[s] : Order(s, o)
  PROVE  UNCHANGED coordVars
BY DEF CheckSpawn, SpawnRefused, Create, CreateUnsaved, AddRow, CreateFails, SeedTask,
   SeedMisses, TellMisses, Miss, Rollback, RollbackFails, RolledBack, Merged, TreeRefused,
   Tell, Prompt, QuietTurn, Close, Archive, Unarchive, Resume, Order, coordVars

\* Seal and the end of a fan-out set a number that is not zero.
LEMMA SealExpects ==
  ASSUME CallInv, NEW s \in Name, Seal(s) \/ FanOutSeals(s)
  PROVE  /\ call[s].seen + call[s].made \in Nat \ {0}
         /\ Expect(s, call[s].seen + call[s].made)
         /\ call[s].op \in {"fanout", "seal"} /\ call[s].name = None
<1>1. CASE Seal(s)
  <2>1. call[s].op = "seal" /\ call[s].at = "mark" /\ Expect(s, call[s].seen)
    BY <1>1 DEF Seal
  <2>2. call[s].seen \in Nat /\ call[s].seen > 0 /\ call[s].made = 0
    BY <2>1 DEF CallInv, CallOK, CallType
  <2>3. call[s].seen + call[s].made = call[s].seen
    BY <2>2
  <2> QED  BY <2>1, <2>2, <2>3 DEF CallInv, CallOK, Named
<1>2. CASE FanOutSeals(s)
  <2>1. call[s].op = "fanout" /\ call[s].at = "mark"
        /\ Expect(s, call[s].seen + call[s].made)
    BY <1>2 DEF FanOutSeals
  <2>2. call[s].seen \in Nat /\ call[s].made \in Nat /\ call[s].made > 0
    BY <2>1 DEF CallInv, CallOK, CallType
  <2> QED  BY <2>1, <2>2 DEF CallInv, CallOK, Named
<1> QED  BY <1>1, <1>2

LEMMA RecordTyped ==
  ASSUME JoinTyped, CallInv, NEW s \in Name, Record(s)
  PROVE  /\ JoinTyped' /\ UNCHANGED <<expected, cohort>>
         /\ \A l \in DOMAIN reported :
               l \in DOMAIN reported' /\ reported[l] \subseteq reported'[l]
<1> DEFINE l == call[s].parent
           v == Reported(l) \cup {s}
<1>1. l \in Name
  BY DEF Record, CallInv, CallOK
<1>2. reported' = Put(reported, l, v) /\ UNCHANGED <<expected, cohort>>
  BY DEF Record
<1>3. v \in (SUBSET Name) \ {{}} /\ (l \in DOMAIN reported => reported[l] \subseteq v)
  BY DEF Reported, JoinTyped
<1> HIDE DEF v, l
<1>4. reported' = [x \in DOMAIN reported \cup {l} |-> IF x = l THEN v ELSE reported[x]]
  BY <1>2 DEF Put
<1>5. /\ DOMAIN reported' = DOMAIN reported \cup {l}
      /\ \A x \in DOMAIN reported' : reported'[x] = IF x = l THEN v ELSE reported[x]
  BY <1>4
<1>6. reported' \in [DOMAIN reported' -> (SUBSET Name) \ {{}}]
  BY <1>3, <1>4 DEF JoinTyped
<1>7. DOMAIN reported' \subseteq Name
  BY <1>1, <1>5 DEF JoinTyped
<1> QED  BY <1>2, <1>3, <1>5, <1>6, <1>7 DEF JoinTyped

LEMMA RenameTyped ==
  ASSUME JoinTyped, NEW x \in Name, NEW y \in Name, Rename(x, y)
  PROVE  /\ JoinTyped' /\ UNCHANGED <<reported, expected>>
         /\ \A l \in DOMAIN expected : cohort'[l] = Moved(cohort[l], x, y)
<1>1. /\ cohort' = [l \in DOMAIN cohort |-> Moved(cohort[l], x, y)]
      /\ UNCHANGED <<reported, expected>>
  BY DEF Rename
<1>2. DOMAIN cohort = DOMAIN expected /\ \A l \in DOMAIN cohort : cohort[l] \subseteq Name
  BY DEF JoinTyped
<1>3. \A l \in DOMAIN cohort : Moved(cohort[l], x, y) \in SUBSET Name
  BY <1>2, MovedTyped
<1>4. cohort' \in [DOMAIN expected -> SUBSET Name]
  BY <1>1, <1>2, <1>3
<1> QED  BY <1>1, <1>2, <1>4 DEF JoinTyped

LEMMA JoinStep ==
  ASSUME JoinTyped, RowsTyped, CallInv, [Next]_vars
  PROVE  JoinTyped'
<1>1. ASSUME UNCHANGED coordVars
      PROVE  JoinTyped'
  BY <1>1 DEF JoinTyped, coordVars
<1>2. ASSUME NEW s \in Name, Record(s)
      PROVE  JoinTyped'
  BY <1>2, RecordTyped
<1>3. ASSUME NEW s \in Name, Seal(s) \/ FanOutSeals(s)
      PROVE  JoinTyped'
  BY <1>3, SealExpects, ExpectTyped
<1>4. CASE Reap
  BY <1>1, <1>4, ForgetTyped DEF Reap
<1>5. ASSUME NEW s \in Name, Rewind(s)
      PROVE  JoinTyped'
  BY <1>5, ForgetTyped DEF Rewind
<1>6. CASE Restart
  BY <1>6 DEF Restart, JoinTyped
<1>7. ASSUME NEW s \in Name, NEW y \in Name, Rename(s, y)
      PROVE  JoinTyped'
  BY <1>7, RenameTyped
<1> QED  BY <1>1, <1>2, <1>3, <1>4, <1>5, <1>6, <1>7, JoinAlone DEF Next, CallStep, vars

LEMMA TypedStep ==
  ASSUME Typed, [Next]_vars
  PROVE  Typed'
BY CallsStep, RowsStep, QueueStep, HistoryStep, JoinStep DEF Typed

-----------------------------------------------------------------------------
(* The invariants, step by step. *)

\* A session that a spawn did not make is no new worker of another.
LEMMA ChildrenMade ==
  ASSUME Typed, NEW s \in Name, Create(s) \/ CreateUnsaved(s), NEW l \in Name
  PROVE  /\ l # s => Children(l)' = Children(l)
         /\ Children(l)' \subseteq Children(l) \cup {call[s].name}
         /\ call[s].name \notin Children(l)
<1>1. /\ call[s].at = "create" /\ call[s].name \notin rows
      /\ rows' = rows \cup {call[s].name}
      /\ parent' = [parent EXCEPT ![call[s].name] = call[s].parent]
  BY DEF Create, CreateUnsaved, AddRow
<1>2. call[s].name \in Name /\ call[s].parent \in {None, s}
  BY <1>1 DEF Typed, CallInv, CallOK, Spawning, Named
<1>3. None # l
  BY CoordinatorAssumption
<1> QED  BY <1>1, <1>2, <1>3 DEF Children, Typed, RowsTyped

LEMMA ChildrenLess ==
  ASSUME Typed, NEW x \in Name, NEW l \in Name, RemoveRow(x)
  PROVE  Children(l)' = Children(l) \ {x}
<1>1. rows' = rows \ {x} /\ parent' = [parent EXCEPT ![x] = None]
  BY DEF RemoveRow
<1> QED  BY <1>1 DEF Children, Typed, RowsTyped

LEMMA ChildrenMoved ==
  ASSUME Typed, NEW x \in Name, NEW y \in Name, NEW l \in Name, Rename(x, y)
  PROVE  Children(l)' = Moved(Children(l), x, y)
<1>1. /\ rows' = (rows \ {x}) \cup {y} /\ x \in rows /\ y \notin rows
      /\ parent' = [parent EXCEPT ![y] = parent[x], ![x] = None]
  BY DEF Rename, Moved
<1>2. /\ parent'[y] = parent[x]
      /\ \A w \in Name \ {x, y} : parent'[w] = parent[w]
  BY <1>1 DEF Typed, RowsTyped
<1> QED  BY <1>1, <1>2 DEF Children, Moved, Typed, RowsTyped

\* Otherwise the workers are the same.
LEMMA ChildrenSame ==
  ASSUME UNCHANGED <<rows, parent>>
  PROVE  \A l : Children(l)' = Children(l)
BY DEF Children

\* Whatever the step, only a spawn of its own gives a lead a worker more, and
\* only a worker made anew is no longer one that was left behind.
LEMMA HandLess ==
  ASSUME Typed, [Next]_vars, NEW t \in Name, call'[t] = call[t],
         \A s \in Name : Create(s) \/ CreateUnsaved(s) => s # t
  PROVE  /\ Cardinality(AtHand(t)') \in Nat
         /\ Cardinality(AtHand(t)') <= Cardinality(AtHand(t))
<1>0. Making(t)' = Making(t)
  BY DEF Making
<1>1. IsFiniteSet(AtHand(t)) /\ Cardinality(AtHand(t)) \in Nat
  BY ChildrenFinite DEF AtHand, Typed
<1>2. ASSUME AtHand(t)' \subseteq AtHand(t)
      PROVE  /\ Cardinality(AtHand(t)') \in Nat
             /\ Cardinality(AtHand(t)') <= Cardinality(AtHand(t))
  BY <1>1, <1>2, FS_Subset, FS_CardinalityType
<1>3. ASSUME NEW s \in Name, Create(s) \/ CreateUnsaved(s)
      PROVE  AtHand(t)' \subseteq AtHand(t)
  <2>1. Children(t)' = Children(t) /\ call[s].name \notin Children(t)
    BY <1>3, ChildrenMade
  <2>2. marred \ {call[s].name} \subseteq marred'
    BY <1>3 DEF Create, CreateUnsaved
  <2> QED  BY <1>0, <2>1, <2>2 DEF AtHand
<1>4. ASSUME NEW s \in Name, Rollback(s) \/ Close(s)
      PROVE  AtHand(t)' \subseteq AtHand(t)
  <2>1. PICK x \in Name : RemoveRow(x)
    BY <1>4 DEF Rollback, Close, Typed, CallInv, CallOK, Named
  <2>2. Children(t)' = Children(t) \ {x} /\ UNCHANGED marred
    BY <1>4, <2>1, ChildrenLess DEF Rollback, Close, history
  <2> QED  BY <1>0, <2>2 DEF AtHand
<1>5. ASSUME NEW x \in Name, NEW y \in Name, Rename(x, y)
      PROVE  /\ Cardinality(AtHand(t)') \in Nat
             /\ Cardinality(AtHand(t)') <= Cardinality(AtHand(t))
  <2>1. /\ Children(t)' = Moved(Children(t), x, y)
        /\ marred' = Moved(marred, x, y) \cup {n \in {y} : InHand(x)}
    BY <1>5, ChildrenMoved DEF Rename
  <2>2. x \in Making(t) => InHand(x)
    BY DEF Making, InHand
  <2>3. AtHand(t)' \subseteq Moved(AtHand(t), x, y)
    BY <1>0, <2>1, <2>2 DEF AtHand, Moved
  <2>4. /\ IsFiniteSet(Moved(AtHand(t), x, y)) /\ Cardinality(Moved(AtHand(t), x, y)) \in Nat
        /\ Cardinality(Moved(AtHand(t), x, y)) <= Cardinality(AtHand(t))
    BY <1>1, MovedSize
  <2>5. /\ Cardinality(AtHand(t)') \in Nat
        /\ Cardinality(AtHand(t)') <= Cardinality(Moved(AtHand(t), x, y))
    BY <2>3, <2>4, FS_Subset, FS_CardinalityType
  <2> QED  BY <1>1, <2>4, <2>5
<1>6. ASSUME UNCHANGED <<rows, parent>>, marred \subseteq marred'
      PROVE  AtHand(t)' \subseteq AtHand(t)
  BY <1>0, <1>6, ChildrenSame DEF AtHand
<1>7. ASSUME NEW s \in Name, \/ CreateFails(s) \/ RollbackFails(s) \/ Archive(s)
                             \/ Unarchive(s) \/ Resume(s) \/ Rewind(s)
      PROVE  UNCHANGED <<rows, parent>> /\ marred \subseteq marred'
  BY <1>7 DEF CreateFails, RollbackFails, Archive, Unarchive, Resume, Rewind, history
<1>8. ASSUME Reap \/ Restart \/ UNCHANGED vars
      PROVE  UNCHANGED <<rows, parent>> /\ marred \subseteq marred'
  BY <1>8 DEF Reap, Restart, vars, rowVars, history
<1>9. ASSUME NEW s \in Name, UNCHANGED <<rowVars, closing, marred>>
      PROVE  UNCHANGED <<rows, parent>> /\ marred \subseteq marred'
  BY <1>9 DEF rowVars
<1> QED  BY <1>2, <1>3, <1>4, <1>5, <1>6, <1>7, <1>8, <1>9, RowsAlone DEF Next, CallStep

\* A call that is over, or at the seal of its fan-out, after a spawn that left
\* no worker behind but a marred one.
LEMMA SpawnOverHand ==
  ASSUME Typed, NEW s \in Name, SpawnOver(s), call[s].at \in Spawning,
         Children(s)' \ marred' \subseteq AtHand(s)
  PROVE  \/ call'[s] = Idle
         \/ /\ call'[s].at = "mark" /\ AtHand(s)' \subseteq AtHand(s)
            /\ call'[s].op = call[s].op /\ call'[s].seen = call[s].seen
            /\ call'[s].made = call[s].made
BY SpawnOverCall DEF Typed, AtHand

\* What a call does to the count of the workers at hand.
LEMMA OwnHand ==
  ASSUME Typed, NEW s \in Name, CallStep(s), [Next]_vars
  PROVE  \/ call'[s] = Idle
         \/ call'[s].op \in {"report", "merge"}
         \/ /\ AtHand(s)' \subseteq AtHand(s)
            /\ call'[s].op = call[s].op /\ call'[s].seen = call[s].seen
            /\ call'[s].made = call[s].made
         \/ /\ SeedTask(s) /\ AtHand(s)' \subseteq AtHand(s) \cup {call[s].name}
            /\ call'[s].op = call[s].op /\ call'[s].seen = call[s].seen
            /\ call'[s].made = call[s].made + 1
<1> USE DEF Typed
<1>1. CASE CheckSpawn(s)
  <2>1. UNCHANGED <<rows, parent, marred>> /\ Making(s) = {}
    BY <1>1 DEF CheckSpawn, Making, rowVars, history
  <2> QED  BY <1>1, <2>1, ChildrenSame, CheckCall DEF AtHand, Moves
<1>2. CASE SpawnRefused(s) \/ CreateFails(s) \/ RolledBack(s)
  <2>1. UNCHANGED <<rows, parent, marred>> /\ Making(s) = {}
    BY <1>2 DEF SpawnRefused, CreateFails, RolledBack, Making, rowVars, history
  <2>2. SpawnOver(s) /\ call[s].at \in Spawning
    BY <1>2 DEF SpawnRefused, CreateFails, RolledBack, Spawning
  <2>3. Children(s)' \ marred' \subseteq AtHand(s)
    BY <2>1, ChildrenSame DEF AtHand
  <2> QED  BY <2>2, <2>3, SpawnOverHand
<1>3. CASE Create(s)
  <2>1. /\ Children(s)' \subseteq Children(s) \cup {call[s].name}
        /\ marred' = marred \ {call[s].name} /\ call[s].name \notin Children(s)
        /\ Making(s) = {}
    BY <1>3, ChildrenMade DEF Create, AddRow, Making
  <2>2. Making(s)' = {call[s].name}
    BY <1>3, CreateCall DEF Making, Moves
  <2> QED  BY <1>3, <2>1, <2>2, CreateCall DEF AtHand, Moves
<1>4. CASE CreateUnsaved(s)
  <2>1. /\ Children(s)' \subseteq Children(s) \cup {call[s].name}
        /\ marred' = marred \cup {call[s].name} /\ Making(s) = {}
    BY <1>4, ChildrenMade DEF CreateUnsaved, AddRow, Making
  <2>2. SpawnOver(s) /\ call[s].at \in Spawning
    BY <1>4 DEF CreateUnsaved, AddRow, Spawning
  <2>3. Children(s)' \ marred' \subseteq AtHand(s)
    BY <2>1 DEF AtHand
  <2> QED  BY <2>2, <2>3, SpawnOverHand
<1>5. CASE RollbackFails(s)
  <2>1. UNCHANGED <<rows, parent>> /\ marred \subseteq marred'
        /\ (call[s].name \in marred' \/ call[s].name \notin rows)
    BY <1>5 DEF RollbackFails
  <2>2. SpawnOver(s) /\ call[s].at \in Spawning
    BY <1>5 DEF RollbackFails, Spawning
  <2>3. Children(s)' \ marred' \subseteq AtHand(s)
    BY <2>1, ChildrenSame DEF Children, AtHand, Making
  <2> QED  BY <2>2, <2>3, SpawnOverHand
<1>6. CASE SeedTask(s)
  <2>1. UNCHANGED <<rows, parent, marred>>
    BY <1>6 DEF SeedTask, rowVars, history
  <2>2. AtHand(s)' \subseteq AtHand(s) \cup {call[s].name}
    BY <2>1, ChildrenSame DEF AtHand, Making
  <2> QED  BY <1>6, <2>2, SeedCall
<1>7. CASE SeedMisses(s) \/ TellMisses(s)
  <2>1. UNCHANGED <<rows, parent, marred>>
    BY <1>7 DEF SeedMisses, TellMisses, Miss, rowVars, history
  <2>2. \/ call'[s] = Idle
        \/ /\ call'[s].name = call[s].name /\ call'[s].op = call[s].op
           /\ call'[s].seen = call[s].seen /\ call'[s].made = call[s].made
           /\ call[s].at \in {"seed", "rollback"} => call'[s].at \in {"seed", "rollback"}
    BY <1>7, MissCall DEF SeedMisses, TellMisses
  <2>3. call'[s] = Idle \/ Making(s) \subseteq Making(s)'
    BY <2>2 DEF Making
  <2> QED  BY <2>1, <2>2, <2>3, ChildrenSame DEF AtHand
<1>8. CASE Rollback(s)
  <2>1. Moves(s, "closed", call[s].name) /\ UNCHANGED marred
        /\ Making(s) = {call[s].name}
    BY <1>8, RollbackCall DEF Rollback, Making, history
  <2>2. RemoveRow(call[s].name) /\ call[s].name \in Name
    BY <1>8 DEF Rollback, CallInv, CallOK, Named
  <2>3. Children(s)' = Children(s) \ {call[s].name}
    BY <2>2, ChildrenLess
  <2> QED  BY <2>1, <2>3 DEF AtHand, Moves
<1>9. CASE Record(s) \/ Merged(s)
  BY <1>9, TellCall DEF Moves
<1>10. CASE TreeRefused(s) \/ Tell(s) \/ Seal(s) \/ FanOutSeals(s)
  BY <1>10, EndedCall DEF TreeRefused, Tell, Seal, FanOutSeals, Expect
<1> QED  BY <1>1, <1>2, <1>3, <1>4, <1>5, <1>6, <1>7, <1>8, <1>9, <1>10 DEF CallStep

LEMMA CountedStep ==
  ASSUME Typed, Counted, [Next]_vars
  PROVE  Counted'
<1>0. Typed'
  BY TypedStep
<1> SUFFICES ASSUME NEW t \in Name, call'[t].op \in {"fanout", "seal"}
             PROVE  Cardinality(AtHand(t))' <= call'[t].seen + call'[t].made
  BY DEF Counted
<1>1. /\ IsFiniteSet(AtHand(t)) /\ Cardinality(AtHand(t)) \in Nat
      /\ IsFiniteSet(Children(t))
  BY ChildrenFinite DEF AtHand, Typed
<1>2. /\ call[t].seen \in Nat /\ call[t].made \in Nat
      /\ call'[t].seen \in Nat /\ call'[t].made \in Nat
  BY <1>0 DEF Typed, CallInv, CallType
<1>3. ASSUME AtHand(t)' \subseteq AtHand(t), call'[t].op = call[t].op,
             call'[t].seen = call[t].seen, call'[t].made = call[t].made
      PROVE  Cardinality(AtHand(t))' <= call'[t].seen + call'[t].made
  <2>1. Cardinality(AtHand(t)') \in Nat /\ Cardinality(AtHand(t)') <= Cardinality(AtHand(t))
    BY <1>1, <1>3, FS_Subset, FS_CardinalityType
  <2>2. Cardinality(AtHand(t)) <= call[t].seen + call[t].made
    BY <1>3 DEF Counted
  <2> QED  BY <1>1, <1>2, <1>3, <2>1, <2>2
<1>4. CASE CallStep(t)
  <2>1. CASE SeedTask(t) /\ AtHand(t)' \subseteq AtHand(t) \cup {call[t].name}
             /\ call'[t].op = call[t].op /\ call'[t].seen = call[t].seen
             /\ call'[t].made = call[t].made + 1
    <3> DEFINE S == AtHand(t) \cup {call[t].name}
    <3>1. IsFiniteSet(S) /\ Cardinality(S) \in Nat /\ Cardinality(S) <= Cardinality(AtHand(t)) + 1
      <4>1. IsFiniteSet(S) /\ (Cardinality(S) = Cardinality(AtHand(t))
                               \/ Cardinality(S) = Cardinality(AtHand(t)) + 1)
        BY <1>1, FS_AddElement
      <4> HIDE DEF S
      <4> QED  BY <1>1, <4>1
    <3>2. Cardinality(AtHand(t)') \in Nat /\ Cardinality(AtHand(t)') <= Cardinality(S)
      BY <2>1, <3>1, FS_Subset, FS_CardinalityType
    <3>3. Cardinality(AtHand(t)) <= call[t].seen + call[t].made
      BY <2>1 DEF Counted
    <3> QED  BY <1>1, <1>2, <2>1, <3>1, <3>2, <3>3
  <2>2. call'[t] # Idle
    BY DEF Idle
  <2> QED  BY <1>3, <1>4, <2>1, <2>2, OwnHand
<1>5. CASE \E o \in Orders[t] : Order(t, o)
  <2>1. UNCHANGED <<rows, parent, marred>>
    BY <1>5 DEF Order, rowVars
  <2>2. Cardinality(Children(t)) <= call'[t].seen /\ call'[t].made = 0
    BY <1>5, OrderCall DEF Typed
  <2>3. AtHand(t)' \subseteq Children(t)
    BY <2>1, ChildrenSame DEF AtHand
  <2>4. Cardinality(AtHand(t)') \in Nat /\ Cardinality(AtHand(t)') <= Cardinality(Children(t))
    BY <1>1, <2>3, FS_Subset, FS_CardinalityType
  <2>5. Cardinality(Children(t)) \in Nat
    BY <1>1, FS_CardinalityType
  <2> QED  BY <1>2, <2>2, <2>4, <2>5
<1>6. CASE ~CallStep(t) /\ ~\E o \in Orders[t] : Order(t, o)
  <2>1. ASSUME NEW s \in Name, CallStep(s)
        PROVE  call'[t] = call[t]
    BY <1>6, <2>1, CallStepCalls DEF Typed, Others
  <2>2. ASSUME NEW s \in Name, NEW o \in Orders[s], Order(s, o)
        PROVE  call'[t] = call[t]
    BY <1>6, <2>2, OrderCall DEF Typed
  <2>3. ASSUME NEW s \in Name, Prompt(s) \/ QuietTurn(s) \/ Manages(s) \/ Rewind(s)
        PROVE  call'[t] = call[t]
    BY <2>3, ManagesCalls DEF Prompt, QuietTurn, Rewind
  <2>4. ASSUME Reap \/ UNCHANGED vars
        PROVE  call'[t] = call[t]
    BY <2>4 DEF Reap, vars
  <2>5. ~Restart
    BY DEF Restart, Idle
  <2>6. call'[t] = call[t]
    BY <2>1, <2>2, <2>3, <2>4, <2>5 DEF Next, Manages
  <2>7. Cardinality(AtHand(t)') \in Nat /\ Cardinality(AtHand(t)') <= Cardinality(AtHand(t))
    BY <1>6, <2>6, HandLess DEF CallStep
  <2>8. Cardinality(AtHand(t)) <= call[t].seen + call[t].made
    BY <2>6 DEF Counted
  <2> QED  BY <1>1, <1>2, <2>6, <2>7, <2>8
<1> QED  BY <1>4, <1>5, <1>6

\* When a number is set, it covers the workers at hand.
LEMMA CohortStep ==
  ASSUME Typed, Counted, CohortFits, [Next]_vars
  PROVE  CohortFits'
<1>1. ASSUME UNCHANGED <<expected, cohort>>
      PROVE  CohortFits'
  BY <1>1 DEF CohortFits
<1>2. ASSUME NEW s \in Name, Seal(s) \/ FanOutSeals(s)
      PROVE  CohortFits'
  <2> DEFINE n == call[s].seen + call[s].made
             C == (Children(s) \cap seeded) \ marred
  <2>1. /\ n \in Nat \ {0} /\ Expect(s, n) /\ Cardinality(AtHand(s)) <= n
    BY <1>2, SealExpects DEF Typed, Counted
  <2>2. C \subseteq AtHand(s)
    BY <1>2 DEF AtHand, Making, Seal, FanOutSeals
  <2>3. IsFiniteSet(AtHand(s))
    BY ChildrenFinite DEF AtHand, Typed
  <2>4. /\ Cardinality(C) \in Nat /\ Cardinality(AtHand(s)) \in Nat
        /\ Cardinality(C) <= Cardinality(AtHand(s))
    BY <2>2, <2>3, FS_Subset, FS_CardinalityType
  <2>5. Cardinality(C) <= n
    BY <2>1, <2>4
  <2>6. /\ DOMAIN expected' = DOMAIN expected \cup {s}
        /\ expected'[s] = n /\ cohort'[s] = C
        /\ \A l \in DOMAIN expected \ {s} :
              expected'[l] = expected[l] /\ cohort'[l] = cohort[l]
    BY <2>1, ExpectTyped DEF Typed
  <2> HIDE DEF n, C
  <2> QED  BY <2>5, <2>6 DEF CohortFits
<1>3. ASSUME NEW x, GoneDead(x)
      PROVE  CohortFits'
  BY <1>3, ForgetTyped DEF CohortFits, Typed
<1>4. CASE Reap
  BY <1>1, <1>3, <1>4 DEF Reap, coordVars
<1>5. ASSUME NEW s \in Name, Rewind(s)
      PROVE  CohortFits'
  BY <1>3, <1>5 DEF Rewind
<1>6. CASE Restart
  BY <1>6 DEF Restart, CohortFits
<1>7. ASSUME NEW s \in Name, Record(s)
      PROVE  CohortFits'
  BY <1>1, <1>7 DEF Record
<1>8. ASSUME NEW s \in Name, NEW y \in Name, Rename(s, y)
      PROVE  CohortFits'
  <2> SUFFICES ASSUME NEW l \in DOMAIN expected
               PROVE  Cardinality(Moved(cohort[l], s, y)) <= expected[l]
    BY <1>8, RenameTyped DEF CohortFits, Typed
  <2>1. IsFiniteSet(cohort[l]) /\ expected[l] \in Nat
    BY FS_Subset, CoordinatorAssumption DEF Typed, JoinTyped
  <2> QED  BY <2>1, MovedSize DEF CohortFits
<1> QED  BY <1>1, <1>2, <1>4, <1>5, <1>6, <1>7, <1>8, JoinAlone
         DEF Next, CallStep, vars, coordVars

\* A spawned session gets its task, or a spawn is still at it, or it is marred.
LEMMA NoIdleStep ==
  ASSUME Typed, NoIdleWorker, [Next]_vars
  PROVE  NoIdleWorker'
<1> SUFFICES ASSUME NEW w \in rows', w \notin seeded', w \notin marred'
             PROVE  \E s \in Name : call'[s].name = w /\ call'[s].at \in {"seed", "rollback"}
  BY DEF NoIdleWorker, InHand
<1>1. ASSUME NEW s \in Name, Create(s), w = call[s].name
      PROVE  call'[s].name = w /\ call'[s].at = "seed"
  BY <1>1, CreateCall DEF Typed, Moves
<1>2. ASSUME NEW s \in Name, CreateUnsaved(s)
      PROVE  w # call[s].name
  BY <1>2 DEF CreateUnsaved
<1>3. ASSUME ~\E s \in Name : Create(s) /\ w = call[s].name,
             ~\E s \in Name : \E y \in Name : Rename(s, y)
      PROVE  \E s \in Name : call'[s].name = w /\ call'[s].at \in {"seed", "rollback"}
  <2>1. w \in rows /\ w \notin seeded /\ w \notin marred
    <3>1. ASSUME NEW s \in Name, Create(s) \/ CreateUnsaved(s)
          PROVE  w \in rows /\ w \notin seeded /\ w \notin marred
      BY <1>2, <1>3, <3>1 DEF Create, CreateUnsaved, AddRow
    <3>2. ASSUME NEW s \in Name, CallStep(s), ~Create(s), ~CreateUnsaved(s)
          PROVE  w \in rows /\ w \notin seeded /\ w \notin marred
      BY <3>2 DEF CallStep, CheckSpawn, SpawnRefused, CreateFails, SeedTask, SeedMisses,
         TellMisses, Miss, Rollback, RemoveRow, RollbackFails, RolledBack, Record, Merged,
         TreeRefused, Tell, Seal, FanOutSeals, Expect, rowVars, history
    <3>3. ASSUME NEW s \in Name, Prompt(s) \/ QuietTurn(s) \/ Close(s) \/ Archive(s)
                                 \/ Unarchive(s) \/ Resume(s) \/ Rewind(s)
                                 \/ \E o \in Orders[s] : Order(s, o)
          PROVE  w \in rows /\ w \notin seeded /\ w \notin marred
      BY <3>3 DEF Prompt, QuietTurn, Close, RemoveRow, Archive, Unarchive, Resume, Rewind,
         Order, rowVars, history
    <3>4. ASSUME Reap \/ Restart \/ UNCHANGED vars
          PROVE  w \in rows /\ w \notin seeded /\ w \notin marred
      BY <3>4 DEF Reap, Restart, vars, rowVars, history
    <3> QED  BY <1>3, <3>1, <3>2, <3>3, <3>4 DEF Next
  <2>2. PICK t \in Name : call[t].name = w /\ call[t].at \in {"seed", "rollback"}
    BY <2>1 DEF NoIdleWorker, InHand
  <2>3. CASE call'[t] = call[t]
    BY <2>2, <2>3
  <2>4. CASE SeedMisses(t)
    BY <2>2, <2>4, SeedMissed DEF Typed
  <2>5. CASE call'[t] # call[t] /\ ~SeedMisses(t)
    <3>1. ~Restart
      BY <2>1, <2>2 DEF Restart
    <3>2. CallStep(t)
      <4>1. ASSUME NEW s \in Name, CallStep(s), s # t
            PROVE  FALSE
        BY <2>5, <4>1, CallStepCalls DEF Typed, Others
      <4>2. ASSUME NEW s \in Name, NEW o \in Orders[s], Order(s, o)
            PROVE  FALSE
        BY <2>2, <2>5, <4>2, OrderCall DEF Typed, Order, TakeTurn
      <4>3. ASSUME NEW s \in Name, Prompt(s) \/ QuietTurn(s) \/ Manages(s) \/ Rewind(s)
            PROVE  FALSE
        BY <2>5, <4>3, ManagesCalls DEF Prompt, QuietTurn, Rewind
      <4>4. ASSUME Reap \/ UNCHANGED vars
            PROVE  FALSE
        BY <2>5, <4>4 DEF Reap, vars
      <4> QED  BY <3>1, <4>1, <4>2, <4>3, <4>4 DEF Next, Manages
    <3>3. SeedTask(t) \/ Rollback(t) \/ RollbackFails(t)
      BY <2>2, <2>5, <3>2 DEF CallStep, CheckSpawn, SpawnRefused, Create, CreateUnsaved,
         AddRow, CreateFails, RolledBack, Record, Merged, TreeRefused, Tell, TellMisses,
         Seal, FanOutSeals
    <3>4. w \in seeded' \/ w \in marred' \/ w \notin rows'
      BY <2>2, <3>3 DEF SeedTask, Rollback, RemoveRow, RollbackFails
    <3> QED  BY <3>4
  <2> QED  BY <2>3, <2>4, <2>5
<1>4. ASSUME NEW x \in Name, NEW y \in Name, Rename(x, y)
      PROVE  \E s \in Name : call'[s].name = w /\ call'[s].at \in {"seed", "rollback"}
  <2>1. /\ x \in rows /\ rows' = (rows \ {x}) \cup {y} /\ UNCHANGED call
        /\ seeded' = Moved(seeded, x, y)
        /\ marred' = Moved(marred, x, y) \cup {n \in {y} : InHand(x)}
    BY <1>4 DEF Rename, Moved
  <2>2. CASE w = y
    <3>1. x \notin seeded /\ x \notin marred /\ ~InHand(x)
      BY <2>1, <2>2 DEF Moved
    <3> QED  BY <2>1, <3>1 DEF NoIdleWorker
  <2>3. CASE w # y
    <3>1. w \in rows /\ w \notin seeded /\ w \notin marred
      BY <2>1, <2>3 DEF Moved
    <3> QED  BY <2>1, <3>1 DEF NoIdleWorker, InHand
  <2> QED  BY <2>2, <2>3
<1> QED  BY <1>1, <1>3, <1>4

-----------------------------------------------------------------------------
LEMMA InvStep ==
  ASSUME Inv, [Next]_vars
  PROVE  Inv'
BY TypedStep, CountedStep, CohortStep, NoIdleStep DEF Inv

LEMMA Invariant == Spec => []Inv
<1>1. Inv /\ [Next]_vars => Inv'
  BY InvStep
<1> QED  BY InitInv, <1>1, PTL DEF Spec

(* Every variable of the coordinator keeps its type, whatever the calls and the *)
(* failures (coordinator.go).                                               *)
THEOREM TypeCorrect == Spec => []TypeOK
<1>1. Inv => TypeOK
  BY TypedImplies DEF Inv
<1> QED  BY Invariant, <1>1, PTL

(* Every session a spawn made gets its task, is being seeded or rolled back, or *)
(* was left by a failure or by a rename in the midst of its spawn, whichever    *)
(* sessions are renamed, archived, resumed and closed meanwhile (spawn,       *)
(* coordinator.go).                                                         *)
THEOREM NoWorkerIdles == Spec => []NoIdleWorker
<1>1. Inv => NoIdleWorker
  BY DEF Inv
<1> QED  BY Invariant, <1>1, PTL

(* The barrier of a lead never opens before each worker at hand when its number *)
(* was set has reported (Report, Seal, FanOut and CoordinationView).        *)
THEOREM BarrierIsTrue == Spec => []CompleteIsTrue
<1>1. Inv => CompleteIsTrue
  <2> SUFFICES ASSUME Inv, NEW l \in DOMAIN expected, Complete(l),
                      Reported(l) \subseteq cohort[l]
               PROVE  cohort[l] \subseteq Reported(l)
    BY DEF CompleteIsTrue
  <2>1. cohort[l] \subseteq Name /\ expected[l] \in Nat
    BY DEF Inv, Typed, JoinTyped
  <2>2. IsFiniteSet(cohort[l])
    BY <2>1, FS_Subset, CoordinatorAssumption
  <2>3. /\ Cardinality(Reported(l)) \in Nat /\ Cardinality(cohort[l]) \in Nat
        /\ Cardinality(Reported(l)) <= Cardinality(cohort[l])
        /\ Cardinality(cohort[l]) = Cardinality(Reported(l)) => cohort[l] = Reported(l)
    BY <2>2, FS_Subset, FS_CardinalityType
  <2>4. Cardinality(cohort[l]) <= expected[l] /\ expected[l] <= Cardinality(Reported(l))
    BY DEF Inv, CohortFits, Complete
  <2> QED  BY <2>1, <2>3, <2>4
<1> QED  BY Invariant, <1>1, PTL

(* A report stays counted while the lead and the worker are there, but for a *)
(* rewind of one of the two, the reap of one resumed before its archive was   *)
(* over, and the end of the daemon (forget).                                *)
THEOREM ReportsKept == Spec => ReportsAreKept
<1> DEFINE Kept == \A l \in Name : \A w \in Reported(l) :
                     {l, w} \subseteq rows' \ archived'
                       => \/ w \in Reported(l)' \/ Rewind(l) \/ Rewind(w) \/ Restart
                          \/ Reap /\ closing \in {l, w}
<1>1. Inv /\ [Next]_vars => [Kept]_vars
  <2> SUFFICES ASSUME Inv, [Next]_vars, NEW l \in Name, NEW w \in Reported(l),
                      ~Restart, ~Rewind(l), ~Rewind(w), ~(Reap /\ closing \in {l, w})
               PROVE  w \in Reported(l)'
    OBVIOUS
  <2>1. l \in DOMAIN reported /\ w \in reported[l]
    BY DEF Reported
  <2>2. ASSUME UNCHANGED reported
        PROVE  w \in Reported(l)'
    BY <2>2 DEF Reported
  <2>3. ASSUME NEW s \in Name, Record(s)
        PROVE  w \in Reported(l)'
    BY <2>1, <2>3, RecordTyped DEF Inv, Typed, Reported
  <2>4. ASSUME NEW x, x # l, x # w, GoneDead(x)
        PROVE  w \in Reported(l)'
    <3>1. l \in DOMAIN Forgotten(x) /\ w \in Forgotten(x)[l]
      BY <2>1, <2>4, ForgottenLeaves DEF Inv, Typed
    <3> QED  BY <2>4, <3>1 DEF GoneDead, Reported
  <2>5. CASE Reap
    <3>1. closing # l /\ closing # w
      BY <2>5
    <3> QED  BY <2>2, <2>4, <2>5, <3>1 DEF Reap, coordVars
  <2>6. ASSUME NEW s \in Name, Rewind(s)
        PROVE  w \in Reported(l)'
    BY <2>4, <2>6 DEF Rewind
  <2>7. ASSUME NEW s \in Name, Seal(s) \/ FanOutSeals(s)
        PROVE  w \in Reported(l)'
    BY <2>2, <2>7 DEF Seal, FanOutSeals, Expect
  <2>8. ASSUME NEW x \in Name, NEW y \in Name, Rename(x, y)
        PROVE  w \in Reported(l)'
    BY <2>2, <2>8 DEF Rename
  <2> QED  BY <2>2, <2>3, <2>5, <2>6, <2>7, <2>8, JoinAlone
           DEF Next, CallStep, vars, coordVars
<1>2. Spec => [][Kept]_vars
  BY Invariant, <1>1, PTL DEF Spec
<1> QED  BY <1>2 DEF ReportsAreKept
=============================================================================
