--------------------------- MODULE SchedulerProofs ---------------------------
(***************************************************************************)
(* For every set of schedules, cadence, grace and bound: whatever ticks,   *)
(* operators and restarts do, a schedule has one delivery at a time and    *)
(* its claim is held exactly as long.                                      *)
(***************************************************************************)
EXTENDS Scheduler, WellFoundedInduction, TLAPS

\* Every delivery under way is a record of Fire's fields.  What window it
\* serves does not matter here.
Shaped == \A f \in fires : f = [sched |-> f.sched, when |-> f.when, step |-> f.step]

DeliveryInv == Shaped /\ OneDelivery

-----------------------------------------------------------------------------

\* A claim is refused to a schedule that has one.
LEMMA ClaimKeeps ==
    ASSUME DeliveryInv, NEW s, NEW w, NEW p, Claim([sched |-> s, when |-> w, step |-> p])
    PROVE  DeliveryInv'
<1> DEFINE new == [sched |-> s, when |-> w, step |-> p]
<1>1. /\ s \notin inflight
      /\ inflight' = inflight \cup {s}
      /\ fires' = fires \cup {new}
  BY DEF Claim
<1>2. new.sched = s /\ new.when = w /\ new.step = p
  OBVIOUS
<1>3. Shaped'
  BY <1>1, <1>2 DEF DeliveryInv, Shaped
<1>4. \A f \in fires : f.sched # s
  BY <1>1 DEF DeliveryInv, OneDelivery
<1>5. OneDelivery'
  <2> HIDE DEF new
  <2>1. \A f, g \in fires' : f.sched = g.sched => f = g
    BY <1>1, <1>2, <1>4 DEF DeliveryInv, OneDelivery
  <2>2. inflight' = {f.sched : f \in fires'}
    BY <1>1, <1>2 DEF DeliveryInv, OneDelivery
  <2> QED  BY <2>1, <2>2 DEF OneDelivery
<1> QED  BY <1>3, <1>5 DEF DeliveryInv

\* A delivery that ends releases its claim, which no other delivery holds.
LEMMA GiveUpKeeps ==
    ASSUME DeliveryInv, NEW f \in fires, GiveUp(f)
    PROVE  DeliveryInv'
<1>1. fires' = fires \ {f} /\ inflight' = inflight \ {f.sched}
  BY DEF GiveUp
<1>2. Shaped'
  BY <1>1 DEF DeliveryInv, Shaped
<1>3. OneDelivery'
  BY <1>1 DEF DeliveryInv, OneDelivery
<1> QED  BY <1>2, <1>3 DEF DeliveryInv

\* A delivery that goes on keeps its claim.
LEMMA ProceedKeeps ==
    ASSUME DeliveryInv, NEW f \in fires, NEW p, Proceed(f, p)
    PROVE  DeliveryInv'
<1> DEFINE new == [f EXCEPT !.step = p]
<1>1. fires' = (fires \ {f}) \cup {new} /\ inflight' = inflight
  BY DEF Proceed
<1>2. new = [sched |-> f.sched, when |-> f.when, step |-> p]
  BY DEF DeliveryInv, Shaped
<1>3. new.sched = f.sched /\ new.when = f.when /\ new.step = p
  BY <1>2
<1> HIDE DEF new
<1>4. Shaped'
  BY <1>1, <1>2, <1>3 DEF DeliveryInv, Shaped
<1>5. OneDelivery'
  BY <1>1, <1>3 DEF DeliveryInv, OneDelivery
<1> QED  BY <1>4, <1>5 DEF DeliveryInv

\* A delivery's own steps.
LEMMA DeliverKeeps ==
    ASSUME DeliveryInv, NEW f \in fires, Deliver(f)
    PROVE  DeliveryInv'
<1>1. GiveUp(f) \/ \E p \in {"seed", "stamp"} : Proceed(f, p)
  BY DEF Deliver, TargetLive, TargetCreated, TargetFails, Seed, SeedFails, Stamp
<1> QED  BY <1>1, GiveUpKeeps, ProceedKeeps

LEMMA DeliveryKept == DeliveryInv /\ [Next]_vars => DeliveryInv'
<1> SUFFICES ASSUME DeliveryInv, [Next]_vars PROVE DeliveryInv'
  OBVIOUS
<1>1. CASE UNCHANGED <<inflight, fires>>
  BY <1>1 DEF DeliveryInv, Shaped, OneDelivery
<1>2. CASE inflight' = {} /\ fires' = {}
  BY <1>2 DEF DeliveryInv, Shaped, OneDelivery
<1>3. CASE \E f \in fires : Deliver(f)
  BY <1>3, DeliverKeeps
<1>4. CASE \E s \in Sched : Dispatch(s) \/ FireNow(s)
  <2>1. PICK s \in Sched : Dispatch(s) \/ FireNow(s)
    BY <1>4
  <2>2. \E w : Claim([sched |-> s, when |-> w, step |-> "target"])
    BY <2>1 DEF Dispatch, FireNow
  <2> QED  BY <2>2, ClaimKeeps
<1> QED
  <2>1. CASE UNCHANGED vars
    BY <2>1, <1>1 DEF vars
  <2>2. CASE Loop
    BY <2>2, <1>1, <1>4 DEF Loop, TickReadsClock, TickReadsRows, TickHasNothing, Realign, Skip
  <2>3. CASE Minute \/ Restart
    BY <2>3, <1>1, <1>2 DEF Minute, Restart
  <2>4. CASE \E s \in Sched : Verb(s) \/ Session(s)
    BY <2>4, <1>1, <1>4
       DEF Verb, Session, Add, Pause, Resume, ResumeStamp, Remove, SessionLive, SessionGone, TurnEnds
  <2> QED  BY <2>1, <2>2, <2>3, <2>4, <1>3 DEF Next

\* A schedule never has two deliveries under way, and no claim outlives its
\* delivery (claim, release and the deferred calls of core/host/scheduler.go).
THEOREM OneDeliveryAtATime == Spec => []OneDelivery
<1>1. Init => DeliveryInv
  BY DEF Init, DeliveryInv, Shaped, OneDelivery
<1>2. DeliveryInv => OneDelivery
  BY DEF DeliveryInv
<1> QED  BY <1>1, <1>2, DeliveryKept, PTL DEF Spec


-----------------------------------------------------------------------------
(* Types.                                                                  *)

\* A set of numbers has a least member.
LEMMA LeastMember ==
    ASSUME NEW T \in SUBSET Nat, T # {}
    PROVE  \E x \in T : \A y \in T : x <= y
<1> DEFINE R == OpToRel(<, Nat)
<1>1. \A x, y \in Nat : x < y => <<x, y>> \in R
  BY DEF OpToRel
<1>2. IsWellFoundedOn(R, Nat)
  BY NatLessThanWellFounded
<1> HIDE DEF R
<1>3. PICK x \in T : \A y \in T : <<y, x>> \notin R
  BY <1>2, WFMin
<1>4. ASSUME NEW y \in T, ~(x <= y) PROVE FALSE
  <2>1. x \in Nat /\ y \in Nat
    OBVIOUS
  <2>2. y < x
    BY <1>4, <2>1
  <2> QED  BY <1>1, <1>3, <2>1, <2>2
<1> QED  BY <1>4

\* Max is the greatest member of a set of minutes that is not empty.
LEMMA MaxOfMinutes ==
    ASSUME NEW S \in SUBSET Time, S # {}
    PROVE  Max(S) \in S /\ \A y \in S : Max(S) >= y
<1> USE BoundAssumption DEF Time
<1> DEFINE T == {MaxTime - w : w \in S}
<1>1. T \in SUBSET Nat /\ T # {}
  <2>1. \A w \in S : MaxTime - w \in Nat
    OBVIOUS
  <2>2. PICK w \in S : TRUE
    OBVIOUS
  <2>3. MaxTime - w \in T
    OBVIOUS
  <2> QED  BY <2>1, <2>3
<1> HIDE DEF T
<1>2. PICK d \in T : \A y \in T : d <= y
  BY <1>1, LeastMember
<1>3. PICK x \in S : d = MaxTime - x
  BY DEF T
<1>4. ASSUME NEW y \in S PROVE x >= y
  <2>1. MaxTime - y \in T
    BY DEF T
  <2>2. MaxTime - x <= MaxTime - y
    BY <1>2, <1>3, <2>1
  <2> QED  BY <2>2
<1>5. \E z \in S : \A y \in S : z >= y
  BY <1>4
<1> QED  BY <1>5 DEF Max

\* The windows a tick can serve are minutes since the anchor, up to the tick.
LEMMA FreshMinutes ==
    ASSUME NEW s, NEW a \in Time, NEW t \in Time
    PROVE  /\ Missed(s, a, t) \subseteq Time /\ Fresh(s, a, t) \subseteq Missed(s, a, t)
           /\ \A w \in Missed(s, a, t) : a < w /\ w <= t /\ Opens(s, a, w)
BY BoundAssumption DEF Time, Missed, Fresh

\* dispatch's window is one of them, the last.
LEMMA ServedWindow ==
    ASSUME TypeOK, NEW s \in Sched, SeenFresh(s) # {}
    PROVE  /\ Max(SeenFresh(s)) \in SeenFresh(s)
           /\ Max(SeenFresh(s)) \in Time
           /\ Max(SeenFresh(s)) # Manual
<1>1. loop.anchor[s] \in Time /\ loop.at \in Time
  BY DEF TypeOK, Tick
<1>2. SeenFresh(s) \subseteq Missed(s, loop.anchor[s], loop.at) /\ SeenFresh(s) \subseteq Time
  BY <1>1, FreshMinutes DEF SeenFresh
<1>3. Max(SeenFresh(s)) \in SeenFresh(s)
  BY <1>2, MaxOfMinutes
<1>4. loop.anchor[s] < Max(SeenFresh(s))
  BY <1>1, <1>2, <1>3, FreshMinutes
<1> QED  BY <1>1, <1>2, <1>3, <1>4, BoundAssumption DEF Manual, Time

LEMMA IdleTyped == Idle \in Tick /\ 0 \in Time
BY BoundAssumption DEF Idle, Tick, Time

\* What a tick has left after a visit.
LEMMA VisitedTyped ==
    ASSUME TypeOK, NEW s, Visited(s)
    PROVE  /\ loop' \in Tick
           /\ loop'.todo \subseteq loop.todo \ {s}
           /\ loop'.todo # {} => loop'.at = loop.at /\ loop'.anchor = loop.anchor
<1>1. CASE loop.todo = {s}
  BY <1>1, IdleTyped DEF Visited, Idle
<1>2. CASE loop.todo # {s}
  <2>1. loop' = [loop EXCEPT !.todo = loop.todo \ {s}]
    BY <1>2 DEF Visited
  <2> QED  BY <2>1 DEF TypeOK, Tick
<1> QED  BY <1>1, <1>2

\* A delivery's own steps keep its record.
LEMMA DeliveryTyped ==
    ASSUME TypeOK, NEW f \in fires, GiveUp(f) \/ \E p \in {"seed", "stamp"} : Proceed(f, p)
    PROVE  fires' \subseteq Fire /\ inflight' \subseteq Sched
<1>1. f \in Fire /\ \A p \in {"target", "seed", "stamp"} : [f EXCEPT !.step = p] \in Fire
  BY DEF TypeOK, Fire
<1>2. fires' \subseteq fires \cup {[f EXCEPT !.step = p] : p \in {"seed", "stamp"}}
  BY DEF GiveUp, Proceed
<1>3. inflight' \subseteq inflight
  BY DEF GiveUp, Proceed
<1> QED  BY <1>1, <1>2, <1>3 DEF TypeOK

LEMMA TypeKept == TypeOK /\ [Next]_vars => TypeOK'
<1> SUFFICES ASSUME TypeOK, [Next]_vars PROVE TypeOK'
  OBVIOUS
<1> USE DEF TypeOK, disk, operator, sessions
<1>1. CASE TickReadsClock
  <2>1. loop' \in Tick
    BY <1>1, IdleTyped DEF TickReadsClock, Tick, Idle
  <2> QED  BY <1>1, <2>1 DEF TickReadsClock
<1>2. CASE TickReadsRows
  <2>1. loop' \in Tick
    BY <1>2 DEF TickReadsRows, Tick
  <2> QED  BY <1>2, <2>1 DEF TickReadsRows
<1>3. CASE TickHasNothing
  BY <1>3, IdleTyped DEF TickHasNothing
<1>4. ASSUME NEW s \in Sched, Dispatch(s) PROVE TypeOK'
  <2>1. [sched |-> s, when |-> Max(SeenFresh(s)), step |-> "target"] \in Fire
    BY <1>4, ServedWindow DEF Dispatch, Fire
  <2>2. fires' \subseteq Fire /\ inflight' \subseteq Sched
    BY <1>4, <2>1 DEF Dispatch, Claim, Fire
  <2>3. loop' \in Tick
    BY <1>4, VisitedTyped DEF Dispatch
  <2> QED  BY <1>4, <2>2, <2>3 DEF Dispatch
<1>5. ASSUME NEW s \in Sched, Realign(s) PROVE TypeOK'
  <2>1. loop' \in Tick /\ loop.at \in Time
    BY <1>5, VisitedTyped DEF Realign, Tick
  <2> QED  BY <1>5, <2>1 DEF Realign
<1>6. ASSUME NEW s \in Sched, Skip(s) PROVE TypeOK'
  <2>1. loop' \in Tick
    BY <1>6, VisitedTyped DEF Skip
  <2> QED  BY <1>6, <2>1 DEF Skip
<1>7. ASSUME NEW f \in fires, Deliver(f) PROVE TypeOK'
  <2>1. fires' \subseteq Fire /\ inflight' \subseteq Sched
    BY <1>7, DeliveryTyped
       DEF Deliver, TargetLive, TargetCreated, TargetFails, Seed, SeedFails, Stamp
  <2>2. f.sched \in Sched /\ f.when \in Time
    BY DEF Fire
  <2>3. CASE TargetLive(f) \/ TargetFails(f) \/ SeedFails(f)
    BY <2>1, <2>3 DEF TargetLive, TargetFails, SeedFails
  <2>4. CASE TargetCreated(f)
    BY <2>1, <2>2, <2>4 DEF TargetCreated
  <2>5. CASE Seed(f)
    BY <2>1, <2>2, <2>5, BoundAssumption DEF Seed
  <2>6. CASE Stamp(f)
    BY <2>1, <2>2, <2>6 DEF Stamp
  <2> QED  BY <1>7, <2>3, <2>4, <2>5, <2>6 DEF Deliver
<1>8. ASSUME NEW s \in Sched, FireNow(s) PROVE TypeOK'
  <2>1. [sched |-> s, when |-> Manual, step |-> "target"] \in Fire
    BY IdleTyped DEF Fire, Manual
  <2>2. fires' \subseteq Fire /\ inflight' \subseteq Sched /\ runs' \in 0..MaxRuns
    BY <1>8, <2>1, BoundAssumption DEF FireNow, Claim, Fire
  <2> QED  BY <1>8, <2>2 DEF FireNow
<1>9. ASSUME NEW s \in Sched, Add(s) \/ Pause(s) \/ Resume(s) \/ ResumeStamp(s) \/ Remove(s) PROVE TypeOK'
  <2>1. CASE Pause(s) \/ Resume(s) \/ Remove(s)
    BY <2>1 DEF Pause, Resume, Remove
  <2>2. CASE Add(s) \/ ResumeStamp(s)
    BY <2>2 DEF Add, ResumeStamp, Restarted
  <2> QED  BY <1>9, <2>1, <2>2
<1>10. ASSUME NEW s \in Sched, Session(s) PROVE TypeOK'
  <2>1. CASE SessionLive(s)
    BY <2>1 DEF SessionLive
  <2>2. CASE SessionGone(s)
    BY <2>2, BoundAssumption DEF SessionGone
  <2>3. CASE TurnEnds(s)
    BY <2>3, BoundAssumption DEF TurnEnds
  <2> QED  BY <1>10, <2>1, <2>2, <2>3 DEF Session
<1>11. CASE Minute
  BY <1>11, BoundAssumption DEF Minute, Time
<1>12. CASE Restart
  <2>1. /\ now' \in Time /\ rows' \subseteq Sched /\ anchor' \in [Sched -> Time] /\ paused' \subseteq Sched
        /\ runs' \in 0..MaxRuns /\ up' \subseteq Sched
    BY <1>12 DEF Restart
  <2>2. /\ resuming' \subseteq Sched /\ overtaken' \subseteq Sched /\ caughtUp' \in BOOLEAN
        /\ inflight' \subseteq Sched /\ fires' \subseteq Fire /\ driven' \subseteq up'
    BY <1>12 DEF Restart
  <2>3. pending' \in [Sched -> 0..Capacity] /\ \A s \in Sched \ driven' : pending'[s] = 0
    BY <1>12, BoundAssumption DEF Restart
  <2>4. loop' \in Tick
    BY <1>12, IdleTyped DEF Restart
  <2> QED  BY <2>1, <2>2, <2>3, <2>4
<1>13. CASE UNCHANGED vars
  BY <1>13 DEF vars
<1> QED  BY <1>1, <1>2, <1>3, <1>4, <1>5, <1>6, <1>7, <1>8, <1>9, <1>10, <1>11, <1>12, <1>13
            DEF Next, Loop, Verb

LEMMA TypeInit == Init => TypeOK
<1> SUFFICES ASSUME Init PROVE TypeOK
  OBVIOUS
<1>1. /\ now \in Time /\ rows \subseteq Sched /\ anchor \in [Sched -> Time] /\ paused \subseteq Sched
      /\ loop \in Tick
  BY IdleTyped DEF Init
<1>2. /\ resuming \subseteq Sched /\ overtaken \subseteq Sched /\ caughtUp \in BOOLEAN
      /\ inflight \subseteq Sched /\ fires \subseteq Fire /\ driven \subseteq up /\ up \subseteq Sched
  BY DEF Init
<1>3. runs \in 0..MaxRuns /\ pending \in [Sched -> 0..Capacity] /\ \A s \in Sched \ driven : pending[s] = 0
  BY BoundAssumption DEF Init
<1> QED  BY <1>1, <1>2, <1>3 DEF TypeOK

\* Every variable keeps its type: what a tick serves is a minute since the
\* anchor, and no session's queue exceeds its capacity.
THEOREM ScheduleTyped == Spec => []TypeOK
BY TypeInit, TypeKept, PTL DEF Spec

-----------------------------------------------------------------------------
(* The windows the cadence passes over.                                    *)

\* The windows counted from a are those counted from b.
SamePhase(s, a, b) == Period[s] > 0 => a % Period[s] = b % Period[s]

\* What serves the window of a schedule counts it from where the row does: the
\* deliveries under way, and the copy of a tick that has yet to visit it.
InPhase(s) ==
    /\ \A f \in fires : f.sched = s /\ f.when # Manual => SamePhase(s, f.when, anchor[s])
    /\ s \in loop.todo => SamePhase(s, anchor[s], loop.anchor[s])

\* Only an operator's restart of the cadence under them breaks that.
PhaseKept == \A s \in Sched \ overtaken : InPhase(s)

\* What is fired by hand never gets to the stamp.
StampsAWindow == \A f \in fires : f.step = "stamp" => f.when # Manual

PhaseInv == TypeOK /\ DeliveryInv /\ StampsAWindow /\ PhaseKept

LEMMA Remainder ==
    ASSUME NEW p \in Nat \ {0}, NEW x \in Nat, NEW k \in Nat, NEW r \in 0..(p - 1), x = k * p + r
    PROVE  x % p = r
BY SMTT(60)

\* A window opens a whole number of periods after the anchor.
LEMMA WholePeriods ==
    ASSUME NEW p \in Nat \ {0}, NEW a \in Nat, NEW w \in Nat, a <= w
    PROVE  (w - a) % p = 0 <=> w % p = a % p
<1>1. /\ w = p * (w \div p) + (w % p) /\ w \div p \in Nat
      /\ a = p * (a \div p) + (a % p) /\ a \div p \in Nat
      /\ w % p \in 0..(p - 1) /\ a % p \in 0..(p - 1)
  BY SMT
<1>2. w - a \in Nat /\ w - a = p * ((w - a) \div p) + ((w - a) % p) /\ (w - a) \div p \in Nat
  BY SMT
<1>3. ASSUME (w - a) % p = 0 PROVE w % p = a % p
  <2> DEFINE k == ((w - a) \div p) + (a \div p)
  <2>1. w = k * p + (a % p)
    BY <1>1, <1>2, <1>3
  <2>2. k \in Nat
    BY <1>1, <1>2
  <2> HIDE DEF k
  <2> QED  BY <2>1, <2>2, <1>1, Remainder
<1>4. ASSUME w % p = a % p PROVE (w - a) % p = 0
  <2> DEFINE k == (w \div p) - (a \div p)
  <2>1. w - a = k * p + 0
    BY <1>1, <1>4
  <2>2. w \div p >= a \div p
    BY <1>1, <1>4
  <2>3. k \in Nat
    BY <1>1, <2>2
  <2> HIDE DEF k
  <2> QED  BY <2>1, <2>3, <1>2, Remainder
<1> QED  BY <1>3, <1>4

\* So the windows after two anchors in phase are the same.
LEMMA OpensInPhase ==
    ASSUME NEW s \in Sched, NEW a \in Time, NEW w \in Time, a <= w
    PROVE  /\ Opens(s, a, w) => SamePhase(s, w, a)
           /\ Period[s] > 0 /\ SamePhase(s, w, a) => Opens(s, a, w)
<1>1. Period[s] \in Nat /\ a \in Nat /\ w \in Nat
  BY CadenceAssumption, BoundAssumption DEF Time
<1>2. CASE Period[s] = 0
  BY <1>2 DEF SamePhase
<1>3. CASE Period[s] > 0
  <2>1. (w - a) % Period[s] = 0 <=> w % Period[s] = a % Period[s]
    BY <1>1, <1>3, WholePeriods
  <2> QED  BY <2>1, <1>3 DEF Opens, SamePhase
<1> QED  BY <1>1, <1>2, <1>3

LEMMA MissedInPhase ==
    ASSUME NEW s \in Sched, NEW a \in Time, NEW b \in Time, NEW w \in Time,
           SamePhase(s, a, b), a <= w, b <= w, Opens(s, a, w)
    PROVE  Opens(s, b, w)
<1>1. CASE Period[s] > 0
  <2>1. SamePhase(s, w, a)
    BY OpensInPhase
  <2>2. SamePhase(s, w, b)
    BY <2>1 DEF SamePhase
  <2> QED  BY <1>1, <2>2, OpensInPhase
<1>2. CASE ~(Period[s] > 0)
  BY <1>2 DEF Opens
<1> QED  BY <1>1, <1>2

\* A step that leaves the anchor of s, starts no delivery of it and reads no
\* new copy of its row.
LEMMA StillInPhase ==
    ASSUME NEW s, InPhase(s), anchor'[s] = anchor[s],
           \A f \in fires' : f.sched = s => \E g \in fires : g.sched = s /\ g.when = f.when,
           s \in loop'.todo => s \in loop.todo /\ loop'.anchor[s] = loop.anchor[s]
    PROVE  InPhase(s)'
<1>1. ASSUME NEW f \in fires', f.sched = s, f.when # Manual
      PROVE  SamePhase(s, f.when, anchor'[s])
  <2>1. PICK g \in fires : g.sched = s /\ g.when = f.when
    BY <1>1
  <2> QED  BY <1>1, <2>1 DEF InPhase
<1>2. ASSUME s \in loop'.todo PROVE SamePhase(s, anchor'[s], loop'.anchor[s])
  BY <1>2 DEF InPhase
<1> QED  BY <1>1, <1>2 DEF InPhase

\* The delivery a tick starts serves a window its copy counts, and so the row.
LEMMA DispatchInPhase ==
    ASSUME PhaseInv, NEW s \in Sched, Dispatch(s), NEW r \in Sched \ overtaken
    PROVE  InPhase(r)'
<1> DEFINE w == Max(SeenFresh(s))
           new == [sched |-> s, when |-> w, step |-> "target"]
<1>1. TypeOK /\ InPhase(r)
  BY DEF PhaseInv, PhaseKept
<1>2. fires' = fires \cup {new} /\ anchor' = anchor
  BY DEF Dispatch, Claim, disk
<1>3. new.sched = s /\ new.when = w
  OBVIOUS
<1>4. /\ loop'.todo \subseteq loop.todo \ {s}
      /\ loop'.todo # {} => loop'.anchor = loop.anchor
  BY <1>1, VisitedTyped DEF Dispatch
<1> HIDE DEF new
<1>5. CASE r # s
  BY <1>1, <1>2, <1>3, <1>4, <1>5, StillInPhase
<1>6. CASE r = s
  <2>1. loop.anchor[s] \in Time /\ loop.at \in Time /\ anchor[s] \in Time
    BY <1>1 DEF TypeOK, Tick
  <2>2. w \in Time /\ w \in Missed(s, loop.anchor[s], loop.at)
    BY <1>1, <2>1, ServedWindow, FreshMinutes DEF Dispatch, SeenFresh
  <2> HIDE DEF w
  <2>3. Opens(s, loop.anchor[s], w) /\ loop.anchor[s] < w
    BY <2>1, <2>2, FreshMinutes
  <2>4. loop.anchor[s] <= w
    BY <2>1, <2>2, <2>3, BoundAssumption DEF Time
  <2>5. SamePhase(s, w, loop.anchor[s])
    BY <2>1, <2>2, <2>3, <2>4, OpensInPhase
  <2>6. SamePhase(s, anchor[s], loop.anchor[s])
    BY <1>1, <1>6 DEF InPhase, Dispatch
  <2>7. SamePhase(s, w, anchor[s])
    BY <2>5, <2>6 DEF SamePhase
  <2>8. \A f \in fires' : f.sched = s /\ f.when # Manual => SamePhase(s, f.when, anchor'[s])
    BY <1>1, <1>2, <1>3, <1>6, <2>7 DEF InPhase
  <2>9. s \notin loop'.todo
    BY <1>4
  <2> QED  BY <1>6, <2>8, <2>9 DEF InPhase
<1> QED  BY <1>5, <1>6

\* A realigned schedule has no delivery under way and the tick is done with it.
LEMMA RealignInPhase ==
    ASSUME PhaseInv, NEW s \in Sched, Realign(s), NEW r \in Sched \ overtaken
    PROVE  InPhase(r)'
<1>1. TypeOK /\ OneDelivery /\ InPhase(r)
  BY DEF PhaseInv, PhaseKept, DeliveryInv
<1>2. fires' = fires /\ s \notin inflight
  BY DEF Realign
<1>3. /\ loop'.todo \subseteq loop.todo \ {s}
      /\ loop'.todo # {} => loop'.anchor = loop.anchor
  BY <1>1, VisitedTyped DEF Realign
<1>4. CASE r # s
  <2>1. anchor'[r] = anchor[r]
    BY <1>1, <1>4 DEF Realign, TypeOK
  <2> QED  BY <1>1, <1>2, <1>3, <2>1, StillInPhase
<1>5. CASE r = s
  BY <1>1, <1>2, <1>3, <1>5 DEF OneDelivery, InPhase
<1> QED  BY <1>4, <1>5

\* A delivery stamps a window in phase with the anchor it replaces.
LEMMA DeliverInPhase ==
    ASSUME PhaseInv, NEW f \in fires, Deliver(f), NEW r \in Sched \ overtaken
    PROVE  InPhase(r)'
<1>1. TypeOK /\ OneDelivery /\ InPhase(r) /\ f \in Fire
  BY DEF PhaseInv, PhaseKept, DeliveryInv, TypeOK
<1>2. loop' = loop
  BY DEF Deliver, TargetLive, TargetCreated, TargetFails, Seed, SeedFails, Stamp
<1>3. GiveUp(f) \/ \E p \in {"seed", "stamp"} : Proceed(f, p)
  BY DEF Deliver, TargetLive, TargetCreated, TargetFails, Seed, SeedFails, Stamp
<1>4. \A g \in fires' : \E h \in fires : h.sched = g.sched /\ h.when = g.when
  BY <1>1, <1>3 DEF GiveUp, Proceed, Fire
<1>5. CASE anchor' = anchor
  BY <1>1, <1>2, <1>4, <1>5, StillInPhase
<1>6. CASE Stamp(f)
  <2>1. fires' = fires \ {f}
    BY <1>6 DEF Stamp, GiveUp
  <2>2. CASE r # f.sched \/ f.sched \notin rows
    <3>1. anchor'[r] = anchor[r]
      BY <1>1, <1>6, <2>2 DEF Stamp, TypeOK
    <3> QED  BY <1>1, <1>2, <1>4, <3>1, StillInPhase
  <2>3. CASE r = f.sched /\ f.sched \in rows
    <3>1. anchor'[r] = f.when
      BY <1>1, <1>6, <2>3 DEF Stamp, TypeOK
    <3>2. \A g \in fires' : g.sched # r
      BY <1>1, <2>1, <2>3 DEF OneDelivery
    <3>3. ASSUME r \in loop.todo PROVE SamePhase(r, f.when, loop.anchor[r])
      <4>1. SamePhase(r, anchor[r], loop.anchor[r])
        BY <1>1, <3>3 DEF InPhase
      <4>2. f.when # Manual
        BY <1>6 DEF PhaseInv, StampsAWindow, Stamp
      <4> QED  BY <1>1, <2>3, <4>1, <4>2 DEF InPhase, SamePhase
    <3> QED  BY <1>2, <3>1, <3>2, <3>3 DEF InPhase
  <2> QED  BY <2>2, <2>3
<1> QED  BY <1>5, <1>6
         DEF Deliver, TargetLive, TargetCreated, TargetFails, Seed, SeedFails, disk

LEMMA StampsAWindowKept == TypeOK /\ StampsAWindow /\ [Next]_vars => StampsAWindow'
<1> SUFFICES ASSUME TypeOK, StampsAWindow, [Next]_vars PROVE StampsAWindow'
  OBVIOUS
<1>1. CASE fires' = fires \/ fires' = {}
  BY <1>1 DEF StampsAWindow
<1>2. ASSUME NEW s, NEW w, Claim([sched |-> s, when |-> w, step |-> "target"])
      PROVE  StampsAWindow'
  BY <1>2 DEF StampsAWindow, Claim
<1>3. ASSUME NEW f \in fires, Deliver(f) PROVE StampsAWindow'
  <2>1. f \in Fire
    BY DEF TypeOK
  <2>2. CASE GiveUp(f)
    BY <2>2 DEF GiveUp, StampsAWindow
  <2>3. ASSUME NEW p \in {"seed", "stamp"}, Proceed(f, p), p = "stamp" => f.when # Manual
        PROVE  StampsAWindow'
    BY <2>1, <2>3 DEF Proceed, StampsAWindow, Fire
  <2>4. GiveUp(f) \/ \E p \in {"seed", "stamp"} : Proceed(f, p) /\ (p = "stamp" => f.when # Manual)
    BY <1>3 DEF Deliver, TargetLive, TargetCreated, TargetFails, Seed, SeedFails, Stamp
  <2> QED  BY <2>2, <2>3, <2>4
<1>4. CASE \E s \in Sched : Dispatch(s) \/ FireNow(s)
  BY <1>2, <1>4 DEF Dispatch, FireNow
<1>5. CASE \E s \in Sched : Realign(s) \/ Skip(s)
  BY <1>1, <1>5 DEF Realign, Skip
<1>6. CASE \E s \in Sched : Add(s) \/ Pause(s) \/ Resume(s) \/ ResumeStamp(s) \/ Remove(s)
  BY <1>1, <1>6 DEF Add, Pause, Resume, ResumeStamp, Remove
<1>7. CASE \E s \in Sched : Session(s)
  BY <1>1, <1>7 DEF Session, SessionLive, SessionGone, TurnEnds
<1>8. CASE TickReadsClock \/ TickReadsRows \/ TickHasNothing \/ Minute \/ Restart \/ UNCHANGED vars
  BY <1>1, <1>8 DEF TickReadsClock, TickReadsRows, TickHasNothing, Minute, Restart, vars
<1> QED  BY <1>3, <1>4, <1>5, <1>6, <1>7, <1>8 DEF Next, Loop, Verb

LEMMA PhaseIsKept == PhaseInv /\ [Next]_vars => PhaseKept'
<1> SUFFICES ASSUME PhaseInv, [Next]_vars, NEW r \in Sched, r \notin overtaken' PROVE InPhase(r)'
  BY DEF PhaseKept
<1> USE DEF disk, operator, sessions
<1>1. TypeOK /\ OneDelivery /\ (r \notin overtaken => InPhase(r))
  BY DEF PhaseInv, PhaseKept, DeliveryInv
<1>2. CASE overtaken' = overtaken /\ anchor' = anchor /\ fires' = fires /\ loop' = loop
  BY <1>1, <1>2, StillInPhase
<1>3. CASE TickReadsClock
  BY <1>1, <1>3, StillInPhase DEF TickReadsClock, Idle
<1>4. CASE TickReadsRows
  <2>1. /\ fires' = fires /\ anchor' = anchor /\ loop'.anchor = anchor
        /\ overtaken' = overtaken \cap inflight
    BY <1>4 DEF TickReadsRows
  <2>2. SamePhase(r, anchor[r], loop'.anchor[r])
    BY <2>1 DEF SamePhase
  <2>3. CASE r \in overtaken
    BY <1>1, <2>1, <2>2, <2>3 DEF OneDelivery, InPhase
  <2>4. CASE r \notin overtaken
    BY <1>1, <2>1, <2>2, <2>4 DEF InPhase
  <2> QED  BY <2>3, <2>4
<1>5. CASE TickHasNothing
  BY <1>1, <1>5, StillInPhase DEF TickHasNothing, Idle
<1>6. ASSUME NEW s \in Sched, Dispatch(s) \/ Realign(s) PROVE InPhase(r)'
  <2>1. overtaken' = overtaken
    BY <1>6 DEF Dispatch, Realign
  <2> QED  BY <1>6, <2>1, DispatchInPhase, RealignInPhase
<1>7. ASSUME NEW s \in Sched, Skip(s) PROVE InPhase(r)'
  <2>1. /\ loop'.todo \subseteq loop.todo
        /\ loop'.todo # {} => loop'.anchor = loop.anchor
    BY <1>1, <1>7, VisitedTyped DEF Skip
  <2> QED  BY <1>1, <1>7, <2>1, StillInPhase DEF Skip
<1>8. ASSUME NEW f \in fires, Deliver(f) PROVE InPhase(r)'
  <2>1. overtaken' = overtaken
    BY <1>8 DEF Deliver, TargetLive, TargetCreated, TargetFails, Seed, SeedFails, Stamp
  <2> QED  BY <1>8, <2>1, DeliverInPhase
<1>9. ASSUME NEW s \in Sched, FireNow(s) PROVE InPhase(r)'
  <2>1. /\ overtaken' = overtaken /\ anchor' = anchor /\ loop' = loop
        /\ fires' = fires \cup {[sched |-> s, when |-> Manual, step |-> "target"]}
    BY <1>9 DEF FireNow, Claim
  <2> QED  BY <1>1, <2>1 DEF InPhase
<1>10. ASSUME NEW s \in Sched, Add(s) \/ ResumeStamp(s) PROVE InPhase(r)'
  <2>1. /\ fires' = fires /\ loop' = loop
        /\ \A q \in Sched \ {s} : anchor'[q] = anchor[q]
        /\ overtaken' = IF s \in loop.todo \cup inflight THEN overtaken \cup {s} ELSE overtaken
    BY <1>1, <1>10 DEF Add, ResumeStamp, Restarted, TypeOK
  <2>2. CASE r # s
    BY <1>1, <2>1, <2>2, StillInPhase
  <2>3. CASE r = s
    BY <1>1, <2>1, <2>3 DEF OneDelivery, InPhase
  <2> QED  BY <2>2, <2>3
<1>11. CASE \E s \in Sched : Pause(s) \/ Resume(s) \/ Remove(s) \/ Session(s)
  BY <1>2, <1>11 DEF Pause, Resume, Remove, Session, SessionLive, SessionGone, TurnEnds
<1>12. CASE Minute \/ UNCHANGED vars
  BY <1>2, <1>12 DEF Minute, vars
<1>13. CASE Restart
  BY <1>13 DEF Restart, Idle, InPhase
<1> QED  BY <1>3, <1>4, <1>5, <1>6, <1>7, <1>8, <1>9, <1>10, <1>11, <1>12, <1>13 DEF Next, Loop, Verb

\* A stale schedule that is realigned has nothing left the grace would serve.
LEMMA RealignSkipsStale ==
    ASSUME PhaseInv, NEW s \in Sched, Realign(s), Period[s] = 0 \/ s \notin overtaken,
           NEW w \in Fresh(s, anchor[s], loop.at)
    PROVE  FALSE
<1> DEFINE a == anchor[s]
           l == loop.anchor[s]
           t == loop.at
<1>1. TypeOK /\ PhaseKept /\ s \in loop.todo
  BY DEF PhaseInv, Realign
<1>2. a \in Time /\ l \in Time /\ t \in Time
  BY <1>1 DEF TypeOK, Tick
<1>3. Stale(s, l, t)
  BY DEF Realign, SeenStale
<1> HIDE DEF a, l, t
<1>4. w \in Fresh(s, a, t)
  BY DEF a, t
<1>5. SamePhase(s, a, l)
  BY <1>1 DEF PhaseKept, InPhase, SamePhase, a, l
<1> USE BoundAssumption DEF Time
<1>6. w \in Time /\ a < w /\ w <= t /\ Opens(s, a, w) /\ t - w <= Grace
  BY <1>2, <1>4, FreshMinutes DEF Fresh
<1>7. CASE l < w
  <2>1. Opens(s, l, w)
    BY <1>2, <1>5, <1>6, <1>7, MissedInPhase
  <2>2. w \in (l + 1)..t
    BY <1>2, <1>6, <1>7
  <2> QED  BY <1>3, <1>6, <2>1, <2>2 DEF Stale, Fresh, Missed
<1>8. CASE w <= l
  <2>1. PICK v \in Missed(s, l, t) : TRUE
    BY <1>3 DEF Stale, Due
  <2>2. v \in Time /\ l < v /\ v <= t
    BY <1>2, <2>1, FreshMinutes
  <2>3. t - v <= Grace
    BY <1>2, <1>6, <1>8, <2>2
  <2> QED  BY <1>3, <2>1, <2>3 DEF Stale, Fresh
<1> QED  BY <1>2, <1>6, <1>7, <1>8

\* What raises the anchor of a schedule is its delivery, or a stale cadence.
LEMMA RaisesAnchor ==
    ASSUME PhaseInv, [Next]_vars, NEW s \in rows, anchor'[s] > anchor[s], resuming' = resuming
    PROVE  \/ \E f \in fires : Stamp(f) /\ f.sched = s /\ anchor'[s] = f.when
           \/ Realign(s) /\ anchor'[s] = loop.at
<1> USE DEF disk, operator, sessions
<1>1. TypeOK /\ s \in Sched /\ anchor[s] \in Time /\ \A f \in fires : f.sched \in Sched
  BY DEF PhaseInv, TypeOK, Fire
<1>2. anchor' # anchor
  BY <1>1, BoundAssumption DEF Time
<1>3. CASE \E f \in fires : Stamp(f)
  <2>1. PICK f \in fires : Stamp(f)
    BY <1>3
  <2>2. anchor' = [anchor EXCEPT ![f.sched] = IF f.sched \in rows THEN f.when ELSE anchor[f.sched]]
    BY <2>1 DEF Stamp
  <2>3. f.sched = s
    BY <1>1, <2>2, BoundAssumption DEF TypeOK, Time
  <2> QED  BY <1>1, <2>1, <2>2, <2>3 DEF TypeOK
<1>4. CASE \E r \in Sched : Realign(r)
  <2>1. PICK r \in Sched : Realign(r)
    BY <1>4
  <2>2. anchor' = [anchor EXCEPT ![r] = IF r \in rows THEN loop.at ELSE anchor[r]]
    BY <2>1 DEF Realign
  <2>3. r = s
    BY <1>1, <2>1, <2>2, BoundAssumption DEF TypeOK, Time
  <2> QED  BY <1>1, <2>1, <2>2, <2>3 DEF TypeOK
<1>5. ASSUME NEW r \in Sched, Add(r) PROVE FALSE
  <2>1. r # s /\ anchor'[s] = anchor[s]
    BY <1>1, <1>5 DEF Add, TypeOK
  <2> QED  BY <1>1, <2>1, BoundAssumption DEF Time
<1>6. ASSUME NEW r \in Sched, ResumeStamp(r) PROVE FALSE
  BY <1>6 DEF ResumeStamp
<1>7. ASSUME NEW f \in fires, Deliver(f), ~Stamp(f) PROVE FALSE
  BY <1>2, <1>7 DEF Deliver, TargetLive, TargetCreated, TargetFails, Seed, SeedFails
<1>8. ASSUME NEW r \in Sched, Dispatch(r) \/ Skip(r) PROVE FALSE
  BY <1>2, <1>8 DEF Dispatch, Skip
<1>9. ASSUME NEW r \in Sched, Pause(r) \/ Resume(r) \/ Remove(r) \/ FireNow(r) \/ Session(r) PROVE FALSE
  BY <1>2, <1>9 DEF Pause, Resume, Remove, FireNow, Session, SessionLive, SessionGone, TurnEnds
<1>10. ~(TickReadsClock \/ TickReadsRows \/ TickHasNothing \/ Minute \/ Restart \/ UNCHANGED vars)
  BY <1>2 DEF TickReadsClock, TickReadsRows, TickHasNothing, Minute, Restart, vars
<1> QED  BY <1>3, <1>4, <1>5, <1>6, <1>7, <1>8, <1>9, <1>10 DEF Next, Loop, Verb

LEMMA SkipStep ==
    ASSUME PhaseInv, [Next]_vars, NEW s \in rows, anchor'[s] > anchor[s], resuming' = resuming,
           Period[s] = 0 \/ s \notin overtaken, NEW w \in Fresh(s, anchor[s], anchor'[s])
    PROVE  \E f \in fires : f.sched = s /\ f.when # Manual /\ f.when >= w
<1>1. TypeOK /\ s \in Sched /\ anchor[s] \in Time
  BY DEF PhaseInv, TypeOK
<1>2. CASE Realign(s) /\ anchor'[s] = loop.at
  BY <1>1, <1>2, RealignSkipsStale
<1>3. ASSUME NEW f \in fires, Stamp(f), f.sched = s, anchor'[s] = f.when
      PROVE  f.when # Manual /\ f.when >= w
  <2>1. f.when \in Time
    BY <1>1 DEF TypeOK, Fire
  <2>2. w \in Time /\ w <= f.when
    BY <1>1, <1>3, <2>1, FreshMinutes
  <2> QED  BY <1>3, <2>1, <2>2, BoundAssumption DEF PhaseInv, StampsAWindow, Stamp, Time
<1> QED  BY <1>2, <1>3, RaisesAnchor

LEMMA PhaseInit == Init => PhaseInv
BY TypeInit DEF Init, PhaseInv, DeliveryInv, Shaped, OneDelivery, StampsAWindow, PhaseKept, InPhase, Idle

\* The cadence passes over no window the grace could still serve, unless an
\* operator restarts it: a delivery stamps its own window, and a tick realigns
\* from a copy that is old but counts the same windows (realign, dispatch and
\* stampFor of core/host/scheduler.go).
THEOREM CadenceSkipsOnlyStale == Spec => SkipsOnlyStale
<1>1. PhaseInv /\ [Next]_vars => PhaseInv'
  BY TypeKept, DeliveryKept, StampsAWindowKept, PhaseIsKept DEF PhaseInv
<1>2. PhaseInv /\ [Next]_vars
      => [\A s \in rows :
              /\ anchor'[s] > anchor[s] /\ resuming' = resuming
              /\ Period[s] = 0 \/ s \notin overtaken
              => \A w \in Fresh(s, anchor[s], anchor'[s]) :
                     \E f \in fires : f.sched = s /\ f.when # Manual /\ f.when >= w]_vars
  BY SkipStep
<1> QED  BY <1>1, <1>2, PhaseInit, PTL DEF Spec, SkipsOnlyStale

=============================================================================
