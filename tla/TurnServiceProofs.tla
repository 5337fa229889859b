---------------------------- MODULE TurnServiceProofs ----------------------------
(***************************************************************************)
(* TurnLoop implements TurnService: every step of a session's pump, link,  *)
(* bridge and callers is a step of the service, or changes nothing of it.  *)
(***************************************************************************)
EXTENDS TurnLoopProofs

\* How an item may have ended.
Ended == {"done", "abandoned", "refused", "dropped", "failed"}

\* The pump's item at each place of the pump: not yet begun, in a turn, ended,
\* or in a compaction, which is the item's own or follows its turn.
PumpItem ==
    /\ pc = "idle" => cur = None
    /\ pc \notin {"idle", "stopped"} => cur # None
    /\ pc = "enter" => outcome[cur] = "waiting"
    /\ pc \in {"prepare", "drain", "announce", "send", "await"} =>
           outcome[cur] = "waiting" /\ cur \notin Compact
    /\ pc = "settle" => outcome[cur] \in Ended /\ cur \notin Compact
    /\ pc \in {"compactSend", "compactAwait"} =>
           IF cur \in Compact THEN outcome[cur] = "waiting" ELSE outcome[cur] \in Ended
    /\ pc = "release" => outcome[cur] \in Ended

\* What is queued waits, is queued once, and is not the pump's.
QueueItems ==
    /\ cur # None => outcome[cur] # "new"
    /\ \A k \in 1..Len(queue) : outcome[queue[k]] = "waiting" /\ queue[k] # cur
    /\ \A j, k \in 1..Len(queue) : queue[j] = queue[k] => j = k

ServiceInv == TypeOK /\ OneTokenHolder /\ PumpItem /\ QueueItems

-----------------------------------------------------------------------------

LEMMA PumpItemKept == ServiceInv /\ [Next]_vars => PumpItem'
<1> SUFFICES ASSUME ServiceInv, [Next]_vars PROVE PumpItem'
  OBVIOUS
<1> USE ItemAssumption DEF ServiceInv, PumpItem, QueueItems, TypeOK, TypeDriver, PumpState, driver, Ended
<1>1. ASSUME NEW i \in Item, Submit(i) PROVE PumpItem'
  BY <1>1 DEF Submit, Enqueue, Item, Input
<1>2. ASSUME NEW w \in Waiter, WaitSend(w) PROVE PumpItem'
  BY <1>2 DEF WaitSend, Enqueue, Item, Input
<1>3. CASE ClaimTurn
  BY <1>3 DEF ClaimTurn
<1>4. CASE ReleaseClaim
  BY <1>4 DEF ReleaseClaim
<1>5. CASE Dequeue
  BY <1>5, QueueTyped DEF Dequeue, Item, Input
<1>6. CASE EnterTurn
  BY <1>6 DEF EnterTurn
<1>7. CASE PrepareTurn
  BY <1>7 DEF PrepareTurn
<1>8. CASE RefuseTurn
  BY <1>8 DEF RefuseTurn, Item, Input
<1>9. CASE DrainHangup
  BY <1>9 DEF DrainHangup
<1>10. CASE AnnounceLanguage
  BY <1>10 DEF AnnounceLanguage, TakenByConn
<1>11. CASE SendToBridge
  BY <1>11 DEF SendToBridge, TakenByConn
<1>12. CASE Abandon
  BY <1>12 DEF Abandon
<1>13. CASE Settle
  BY <1>13 DEF Settle
<1>14. ASSUME NEW g \in Conn, CompleteTurn(g) PROVE PumpItem'
  BY <1>14 DEF CompleteTurn, Deliver
<1>15. ASSUME NEW g \in Conn, CompactDone(g) PROVE PumpItem'
  BY <1>15 DEF CompactDone, Deliver, CompactVerdict
<1>16. CASE CompactSend
  BY <1>16 DEF CompactSend, TakenByConn
<1>17. CASE CompactFails
  BY <1>17 DEF CompactFails, CompactVerdict
<1>18. CASE ReleaseTurn
  BY <1>18 DEF ReleaseTurn
<1>19. CASE PumpStops
  BY <1>19 DEF PumpStops
<1>20. CASE ClaimCheck \/ EndSession \/ AcceptConn \/ ServeEnds \/ PostHangup \/ CloseConn \/
           BridgeDials \/ BridgeTakes
  BY <1>20 DEF ClaimCheck, EndSession, AcceptConn, ServeEnds, PostHangup, CloseConn, BridgeDials,
         BridgeTakes
<1>21. CASE BridgeBegins \/ BridgeInterrupted \/ BridgeAnswers \/ BridgeReturns \/ BridgeExits
           \/ BridgeDies
  BY <1>21 DEF BridgeBegins, BridgeInterrupted, BridgeAnswers, BridgeReturns, BridgeExits,
         BridgeDies, Gone
<1>22. CASE \E w \in Waiter : WaitRegister(w) \/ WaitTold(w) \/ WaitGivesUp(w)
  BY <1>22 DEF WaitRegister, WaitTold, WaitGivesUp
<1>23. CASE \E i \in Escaped : Interrupt(i) \/ InterruptTimesOut(i) \/ SendInterrupt(i)
  BY <1>23 DEF Interrupt, InterruptTimesOut, SendInterrupt, TakenByConn
<1>24. CASE \E g \in Conn : PassFrame(g) \/ ScanEnds(g)
  BY <1>24 DEF PassFrame, ScanEnds, Deliver
<1>25. CASE UNCHANGED vars
  BY <1>25 DEF vars
<1>26. QED
  BY <1>1, <1>2, <1>3, <1>4, <1>5, <1>6, <1>7, <1>8, <1>9, <1>10, <1>11, <1>12, <1>13,
     <1>14, <1>15, <1>16, <1>17, <1>18, <1>19, <1>20, <1>21, <1>22, <1>23, <1>24,
     <1>25
  DEF Next, Callers, Pump, Link, Bridge

LEMMA QueueItemsKept == ServiceInv /\ [Next]_vars => QueueItems'
<1> SUFFICES ASSUME ServiceInv, [Next]_vars PROVE QueueItems'
  OBVIOUS
<1> USE ItemAssumption DEF ServiceInv, PumpItem, QueueItems, TypeOK, TypeDriver, PumpState, driver, Ended
<1>1. ASSUME NEW i \in Item, Submit(i) PROVE QueueItems'
  BY <1>1 DEF Submit, Enqueue, Item, Input
<1>2. ASSUME NEW w \in Waiter, WaitSend(w) PROVE QueueItems'
  BY <1>2 DEF WaitSend, Enqueue, Item, Input
<1>3. CASE ClaimTurn
  BY <1>3 DEF ClaimTurn
<1>4. CASE ReleaseClaim
  BY <1>4 DEF ReleaseClaim
<1>5. CASE Dequeue
  <2>1. queue \in Seq(Item) /\ queue # <<>> /\ Len(queue) \in Nat \ {0}
    BY <1>5 DEF Dequeue
  <2>2. cur' = queue[1] /\ cur' \in Item
    BY <1>5, <2>1, QueueTyped DEF Dequeue
  <2>3. Len(queue') = Len(queue) - 1 /\ \A k \in 1..Len(queue') : queue'[k] = queue[k + 1]
    BY <1>5, <2>1 DEF Dequeue
  <2>4. outcome' = outcome /\ outcome[cur'] = "waiting"
    BY <1>5, <2>1, <2>2 DEF Dequeue
  <2>5. \A k \in 1..Len(queue') : outcome'[queue'[k]] = "waiting" /\ queue'[k] # cur'
    <3> SUFFICES ASSUME NEW k \in 1..Len(queue')
                 PROVE outcome'[queue'[k]] = "waiting" /\ queue'[k] # cur'
      OBVIOUS
    <3>1. k + 1 \in 1..Len(queue) /\ 1 \in 1..Len(queue) /\ k + 1 # 1
      BY <2>1, <2>3
    <3>2. QED
      BY <2>2, <2>3, <2>4, <3>1
  <2>6. \A j, k \in 1..Len(queue') : queue'[j] = queue'[k] => j = k
    <3> SUFFICES ASSUME NEW j \in 1..Len(queue'), NEW k \in 1..Len(queue'),
                        queue'[j] = queue'[k]
                 PROVE j = k
      OBVIOUS
    <3>1. j + 1 \in 1..Len(queue) /\ k + 1 \in 1..Len(queue)
      BY <2>1, <2>3
    <3>2. j + 1 = k + 1
      BY <2>3, <3>1
    <3>3. QED
      BY <2>1, <2>3, <3>2
  <2>7. QED
    BY <2>4, <2>5, <2>6
<1>6. CASE EnterTurn
  BY <1>6 DEF EnterTurn
<1>7. CASE PrepareTurn
  BY <1>7 DEF PrepareTurn
<1>8. CASE RefuseTurn
  BY <1>8 DEF RefuseTurn, Item, Input
<1>9. CASE DrainHangup
  BY <1>9 DEF DrainHangup
<1>10. CASE AnnounceLanguage
  BY <1>10 DEF AnnounceLanguage, TakenByConn
<1>11. CASE SendToBridge
  BY <1>11 DEF SendToBridge, TakenByConn
<1>12. CASE Abandon
  BY <1>12 DEF Abandon
<1>13. CASE Settle
  BY <1>13 DEF Settle
<1>14. ASSUME NEW g \in Conn, CompleteTurn(g) PROVE QueueItems'
  BY <1>14 DEF CompleteTurn, Deliver
<1>15. ASSUME NEW g \in Conn, CompactDone(g) PROVE QueueItems'
  BY <1>15 DEF CompactDone, Deliver, CompactVerdict
<1>16. CASE CompactSend
  BY <1>16 DEF CompactSend, TakenByConn
<1>17. CASE CompactFails
  BY <1>17 DEF CompactFails, CompactVerdict
<1>18. CASE ReleaseTurn
  BY <1>18 DEF ReleaseTurn
<1>19. CASE PumpStops
  BY <1>19 DEF PumpStops
<1>20. CASE ClaimCheck \/ EndSession \/ AcceptConn \/ ServeEnds \/ PostHangup \/ CloseConn \/
           BridgeDials \/ BridgeTakes
  BY <1>20 DEF ClaimCheck, EndSession, AcceptConn, ServeEnds, PostHangup, CloseConn, BridgeDials,
         BridgeTakes
<1>21. CASE BridgeBegins \/ BridgeInterrupted \/ BridgeAnswers \/ BridgeReturns \/ BridgeExits
           \/ BridgeDies
  BY <1>21 DEF BridgeBegins, BridgeInterrupted, BridgeAnswers, BridgeReturns, BridgeExits,
         BridgeDies, Gone
<1>22. CASE \E w \in Waiter : WaitRegister(w) \/ WaitTold(w) \/ WaitGivesUp(w)
  BY <1>22 DEF WaitRegister, WaitTold, WaitGivesUp
<1>23. CASE \E i \in Escaped : Interrupt(i) \/ InterruptTimesOut(i) \/ SendInterrupt(i)
  BY <1>23 DEF Interrupt, InterruptTimesOut, SendInterrupt, TakenByConn
<1>24. CASE \E g \in Conn : PassFrame(g) \/ ScanEnds(g)
  BY <1>24 DEF PassFrame, ScanEnds, Deliver
<1>25. CASE UNCHANGED vars
  BY <1>25 DEF vars
<1>26. QED
  BY <1>1, <1>2, <1>3, <1>4, <1>5, <1>6, <1>7, <1>8, <1>9, <1>10, <1>11, <1>12, <1>13,
     <1>14, <1>15, <1>16, <1>17, <1>18, <1>19, <1>20, <1>21, <1>22, <1>23, <1>24,
     <1>25
  DEF Next, Callers, Pump, Link, Bridge

LEMMA ServiceInvariant == Spec => []ServiceInv
<1>1. Init => ServiceInv
  BY TypeInit, TokenInit DEF ServiceInv, Init, PumpItem, QueueItems
<1>2. ServiceInv /\ [Next]_vars => ServiceInv'
  BY PumpItemKept, QueueItemsKept, TypeKept, TokenKept DEF ServiceInv
<1>3. QED
  BY <1>1, <1>2, PTL DEF Spec

\* Every step of the session is a step of the service, or a stutter.
LEMMA ServiceStep == ServiceInv /\ [Next]_vars => [Service!Next]_(Service!vars)
<1> SUFFICES ASSUME ServiceInv, [Next]_vars PROVE [Service!Next]_(Service!vars)
  OBVIOUS
<1> USE ItemAssumption DEF ServiceInv, PumpItem, TypeOK, TypeDriver, OneTokenHolder, InTurn, driver, Ended, Service!vars
<1>1. ASSUME NEW i \in Item, Submit(i) PROVE [Service!Next]_(Service!vars)
  BY <1>1 DEF Submit, Enqueue, Service!Accept, Service!Next, Item, Input
<1>2. ASSUME NEW w \in Waiter, WaitSend(w) PROVE [Service!Next]_(Service!vars)
  BY <1>2 DEF WaitSend, Enqueue, Service!Accept, Service!Next, Item, Input
<1>3. CASE ClaimTurn
  BY <1>3 DEF ClaimTurn, Service!Claim, Service!Next
<1>4. CASE ReleaseClaim
  BY <1>4 DEF ReleaseClaim, Service!Unclaim, Service!Next
<1>5. CASE Dequeue
  BY <1>5 DEF Dequeue, Service!Take, Service!Next
<1>6. CASE EnterTurn
  BY <1>6 DEF EnterTurn, Service!Begin, Service!Next
<1>7. CASE RefuseTurn
  BY <1>7 DEF RefuseTurn, Service!Refuse, Service!Next
<1>8. CASE Abandon
  BY <1>8 DEF Abandon, Service!Settle, Service!Verdict, Service!Next
<1>9. ASSUME NEW g \in Conn, CompleteTurn(g) PROVE [Service!Next]_(Service!vars)
  BY <1>9 DEF CompleteTurn, Deliver, Service!Settle, Service!Verdict, Service!Next
<1>10. ASSUME NEW g \in Conn, CompactDone(g) PROVE [Service!Next]_(Service!vars)
  BY <1>10 DEF CompactDone, Deliver, CompactVerdict, Service!Settle, Service!Verdict, Service!Next
<1>11. CASE CompactFails
  BY <1>11 DEF CompactFails, CompactVerdict, Service!Settle, Service!Verdict, Service!Next
<1>12. CASE ReleaseTurn
  BY <1>12 DEF ReleaseTurn, Service!Finish, Service!Next
<1>13. CASE ClaimCheck \/ EndSession \/ PrepareTurn \/ DrainHangup \/ AnnounceLanguage \/
           SendToBridge \/ Settle \/ CompactSend
  BY <1>13 DEF ClaimCheck, EndSession, PrepareTurn, DrainHangup, AnnounceLanguage, SendToBridge,
         Settle, CompactSend, TakenByConn
<1>14. CASE PumpStops \/ AcceptConn \/ ServeEnds \/ PostHangup \/ CloseConn \/ BridgeDials \/
           BridgeTakes \/ BridgeBegins
  BY <1>14 DEF PumpStops, AcceptConn, ServeEnds, PostHangup, CloseConn, BridgeDials, BridgeTakes,
         BridgeBegins
<1>15. CASE BridgeInterrupted \/ BridgeAnswers \/ BridgeReturns \/ BridgeExits \/ BridgeDies
  BY <1>15 DEF BridgeInterrupted, BridgeAnswers, BridgeReturns, BridgeExits, BridgeDies, Gone
<1>16. CASE \E w \in Waiter : WaitRegister(w) \/ WaitTold(w) \/ WaitGivesUp(w)
  BY <1>16 DEF WaitRegister, WaitTold, WaitGivesUp
<1>17. CASE \E i \in Escaped : Interrupt(i) \/ InterruptTimesOut(i) \/ SendInterrupt(i)
  BY <1>17 DEF Interrupt, InterruptTimesOut, SendInterrupt, TakenByConn
<1>18. CASE \E g \in Conn : PassFrame(g) \/ ScanEnds(g)
  BY <1>18 DEF PassFrame, ScanEnds, Deliver
<1>19. CASE UNCHANGED vars
  BY <1>19 DEF vars
<1>20. QED
  BY <1>1, <1>2, <1>3, <1>4, <1>5, <1>6, <1>7, <1>8, <1>9, <1>10, <1>11, <1>12, <1>13,
     <1>14, <1>15, <1>16, <1>17, <1>18, <1>19
  DEF Next, Callers, Pump, Link, Bridge

\* A session keeps the promises of the service it is: items are taken in the
\* order they were queued, run one at a time under the token, and each is
\* settled once, before the token is given back, whatever happens to bridges
\* and connections.
THEOREM SessionImplementsService == Spec => ServiceSpec
<1>1. Init => Service!Init
  BY DEF Init, Service!Init
<1>2. QED
  BY <1>1, ServiceStep, ServiceInvariant, PTL DEF Spec, ServiceSpec, Service!Spec

=============================================================================
