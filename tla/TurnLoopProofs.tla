---------------------------- MODULE TurnLoopProofs ----------------------------
(***************************************************************************)
(* Theorems about TurnLoop, for every number of items, waiters and         *)
(* connections and every capacity of the queue.                            *)
(***************************************************************************)
EXTENDS TurnLoop, TLAPS

-----------------------------------------------------------------------------
(* Type correctness, one lemma per group of variables.                     *)

\* What the program puts on the wire is a frame.
LEMMA FrameTypes ==
    /\ \A i \in Item \cup {None} : Frame("compact", i) \in FrameSet /\ Work(i) \in FrameSet
    /\ \A i \in Item \cup {None} : Frame("reply", i) \in FrameSet /\ Frame("result", i) \in FrameSet
    /\ \A i \in Escaped : Frame("interrupt", i) \in FrameSet
    /\ Frame("language", None) \in FrameSet /\ Idle \in FrameSet
BY ItemAssumption DEF Frame, Work, Idle, FrameSet, Item

\* The head of a stream that is not empty is a frame, and its tail a stream.
LEMMA StreamHead ==
    ASSUME NEW s \in Seq(FrameSet), s # <<>>
    PROVE Head(s) \in FrameSet /\ Tail(s) \in Seq(FrameSet)
OBVIOUS

\* A send and a receive keep the queue typed and within its capacity.
LEMMA QueueTyped ==
    ASSUME NEW q \in Seq(Item), Len(q) <= Capacity
    PROVE /\ q # <<>> => /\ Head(q) \in Item
                         /\ Tail(q) \in Seq(Item) /\ Len(Tail(q)) <= Capacity
          /\ \A i \in Item : Append(q, i) \in Seq(Item)
          /\ \A i \in Item : Len(q) < Capacity => Len(Append(q, i)) <= Capacity
BY BoundAssumption

\* A write keeps a stream a sequence of frames.
LEMMA StreamAppend ==
    ASSUME NEW s \in Seq(FrameSet), NEW f \in FrameSet
    PROVE Append(s, f) \in Seq(FrameSet)
OBVIOUS

\* A connection taken from the backlog is one that dialled.
LEMMA BacklogHead ==
    ASSUME NEW s \in Seq(Conn), s # <<>>
    PROVE Head(s) \in Conn /\ Head(s) # 0 /\ Tail(s) \in Seq(Conn)
<1>1. Head(s) \in Conn /\ Tail(s) \in Seq(Conn)
  OBVIOUS
<1>2. QED
  BY <1>1, BoundAssumption DEF Conn

\* A frame names an item or none.
LEMMA FrameItem == ASSUME NEW f \in FrameSet PROVE f.item \in Item \cup {None}
BY DEF FrameSet

\* serveConn's receive keeps the types of the connection's variables.
LEMMA TakenTyped ==
    ASSUME TypeLink, NEW f \in FrameSet, TakenByConn(f)
    PROVE down' \in [Conn -> Seq(FrameSet)] /\ phase' \in {"exit", "serve"}
<1>1. phase = "serve" /\ serving \in Conn
  BY DEF TypeLink, TakenByConn
<1>2. Append(down[serving], f) \in Seq(FrameSet)
  BY <1>1, StreamAppend DEF TypeLink
<1>3. down' = down \/ down' = [down EXCEPT ![serving] = Append(down[serving], f)]
  BY DEF TakenByConn
<1>4. down' \in [Conn -> Seq(FrameSet)]
  BY <1>1, <1>2, <1>3 DEF TypeLink
<1>5. phase' \in {"exit", "serve"}
  BY <1>1 DEF TakenByConn
<1>6. QED
  BY <1>4, <1>5

LEMMA DriverTyped == TypeOK /\ [Next]_vars => TypeDriver'
<1> SUFFICES ASSUME TypeOK, [Next]_vars PROVE TypeDriver'
  OBVIOUS
<1> USE DEF TypeOK, TypeDriver, PumpState, driver
<1>1. TypeDriver'
  <2>1. ASSUME NEW i \in Item, Submit(i) PROVE TypeDriver'
    BY <2>1, QueueTyped DEF Submit, Enqueue, Item, Input
  <2>2. ASSUME NEW w \in Waiter, WaitSend(w) PROVE TypeDriver'
    BY <2>2, QueueTyped DEF WaitSend, Enqueue, Item, Input
  <2>3. CASE ClaimTurn
    BY <2>3 DEF ClaimTurn
  <2>4. CASE ReleaseClaim
    BY <2>4 DEF ReleaseClaim
  <2>5. CASE Dequeue
    BY <2>5, QueueTyped DEF Dequeue
  <2>6. CASE EnterTurn
    BY <2>6 DEF EnterTurn
  <2>7. CASE PrepareTurn
    BY <2>7 DEF PrepareTurn
  <2>8. CASE RefuseTurn
    BY <2>8 DEF RefuseTurn
  <2>9. CASE DrainHangup
    BY <2>9 DEF DrainHangup
  <2>10. CASE AnnounceLanguage
    BY <2>10 DEF AnnounceLanguage, TakenByConn
  <2>11. CASE SendToBridge
    BY <2>11 DEF SendToBridge, TakenByConn, TypeLink
  <2>12. CASE Abandon
    BY <2>12 DEF Abandon
  <2>13. CASE Settle
    BY <2>13 DEF Settle
  <2>14. ASSUME NEW g \in Conn, CompleteTurn(g) PROVE TypeDriver'
    BY <2>14, StreamHead, FrameItem DEF CompleteTurn, Deliver, TypeLink
  <2>15. ASSUME NEW g \in Conn, CompactDone(g) PROVE TypeDriver'
    BY <2>15, StreamHead, FrameItem DEF CompactDone, Deliver, CompactVerdict, TypeLink
  <2>16. CASE CompactSend
    BY <2>16 DEF CompactSend, TakenByConn, TypeLink
  <2>17. CASE CompactFails
    BY <2>17 DEF CompactFails, CompactVerdict
  <2>18. CASE ReleaseTurn
    BY <2>18 DEF ReleaseTurn
  <2>19. CASE PumpStops
    BY <2>19 DEF PumpStops
  <2>20. CASE ClaimCheck \/ EndSession \/ AcceptConn \/ ServeEnds \/ PostHangup \/ CloseConn \/
             BridgeDials \/ BridgeTakes
    BY <2>20 DEF ClaimCheck, EndSession, AcceptConn, ServeEnds, PostHangup, CloseConn, BridgeDials,
           BridgeTakes
  <2>21. CASE BridgeBegins \/ BridgeInterrupted \/ BridgeAnswers \/ BridgeReturns \/ BridgeExits
             \/ BridgeDies
    BY <2>21 DEF BridgeBegins, BridgeInterrupted, BridgeAnswers, BridgeReturns, BridgeExits,
           BridgeDies, Gone
  <2>22. CASE \E w \in Waiter : WaitRegister(w) \/ WaitTold(w) \/ WaitGivesUp(w)
    BY <2>22 DEF WaitRegister, WaitTold, WaitGivesUp
  <2>23. CASE \E i \in Escaped : Interrupt(i) \/ InterruptTimesOut(i) \/ SendInterrupt(i)
    BY <2>23 DEF Interrupt, InterruptTimesOut, SendInterrupt, TakenByConn
  <2>24. CASE \E g \in Conn : PassFrame(g) \/ ScanEnds(g)
    BY <2>24 DEF PassFrame, ScanEnds, Deliver
  <2>25. CASE UNCHANGED vars
    BY <2>25 DEF vars
  <2>26. QED
    BY <2>1, <2>2, <2>3, <2>4, <2>5, <2>6, <2>7, <2>8, <2>9, <2>10, <2>11, <2>12, <2>13,
       <2>14, <2>15, <2>16, <2>17, <2>18, <2>19, <2>20, <2>21, <2>22, <2>23, <2>24,
       <2>25
    DEF Next, Callers, Pump, Link, Bridge
<1>2. QED
  BY <1>1

LEMMA LinkTyped == TypeOK /\ [Next]_vars => TypeLink'
<1> SUFFICES ASSUME TypeOK, [Next]_vars PROVE TypeLink'
  OBVIOUS
<1> USE DEF TypeOK, TypeLink, link
<1>1. TypeLink'
  <2>1. CASE DrainHangup
    BY <2>1 DEF DrainHangup
  <2>2. CASE AnnounceLanguage
    BY <2>2, FrameTypes, TakenTyped DEF AnnounceLanguage, TakenByConn
  <2>3. CASE SendToBridge
    BY <2>3, FrameTypes, TakenTyped DEF SendToBridge, TakenByConn, TypeDriver
  <2>4. CASE Abandon
    BY <2>4 DEF Abandon
  <2>5. ASSUME NEW g \in Conn, CompleteTurn(g) PROVE TypeLink'
    BY <2>5, StreamHead DEF CompleteTurn, Deliver
  <2>6. ASSUME NEW g \in Conn, PassFrame(g) PROVE TypeLink'
    BY <2>6, StreamHead DEF PassFrame, Deliver
  <2>7. ASSUME NEW g \in Conn, CompactDone(g) PROVE TypeLink'
    BY <2>7, StreamHead DEF CompactDone, Deliver, CompactVerdict
  <2>8. CASE CompactSend
    BY <2>8, FrameTypes, TakenTyped DEF CompactSend, TakenByConn, TypeDriver
  <2>9. CASE CompactFails
    BY <2>9 DEF CompactFails, CompactVerdict
  <2>10. CASE AcceptConn
    BY <2>10, BacklogHead DEF AcceptConn
  <2>11. CASE ServeEnds
    BY <2>11 DEF ServeEnds
  <2>12. CASE PostHangup
    BY <2>12 DEF PostHangup
  <2>13. CASE CloseConn
    BY <2>13 DEF CloseConn
  <2>14. ASSUME NEW i \in Escaped, SendInterrupt(i) PROVE TypeLink'
    BY <2>14, FrameTypes, TakenTyped DEF SendInterrupt, TakenByConn
  <2>15. ASSUME NEW g \in Conn, ScanEnds(g) PROVE TypeLink'
    BY <2>15 DEF ScanEnds
  <2>16. CASE BridgeDials
    BY <2>16, BoundAssumption DEF BridgeDials, TypeBridge, Conn
  <2>17. CASE BridgeTakes
    BY <2>17, StreamHead DEF BridgeTakes, TypeBridge
  <2>18. CASE BridgeInterrupted
    BY <2>18, StreamHead DEF BridgeInterrupted, TypeBridge
  <2>19. CASE BridgeAnswers
    BY <2>19, FrameTypes, FrameItem, StreamAppend DEF BridgeAnswers, TypeBridge
  <2>20. CASE BridgeDies
    BY <2>20 DEF BridgeDies, Gone, TypeBridge
  <2>21. CASE ClaimCheck \/ ClaimTurn \/ ReleaseClaim \/ EndSession \/ Dequeue \/ EnterTurn \/
             PrepareTurn \/ RefuseTurn
    BY <2>21 DEF ClaimCheck, ClaimTurn, ReleaseClaim, EndSession, Dequeue, EnterTurn, PrepareTurn,
           RefuseTurn
  <2>22. CASE Settle \/ ReleaseTurn \/ PumpStops \/ BridgeBegins \/ BridgeReturns \/ BridgeExits
    BY <2>22 DEF Settle, ReleaseTurn, PumpStops, BridgeBegins, BridgeReturns, BridgeExits, Gone
  <2>23. CASE \E i \in Item : Submit(i)
    BY <2>23 DEF Submit, Enqueue
  <2>24. CASE \E w \in Waiter : WaitRegister(w) \/ WaitSend(w) \/ WaitTold(w) \/ WaitGivesUp(w)
    BY <2>24 DEF WaitRegister, WaitSend, WaitTold, WaitGivesUp, Enqueue
  <2>25. CASE \E i \in Escaped : Interrupt(i) \/ InterruptTimesOut(i)
    BY <2>25 DEF Interrupt, InterruptTimesOut
  <2>26. CASE UNCHANGED vars
    BY <2>26 DEF vars
  <2>27. QED
    BY <2>1, <2>2, <2>3, <2>4, <2>5, <2>6, <2>7, <2>8, <2>9, <2>10, <2>11, <2>12, <2>13,
       <2>14, <2>15, <2>16, <2>17, <2>18, <2>19, <2>20, <2>21, <2>22, <2>23, <2>24,
       <2>25, <2>26
    DEF Next, Callers, Pump, Link, Bridge
<1>2. QED
  BY <1>1

LEMMA BridgeTyped == TypeOK /\ [Next]_vars => TypeBridge'
<1> SUFFICES ASSUME TypeOK, [Next]_vars PROVE TypeBridge'
  OBVIOUS
<1> USE DEF TypeOK, TypeBridge, bridge
<1>1. TypeBridge'
  <2>1. CASE BridgeDials
    BY <2>1, BoundAssumption DEF BridgeDials, Conn
  <2>2. CASE BridgeTakes
    BY <2>2, StreamHead, FrameTypes DEF BridgeTakes, TypeLink
  <2>3. CASE BridgeBegins
    BY <2>3 DEF BridgeBegins
  <2>4. CASE BridgeAnswers
    BY <2>4, FrameTypes DEF BridgeAnswers
  <2>5. CASE BridgeReturns
    BY <2>5, FrameTypes DEF BridgeReturns
  <2>6. CASE BridgeExits
    BY <2>6, FrameTypes DEF BridgeExits, Gone
  <2>7. CASE BridgeDies
    BY <2>7, FrameTypes DEF BridgeDies, Gone
  <2>8. CASE ClaimCheck \/ ClaimTurn \/ ReleaseClaim \/ EndSession \/ Dequeue \/ EnterTurn \/
             PrepareTurn \/ RefuseTurn
    BY <2>8 DEF ClaimCheck, ClaimTurn, ReleaseClaim, EndSession, Dequeue, EnterTurn, PrepareTurn,
           RefuseTurn
  <2>9. CASE DrainHangup \/ AnnounceLanguage \/ SendToBridge \/ Abandon \/ Settle \/ CompactSend
             \/ CompactFails \/ ReleaseTurn
    BY <2>9 DEF DrainHangup, AnnounceLanguage, SendToBridge, Abandon, Settle, CompactSend,
           CompactFails, ReleaseTurn, CompactVerdict, TakenByConn
  <2>10. CASE PumpStops \/ AcceptConn \/ ServeEnds \/ PostHangup \/ CloseConn \/ BridgeInterrupted
    BY <2>10 DEF PumpStops, AcceptConn, ServeEnds, PostHangup, CloseConn, BridgeInterrupted
  <2>11. CASE \E i \in Item : Submit(i)
    BY <2>11 DEF Submit, Enqueue
  <2>12. CASE \E w \in Waiter : WaitRegister(w) \/ WaitSend(w) \/ WaitTold(w) \/ WaitGivesUp(w)
    BY <2>12 DEF WaitRegister, WaitSend, WaitTold, WaitGivesUp, Enqueue
  <2>13. CASE \E i \in Escaped : Interrupt(i) \/ InterruptTimesOut(i) \/ SendInterrupt(i)
    BY <2>13 DEF Interrupt, InterruptTimesOut, SendInterrupt, TakenByConn
  <2>14. CASE \E g \in Conn : CompleteTurn(g) \/ PassFrame(g) \/ CompactDone(g) \/ ScanEnds(g)
    BY <2>14 DEF CompleteTurn, PassFrame, CompactDone, ScanEnds, CompactVerdict, Deliver
  <2>15. CASE UNCHANGED vars
    BY <2>15 DEF vars
  <2>16. QED
    BY <2>1, <2>2, <2>3, <2>4, <2>5, <2>6, <2>7, <2>8, <2>9, <2>10, <2>11, <2>12, <2>13,
       <2>14, <2>15
    DEF Next, Callers, Pump, Link, Bridge
<1>2. QED
  BY <1>1

LEMMA CallersTyped == TypeOK /\ [Next]_vars => TypeCallers'
<1> SUFFICES ASSUME TypeOK, [Next]_vars PROVE TypeCallers'
  OBVIOUS
<1> USE DEF TypeOK, TypeCallers, callers
<1>1. TypeCallers'
  <2>1. ASSUME NEW w \in Waiter, WaitRegister(w) PROVE TypeCallers'
    BY <2>1 DEF WaitRegister
  <2>2. ASSUME NEW w \in Waiter, WaitSend(w) PROVE TypeCallers'
    BY <2>2 DEF WaitSend, Enqueue
  <2>3. ASSUME NEW w \in Waiter, WaitTold(w) PROVE TypeCallers'
    BY <2>3 DEF WaitTold
  <2>4. ASSUME NEW w \in Waiter, WaitGivesUp(w) PROVE TypeCallers'
    BY <2>4 DEF WaitGivesUp
  <2>5. ASSUME NEW i \in Escaped, Interrupt(i) PROVE TypeCallers'
    BY <2>5 DEF Interrupt
  <2>6. ASSUME NEW i \in Escaped, InterruptTimesOut(i) PROVE TypeCallers'
    BY <2>6 DEF InterruptTimesOut
  <2>7. CASE ClaimCheck
    BY <2>7 DEF ClaimCheck
  <2>8. CASE ClaimTurn
    BY <2>8 DEF ClaimTurn
  <2>9. CASE ReleaseClaim
    BY <2>9 DEF ReleaseClaim
  <2>10. CASE EndSession
    BY <2>10 DEF EndSession
  <2>11. ASSUME NEW g \in Conn, CompleteTurn(g) PROVE TypeCallers'
    BY <2>11, StreamHead, FrameItem DEF CompleteTurn, Deliver, TypeLink
  <2>12. ASSUME NEW i \in Escaped, SendInterrupt(i) PROVE TypeCallers'
    BY <2>12 DEF SendInterrupt, TakenByConn
  <2>13. CASE BridgeInterrupted
    BY <2>13 DEF BridgeInterrupted
  <2>14. CASE Dequeue \/ EnterTurn \/ PrepareTurn \/ RefuseTurn \/ DrainHangup \/ AnnounceLanguage
             \/ SendToBridge \/ Abandon
    BY <2>14 DEF Dequeue, EnterTurn, PrepareTurn, RefuseTurn, DrainHangup, AnnounceLanguage,
           SendToBridge, Abandon, TakenByConn
  <2>15. CASE Settle \/ CompactSend \/ CompactFails \/ ReleaseTurn \/ PumpStops \/ AcceptConn \/
             ServeEnds \/ PostHangup
    BY <2>15 DEF Settle, CompactSend, CompactFails, ReleaseTurn, PumpStops, AcceptConn, ServeEnds,
           PostHangup, CompactVerdict, TakenByConn
  <2>16. CASE CloseConn \/ BridgeDials \/ BridgeTakes \/ BridgeBegins \/ BridgeAnswers \/
             BridgeReturns \/ BridgeExits \/ BridgeDies
    BY <2>16 DEF CloseConn, BridgeDials, BridgeTakes, BridgeBegins, BridgeAnswers, BridgeReturns,
           BridgeExits, BridgeDies, Gone
  <2>17. CASE \E i \in Item : Submit(i)
    BY <2>17 DEF Submit, Enqueue
  <2>18. CASE \E g \in Conn : PassFrame(g) \/ CompactDone(g) \/ ScanEnds(g)
    BY <2>18 DEF PassFrame, CompactDone, ScanEnds, CompactVerdict, Deliver
  <2>19. CASE UNCHANGED vars
    BY <2>19 DEF vars
  <2>20. QED
    BY <2>1, <2>2, <2>3, <2>4, <2>5, <2>6, <2>7, <2>8, <2>9, <2>10, <2>11, <2>12, <2>13,
       <2>14, <2>15, <2>16, <2>17, <2>18, <2>19
    DEF Next, Callers, Pump, Link, Bridge
<1>2. QED
  BY <1>1

LEMMA TypeInit == Init => TypeOK
<1> SUFFICES ASSUME Init PROVE TypeOK
  OBVIOUS
<1> USE DEF Init
<1>1. TypeDriver
  BY BoundAssumption DEF TypeDriver, PumpState
<1>2. TypeLink
  <2>1. <<>> \in Seq(Conn) /\ <<>> \in Seq(FrameSet)
    OBVIOUS
  <2>2. down \in [Conn -> Seq(FrameSet)] /\ up \in [Conn -> Seq(FrameSet)]
    BY <2>1
  <2>3. QED
    BY <2>1, <2>2 DEF TypeLink
<1>3. TypeBridge
  BY FrameTypes DEF TypeBridge
<1>4. TypeCallers
  BY DEF TypeCallers
<1>5. QED
  BY <1>1, <1>2, <1>3, <1>4 DEF TypeOK

LEMMA TypeKept == TypeOK /\ [Next]_vars => TypeOK'
BY DriverTyped, LinkTyped, BridgeTyped, CallersTyped DEF TypeOK

\* Every variable of the session keeps its type: the queue within its
\* capacity, the streams of the connection made of frames.
THEOREM TypeCorrect == Spec => []TypeOK
BY TypeInit, TypeKept, PTL DEF Spec

-----------------------------------------------------------------------------
(* Safety.                                                                 *)

LEMMA HangupKept == TypeOK /\ DeadConnWakesPump /\ [Next]_vars => DeadConnWakesPump'
<1> SUFFICES ASSUME TypeOK, DeadConnWakesPump, [Next]_vars PROVE DeadConnWakesPump'
  OBVIOUS
<1> USE DEF DeadConnWakesPump, Awaiting, driver, link
<1>1. CASE Dequeue
  BY <1>1 DEF Dequeue
<1>2. CASE EnterTurn
  BY <1>2 DEF EnterTurn
<1>3. CASE PrepareTurn
  BY <1>3 DEF PrepareTurn
<1>4. CASE RefuseTurn
  BY <1>4 DEF RefuseTurn
<1>5. CASE DrainHangup
  BY <1>5 DEF DrainHangup
<1>6. CASE AnnounceLanguage
  BY <1>6 DEF AnnounceLanguage, TakenByConn
<1>7. CASE SendToBridge
  BY <1>7 DEF SendToBridge, TakenByConn, TypeOK, TypeLink
<1>8. CASE Abandon
  BY <1>8 DEF Abandon
<1>9. CASE Settle
  BY <1>9 DEF Settle
<1>10. ASSUME NEW g \in Conn, CompleteTurn(g) PROVE DeadConnWakesPump'
  BY <1>10 DEF CompleteTurn, Deliver
<1>11. ASSUME NEW g \in Conn, CompactDone(g) PROVE DeadConnWakesPump'
  BY <1>11 DEF CompactDone, Deliver, CompactVerdict
<1>12. CASE CompactSend
  BY <1>12 DEF CompactSend, TakenByConn, TypeOK, TypeLink
<1>13. CASE CompactFails
  BY <1>13 DEF CompactFails, CompactVerdict
<1>14. CASE ReleaseTurn
  BY <1>14 DEF ReleaseTurn
<1>15. CASE PumpStops
  BY <1>15 DEF PumpStops
<1>16. CASE AcceptConn
  BY <1>16 DEF AcceptConn, TypeOK, TypeLink
<1>17. CASE ServeEnds
  BY <1>17 DEF ServeEnds
<1>18. CASE PostHangup
  BY <1>18 DEF PostHangup
<1>19. CASE CloseConn
  BY <1>19 DEF CloseConn
<1>20. ASSUME NEW i \in Escaped, SendInterrupt(i) PROVE DeadConnWakesPump'
  BY <1>20 DEF SendInterrupt, TakenByConn
<1>21. CASE ClaimCheck \/ ClaimTurn \/ ReleaseClaim \/ EndSession \/ BridgeDials \/ BridgeTakes
           \/ BridgeBegins \/ BridgeInterrupted
  BY <1>21 DEF ClaimCheck, ClaimTurn, ReleaseClaim, EndSession, BridgeDials, BridgeTakes,
         BridgeBegins, BridgeInterrupted
<1>22. CASE BridgeAnswers \/ BridgeReturns \/ BridgeExits \/ BridgeDies
  BY <1>22 DEF BridgeAnswers, BridgeReturns, BridgeExits, BridgeDies, Gone
<1>23. CASE \E i \in Item : Submit(i)
  BY <1>23 DEF Submit, Enqueue
<1>24. CASE \E w \in Waiter : WaitRegister(w) \/ WaitSend(w) \/ WaitTold(w) \/ WaitGivesUp(w)
  BY <1>24 DEF WaitRegister, WaitSend, WaitTold, WaitGivesUp, Enqueue
<1>25. CASE \E i \in Escaped : Interrupt(i) \/ InterruptTimesOut(i)
  BY <1>25 DEF Interrupt, InterruptTimesOut
<1>26. CASE \E g \in Conn : PassFrame(g) \/ ScanEnds(g)
  BY <1>26 DEF PassFrame, ScanEnds, Deliver
<1>27. CASE UNCHANGED vars
  BY <1>27 DEF vars
<1>28. QED
  BY <1>1, <1>2, <1>3, <1>4, <1>5, <1>6, <1>7, <1>8, <1>9, <1>10, <1>11, <1>12, <1>13,
     <1>14, <1>15, <1>16, <1>17, <1>18, <1>19, <1>20, <1>21, <1>22, <1>23, <1>24,
     <1>25, <1>26, <1>27
  DEF Next, Callers, Pump, Link, Bridge

\* A pump that awaits an answer is never left on a dead connection without a
\* hangup to wake it: the drain in runTurn loses none that matters.
THEOREM HangupNeverLost == Spec => []DeadConnWakesPump
<1>1. Init => DeadConnWakesPump
  BY DEF Init, DeadConnWakesPump, Awaiting
<1>2. QED
  BY <1>1, HangupKept, TypeCorrect, PTL DEF Spec

LEMMA TokenKept == TypeOK /\ OneTokenHolder /\ [Next]_vars => OneTokenHolder'
<1> SUFFICES ASSUME TypeOK, OneTokenHolder, [Next]_vars PROVE OneTokenHolder'
  OBVIOUS
<1> USE DEF OneTokenHolder, InTurn, driver
<1>1. CASE ClaimCheck
  BY <1>1 DEF ClaimCheck
<1>2. CASE ClaimTurn
  BY <1>2 DEF ClaimTurn
<1>3. CASE ReleaseClaim
  BY <1>3 DEF ReleaseClaim
<1>4. CASE Dequeue
  BY <1>4 DEF Dequeue
<1>5. CASE EnterTurn
  BY <1>5 DEF EnterTurn
<1>6. CASE PrepareTurn
  BY <1>6 DEF PrepareTurn
<1>7. CASE RefuseTurn
  BY <1>7 DEF RefuseTurn
<1>8. CASE DrainHangup
  BY <1>8 DEF DrainHangup
<1>9. CASE AnnounceLanguage
  BY <1>9 DEF AnnounceLanguage, TakenByConn
<1>10. CASE SendToBridge
  BY <1>10 DEF SendToBridge, TakenByConn
<1>11. CASE Abandon
  BY <1>11 DEF Abandon
<1>12. CASE Settle
  BY <1>12 DEF Settle
<1>13. ASSUME NEW g \in Conn, CompleteTurn(g) PROVE OneTokenHolder'
  BY <1>13 DEF CompleteTurn, Deliver
<1>14. ASSUME NEW g \in Conn, CompactDone(g) PROVE OneTokenHolder'
  BY <1>14 DEF CompactDone, Deliver, CompactVerdict
<1>15. CASE CompactSend
  BY <1>15 DEF CompactSend, TakenByConn
<1>16. CASE CompactFails
  BY <1>16 DEF CompactFails, CompactVerdict
<1>17. CASE ReleaseTurn
  BY <1>17 DEF ReleaseTurn
<1>18. CASE PumpStops
  BY <1>18 DEF PumpStops
<1>19. CASE EndSession \/ AcceptConn \/ ServeEnds \/ PostHangup \/ CloseConn \/ BridgeDials \/
           BridgeTakes \/ BridgeBegins
  BY <1>19 DEF EndSession, AcceptConn, ServeEnds, PostHangup, CloseConn, BridgeDials, BridgeTakes,
         BridgeBegins
<1>20. CASE BridgeInterrupted \/ BridgeAnswers \/ BridgeReturns \/ BridgeExits \/ BridgeDies
  BY <1>20 DEF BridgeInterrupted, BridgeAnswers, BridgeReturns, BridgeExits, BridgeDies, Gone
<1>21. CASE \E i \in Item : Submit(i)
  BY <1>21 DEF Submit, Enqueue
<1>22. CASE \E w \in Waiter : WaitRegister(w) \/ WaitSend(w) \/ WaitTold(w) \/ WaitGivesUp(w)
  BY <1>22 DEF WaitRegister, WaitSend, WaitTold, WaitGivesUp, Enqueue
<1>23. CASE \E i \in Escaped : Interrupt(i) \/ InterruptTimesOut(i) \/ SendInterrupt(i)
  BY <1>23 DEF Interrupt, InterruptTimesOut, SendInterrupt, TakenByConn
<1>24. CASE \E g \in Conn : PassFrame(g) \/ ScanEnds(g)
  BY <1>24 DEF PassFrame, ScanEnds, Deliver
<1>25. CASE UNCHANGED vars
  BY <1>25 DEF vars
<1>26. QED
  BY <1>1, <1>2, <1>3, <1>4, <1>5, <1>6, <1>7, <1>8, <1>9, <1>10, <1>11, <1>12, <1>13,
     <1>14, <1>15, <1>16, <1>17, <1>18, <1>19, <1>20, <1>21, <1>22, <1>23, <1>24,
     <1>25
  DEF Next, Callers, Pump, Link, Bridge

LEMMA TokenInit == Init => OneTokenHolder
BY DEF Init, OneTokenHolder, InTurn

\* The turn token is held by the pump exactly while it is in a turn and by a
\* rewind exactly while it claims the session.
THEOREM TokenExclusive == Spec => []OneTokenHolder
BY TokenInit, TokenKept, TypeCorrect, PTL DEF Spec

\* PendingReplyHasRoom is not inductive: a waiter that registers must find its
\* channel empty.
ReplyInv ==
    /\ PendingReplyHasRoom
    /\ \A w \in Waiter : wpc[w] = "new" => box[w] = None

LEMMA RoomKept == TypeOK /\ ReplyInv /\ [Next]_vars => ReplyInv'
<1> SUFFICES ASSUME TypeOK, ReplyInv, [Next]_vars PROVE ReplyInv'
  OBVIOUS
<1> USE DEF ReplyInv, PendingReplyHasRoom, callers, TypeOK, TypeCallers
<1>1. ASSUME NEW w \in Waiter, WaitRegister(w) PROVE ReplyInv'
  BY <1>1, ItemAssumption DEF WaitRegister, Item, Input
<1>2. ASSUME NEW w \in Waiter, WaitSend(w) PROVE ReplyInv'
  BY <1>2, ItemAssumption DEF WaitSend, Enqueue, Item, Input
<1>3. ASSUME NEW w \in Waiter, WaitTold(w) PROVE ReplyInv'
  BY <1>3, ItemAssumption DEF WaitTold, Item, Input
<1>4. ASSUME NEW w \in Waiter, WaitGivesUp(w) PROVE ReplyInv'
  BY <1>4 DEF WaitGivesUp
<1>5. ASSUME NEW g \in Conn, CompleteTurn(g) PROVE ReplyInv'
  BY <1>5, ItemAssumption DEF CompleteTurn, Deliver, Item, Input
<1>6. CASE ClaimCheck \/ ClaimTurn \/ ReleaseClaim \/ EndSession \/ Dequeue \/ EnterTurn \/
           PrepareTurn \/ RefuseTurn
  BY <1>6 DEF ClaimCheck, ClaimTurn, ReleaseClaim, EndSession, Dequeue, EnterTurn, PrepareTurn,
         RefuseTurn
<1>7. CASE DrainHangup \/ AnnounceLanguage \/ SendToBridge \/ Abandon \/ Settle \/ CompactSend
           \/ CompactFails \/ ReleaseTurn
  BY <1>7 DEF DrainHangup, AnnounceLanguage, SendToBridge, Abandon, Settle, CompactSend,
         CompactFails, ReleaseTurn, CompactVerdict, TakenByConn
<1>8. CASE PumpStops \/ AcceptConn \/ ServeEnds \/ PostHangup \/ CloseConn \/ BridgeDials \/
           BridgeTakes \/ BridgeBegins
  BY <1>8 DEF PumpStops, AcceptConn, ServeEnds, PostHangup, CloseConn, BridgeDials, BridgeTakes,
         BridgeBegins
<1>9. CASE BridgeInterrupted \/ BridgeAnswers \/ BridgeReturns \/ BridgeExits \/ BridgeDies
  BY <1>9 DEF BridgeInterrupted, BridgeAnswers, BridgeReturns, BridgeExits, BridgeDies, Gone
<1>10. CASE \E i \in Item : Submit(i)
  BY <1>10 DEF Submit, Enqueue
<1>11. CASE \E i \in Escaped : Interrupt(i) \/ InterruptTimesOut(i) \/ SendInterrupt(i)
  BY <1>11 DEF Interrupt, InterruptTimesOut, SendInterrupt, TakenByConn
<1>12. CASE \E g \in Conn : PassFrame(g) \/ CompactDone(g) \/ ScanEnds(g)
  BY <1>12 DEF PassFrame, CompactDone, ScanEnds, CompactVerdict, Deliver
<1>13. CASE UNCHANGED vars
  BY <1>13 DEF vars
<1>14. QED
  BY <1>1, <1>2, <1>3, <1>4, <1>5, <1>6, <1>7, <1>8, <1>9, <1>10, <1>11, <1>12, <1>13
  DEF Next, Callers, Pump, Link, Bridge

\* deliverPendingReply always finds room in the channel it sends on, which it
\* does while it holds seenMu.
THEOREM ReplyNeverBlocks == Spec => []PendingReplyHasRoom
<1>1. Init => ReplyInv
  BY DEF Init, ReplyInv, PendingReplyHasRoom
<1>2. ReplyInv => PendingReplyHasRoom
  BY DEF ReplyInv
<1>3. QED
  BY <1>1, <1>2, RoomKept, TypeCorrect, PTL DEF Spec


-----------------------------------------------------------------------------
(* One event at a time.                                                    *)

\* The members of a stream after a write and before a read.
LEMMA Members ==
    ASSUME NEW S, NEW c \in Seq(S)
    PROVE /\ \A x : Range(Append(c, x)) = Range(c) \cup {x}
          /\ c # <<>> => Range(c) = {Head(c)} \cup Range(Tail(c))
          /\ Range(c) \subseteq S
<1>1. ASSUME NEW x PROVE Range(Append(c, x)) = Range(c) \cup {x}
  <2>1. DOMAIN Append(c, x) = 1..(Len(c) + 1) /\ DOMAIN c = 1..Len(c) /\ Len(c) \in Nat
    OBVIOUS
  <2>2. \A j \in 1..Len(c) : Append(c, x)[j] = c[j]
    OBVIOUS
  <2>3. Append(c, x)[Len(c) + 1] = x
    OBVIOUS
  <2>4. Range(Append(c, x)) \subseteq Range(c) \cup {x}
    BY <2>1, <2>2, <2>3 DEF Range
  <2>5. \A y \in Range(c) : y \in Range(Append(c, x))
    BY <2>1, <2>2 DEF Range
  <2>6. x \in Range(Append(c, x))
    BY <2>1, <2>3 DEF Range
  <2>7. QED
    BY <2>4, <2>5, <2>6
<1>2. ASSUME c # <<>> PROVE Range(c) = {Head(c)} \cup Range(Tail(c))
  <2>1. /\ DOMAIN Tail(c) = 1..(Len(c) - 1) /\ DOMAIN c = 1..Len(c)
        /\ Len(c) \in Nat /\ Len(c) >= 1 /\ Head(c) = c[1]
    BY <1>2
  <2>2. \A j \in 1..(Len(c) - 1) : Tail(c)[j] = c[j + 1]
    BY <1>2
  <2>3. \A y \in Range(Tail(c)) : y \in Range(c)
    <3>1. ASSUME NEW j \in 1..(Len(c) - 1) PROVE Tail(c)[j] \in Range(c)
      <4>1. j + 1 \in DOMAIN c /\ Tail(c)[j] = c[j + 1]
        BY <2>1, <2>2
      <4>2. QED
        BY <4>1 DEF Range
    <3>2. QED
      BY <3>1, <2>1 DEF Range
  <2>4. Head(c) \in Range(c)
    BY <2>1 DEF Range
  <2>5. \A j \in 1..Len(c) : c[j] \in {Head(c)} \cup Range(Tail(c))
    <3>1. ASSUME NEW j \in 1..Len(c), j # 1 PROVE c[j] \in Range(Tail(c))
      <4>1. j - 1 \in DOMAIN Tail(c) /\ Tail(c)[j - 1] = c[j]
        BY <2>1, <2>2, <3>1
      <4>2. QED
        BY <4>1 DEF Range
    <3>2. QED
      BY <3>1, <2>1
  <2>6. QED
    BY <2>1, <2>3, <2>4, <2>5 DEF Range
<1>3. Range(c) \subseteq S
  BY DEF Range
<1>4. QED
  BY <1>1, <1>2, <1>3

\* The frames the bridge answers.
IsWork(f) == f.t \in {"input", "pick", "compact"}

\* A stream that carries no work, and one that carries one piece at most.
NoWork(c) == \A f \in Range(c) : ~IsWork(f)
OneWork(c) == \A j, k \in 1..Len(c) : IsWork(c[j]) /\ IsWork(c[k]) => j = k

LEMMA OneWorkLemma ==
    ASSUME NEW S, NEW c \in Seq(S)
    PROVE /\ \A f : OneWork(c) /\ (~IsWork(f) \/ NoWork(c)) => OneWork(Append(c, f))
          /\ c # <<>> /\ OneWork(c) => OneWork(Tail(c)) /\ (IsWork(Head(c)) => NoWork(Tail(c)))
<1> USE DEF OneWork
<1>1. ASSUME NEW f, OneWork(c), ~IsWork(f) \/ NoWork(c) PROVE OneWork(Append(c, f))
  <2>1. Len(c) \in Nat /\ Len(Append(c, f)) = Len(c) + 1 /\ DOMAIN c = 1..Len(c)
    OBVIOUS
  <2>2. \A j \in 1..Len(c) : Append(c, f)[j] = c[j] /\ c[j] \in Range(c)
    BY <2>1 DEF Range
  <2>3. Append(c, f)[Len(c) + 1] = f
    OBVIOUS
  <2>4. \A j \in 1..Len(c) : IsWork(f) => ~IsWork(Append(c, f)[j])
    BY <1>1, <2>2 DEF NoWork
  <2>5. ASSUME NEW j \in 1..(Len(c) + 1), NEW k \in 1..(Len(c) + 1),
               IsWork(Append(c, f)[j]), IsWork(Append(c, f)[k])
        PROVE j = k
    <3>1. j \in 1..Len(c) \/ j = Len(c) + 1
      BY <2>1
    <3>2. k \in 1..Len(c) \/ k = Len(c) + 1
      BY <2>1
    <3>3. QED
      BY <1>1, <2>2, <2>3, <2>4, <2>5, <3>1, <3>2
  <2>6. QED
    BY <2>1, <2>5
<1>2. ASSUME c # <<>>, OneWork(c)
      PROVE OneWork(Tail(c)) /\ (IsWork(Head(c)) => NoWork(Tail(c)))
  <2>1. /\ Len(c) \in Nat /\ Len(c) >= 1 /\ Len(Tail(c)) = Len(c) - 1
        /\ DOMAIN Tail(c) = 1..(Len(c) - 1) /\ Head(c) = c[1] /\ 1 \in 1..Len(c)
    BY <1>2
  <2>2. \A j \in 1..(Len(c) - 1) : Tail(c)[j] = c[j + 1] /\ j + 1 \in 1..Len(c) /\ j + 1 # 1
    BY <1>2
  <2>3. ASSUME NEW j \in 1..(Len(c) - 1), NEW k \in 1..(Len(c) - 1),
               IsWork(Tail(c)[j]), IsWork(Tail(c)[k])
        PROVE j = k
    <3>1. j + 1 = k + 1
      BY <1>2, <2>2, <2>3
    <3>2. QED
      BY <3>1
  <2>4. IsWork(Head(c)) => \A j \in 1..(Len(c) - 1) : ~IsWork(Tail(c)[j])
    BY <1>2, <2>1, <2>2
  <2>5. QED
    BY <2>1, <2>3, <2>4 DEF NoWork, Range
<1>3. QED
  BY <1>1, <1>2

\* No connection has been lost, and the session lives: neither is undone.
Unbroken == cancelled = {} /\ live

\* The turn loop of the bridge is on a frame it has not answered.
InHand == busy # Idle /\ ~replied

\* Only the connection served carries frames, and only to a living bridge;
\* serveConn leaves an unbroken connection only when its bridge has died.
OneConn ==
    /\ serving <= dialled /\ \A g \in Range(backlog) : g <= dialled
    /\ \A g \in Conn : down[g] # <<>> => g = serving /\ g = alive
    /\ \A g \in Conn : up[g] # <<>> => g = serving
    /\ busy # Idle => alive = serving /\ alive # 0
    /\ phase \in {"exit", "close"} => alive # serving
    /\ hangup => phase = "close"

\* There is one piece of work or one answer, on its way, in hand or on its way
\* back.
OneSlot ==
    /\ busy # Idle => IsWork(busy)
    /\ \A g \in Conn :
        /\ OneWork(down[g])
        /\ \A f \in Range(down[g]) : IsWork(f) \/ f.t \in {"language", "interrupt"}
        /\ \A f \in Range(up[g]) : f.t \in {"reply", "result"}
        /\ Len(up[g]) <= 1
        /\ InHand => NoWork(down[g]) /\ up[g] = <<>>
        /\ ~NoWork(down[g]) => up[g] = <<>>

\* It is the pump's: the work it awaits, or its answer.
IsCurrent(f) == f.item = cur /\ (f.t \in {"compact", "result"} <=> pc = "compactAwait")
OnlyTheTurn ==
    /\ InHand => Awaiting /\ IsCurrent(busy)
    /\ \A g \in Conn : \A f \in Range(down[g]) : IsWork(f) => Awaiting /\ IsCurrent(f)
    /\ Awaiting => \A g \in Conn : \A f \in Range(up[g]) : IsCurrent(f)
    /\ phase = "serve" /\ ~Awaiting => \A g \in Conn : up[g] = <<>>
    /\ \A i \in Item : answer[i] \in {i, None}

WireInv == Unbroken => OneConn /\ OneSlot /\ OnlyTheTurn


LEMMA BrokenStays == TypeOK /\ [Next]_vars /\ Unbroken' => Unbroken
<1> SUFFICES ASSUME [Next]_vars, Unbroken' PROVE Unbroken
  OBVIOUS
<1> USE DEF Unbroken, link
<1>1. CASE Callers
  BY <1>1 DEF Callers, Submit, WaitRegister, WaitSend, WaitTold, WaitGivesUp, Interrupt,
         InterruptTimesOut, ClaimCheck, ClaimTurn, ReleaseClaim, EndSession
<1>2. CASE Pump
  BY <1>2 DEF Pump, Dequeue, EnterTurn, PrepareTurn, RefuseTurn, DrainHangup, AnnounceLanguage,
         SendToBridge, Abandon, Settle, CompleteTurn, PassFrame, CompactDone, CompactSend,
         CompactFails, ReleaseTurn, PumpStops, TakenByConn, Deliver
<1>3. CASE Link
  BY <1>3 DEF Link, AcceptConn, ServeEnds, PostHangup, CloseConn, SendInterrupt, ScanEnds, TakenByConn
<1>4. CASE Bridge
  BY <1>4 DEF Bridge, BridgeDials, BridgeTakes, BridgeBegins, BridgeInterrupted, BridgeAnswers,
         BridgeReturns, BridgeExits, BridgeDies
<1>5. CASE UNCHANGED vars
  BY <1>5 DEF vars
<1>6. QED
  BY <1>1, <1>2, <1>3, <1>4, <1>5 DEF Next

LEMMA WireKept == TypeOK /\ WireInv /\ [Next]_vars => WireInv'
<1> SUFFICES ASSUME TypeOK, OneConn, OneSlot, OnlyTheTurn, Unbroken, Unbroken', [Next]_vars
             PROVE OneConn' /\ OneSlot' /\ OnlyTheTurn'
  BY BrokenStays DEF WireInv
<1> DEFINE Wire == OneConn /\ OneSlot /\ OnlyTheTurn
<1> USE DEF TypeOK
<1> HIDE DEF Wire
<1>w. Wire' <=> OneConn' /\ OneSlot' /\ OnlyTheTurn'
  BY DEF Wire
<1>0. /\ \A g \in Conn : down[g] \in Seq(FrameSet) /\ up[g] \in Seq(FrameSet)
      /\ 0 \notin Conn /\ Conn \subseteq Nat /\ serving \in Nat /\ dialled \in Nat /\ alive \in Nat
      /\ Idle \in FrameSet /\ busy \in FrameSet /\ Idle.t = "idle"
  BY BoundAssumption, FrameTypes DEF TypeLink, TypeBridge, Conn, Idle, Frame
\* Steps of the callers and of the pump that do not touch the wire.
<1>1. ASSUME UNCHANGED <<backlog, serving, phase, up, down, alive, dialled, busy, replied>>,
             hangup' => hangup, answer' = answer,
             (pc' = pc /\ cur' = cur) \/ (~Awaiting /\ ~Awaiting')
      PROVE Wire'
  <2>1. OneConn'
    BY <1>1 DEF OneConn
  <2>2. OneSlot'
    BY <1>1 DEF OneSlot, InHand
  <2>3. OnlyTheTurn'
    <3>1. CASE pc' = pc /\ cur' = cur
      BY <1>1, <3>1 DEF OnlyTheTurn, InHand, Awaiting, IsCurrent
    <3>2. CASE ~Awaiting /\ ~Awaiting'
      BY <1>1, <3>2 DEF OnlyTheTurn, InHand
    <3>3. QED
      BY <1>1, <3>1, <3>2
  <2>4. QED
    BY <2>1, <2>2, <2>3 DEF Wire
<1>2. CASE Callers
  BY <1>w, <1>1, <1>2 DEF Callers, Submit, WaitRegister, WaitSend, WaitTold, WaitGivesUp, Interrupt,
         InterruptTimesOut, ClaimCheck, ClaimTurn, ReleaseClaim, EndSession, Enqueue, driver, link, bridge
<1>3. CASE Dequeue \/ EnterTurn \/ PrepareTurn \/ RefuseTurn \/ DrainHangup \/ Settle \/ ReleaseTurn
           \/ PumpStops
  <2>1. ~Awaiting /\ ~Awaiting'
    BY <1>3 DEF Dequeue, EnterTurn, PrepareTurn, RefuseTurn, DrainHangup, Settle, ReleaseTurn, PumpStops,
           Awaiting
  <2>2. /\ UNCHANGED <<backlog, serving, phase, up, down, alive, dialled, busy, replied>>
        /\ hangup' => hangup /\ answer' = answer
    BY <1>3 DEF Dequeue, EnterTurn, PrepareTurn, RefuseTurn, DrainHangup, Settle, ReleaseTurn, PumpStops,
           link, bridge
  <2>3. answer' = answer
    BY <1>3 DEF Dequeue, EnterTurn, PrepareTurn, RefuseTurn, DrainHangup, Settle, ReleaseTurn, PumpStops
  <2>4. QED
    BY <1>w, <1>1, <2>1, <2>2, <2>3
\* A bridge whose connection has ended has nothing left to do.
<1>4. ASSUME phase # "serve" PROVE ~InHand /\ \A g \in Conn : down[g] = <<>>
  <2>1. alive = serving => alive = 0
    BY <1>4 DEF OneConn, TypeLink
  <2>2. QED
    BY <1>0, <2>1 DEF OneConn, InHand
<1>5. CASE Abandon \/ CompactFails
  <2>1. /\ UNCHANGED <<backlog, serving, phase, up, down, alive, dialled, busy, replied, answer>>
        /\ hangup /\ ~hangup' /\ pc' \in {"settle", "release"}
    BY <1>5 DEF Abandon, CompactFails, CompactVerdict, link, bridge, Unbroken
  <2>2. phase = "close"
    BY <2>1 DEF OneConn
  <2>3. OneConn' /\ OneSlot'
    BY <2>1 DEF OneConn, OneSlot, InHand
  <2>4. OnlyTheTurn'
    <3>1. ~Awaiting'
      BY <2>1 DEF Awaiting
    <3>2. ~InHand' /\ \A g \in Conn : down'[g] = <<>>
      BY <1>4, <2>1, <2>2 DEF InHand
    <3>3. Range(<<>>) = {}
      BY DEF Range
    <3>4. QED
      BY <2>1, <2>2, <3>1, <3>2, <3>3 DEF OnlyTheTurn
  <2>5. QED
    BY <2>3, <2>4 DEF Wire
\* serveConn takes f: it is on the wire, or its bridge is gone.
<1>6. ASSUME NEW f \in FrameSet, TakenByConn(f), UNCHANGED <<bridge, hangup, answer>>
      PROVE /\ UNCHANGED <<backlog, serving, up, alive, dialled, busy, replied, answer>>
            /\ phase = "serve"
            /\ \/ /\ alive # serving /\ phase' = "exit" /\ ~InHand
                  /\ \A g \in Conn : down'[g] = <<>> /\ down[g] = <<>>
               \/ /\ alive = serving /\ phase' = "serve" /\ serving \in Conn
                  /\ down'[serving] = Append(down[serving], f)
                  /\ \A g \in Conn \ {serving} : down'[g] = down[g]
  <2>1. phase = "serve" /\ serving \in Conn
    BY <1>6 DEF TakenByConn, TypeLink
  <2>2. CASE alive # serving
    BY <1>0, <1>6, <2>1, <2>2 DEF TakenByConn, OneConn, InHand, bridge
  <2>3. CASE alive = serving
    BY <1>6, <2>1, <2>3 DEF TakenByConn, Cancelled, Unbroken, bridge, TypeLink
  <2>4. QED
    BY <2>2, <2>3
<1>7. ASSUME NEW f \in FrameSet, TakenByConn(f), UNCHANGED <<bridge, hangup, answer>>,
             IsWork(f) => \A g \in Conn : NoWork(down[g]) /\ up[g] = <<>>,
             IsWork(f) => ~InHand,
             IsWork(f) \/ f.t \in {"language", "interrupt"}
      PROVE OneConn' /\ OneSlot'
  <2>1. CASE alive # serving
    <3>1. OneConn'
      BY <1>0, <1>6, <1>7, <2>1 DEF OneConn
    <3>2. OneWork(<<>>) /\ NoWork(<<>>) /\ Range(<<>>) = {}
      BY DEF OneWork, NoWork, Range
    <3>3. OneSlot'
      BY <1>6, <1>7, <2>1, <3>2 DEF OneSlot, InHand
    <3>4. QED
      BY <3>1, <3>3
  <2>2. CASE alive = serving
    <3>1. OneConn'
      BY <1>0, <1>6, <1>7, <2>2 DEF OneConn
    <3>2. OneWork(down'[serving]) /\ Range(down'[serving]) = Range(down[serving]) \cup {f}
      <4>1. serving \in Conn /\ down'[serving] = Append(down[serving], f) /\ down[serving] \in Seq(FrameSet)
        BY <1>0, <1>6, <1>7, <2>2
      <4>2. OneWork(down[serving]) /\ (~IsWork(f) \/ NoWork(down[serving]))
        BY <1>7, <4>1 DEF OneSlot
      <4>3. OneWork(Append(down[serving], f))
        BY <4>1, <4>2, OneWorkLemma
      <4>4. Range(Append(down[serving], f)) = Range(down[serving]) \cup {f}
        BY <4>1, Members
      <4>5. QED
        BY <4>1, <4>3, <4>4
    <3>3. NoWork(down'[serving]) <=> NoWork(down[serving]) /\ ~IsWork(f)
      BY <3>2 DEF NoWork
    <3>4. InHand' <=> InHand
      BY <1>6, <1>7 DEF InHand
    <3>5. ASSUME NEW g \in Conn
          PROVE /\ OneWork(down'[g])
                /\ \A h \in Range(down'[g]) : IsWork(h) \/ h.t \in {"language", "interrupt"}
                /\ \A h \in Range(up'[g]) : h.t \in {"reply", "result"}
                /\ Len(up'[g]) <= 1
                /\ InHand' => NoWork(down'[g]) /\ up'[g] = <<>>
                /\ ~NoWork(down'[g]) => up'[g] = <<>>
      <4>1. CASE g = serving
        BY <1>6, <1>7, <2>2, <3>2, <3>3, <3>4, <4>1 DEF OneSlot
      <4>2. CASE g # serving
        BY <1>6, <1>7, <2>2, <3>4, <4>2 DEF OneSlot
      <4>3. QED
        BY <4>1, <4>2
    <3>6. busy' # Idle => IsWork(busy')
      BY <1>6, <1>7 DEF OneSlot
    <3>7. OneSlot'
      BY <3>5, <3>6 DEF OneSlot
    <3>8. QED
      BY <3>1, <3>7
  <2>3. QED
    BY <2>1, <2>2
\* A language or an interrupt.
<1>8. ASSUME NEW f \in FrameSet, TakenByConn(f), UNCHANGED <<bridge, hangup, answer>>,
             ~IsWork(f), f.t \in {"language", "interrupt"},
             (pc' = pc /\ cur' = cur) \/ (~Awaiting /\ ~Awaiting')
      PROVE Wire'
  <2>1. OneConn' /\ OneSlot'
    BY <1>7, <1>8
  <2>2. Range(<<>>) = {}
    BY DEF Range
  <2>3. phase = "serve"
    BY <1>8 DEF TakenByConn
  <2>4. InHand' <=> InHand
    BY <1>6, <1>8 DEF InHand
  <2>5. \A g \in Conn : \A h \in Range(down'[g]) : IsWork(h) => h \in Range(down[g])
    <3>1. CASE alive # serving
      BY <1>6, <1>8, <2>2, <3>1
    <3>2. CASE alive = serving
      <4>1. Range(Append(down[serving], f)) = Range(down[serving]) \cup {f}
        BY <1>0, <1>6, <1>8, <3>2, Members
      <4>2. QED
        BY <1>6, <1>8, <3>2, <4>1
    <3>3. QED
      BY <3>1, <3>2
  <2>6. OnlyTheTurn'
    <3>1. CASE pc' = pc /\ cur' = cur
      BY <1>6, <1>8, <2>3, <2>4, <2>5, <3>1 DEF OnlyTheTurn, Awaiting, IsCurrent
    <3>2. CASE ~Awaiting /\ ~Awaiting'
      BY <1>6, <1>8, <2>3, <2>4, <2>5, <3>2 DEF OnlyTheTurn
    <3>3. QED
      BY <1>8, <3>1, <3>2
  <2>7. QED
    BY <2>1, <2>6 DEF Wire
<1>9. CASE AnnounceLanguage
  <2>1. Frame("language", None) \in FrameSet /\ ~IsWork(Frame("language", None))
        /\ Frame("language", None).t = "language"
    BY FrameTypes DEF IsWork, Frame
  <2>2. ~Awaiting /\ ~Awaiting'
    BY <1>9 DEF AnnounceLanguage, Awaiting
  <2>3. QED
    BY <1>w, <1>8, <1>9, <2>1, <2>2 DEF AnnounceLanguage
<1>10. ASSUME NEW i \in Escaped, SendInterrupt(i) PROVE Wire'
  <2>1. Frame("interrupt", i) \in FrameSet /\ ~IsWork(Frame("interrupt", i))
        /\ Frame("interrupt", i).t = "interrupt"
    BY FrameTypes DEF IsWork, Frame
  <2>2. QED
    BY <1>8, <1>10, <2>1 DEF SendInterrupt, driver
\* The pump's own work.
<1>11. ASSUME NEW f \in FrameSet, TakenByConn(f), UNCHANGED <<bridge, hangup, answer, cur>>,
              IsWork(f), f.item = cur, ~Awaiting, Awaiting',
              f.t = "compact" <=> pc' = "compactAwait"
       PROVE Wire'
  <2>1. phase = "serve"
    BY <1>11 DEF TakenByConn
  <2>2. /\ ~InHand
        /\ \A g \in Conn : NoWork(down[g]) /\ up[g] = <<>>
    BY <1>11, <2>1 DEF OnlyTheTurn, NoWork
  <2>3. OneConn' /\ OneSlot'
    BY <1>7, <1>11, <2>2
  <2>4. Range(<<>>) = {}
    BY DEF Range
  <2>5. ~InHand' /\ \A g \in Conn : up'[g] = <<>>
    BY <1>6, <1>11, <2>2 DEF InHand
  <2>6. IsCurrent(f)'
    BY <1>11 DEF IsCurrent, IsWork
  <2>7. \A g \in Conn : \A h \in Range(down'[g]) : IsWork(h) => h = f
    <3>1. CASE alive # serving
      BY <1>6, <1>11, <2>4, <3>1
    <3>2. CASE alive = serving
      <4>1. Range(Append(down[serving], f)) = Range(down[serving]) \cup {f}
        BY <1>0, <1>6, <1>11, <3>2, Members
      <4>2. QED
        BY <1>6, <1>11, <2>2, <3>2, <4>1 DEF NoWork
    <3>3. QED
      BY <3>1, <3>2
  <2>8. \A g \in Conn : \A h \in Range(down'[g]) : IsWork(h) => IsCurrent(h)'
    BY <2>6, <2>7 DEF IsCurrent
  <2>9. OnlyTheTurn'
    BY <1>11, <2>4, <2>5, <2>8, <1>6 DEF OnlyTheTurn
  <2>10. QED
    BY <2>3, <2>9 DEF Wire
<1>12. CASE SendToBridge
  <2>1. /\ Work(cur) \in FrameSet /\ IsWork(Work(cur)) /\ Work(cur).item = cur /\ Work(cur).t # "compact"
    BY FrameTypes DEF TypeDriver, Work, Frame, IsWork
  <2>2. ~Awaiting /\ Awaiting' /\ pc' # "compactAwait"
    BY <1>12 DEF SendToBridge, Awaiting
  <2>3. QED
    BY <1>w, <1>11, <1>12, <2>1, <2>2 DEF SendToBridge
<1>13. CASE CompactSend
  <2>1. /\ Frame("compact", cur) \in FrameSet /\ IsWork(Frame("compact", cur))
        /\ Frame("compact", cur).item = cur /\ Frame("compact", cur).t = "compact"
    BY FrameTypes DEF TypeDriver, Frame, IsWork
  <2>2. ~Awaiting /\ Awaiting' /\ pc' = "compactAwait"
    BY <1>13 DEF CompactSend, Awaiting
  <2>3. QED
    BY <1>w, <1>11, <1>13, <2>1, <2>2 DEF CompactSend
\* The one answer on its way back is the pump's.
<1>14. ASSUME NEW g \in Conn, Awaiting, Deliver(g)
       PROVE /\ Head(up[g]).item = cur
             /\ Head(up[g]).t = IF pc = "await" THEN "reply" ELSE "result"
             /\ \A h \in Conn : up'[h] = <<>>
             /\ ~InHand /\ \A h \in Conn : NoWork(down[h])
  <2>1. up[g] # <<>> /\ up' = [up EXCEPT ![g] = Tail(@)] /\ g = serving
    BY <1>14 DEF Deliver, OneConn
  <2>2. Head(up[g]) \in Range(up[g])
    BY <1>0, <2>1, Members
  <2>3. /\ Head(up[g]).item = cur
        /\ Head(up[g]).t = IF pc = "await" THEN "reply" ELSE "result"
    BY <1>14, <2>2 DEF OnlyTheTurn, OneSlot, IsCurrent, Awaiting
  <2>4. Len(up[g]) <= 1
    BY DEF OneSlot
  <2>5. Tail(up[g]) = <<>>
    BY <1>0, <2>1, <2>4
  <2>6. \A h \in Conn : up'[h] = <<>>
    BY <2>1, <2>5 DEF OneConn, TypeLink
  <2>7. ~InHand /\ \A h \in Conn : NoWork(down[h])
    <3>1. ~InHand /\ NoWork(down[g])
      BY <2>1 DEF OneSlot
    <3>2. \A h \in Conn \ {g} : down[h] = <<>>
      BY <2>1 DEF OneConn
    <3>3. NoWork(<<>>)
      BY DEF NoWork, Range
    <3>4. QED
      BY <3>1, <3>2, <3>3
  <2>8. QED
    BY <2>3, <2>6, <2>7
<1>15. ASSUME NEW g \in Conn, CompleteTurn(g) \/ CompactDone(g) PROVE Wire'
  <2>1. /\ UNCHANGED <<backlog, serving, phase, hangup, down, alive, dialled, busy, replied>>
        /\ Awaiting /\ ~Awaiting' /\ Deliver(g) /\ cur' = cur
    BY <1>15 DEF CompleteTurn, CompactDone, CompactVerdict, Deliver, bridge, Awaiting
  <2>2. answer' = answer \/ answer' = [answer EXCEPT ![cur] = cur]
    BY <1>14, <1>15, <2>1 DEF CompleteTurn, CompactDone
  <2>3. \A i \in Item : answer'[i] \in {i, None}
    BY <2>2 DEF OnlyTheTurn, TypeDriver
  <2>4. Range(<<>>) = {}
    BY DEF Range
  <2>5. OneConn'
    BY <1>14, <2>1 DEF OneConn
  <2>6. OneSlot'
    BY <1>14, <2>1, <2>4 DEF OneSlot, InHand
  <2>7. OnlyTheTurn'
    BY <1>14, <2>1, <2>3, <2>4 DEF OnlyTheTurn, InHand, NoWork
  <2>8. QED
    BY <2>5, <2>6, <2>7 DEF Wire
<1>16. ASSUME NEW g \in Conn, PassFrame(g) PROVE FALSE
  BY <1>14, <1>16 DEF PassFrame
\* The connection.
<1>17. CASE AcceptConn
  <2>1. /\ serving = 0 /\ backlog # <<>> /\ serving' = Head(backlog) /\ phase' = "serve"
        /\ backlog' = Tail(backlog) /\ phase = "idle"
        /\ UNCHANGED <<up, down, alive, dialled, busy, replied, hangup, answer, pc, cur>>
    BY <1>17 DEF AcceptConn, TypeLink, bridge, driver
  <2>2. \A g \in Conn : down[g] = <<>> /\ up[g] = <<>>
    BY <1>0, <2>1 DEF OneConn
  <2>3. busy = Idle
    BY <1>0, <2>1 DEF OneConn
  <2>4. Range(backlog) = {Head(backlog)} \cup Range(Tail(backlog))
    BY <2>1, Members DEF TypeLink
  <2>5. OneConn'
    BY <2>1, <2>2, <2>3, <2>4 DEF OneConn
  <2>6. OneSlot'
    BY <2>1 DEF OneSlot, InHand
  <2>7. Range(<<>>) = {}
    BY DEF Range
  <2>8. OnlyTheTurn'
    BY <2>1, <2>2, <2>3, <2>7 DEF OnlyTheTurn, InHand, Awaiting, IsCurrent
  <2>9. QED
    BY <2>5, <2>6, <2>8 DEF Wire
<1>18. CASE ServeEnds
  BY <1>18 DEF ServeEnds, Cancelled, Unbroken
<1>19. CASE PostHangup
  <2>1. /\ UNCHANGED <<backlog, serving, up, down, alive, dialled, busy, replied, answer, pc, cur>>
        /\ phase = "exit" /\ phase' = "close"
    BY <1>19 DEF PostHangup, bridge, driver
  <2>2. OneConn' /\ OneSlot'
    BY <2>1 DEF OneConn, OneSlot, InHand
  <2>3. OnlyTheTurn'
    BY <2>1 DEF OnlyTheTurn, InHand, Awaiting, IsCurrent
  <2>4. QED
    BY <2>2, <2>3 DEF Wire
<1>20. CASE CloseConn \/ \E g \in Conn : ScanEnds(g)
  BY <1>20 DEF CloseConn, ScanEnds, Unbroken

\* The bridge.
<1>21. CASE BridgeDials
  <2>1. /\ alive = 0 /\ alive' = dialled + 1 /\ dialled' = dialled + 1
        /\ backlog' = Append(backlog, dialled + 1)
        /\ UNCHANGED <<serving, phase, up, down, busy, replied, hangup, answer, pc, cur>>
    BY <1>21 DEF BridgeDials, driver
  <2>2. \A g \in Conn : down[g] = <<>>
    BY <1>0, <2>1 DEF OneConn
  <2>3. busy = Idle
    BY <2>1 DEF OneConn
  <2>4. Range(backlog') = Range(backlog) \cup {dialled + 1} /\ Range(backlog) \subseteq Conn
    BY <2>1, Members DEF TypeLink
  <2>5. serving' <= dialled' /\ \A g \in Range(backlog') : g <= dialled'
    <3>1. \A g \in Range(backlog) : g \in Nat /\ g <= dialled
      BY <1>0, <2>4 DEF OneConn
    <3>2. \A g \in Range(backlog') : g <= dialled + 1
      BY <1>0, <2>4, <3>1
    <3>3. serving <= dialled + 1
      BY <1>0 DEF OneConn
    <3>4. QED
      BY <2>1, <3>2, <3>3
  <2>6. alive' # serving'
    BY <1>0, <2>1 DEF OneConn
  <2>7. OneConn'
    BY <2>1, <2>2, <2>3, <2>5, <2>6 DEF OneConn
  <2>8. OneSlot'
    BY <2>1 DEF OneSlot, InHand
  <2>9. OnlyTheTurn'
    BY <2>1 DEF OnlyTheTurn, InHand, Awaiting, IsCurrent
  <2>10. QED
    BY <2>7, <2>8, <2>9
<1>22. CASE BridgeTakes
  <2> DEFINE f == Head(down[alive])
  <2>1. /\ alive \in Conn /\ down[alive] # <<>> /\ busy = Idle /\ alive = serving
        /\ down'[alive] = Tail(down[alive])
        /\ \A g \in Conn \ {alive} : down'[g] = down[g]
        /\ UNCHANGED <<backlog, serving, phase, up, alive, dialled, replied, hangup, answer, pc, cur>>
    BY <1>0, <1>22 DEF BridgeTakes, TypeBridge, TypeLink, OneConn, driver, link
  <2>2. f \in Range(down[alive]) /\ Range(down[alive]) = {f} \cup Range(Tail(down[alive]))
    BY <1>0, <2>1, Members
  <2>3. OneWork(down'[alive]) /\ (IsWork(f) => NoWork(down'[alive]) /\ up[alive] = <<>>)
    BY <1>0, <2>1, <2>2, OneWorkLemma DEF OneSlot, NoWork
  <2>4. busy' = Idle \/ busy' = f
    BY <1>22 DEF BridgeTakes
  <2> HIDE DEF f
  <2>5. CASE busy' = Idle
    <3>1. OneConn'
      BY <2>1, <2>5 DEF OneConn
    <3>2. \A g \in Conn : OneWork(down'[g]) /\ Range(down'[g]) \subseteq Range(down[g])
      BY <2>1, <2>2, <2>3 DEF OneSlot
    <3>3. OneSlot'
      BY <2>1, <2>5, <3>2 DEF OneSlot, InHand, NoWork
    <3>4. OnlyTheTurn'
      BY <2>1, <2>5, <3>2 DEF OnlyTheTurn, InHand, Awaiting, IsCurrent
    <3>5. QED
      BY <3>1, <3>3, <3>4
  <2>6. CASE busy' = f /\ busy' # Idle
    <3>1. IsWork(f)
      <4>1. f.t \notin {"language", "interrupt"}
        BY <1>22, <2>6 DEF BridgeTakes, f
      <4>2. QED
        BY <2>1, <2>2, <4>1 DEF OneSlot
    <3>2. /\ NoWork(down'[alive]) /\ ~NoWork(down[alive])
          /\ \A g \in Conn : down'[g] # <<>> => g = alive
          /\ \A g \in Conn : up[g] = <<>>
      <4>1. ~NoWork(down[alive])
        BY <2>2, <3>1 DEF NoWork
      <4>2. \A g \in Conn : up[g] = <<>>
        BY <2>1, <4>1 DEF OneSlot, OneConn
      <4>3. QED
        BY <2>1, <2>3, <3>1, <4>1, <4>2 DEF OneConn
    <3>3. NoWork(<<>>) /\ OneWork(<<>>) /\ Range(<<>>) = {}
      BY DEF NoWork, OneWork, Range
    <3>4. \A g \in Conn : NoWork(down'[g]) /\ OneWork(down'[g]) /\ Range(down'[g]) \subseteq Range(down[g])
      <4>1. ASSUME NEW g \in Conn, g # alive PROVE down'[g] = <<>>
        BY <3>2, <4>1
      <4>2. QED
        BY <2>1, <2>2, <2>3, <3>2, <3>3, <4>1
    <3>5. OneConn'
      BY <1>0, <2>1, <3>2 DEF OneConn
    <3>6. OneSlot'
      BY <2>1, <2>6, <3>1, <3>2, <3>4 DEF OneSlot
    <3>7. Awaiting /\ IsCurrent(f)
      BY <2>1, <2>2, <3>1 DEF OnlyTheTurn
    <3>8. OnlyTheTurn'
      BY <2>1, <2>6, <3>2, <3>4, <3>7 DEF OnlyTheTurn, Awaiting, IsCurrent, NoWork
    <3>9. QED
      BY <3>5, <3>6, <3>8
  <2>7. QED
    BY <2>4, <2>5, <2>6
<1>23. CASE BridgeBegins
  BY <1>1, <1>23, <1>w DEF BridgeBegins, driver, link
<1>24. CASE BridgeInterrupted
  <2>1. /\ alive \in Conn /\ down[alive] # <<>>
        /\ down'[alive] = Tail(down[alive])
        /\ \A g \in Conn \ {alive} : down'[g] = down[g]
        /\ UNCHANGED <<backlog, serving, phase, up, alive, dialled, busy, replied, hangup, answer, pc, cur>>
    BY <1>0, <1>24 DEF BridgeInterrupted, TypeBridge, TypeLink, driver, link, bridge
  <2>2. Range(down'[alive]) \subseteq Range(down[alive]) /\ OneWork(down'[alive])
    BY <1>0, <2>1, Members, OneWorkLemma DEF OneSlot
  <2>3. \A g \in Conn : Range(down'[g]) \subseteq Range(down[g]) /\ OneWork(down'[g])
    BY <2>1, <2>2 DEF OneSlot
  <2>4. OneConn'
    BY <2>1 DEF OneConn
  <2>5. OneSlot'
    BY <2>1, <2>3 DEF OneSlot, InHand, NoWork
  <2>6. OnlyTheTurn'
    BY <2>1, <2>3 DEF OnlyTheTurn, InHand, Awaiting, IsCurrent
  <2>7. QED
    BY <2>4, <2>5, <2>6
<1>25. CASE BridgeAnswers
  <2>1. /\ UNCHANGED <<backlog, serving, phase, down, alive, dialled, busy, hangup, answer, pc, cur>>
        /\ InHand /\ replied' /\ ~InHand'
    BY <1>25 DEF BridgeAnswers, InHand, driver
  <2>2. alive = serving /\ alive \in Conn /\ Awaiting /\ IsCurrent(busy)
        /\ \A g \in Conn : NoWork(down[g]) /\ up[g] = <<>>
    BY <2>1, <1>0 DEF InHand, OneConn, OneSlot, OnlyTheTurn, TypeBridge
  <2>3. CASE up' = up
    <3>1. OneConn' /\ OneSlot'
      BY <2>1, <2>3 DEF OneConn, OneSlot
    <3>2. OnlyTheTurn'
      BY <2>1, <2>3 DEF OnlyTheTurn, Awaiting, IsCurrent
    <3>3. QED
      BY <3>1, <3>2
  <2>4. CASE up' # up
    <3> DEFINE a == Frame(IF busy.t = "compact" THEN "result" ELSE "reply", busy.item)
    <3>1. up'[alive] = Append(<<>>, a) /\ \A g \in Conn \ {alive} : up'[g] = <<>>
      BY <1>25, <2>2, <2>4 DEF BridgeAnswers, TypeLink
    <3>2. Range(Append(<<>>, a)) = {a} /\ Len(Append(<<>>, a)) = 1
      <4> HIDE DEF a
      <4>1. <<>> \in Seq({a})
        OBVIOUS
      <4>2. Range(Append(<<>>, a)) = Range(<<>>) \cup {a}
        BY <4>1, Members
      <4>3. QED
        BY <4>2 DEF Range
    <3>3. a.t \in {"reply", "result"} /\ a.item = busy.item /\ (a.t = "result" <=> busy.t = "compact")
      BY DEF Frame
    <3>4. a.item = cur' /\ (a.t = "result" <=> pc' = "compactAwait")
      BY <2>1, <2>2, <3>3 DEF IsCurrent, OneSlot, InHand, IsWork
    <3>5. OneConn'
      BY <2>1, <2>2, <3>1 DEF OneConn
    <3> HIDE DEF a
    <3>6. \A g \in Conn : \A h \in Range(up'[g]) : h = a
      BY <3>1, <3>2 DEF Range
    <3>7. \A g \in Conn : Len(up'[g]) <= 1
      <4>1. Len(up'[alive]) = 1
        BY <3>1, <3>2
      <4>2. ASSUME NEW g \in Conn PROVE Len(up'[g]) <= 1
        <5>1. CASE g = alive
          <6>1. Len(up'[g]) = 1
            BY <4>1, <5>1
          <6>2. QED
            BY <6>1
        <5>2. CASE g # alive
          <6>1. up'[g] = <<>>
            BY <3>1, <5>2
          <6>2. QED
            BY <6>1
        <5>3. QED
          BY <5>1, <5>2
      <4>3. QED
        BY <4>2
    <3>8. OneSlot'
      BY <2>1, <2>2, <3>3, <3>6, <3>7 DEF OneSlot
    <3>9. \A g \in Conn : \A h \in Range(up'[g]) : IsCurrent(h)'
      BY <3>3, <3>4, <3>6 DEF IsCurrent
    <3>10. OnlyTheTurn'
      BY <2>1, <2>2, <3>9 DEF OnlyTheTurn, NoWork, Awaiting
    <3>11. QED
      BY <3>5, <3>8, <3>10
  <2>5. QED
    BY <2>3, <2>4
<1>26. CASE BridgeReturns
  <2>1. /\ UNCHANGED <<backlog, serving, phase, up, down, alive, dialled, hangup, answer, pc, cur>>
        /\ busy' = Idle
    BY <1>26 DEF BridgeReturns, driver, link
  <2>2. QED
    BY <2>1 DEF OneConn, OneSlot, OnlyTheTurn, InHand, Awaiting, IsCurrent
<1>27. CASE BridgeExits
  BY <1>27 DEF BridgeExits, Unbroken
<1>28. CASE BridgeDies
  <2>1. /\ UNCHANGED <<backlog, serving, phase, up, dialled, hangup, answer, pc, cur>>
        /\ busy' = Idle /\ alive' = 0
        /\ down' = [down EXCEPT ![alive] = <<>>]
    BY <1>28 DEF BridgeDies, Gone, driver, link
  <2>2. \A g \in Conn : down'[g] = <<>>
    BY <1>0, <2>1 DEF OneConn, TypeLink
  <2>3. NoWork(<<>>) /\ OneWork(<<>>) /\ Range(<<>>) = {}
    BY DEF NoWork, OneWork, Range
  <2>4. phase' \in {"exit", "close"} => alive' # serving'
    BY <2>1 DEF TypeLink
  <2>5. OneConn'
    BY <2>1, <2>2, <2>4 DEF OneConn
  <2>6. OneSlot'
    BY <2>1, <2>2, <2>3 DEF OneSlot, InHand
  <2>7. OnlyTheTurn'
    BY <2>1, <2>2, <2>3 DEF OnlyTheTurn, InHand, Awaiting, IsCurrent
  <2>8. QED
    BY <2>5, <2>6, <2>7
<1>29. CASE UNCHANGED vars
  BY <1>1, <1>29, <1>w DEF vars, driver, link, bridge
<1>30. QED
  BY <1>w, <1>2, <1>3, <1>5, <1>9, <1>10, <1>12, <1>13, <1>15, <1>16, <1>17, <1>18, <1>19, <1>20,
     <1>21, <1>22, <1>23, <1>24, <1>25, <1>26, <1>27, <1>28, <1>29
  DEF Next, Pump, Link, Bridge


LEMMA WireInit == Init => WireInv
<1> SUFFICES ASSUME Init PROVE OneConn /\ OneSlot /\ OnlyTheTurn
  BY DEF WireInv
<1>1. Range(<<>>) = {} /\ NoWork(<<>>) /\ OneWork(<<>>) /\ Len(<<>>) = 0
  BY DEF Range, NoWork, OneWork
<1>2. OneConn
  BY <1>1 DEF Init, OneConn
<1>3. OneSlot
  BY <1>1 DEF Init, OneSlot
<1>4. OnlyTheTurn
  BY <1>1 DEF Init, OnlyTheTurn, InHand, Awaiting
<1>5. QED
  BY <1>2, <1>3, <1>4

\* While no connection has been lost, the bridge has at most the one event the
\* pump is waiting on, a turn's or a compaction's and never both: the pump
\* sends nothing before it has read the answer to what it sent (pump, runTurn,
\* compactThroughBridge and the bridge's turn loop).
THEOREM BridgeRunsOne == Spec => []BridgeRunsOnlyTheTurn
<1>1. TypeOK /\ WireInv => BridgeRunsOnlyTheTurn
  <2>1. ASSUME TypeOK, WireInv, cancelled = {}, live, NEW f \in AtBridge
        PROVE Awaiting /\ f.item = cur /\ (f.t = "compact" <=> pc = "compactAwait")
    <3>1. OneConn /\ OneSlot /\ OnlyTheTurn
      BY <2>1 DEF WireInv, Unbroken
    <3>2. /\ alive \in Conn /\ IsWork(f)
          /\ f \in Range(down[alive]) \/ (f = busy /\ ~replied)
      BY <2>1 DEF AtBridge, IsWork, TypeOK, TypeBridge
    <3>3. Awaiting /\ IsCurrent(f)
      <4>1. CASE f \in Range(down[alive])
        BY <3>1, <3>2, <4>1 DEF OnlyTheTurn
      <4>2. CASE f = busy /\ ~replied
        <5>1. InHand
          BY <3>2, <4>2 DEF InHand, IsWork, Idle, Frame
        <5>2. QED
          BY <3>1, <4>2, <5>1 DEF OnlyTheTurn
      <4>3. QED
        BY <3>2, <4>1, <4>2
    <3>4. QED
      BY <3>2, <3>3 DEF IsCurrent, IsWork
  <2>2. QED
    BY <2>1 DEF BridgeRunsOnlyTheTurn
<1>2. QED
  BY <1>1, WireInit, WireKept, TypeCorrect, PTL DEF Spec

\* While no connection has been lost, the answer that ends an item is its own,
\* although awaitTurn goes by the order of replies and looks at no turn id.
THEOREM AnswersAreOwn == Spec => []AnsweredByItsOwn
<1>1. WireInv => AnsweredByItsOwn
  BY DEF WireInv, Unbroken, OnlyTheTurn, AnsweredByItsOwn
<1>2. QED
  BY <1>1, WireInit, WireKept, TypeCorrect, PTL DEF Spec

=============================================================================
