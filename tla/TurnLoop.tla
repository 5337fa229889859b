------------------------------- MODULE TurnLoop -------------------------------
(***************************************************************************)
(* One live session: the daemon's driver (core/host/turnloop.go), the      *)
(* control connection that links it to its bridge process (serveConn and   *)
(* core/internal/control), and the bridge's own turn loop                  *)
(* (core/bridge/hub.go).                                                   *)
(*                                                                         *)
(* The goroutines are the pump, the connection loop serveConn, one scanner *)
(* per accepted connection, the bridge's scanner and its turn loop, the    *)
(* callers that send items, the SeedAndWait callers, the rewind command    *)
(* and one goroutine per interrupt.  They meet on Go channels:             *)
(*   queue     buffered, turnQueueCapacity                                 *)
(*   turn      buffered, 1: the token of the turn in flight                *)
(*   hangup    buffered, 1: "the connection died"                          *)
(*   toBridge, fromBridge   unbuffered: a send and its receive are one step*)
(* and on the two byte streams of a connection, down and up.               *)
(*                                                                         *)
(* A turn's progress events, its text, cost and usage are left out: only   *)
(* the reply that ends a turn moves the control.                           *)
(***************************************************************************)
EXTENDS Naturals, Sequences, Functions

CONSTANTS
    Message,      \* the inputs sent by submit, the poll loop and Seed
    Waiter,       \* the SeedAndWait callers; each sends one input, named after it
    Pick,         \* the menu choices sent by Pick
    Compact,      \* the manual compactions sent by requestCompaction
    Heavy,        \* the inputs whose turn ends in an automatic compaction
    Escaped,      \* the inputs the operator interrupts (sessionDriver.Interrupt)
    None,         \* no item
    Capacity,     \* turnQueueCapacity
    MaxConns,     \* bound: how many bridge processes dial the session
    Gated,        \* whether the budget gate may refuse a turn
    Speaks,       \* whether the session has a language to announce
    Injects,      \* whether the backend is a ChoiceInjector
    MayEnd        \* bound: whether the session may be closed

Input == Message \cup Waiter
Item == Input \cup Pick \cup Compact
Conn == 1..MaxConns

ASSUME ItemAssumption ==
    /\ None \notin Item
    /\ Input \cap Pick = {} /\ Input \cap Compact = {} /\ Pick \cap Compact = {}
    /\ Message \cap Waiter = {}
    /\ Heavy \subseteq Input /\ Escaped \subseteq Input
ASSUME BoundAssumption == Capacity \in Nat \ {0} /\ MaxConns \in Nat \ {0}
ASSUME SwitchAssumption == {Gated, Speaks, Injects, MayEnd} \subseteq BOOLEAN

VARIABLES
    \* the driver
    queue,        \* d.queue
    pc,           \* where the pump is
    cur,          \* the item the pump has taken from the queue, or None
    turn,         \* the token d.turn: "free", held by the "pump", or by a "claim"
    hangup,       \* whether d.hangup holds its token
    sentOn,       \* the connection that took the event the pump is waiting on
    outcome,      \* how each item ended
    answer,       \* the item whose reply ended it
    \* the connections
    backlog,      \* the connections accepted and not yet served
    serving,      \* the connection serveConn serves, 0 for none
    phase,        \* where serveConn is: "idle", "serve", "exit" or "close"
    cancelled,    \* the connections whose cctx is cancelled
    scan,         \* the scanner of each connection: "off", "on" or "done"
    down, up,     \* the frames written to each connection and not yet read
    \* the bridge
    alive,        \* the connection of the running bridge process, 0 for none
    dialled,      \* how many bridge processes have dialled
    busy,         \* the frame its turn loop is working on, or Idle
    armed,        \* whether turnController.begin has registered its cancel
    replied,      \* whether the work has emitted its answer and not yet returned
    \* the callers
    pendingReply, \* d.pendingReply: the waiter the next reply goes to, or None
    box,          \* each waiter's reply channel (buffered, 1): an item, or None
    wpc,          \* where each waiter is
    esc,          \* the fate of each interrupt
    rpc,          \* where the rewind command is
    live          \* the session's context is not done

driver == <<queue, pc, cur, turn, sentOn, outcome, answer>>
link == <<backlog, serving, phase, cancelled, scan, up>>
bridge == <<alive, dialled, busy, armed, replied>>
callers == <<pendingReply, box, wpc>>
vars == <<driver, hangup, link, down, bridge, callers, esc, rpc, live>>

-----------------------------------------------------------------------------
(* Frames.  An "interrupt" names the turn it was meant for, which the      *)
(* program does not write on the wire: it is there for the properties.     *)

Frame(t, i) == [t |-> t, item |-> i]
Idle == Frame("idle", None)
Work(i) == Frame(IF i \in Input THEN "input" ELSE "pick", i)
FrameSet == [t : {"idle", "language", "input", "pick", "compact", "interrupt", "reply", "result"},
             item : Item \cup {None}]

PumpState == {"idle", "enter", "prepare", "drain", "announce", "send", "await",
              "settle", "compactSend", "compactAwait", "release", "stopped"}

\* The pump holds the turn token.
InTurn == pc \notin {"idle", "enter", "stopped"}
Awaiting == pc \in {"await", "compactAwait"}
\* A connection's context is done: its own cancel, or the session's.
Cancelled(g) == g \in cancelled \/ ~live

TypeDriver ==
    /\ queue \in Seq(Item) /\ Len(queue) <= Capacity
    /\ pc \in PumpState
    /\ cur \in Item \cup {None}
    /\ turn \in {"free", "pump", "claim"}
    /\ sentOn \in Conn \cup {0}
    /\ outcome \in [Item -> {"new", "waiting", "done", "abandoned", "refused", "dropped", "failed"}]
    /\ answer \in [Item -> Item \cup {None}]

TypeLink ==
    /\ hangup \in BOOLEAN
    /\ backlog \in Seq(Conn)
    /\ serving \in Conn \cup {0}
    /\ phase \in {"idle", "serve", "exit", "close"}
    /\ phase = "idle" <=> serving = 0
    /\ cancelled \in SUBSET Conn
    /\ scan \in [Conn -> {"off", "on", "done"}]
    /\ down \in [Conn -> Seq(FrameSet)]
    /\ up \in [Conn -> Seq(FrameSet)]

TypeBridge ==
    /\ alive \in Conn \cup {0} /\ dialled \in Conn \cup {0}
    /\ busy \in FrameSet
    /\ {armed, replied} \subseteq BOOLEAN

TypeCallers ==
    /\ pendingReply \in Waiter \cup {None}
    /\ box \in [Waiter -> Item \cup {None}]
    /\ wpc \in [Waiter -> {"new", "send", "wait", "told", "gone"}]
    /\ esc \in [Escaped -> {"no", "asked", "sent", "cut", "wrong", "missed", "late", "lost"}]
    /\ rpc \in {"idle", "checked", "claimed"}
    /\ live \in BOOLEAN

TypeOK == TypeDriver /\ TypeLink /\ TypeBridge /\ TypeCallers

Init ==
    /\ queue = <<>> /\ pc = "idle" /\ cur = None /\ turn = "free"
    /\ hangup = FALSE /\ sentOn = 0
    /\ outcome = [i \in Item |-> "new"]
    /\ answer = [i \in Item |-> None]
    /\ backlog = <<>> /\ serving = 0 /\ phase = "idle"
    /\ cancelled = {}
    /\ scan = [g \in Conn |-> "off"]
    /\ down = [g \in Conn |-> <<>>] /\ up = [g \in Conn |-> <<>>]
    /\ alive = 0 /\ dialled = 0 /\ busy = Idle
    /\ armed = FALSE /\ replied = FALSE
    /\ pendingReply = None
    /\ box = [w \in Waiter |-> None]
    /\ wpc = [w \in Waiter |-> "new"]
    /\ esc = [i \in Escaped |-> "no"]
    /\ rpc = "idle" /\ live = TRUE

-----------------------------------------------------------------------------
(* The callers.                                                            *)

\* Mutant: a send that does not block on a full queue.
EnqueueUnbounded(i) ==
    /\ outcome[i] = "new"
    /\ queue' = Append(queue, i)
    /\ outcome' = [outcome EXCEPT ![i] = "waiting"]
    /\ UNCHANGED <<pc, cur, turn, sentOn, answer>>

\* The send on d.queue, which blocks while the queue is full.
Enqueue(i) ==
    /\ outcome[i] = "new"
    /\ Len(queue) < Capacity
    /\ queue' = Append(queue, i)
    /\ outcome' = [outcome EXCEPT ![i] = "waiting"]
    /\ UNCHANGED <<pc, cur, turn, sentOn, answer>>

\* submit, Seed, Pick and requestCompaction: one send.  A compaction asked for
\* while another waits joins it and sends nothing.
Submit(i) ==
    /\ i \in Message \cup Pick \cup Compact
    /\ i \in Compact => Range(queue) \cap Compact = {} /\ ~(pc = "enter" /\ cur \in Compact)
    /\ live
    /\ Enqueue(i)
    /\ UNCHANGED <<hangup, link, down, bridge, callers, esc, rpc, live>>

\* SeedAndWaitWithTurnID: the reply channel is installed before the send.
WaitRegister(w) ==
    /\ wpc[w] = "new"
    /\ pendingReply' = w
    /\ wpc' = [wpc EXCEPT ![w] = "send"]
    /\ UNCHANGED <<driver, hangup, link, down, bridge, box, esc, rpc, live>>

WaitSend(w) ==
    /\ wpc[w] = "send"
    /\ Enqueue(w)
    /\ wpc' = [wpc EXCEPT ![w] = "wait"]
    /\ UNCHANGED <<hangup, link, down, bridge, pendingReply, box, esc, rpc, live>>

WaitTold(w) ==
    /\ wpc[w] = "wait"
    /\ box[w] # None
    /\ wpc' = [wpc EXCEPT ![w] = "told"]
    /\ UNCHANGED <<driver, hangup, link, down, bridge, pendingReply, box, esc, rpc, live>>

\* Mutant: a caller that gives up leaves its channel installed.
WaitGivesUpOnly(w) ==
    /\ wpc[w] \in {"send", "wait"}
    /\ wpc' = [wpc EXCEPT ![w] = IF wpc[w] = "wait" /\ box[w] # None THEN "told" ELSE "gone"]
    /\ UNCHANGED <<driver, hangup, link, down, bridge, pendingReply, box, esc, rpc, live>>

\* The caller's context ends.  It clears pendingReply, whoever's it is, and
\* looks once more at its channel if it had sent its input.
WaitGivesUp(w) ==
    /\ wpc[w] \in {"send", "wait"}
    /\ pendingReply' = None
    /\ wpc' = [wpc EXCEPT ![w] = IF wpc[w] = "wait" /\ box[w] # None THEN "told" ELSE "gone"]
    /\ UNCHANGED <<driver, hangup, link, down, bridge, box, esc, rpc, live>>

\* Interrupt, asked while the turn of i is in flight; its goroutine offers
\* the event on toBridge.
Interrupt(i) ==
    /\ esc[i] = "no"
    /\ cur = i /\ pc \in {"drain", "announce", "send", "await"}
    /\ esc' = [esc EXCEPT ![i] = "asked"]
    /\ UNCHANGED <<driver, hangup, link, down, bridge, callers, rpc, live>>

\* interruptSendTimeout runs out before serveConn takes the event.
InterruptTimesOut(i) ==
    /\ esc[i] = "asked"
    /\ esc' = [esc EXCEPT ![i] = "lost"]
    /\ UNCHANGED <<driver, hangup, link, down, bridge, callers, rpc, live>>

\* claimIdle reads the queue's length, then tries the token without blocking.
ClaimCheck ==
    /\ rpc = "idle"
    /\ queue = <<>>
    /\ rpc' = "checked"
    /\ UNCHANGED <<driver, hangup, link, down, bridge, callers, esc, live>>

\* Mutant: the empty queue is taken for an idle session.
ClaimUntried ==
    /\ rpc = "checked"
    /\ turn' = "claim"
    /\ rpc' = "claimed"
    /\ UNCHANGED <<queue, pc, cur, sentOn, outcome, answer, hangup, link, down, bridge,
                   callers, esc, live>>

ClaimTurn ==
    /\ rpc = "checked"
    /\ IF turn = "free"
       THEN turn' = "claim" /\ rpc' = "claimed"
       ELSE rpc' = "idle" /\ UNCHANGED turn
    /\ UNCHANGED <<queue, pc, cur, sentOn, outcome, answer, hangup, link, down, bridge,
                   callers, esc, live>>

ReleaseClaim ==
    /\ rpc = "claimed"
    /\ turn' = "free"
    /\ rpc' = "idle"
    /\ UNCHANGED <<queue, pc, cur, sentOn, outcome, answer, hangup, link, down, bridge,
                   callers, esc, live>>

\* The session's context ends: Close, or the daemon stopping.
EndSession ==
    /\ MayEnd
    /\ live
    /\ live' = FALSE
    /\ UNCHANGED <<driver, hangup, link, down, bridge, callers, esc, rpc>>

-----------------------------------------------------------------------------
(* The pump.                                                               *)

\* <-d.queue in pump.
Dequeue ==
    /\ pc = "idle"
    /\ queue # <<>>
    /\ cur' = Head(queue)
    /\ queue' = Tail(queue)
    /\ pc' = "enter"
    /\ UNCHANGED <<turn, sentOn, outcome, answer, hangup, link, down, bridge, callers, esc, rpc, live>>

\* enterTurn; a compact_now goes straight to runCompactNow.
EnterTurn ==
    /\ pc = "enter"
    /\ turn = "free"
    /\ turn' = "pump"
    /\ pc' = IF cur \in Compact THEN "compactSend" ELSE "prepare"
    /\ UNCHANGED <<queue, cur, sentOn, outcome, answer, hangup, link, down, bridge, callers, esc, rpc, live>>

\* prepareTurn lets the item through; a pick is never gated.
PrepareTurn ==
    /\ pc = "prepare"
    /\ pc' = "drain"
    /\ UNCHANGED <<queue, cur, turn, sentOn, outcome, answer, hangup, link, down, bridge,
                   callers, esc, rpc, live>>

\* Mutant: the refusal tells nobody.
RefuseSilently ==
    /\ Gated
    /\ pc = "prepare"
    /\ cur \in Input
    /\ turn' = "free"
    /\ cur' = None
    /\ pc' = "idle"
    /\ UNCHANGED <<queue, sentOn, outcome, answer, hangup, link, down, bridge, callers, esc, rpc, live>>

\* prepareTurn refuses an input over budget: a status event, and the token back.
RefuseTurn ==
    /\ Gated
    /\ pc = "prepare"
    /\ cur \in Input
    /\ outcome' = [outcome EXCEPT ![cur] = "refused"]
    /\ turn' = "free"
    /\ cur' = None
    /\ pc' = "idle"
    /\ UNCHANGED <<queue, sentOn, answer, hangup, link, down, bridge, callers, esc, rpc, live>>

\* runTurn discards a hangup left over from before the turn.
DrainHangup ==
    /\ pc = "drain"
    /\ hangup' = FALSE
    /\ pc' = IF Speaks THEN "announce" ELSE "send"
    /\ UNCHANGED <<queue, cur, turn, sentOn, outcome, answer, link, down, bridge, callers, esc, rpc, live>>

\* serveConn receives f from toBridge and writes it.  A connection already
\* cancelled, or whose peer is gone, loses it and ends serveConn.
TakenByConn(f) ==
    /\ phase = "serve"
    /\ IF Cancelled(serving) \/ alive # serving
       THEN phase' = "exit" /\ UNCHANGED down
       ELSE down' = [down EXCEPT ![serving] = Append(@, f)] /\ UNCHANGED phase
    /\ UNCHANGED <<backlog, serving, cancelled, scan, up>>

\* announceLanguage, then sendToBridge.
AnnounceLanguage ==
    /\ pc = "announce"
    /\ TakenByConn(Frame("language", None))
    /\ pc' = "send"
    /\ UNCHANGED <<queue, cur, turn, sentOn, outcome, answer, hangup, bridge, callers, esc, rpc, live>>

SendToBridge ==
    /\ pc = "send"
    /\ TakenByConn(Work(cur))
    /\ sentOn' = serving
    /\ pc' = "await"
    /\ UNCHANGED <<queue, cur, turn, outcome, answer, hangup, bridge, callers, esc, rpc, live>>

\* Mutant: the send and the wait do not look at the session's context.
AbandonOnHangup ==
    /\ pc \in {"announce", "send", "await"}
    /\ hangup
    /\ hangup' = FALSE
    /\ outcome' = [outcome EXCEPT ![cur] = IF cur \in Input THEN "abandoned" ELSE "dropped"]
    /\ sentOn' = 0
    /\ pc' = "settle"
    /\ UNCHANGED <<queue, cur, turn, answer, link, down, bridge, callers, esc, rpc, live>>

\* The turn ends without a reply: a hangup, or the session's end.  abandon
\* says so for an input and nothing for a pick.
Abandon ==
    /\ pc \in {"announce", "send", "await"}
    /\ \/ hangup /\ hangup' = FALSE
       \/ ~live /\ UNCHANGED hangup
    /\ outcome' = [outcome EXCEPT ![cur] = IF cur \in Input THEN "abandoned" ELSE "dropped"]
    /\ sentOn' = 0
    /\ pc' = "settle"
    /\ UNCHANGED <<queue, cur, turn, answer, link, down, bridge, callers, esc, rpc, live>>

\* The scanner of connection g hands its next frame to the pump: it may do
\* so once after its context is done, since its select may choose either.
Deliver(g) ==
    /\ scan[g] = "on"
    /\ up[g] # <<>>
    /\ up' = [up EXCEPT ![g] = Tail(@)]
    /\ UNCHANGED <<backlog, serving, phase, cancelled, scan>>

\* awaitTurn reads the reply that ends the turn; completeTurn records it and
\* deliverPendingReply hands it to whoever waits for one.
CompleteTurn(g) ==
    /\ pc = "await"
    /\ Deliver(g)
    /\ Head(up[g]).t = "reply"
    /\ outcome' = [outcome EXCEPT ![cur] = "done"]
    /\ answer' = [answer EXCEPT ![cur] = Head(up[g]).item]
    /\ IF pendingReply # None
       THEN /\ box' = [box EXCEPT ![pendingReply] = Head(up[g]).item]
            /\ pendingReply' = None
       ELSE UNCHANGED <<box, pendingReply>>
    /\ sentOn' = 0
    /\ pc' = "settle"
    /\ UNCHANGED <<queue, cur, turn, hangup, down, bridge, wpc, esc, rpc, live>>

\* Any other frame is fanned out in a turn, and dropped in a compaction.
PassFrame(g) ==
    /\ Awaiting
    /\ Deliver(g)
    /\ Head(up[g]).t # IF pc = "await" THEN "reply" ELSE "result"
    /\ UNCHANGED <<driver, hangup, down, bridge, callers, esc, rpc, live>>

\* maybeAutoCompact after a turn that was answered.
Settle ==
    /\ pc = "settle"
    /\ pc' = IF cur \in Heavy /\ outcome[cur] = "done" THEN "compactSend" ELSE "release"
    /\ UNCHANGED <<queue, cur, turn, sentOn, outcome, answer, hangup, link, down, bridge,
                   callers, esc, rpc, live>>

\* compactThroughBridge, the one stage of a compaction that leaves the driver.
\* It does not drain the hangup first.
CompactSend ==
    /\ pc = "compactSend"
    /\ TakenByConn(Frame("compact", cur))
    /\ sentOn' = serving
    /\ pc' = "compactAwait"
    /\ UNCHANGED <<queue, cur, turn, outcome, answer, hangup, bridge, callers, esc, rpc, live>>

\* The verdict of a manual compaction is its item's; an automatic one leaves
\* the item of its turn as it was.
CompactVerdict(v) ==
    /\ outcome' = IF cur \in Compact THEN [outcome EXCEPT ![cur] = v] ELSE outcome
    /\ sentOn' = 0
    /\ pc' = "release"

CompactDone(g) ==
    /\ pc = "compactAwait"
    /\ Deliver(g)
    /\ Head(up[g]).t = "result"
    /\ CompactVerdict("done")
    /\ answer' = IF cur \in Compact THEN [answer EXCEPT ![cur] = Head(up[g]).item] ELSE answer
    /\ UNCHANGED <<queue, cur, turn, hangup, down, bridge, callers, esc, rpc, live>>

\* Mutant: a compaction waits for its result whatever becomes of the bridge.
CompactFailsAtEnd ==
    /\ pc \in {"compactSend", "compactAwait"}
    /\ ~live
    /\ CompactVerdict("failed")
    /\ UNCHANGED <<queue, cur, turn, answer, hangup, link, down, bridge, callers, esc, rpc, live>>

\* errBridgeGone, or the session's end.  The interrupt it sends in that case
\* finds no connection to take it.
CompactFails ==
    /\ pc \in {"compactSend", "compactAwait"}
    /\ \/ hangup /\ hangup' = FALSE
       \/ ~live /\ UNCHANGED hangup
    /\ CompactVerdict("failed")
    /\ UNCHANGED <<queue, cur, turn, answer, link, down, bridge, callers, esc, rpc, live>>

ReleaseTurn ==
    /\ pc = "release"
    /\ turn' = "free"
    /\ cur' = None
    /\ pc' = "idle"
    /\ UNCHANGED <<queue, sentOn, outcome, answer, hangup, link, down, bridge, callers, esc, rpc, live>>

\* <-ctx.Done() in pump and in enterTurn.  What it had taken is lost.
PumpStops ==
    /\ ~live
    /\ pc \in {"idle", "enter"}
    /\ pc' = "stopped"
    /\ UNCHANGED <<queue, cur, turn, sentOn, outcome, answer, hangup, link, down, bridge,
                   callers, esc, rpc, live>>

-----------------------------------------------------------------------------
(* The connection.                                                         *)

\* runSessionIdentified takes the next connection and serves it.
AcceptConn ==
    /\ live
    /\ phase = "idle"
    /\ backlog # <<>>
    /\ serving' = Head(backlog)
    /\ backlog' = Tail(backlog)
    /\ phase' = "serve"
    /\ scan' = [scan EXCEPT ![Head(backlog)] = "on"]
    /\ UNCHANGED <<cancelled, up, driver, hangup, down, bridge, callers, esc, rpc, live>>

\* serveConn takes an interrupt, racing the pump for the connection.
SendInterrupt(i) ==
    /\ esc[i] = "asked"
    /\ TakenByConn(Frame("interrupt", i))
    /\ esc' = [esc EXCEPT ![i] = IF phase' = "exit" THEN "lost" ELSE "sent"]
    /\ UNCHANGED <<driver, hangup, bridge, callers, rpc, live>>

ServeEnds ==
    /\ phase = "serve"
    /\ Cancelled(serving)
    /\ phase' = "exit"
    /\ UNCHANGED <<backlog, serving, cancelled, scan, up, driver, hangup, down, bridge,
                   callers, esc, rpc, live>>

\* Mutant: no hangup for a connection whose context was already cancelled.
PostHangupOnError ==
    /\ phase = "exit"
    /\ hangup' = (hangup \/ ~Cancelled(serving))
    /\ phase' = "close"
    /\ UNCHANGED <<backlog, serving, cancelled, scan, up, driver, down, bridge, callers, esc, rpc, live>>

\* The deferred calls, last registered first: the hangup is posted, or is
\* already there; then the connection is closed and its context cancelled.
PostHangup ==
    /\ phase = "exit"
    /\ hangup' = TRUE
    /\ phase' = "close"
    /\ UNCHANGED <<backlog, serving, cancelled, scan, up, driver, down, bridge, callers, esc, rpc, live>>

CloseConn ==
    /\ phase = "close"
    /\ cancelled' = cancelled \cup {serving}
    /\ serving' = 0
    /\ phase' = "idle"
    /\ UNCHANGED <<backlog, scan, up, driver, hangup, down, bridge, callers, esc, rpc, live>>

\* The scanner ends at end of file, at a line it cannot decode (malformed, or
\* over scanMaxLine), on a closed connection or once its context is done; and
\* cancels the connection.  Bound: the last connection decodes every line.
ScanEnds(g) ==
    /\ scan[g] = "on"
    /\ \/ Cancelled(g)
       \/ alive # g /\ up[g] = <<>>
       \/ up[g] # <<>> /\ g < MaxConns
    /\ scan' = [scan EXCEPT ![g] = "done"]
    /\ cancelled' = cancelled \cup {g}
    /\ up' = [up EXCEPT ![g] = <<>>]
    /\ UNCHANGED <<backlog, serving, phase, driver, hangup, down, bridge, callers, esc, rpc, live>>

-----------------------------------------------------------------------------
(* The bridge process.                                                     *)

\* The supervisor starts a bridge, one at a time, and it dials the session.
BridgeDials ==
    /\ live
    /\ alive = 0
    /\ dialled < MaxConns
    /\ dialled' = dialled + 1
    /\ alive' = dialled + 1
    /\ backlog' = Append(backlog, dialled + 1)
    /\ UNCHANGED <<serving, phase, cancelled, scan, up, driver, hangup, down, busy, armed,
                   replied, callers, esc, rpc, live>>

\* The bridge's scanner passes an event to its turn loop, which must be free
\* to receive it; a language is taken in at once.
BridgeTakes ==
    /\ alive # 0
    /\ down[alive] # <<>>
    /\ Head(down[alive]).t # "interrupt"
    /\ busy = Idle
    /\ down' = [down EXCEPT ![alive] = Tail(@)]
    /\ busy' = IF Head(down[alive]).t = "language" THEN Idle ELSE Head(down[alive])
    /\ UNCHANGED <<driver, hangup, link, alive, dialled, armed, replied,
                   callers, esc, rpc, live>>

\* turnController.begin, for a turn and for a compaction.
BridgeBegins ==
    /\ busy.t \in {"input", "compact"}
    /\ ~armed /\ ~replied
    /\ armed' = TRUE
    /\ UNCHANGED <<driver, hangup, link, down, alive, dialled, busy, replied, callers, esc, rpc, live>>

\* turnController.interrupt cancels what is registered, whatever it is, and
\* nothing otherwise.  It is late once the turn it was meant for is answered.
BridgeInterrupted ==
    /\ alive # 0
    /\ down[alive] # <<>>
    /\ Head(down[alive]).t = "interrupt"
    /\ LET i == Head(down[alive]).item
           answered == \/ outcome[i] # "waiting"
                       \/ busy.item = i /\ replied
                       \/ Frame("reply", i) \in Range(up[alive])
           struck == IF busy.item = i /\ busy.t = "input" THEN "cut" ELSE "wrong"
           unfelt == IF answered THEN "late" ELSE "missed"
       IN esc' = [esc EXCEPT ![i] = IF armed /\ ~replied THEN struck ELSE unfelt]
    /\ down' = [down EXCEPT ![alive] = Tail(@)]
    /\ UNCHANGED <<driver, hangup, link, bridge, callers, rpc, live>>

\* Mutant: the answer is emitted while the backend still works.
BridgeAnswersEarly ==
    /\ busy # Idle
    /\ busy.t \in {"pick", "compact"} \/ armed
    /\ Len(up[alive]) < 2
    /\ up' = [up EXCEPT ![alive] =
                 Append(@, Frame(IF busy.t = "compact" THEN "result" ELSE "reply", busy.item))]
    /\ UNCHANGED <<backlog, serving, phase, cancelled, scan, driver, hangup, down, bridge,
                   callers, esc, rpc, live>>

\* runOneTurn, runCompact or runPick emits its answer, which a closed
\* connection drops.  Without a ChoiceInjector a pick is answered by nothing;
\* a compaction may be refused before it has begun.
BridgeAnswers ==
    /\ busy # Idle /\ ~replied
    /\ busy.t \in {"pick", "compact"} \/ armed
    /\ up' = IF alive \in cancelled \/ (busy.t = "pick" /\ ~Injects) THEN up
             ELSE [up EXCEPT ![alive] =
                      Append(@, Frame(IF busy.t = "compact" THEN "result" ELSE "reply", busy.item))]
    /\ replied' = TRUE
    /\ UNCHANGED <<backlog, serving, phase, cancelled, scan, driver, hangup, down, alive, dialled,
                   busy, armed, callers, esc, rpc, live>>

\* It returns: a turn has been observed by the memory, the cancel is dropped.
BridgeReturns ==
    /\ replied
    /\ busy' = Idle /\ armed' = FALSE /\ replied' = FALSE
    /\ UNCHANGED <<driver, hangup, link, down, alive, dialled, callers, esc, rpc, live>>

Gone == alive' = 0 /\ busy' = Idle /\ armed' = FALSE /\ replied' = FALSE /\ UNCHANGED dialled

\* The connection is closed: the bridge works off what it had received, then
\* exits, and the supervisor may start another.
BridgeExits ==
    /\ alive # 0
    /\ alive \in cancelled
    /\ serving # alive
    /\ busy = Idle
    /\ down[alive] = <<>>
    /\ Gone
    /\ UNCHANGED <<driver, hangup, link, down, callers, esc, rpc, live>>

\* The process dies.  Bound: the last one does not, while the session lives.
BridgeDies ==
    /\ alive # 0
    /\ alive < MaxConns \/ ~live
    /\ down' = [down EXCEPT ![alive] = <<>>]
    /\ Gone
    /\ UNCHANGED <<driver, hangup, link, callers, esc, rpc, live>>

-----------------------------------------------------------------------------

Callers ==
    \/ \E i \in Item : Submit(i)
    \/ \E w \in Waiter : WaitRegister(w) \/ WaitSend(w) \/ WaitTold(w) \/ WaitGivesUp(w)
    \/ \E i \in Escaped : Interrupt(i) \/ InterruptTimesOut(i)
    \/ ClaimCheck \/ ClaimTurn \/ ReleaseClaim \/ EndSession

Pump ==
    \/ Dequeue \/ EnterTurn \/ PrepareTurn \/ RefuseTurn \/ DrainHangup
    \/ AnnounceLanguage \/ SendToBridge \/ Abandon \/ Settle
    \/ \E g \in Conn : CompleteTurn(g) \/ PassFrame(g) \/ CompactDone(g)
    \/ CompactSend \/ CompactFails \/ ReleaseTurn \/ PumpStops

Link ==
    \/ AcceptConn \/ ServeEnds \/ PostHangup \/ CloseConn
    \/ \E i \in Escaped : SendInterrupt(i)
    \/ \E g \in Conn : ScanEnds(g)

Bridge ==
    \/ BridgeDials \/ BridgeTakes \/ BridgeBegins \/ BridgeInterrupted
    \/ BridgeAnswers \/ BridgeReturns \/ BridgeExits \/ BridgeDies

Next == Callers \/ Pump \/ Link \/ Bridge

Spec == Init /\ [][Next]_vars

(* Every goroutine that can run does, the bridge answers what it works on, *)
(* the supervisor restarts it, and a rewind ends.  Nothing makes a caller  *)
(* send, a process die, a line be too long or the session end.  A sender   *)
(* blocked on a Go channel is served in turn when the channel frees, so a  *)
(* rewind, which only tries the token, cannot keep it from the pump:       *)
(* EnterTurn is strongly fair.                                             *)
ScannerMustEnd(g) == (Cancelled(g) \/ alive # g) /\ ScanEnds(g)

Fairness ==
    /\ WF_vars(Pump) /\ SF_vars(EnterTurn)
    /\ WF_vars(AcceptConn) /\ WF_vars(ServeEnds) /\ WF_vars(PostHangup) /\ WF_vars(CloseConn)
    /\ \A g \in Conn : WF_vars(ScannerMustEnd(g))
    /\ WF_vars(BridgeDials) /\ WF_vars(BridgeTakes) /\ WF_vars(BridgeBegins)
    /\ WF_vars(BridgeInterrupted) /\ WF_vars(BridgeAnswers) /\ WF_vars(BridgeReturns)
    /\ WF_vars(BridgeExits)
    /\ WF_vars(ReleaseClaim)

FairSpec == Spec /\ Fairness

-----------------------------------------------------------------------------
(* Properties.                                                             *)

\* The token of the turn is held by the pump exactly while it is in a turn,
\* and by a rewind exactly while it claims the session: claimIdle and the
\* pump never both act on the worktree.
OneTokenHolder ==
    /\ InTurn <=> turn = "pump"
    /\ rpc = "claimed" <=> turn = "claim"

\* A pump that waits for an answer is never left waiting on a connection that
\* is gone: either serveConn still serves the connection that took the event
\* and has its hangup to post, or the hangup is there to be read.  The drain
\* in runTurn, which throws hangups away, must not lose that one.
DeadConnWakesPump ==
    Awaiting => \/ hangup
                \/ serving = sentOn /\ phase \in {"serve", "exit"}

\* The work a bridge process has in hand and not answered, or on its way to it.
AtBridge ==
    LET inHand == IF replied THEN {} ELSE {busy}
    IN IF alive = 0 THEN {}
       ELSE {f \in inHand \cup Range(down[alive]) : f.t \in {"input", "pick", "compact"}}

\* While no connection has been lost, the bridge is given one event at a time,
\* and only that of the item the pump is on: a turn and a compaction never
\* overlap, and a rewind that holds the claim finds the backend idle.
BridgeRunsOnlyTheTurn ==
    cancelled = {} /\ live =>
        \A f \in AtBridge : Awaiting /\ f.item = cur
                             /\ (f.t = "compact" <=> pc = "compactAwait")

\* While no connection has been lost, an item is ended by its own answer:
\* replies, compaction results and picks share one channel, and the driver
\* goes by their order alone: it does not look at the turn id of a reply.
AnsweredByItsOwn ==
    cancelled = {} /\ live => \A i \in Item : answer[i] \in {i, None}

\* deliverPendingReply sends while it holds seenMu: the channel it sends on
\* has room, and its reader has not returned, whoever registered, timed out
\* or was overwritten in between.
PendingReplyHasRoom ==
    pendingReply # None =>
        box[pendingReply] = None /\ wpc[pendingReply] \in {"send", "wait"}

\* Every item accepted is ended, one way or another, while the session lives,
\* whatever dies or is refused on the way.
EveryItemEnds ==
    \A i \in Item : outcome[i] = "waiting" ~> (outcome[i] # "waiting" \/ ~live)

\* The pump goroutine returns when the session's context ends, even while a
\* rewind holds the claim.
PumpEndsWithSession == ~live ~> pc = "stopped"

\* What session_claim_test.go says of claimIdle: a session with a queued
\* message is not claimable.  The program lets a claim through while the pump
\* holds a message it has dequeued and not begun, and when one arrives between
\* the two halves of claimIdle.
ClaimRefusesQueued ==
    [][rpc = "checked" /\ rpc' = "claimed" => \A i \in Item : outcome[i] # "waiting"]_vars

\* What compaction_test.go says: a compaction never overlaps a turn, here of
\* one bridge.  A hangup left over from an earlier connection fails the
\* compaction at once, and the next turn starts while the bridge still works
\* on it.
CompactionNeverOverlapsATurn ==
    pc = "await" /\ sentOn = alive => \A f \in AtBridge : f.t # "compact"

\* The session implements the service TurnService describes: its queue, the
\* item its pump holds, the turn token and the items' outcomes are the service's.
Service == INSTANCE TurnService
    WITH queue <- queue, cur <- cur, turn <- turn, outcome <- outcome
ServiceSpec == Service!Spec

=============================================================================
