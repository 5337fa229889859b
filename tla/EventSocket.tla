----------------------------- MODULE EventSocket -----------------------------
(***************************************************************************)
(* The daemon's event stream (core/host/eventsocket.go): every event a     *)
(* session publishes is offered to every subscriber, over a buffered       *)
(* channel that drops what does not fit, except coordination events, which *)
(* go to a list of their own that is read first.  A nil line in the        *)
(* channel wakes a reader that may be asleep while its list fills.         *)
(*                                                                         *)
(* Publish holds the socket's mutex for its whole loop over the            *)
(* subscribers, and it is called from the pump of a session: were it to    *)
(* block, every session would.  Readers take no part in that mutex, so     *)
(* each step of the loop interleaves with theirs.                          *)
(***************************************************************************)
EXTENDS Naturals, Sequences, Functions

CONSTANTS
    Sub,          \* the subscribers' connections
    NoSub,        \* none of them
    Buffer,       \* subscriberBuffer
    MaxLines,     \* bound: how many events are published
    Coord         \* the events that carry a coordination

Line == 1..MaxLines
Wake == 0         \* the nil line

ASSUME BufferAssumption == Buffer \in Nat \ {0}
ASSUME SubAssumption == NoSub \notin Sub
ASSUME LineAssumption == MaxLines \in Nat /\ Coord \subseteq Line

VARIABLES
    subs,         \* s.subs
    closed,       \* s.closed
    published,    \* how many events have been published
    event,        \* the event whose Publish holds the mutex, or 0 when it is free
    todo,         \* the subscribers its loop has still to visit
    waking,       \* the subscriber enqueuePriority is waking, or NoSub
    stage,        \* where it is: "try", "drop" or "force"
    ch,           \* each subscriber's channel
    chClosed,     \* whether that channel is closed
    priority,     \* each subscriber's list of coordination events
    at,           \* where its reader is
    holding,      \* the line its reader is writing
    broken,       \* whether a write to it has failed
    joined,       \* the events published before it was added
    delivered     \* the lines written to it, in order

publisher == <<published, event, todo, waking, stage>>
reader == <<at, holding, broken, delivered>>
vars == <<subs, closed, publisher, ch, chClosed, priority, joined, reader>>

TypeSocket ==
    /\ subs \in SUBSET Sub
    /\ closed \in BOOLEAN
    /\ published \in 0..MaxLines
    /\ event \in Line \cup {0}
    /\ todo \in SUBSET Sub
    /\ waking \in Sub \cup {NoSub}
    /\ stage \in {"try", "drop", "force"}

TypeChannels ==
    /\ ch \in [Sub -> Seq(Line \cup {Wake})] /\ \A s \in Sub : Len(ch[s]) <= Buffer
    /\ chClosed \in [Sub -> BOOLEAN]
    /\ priority \in [Sub -> Seq(Line)]

TypeReaders ==
    /\ at \in [Sub -> {"none", "check", "recv", "write", "exit", "done"}]
    /\ holding \in [Sub -> Line \cup {0}]
    /\ \A s \in Sub : at[s] = "write" => holding[s] # 0
    /\ broken \in [Sub -> BOOLEAN]
    /\ joined \in [Sub -> 0..MaxLines]
    /\ delivered \in [Sub -> Seq(Line)]

TypeOK == TypeSocket /\ TypeChannels /\ TypeReaders

Init ==
    /\ subs = {} /\ closed = FALSE
    /\ published = 0 /\ event = 0
    /\ todo = {} /\ waking = NoSub /\ stage = "try"
    /\ ch = [s \in Sub |-> <<>>]
    /\ chClosed = [s \in Sub |-> FALSE]
    /\ priority = [s \in Sub |-> <<>>]
    /\ at = [s \in Sub |-> "none"]
    /\ holding = [s \in Sub |-> 0]
    /\ broken = [s \in Sub |-> FALSE]
    /\ joined = [s \in Sub |-> 0]
    /\ delivered = [s \in Sub |-> <<>>]

Unlocked == event = 0

-----------------------------------------------------------------------------
(* The set of subscribers.                                                 *)

\* add: a connection that comes after closeAll is closed at once.
Add(s) ==
    /\ at[s] = "none"
    /\ Unlocked
    /\ IF closed
       THEN /\ at' = [at EXCEPT ![s] = "done"]
            /\ UNCHANGED <<subs, joined>>
       ELSE /\ subs' = subs \cup {s}
            /\ at' = [at EXCEPT ![s] = "check"]
            /\ joined' = [joined EXCEPT ![s] = published]
    /\ UNCHANGED <<closed, publisher, ch, chClosed, priority, holding, broken, delivered>>

\* Mutant: remove does not take the mutex.
RemoveUnlocked(s) ==
    /\ at[s] = "exit"
    /\ subs' = subs \ {s}
    /\ chClosed' = [chClosed EXCEPT ![s] = TRUE]
    /\ at' = [at EXCEPT ![s] = "done"]
    /\ UNCHANGED <<closed, publisher, ch, priority, joined, holding, broken, delivered>>

\* remove, deferred in serve.  closeAll may have closed the channel before.
Remove(s) ==
    /\ at[s] = "exit"
    /\ Unlocked
    /\ subs' = subs \ {s}
    /\ chClosed' = [chClosed EXCEPT ![s] = @ \/ s \in subs]
    /\ at' = [at EXCEPT ![s] = "done"]
    /\ UNCHANGED <<closed, publisher, ch, priority, joined, holding, broken, delivered>>

\* closeAll, once the daemon's context is done.
CloseAll ==
    /\ ~closed
    /\ Unlocked
    /\ closed' = TRUE
    /\ subs' = {}
    /\ chClosed' = [s \in Sub |-> chClosed[s] \/ s \in subs]
    /\ UNCHANGED <<publisher, ch, priority, joined, reader>>

-----------------------------------------------------------------------------
(* Publish.                                                                *)

\* It takes the mutex, unless there is nobody to tell.
Publish ==
    /\ Unlocked
    /\ published < MaxLines
    /\ published' = published + 1
    /\ IF subs = {}
       THEN UNCHANGED <<event, todo>>
       ELSE event' = published + 1 /\ todo' = subs
    /\ UNCHANGED <<subs, closed, waking, stage, ch, chClosed, priority, joined, reader>>

\* The loop is done with s; the mutex is released after the last one.
Served(s) ==
    /\ todo' = todo \ {s}
    /\ event' = IF todo = {s} THEN 0 ELSE event

\* Mutant: the channel takes whatever it is sent.
OfferUnbounded(s) ==
    /\ s \in todo /\ waking = NoSub
    /\ event \notin Coord
    /\ ch' = [ch EXCEPT ![s] = Append(@, event)]
    /\ Served(s)
    /\ UNCHANGED <<subs, closed, published, waking, stage, chClosed, priority, joined, reader>>

\* An ordinary line is dropped when the channel is full.
Offer(s) ==
    /\ s \in todo /\ waking = NoSub
    /\ event \notin Coord
    /\ ch' = IF Len(ch[s]) < Buffer THEN [ch EXCEPT ![s] = Append(@, event)] ELSE ch
    /\ Served(s)
    /\ UNCHANGED <<subs, closed, published, waking, stage, chClosed, priority, joined, reader>>

\* Mutant: a coordination event that finds the channel full is dropped.
PrioritiseOrDrop(s) ==
    /\ s \in todo /\ waking = NoSub
    /\ event \in Coord
    /\ IF Len(ch[s]) < Buffer
       THEN /\ priority' = [priority EXCEPT ![s] = Append(@, event)]
            /\ waking' = s
            /\ UNCHANGED <<event, todo>>
       ELSE Served(s) /\ UNCHANGED <<waking, priority>>
    /\ stage' = "try"
    /\ UNCHANGED <<subs, closed, published, ch, chClosed, joined, reader>>

\* Mutant: the list is filled and the reader not woken.
PrioritiseAsleep(s) ==
    /\ s \in todo /\ waking = NoSub
    /\ event \in Coord
    /\ priority' = [priority EXCEPT ![s] = Append(@, event)]
    /\ Served(s)
    /\ UNCHANGED <<subs, closed, published, waking, stage, ch, chClosed, joined, reader>>

\* enqueuePriority appends to the list, under priorityMu; then it wakes the
\* reader.
Prioritise(s) ==
    /\ s \in todo /\ waking = NoSub
    /\ event \in Coord
    /\ priority' = [priority EXCEPT ![s] = Append(@, event)]
    /\ waking' = s
    /\ stage' = "try"
    /\ UNCHANGED <<subs, closed, published, event, todo, ch, chClosed, joined, reader>>

\* The wake is sent, or the channel is full.
TryWake(s) ==
    /\ waking = s /\ stage = "try"
    /\ IF Len(ch[s]) < Buffer
       THEN /\ ch' = [ch EXCEPT ![s] = Append(@, Wake)]
            /\ waking' = NoSub
            /\ Served(s)
            /\ UNCHANGED stage
       ELSE /\ stage' = "drop"
            /\ UNCHANGED <<ch, waking, todo, event>>
    /\ UNCHANGED <<subs, closed, published, chClosed, priority, joined, reader>>

\* Mutant: nothing is dropped before the send that forces the wake.
DropNothing(s) ==
    /\ waking = s /\ stage = "drop"
    /\ stage' = "force"
    /\ UNCHANGED <<subs, closed, published, event, todo, waking, ch, chClosed, priority, joined, reader>>

\* The oldest line makes room, unless the reader has emptied the channel.
DropOldest(s) ==
    /\ waking = s /\ stage = "drop"
    /\ ch' = [ch EXCEPT ![s] = IF @ = <<>> THEN @ ELSE Tail(@)]
    /\ stage' = "force"
    /\ UNCHANGED <<subs, closed, published, event, todo, waking, chClosed, priority, joined, reader>>

\* A send that would block on a full channel, with the mutex held.
ForceWake(s) ==
    /\ waking = s /\ stage = "force"
    /\ Len(ch[s]) < Buffer
    /\ ch' = [ch EXCEPT ![s] = Append(@, Wake)]
    /\ waking' = NoSub
    /\ Served(s)
    /\ UNCHANGED <<subs, closed, published, stage, chClosed, priority, joined, reader>>

-----------------------------------------------------------------------------
(* The reader of a subscriber: serve and next.                             *)

\* Mutant: the list is read from its end.
CheckNewest(s) ==
    /\ at[s] = "check"
    /\ IF priority[s] = <<>>
       THEN /\ at' = [at EXCEPT ![s] = "recv"]
            /\ UNCHANGED <<holding, priority>>
       ELSE /\ holding' = [holding EXCEPT ![s] = priority[s][Len(priority[s])]]
            /\ priority' = [priority EXCEPT ![s] = SubSeq(@, 1, Len(@) - 1)]
            /\ at' = [at EXCEPT ![s] = "write"]
    /\ UNCHANGED <<subs, closed, publisher, ch, chClosed, joined, broken, delivered>>

\* The list first, under priorityMu.
Check(s) ==
    /\ at[s] = "check"
    /\ IF priority[s] = <<>>
       THEN /\ at' = [at EXCEPT ![s] = "recv"]
            /\ UNCHANGED <<holding, priority>>
       ELSE /\ holding' = [holding EXCEPT ![s] = Head(priority[s])]
            /\ priority' = [priority EXCEPT ![s] = Tail(@)]
            /\ at' = [at EXCEPT ![s] = "write"]
    /\ UNCHANGED <<subs, closed, publisher, ch, chClosed, joined, broken, delivered>>

\* Then the channel, where it sleeps; a nil line sends it back to the list.
Receive(s) ==
    /\ at[s] = "recv"
    /\ ch[s] # <<>>
    /\ ch' = [ch EXCEPT ![s] = Tail(@)]
    /\ IF Head(ch[s]) = Wake
       THEN at' = [at EXCEPT ![s] = "check"] /\ UNCHANGED holding
       ELSE /\ holding' = [holding EXCEPT ![s] = Head(ch[s])]
            /\ at' = [at EXCEPT ![s] = "write"]
    /\ UNCHANGED <<subs, closed, publisher, chClosed, priority, joined, broken, delivered>>

\* A closed channel is read to its end first.
ReceiveClosed(s) ==
    /\ at[s] = "recv"
    /\ ch[s] = <<>> /\ chClosed[s]
    /\ at' = [at EXCEPT ![s] = "exit"]
    /\ UNCHANGED <<subs, closed, publisher, ch, chClosed, priority, joined, holding, broken, delivered>>

Write(s) ==
    /\ at[s] = "write"
    /\ delivered' = [delivered EXCEPT ![s] = Append(@, holding[s])]
    /\ at' = [at EXCEPT ![s] = "check"]
    /\ UNCHANGED <<subs, closed, publisher, ch, chClosed, priority, joined, holding, broken>>

\* The peer is gone, or has not read for publishWriteTimeout.
WriteFails(s) ==
    /\ at[s] = "write"
    /\ broken' = [broken EXCEPT ![s] = TRUE]
    /\ at' = [at EXCEPT ![s] = "exit"]
    /\ UNCHANGED <<subs, closed, publisher, ch, chClosed, priority, joined, holding, delivered>>

-----------------------------------------------------------------------------

Visit(s) == Offer(s) \/ Prioritise(s) \/ TryWake(s) \/ DropOldest(s) \/ ForceWake(s)
Read(s) == Check(s) \/ Receive(s) \/ ReceiveClosed(s) \/ Write(s)

Next ==
    \/ Publish \/ CloseAll
    \/ \E s \in Sub : Add(s) \/ Remove(s) \/ Visit(s) \/ Read(s) \/ WriteFails(s)

Spec == Init /\ [][Next]_vars

(* A publisher in its loop and a reader that can run do run: neither waits *)
(* for anything but the other.  A reader waits for the mutex to remove its *)
(* subscriber, which Go serves in turn: Remove is strongly fair.           *)
Fairness ==
    /\ \A s \in Sub : WF_vars(Visit(s)) /\ WF_vars(Read(s)) /\ SF_vars(Remove(s))

FairSpec == Spec /\ Fairness

-----------------------------------------------------------------------------
(* Properties.                                                             *)

\* No line is sent on a closed channel, which would end the daemon: Publish
\* visits only subscribers whose channel is open, however readers come and go
\* while it does.
SendsOnlyToOpen == \A s \in todo : s \in subs /\ ~chClosed[s]

\* The send that forces a wake never blocks, so that a subscriber that reads
\* nothing cannot stop a publisher that holds the mutex, and every session's
\* pump behind it.
WakeHasRoom == waking # NoSub /\ stage = "force" => Len(ch[waking]) < Buffer

\* A reader asleep on its channel while coordination events wait in its list
\* has something to wake it there, or is about to: no wake is lost when the
\* oldest line, perhaps an earlier wake, is dropped, or when the channel closes.
NoLostWakeup ==
    \A s \in Sub : at[s] = "recv" /\ priority[s] # <<>> => ch[s] # <<>> \/ waking = s

\* Coordination events are never dropped: each one published since a subscriber
\* was added is in its list, being written or written, unless its connection
\* broke.
CoordinationKept ==
    \A s \in subs : \A e \in Coord :
        joined[s] < e /\ e <= published =>
            \/ e \in Range(priority[s]) \cup Range(delivered[s])
            \/ e = holding[s]
            \/ e = event /\ s \in todo

\* A subscriber sees ordinary events in the order they were published and
\* coordination events in theirs, none twice, whatever was dropped between.
InOrder ==
    \A s \in Sub : \A j, k \in 1..Len(delivered[s]) :
        j < k /\ (delivered[s][j] \in Coord <=> delivered[s][k] \in Coord) =>
            delivered[s][j] < delivered[s][k]

\* A coordination event that was accepted for a subscriber reaches it, even
\* when its channel is closed meanwhile, unless its connection breaks.
CoordinationReaches ==
    \A s \in Sub : \A e \in Coord :
        e \in Range(priority[s]) ~> (e \in Range(delivered[s]) \/ broken[s])

=============================================================================
