----------------------------- MODULE TurnService -----------------------------
(***************************************************************************)
(* What a session promises to those who send it work, with nothing said of *)
(* the bridge process that does it: an item is queued in order, taken by   *)
(* the pump, run while the pump holds the one turn token of the session,   *)
(* and settled exactly once before the token is given back.  A rewind      *)
(* claims the same token, so it never overlaps a turn.                     *)
(*                                                                         *)
(* It is the abstraction of core/host/turnloop.go that module TurnLoop     *)
(* implements.                                                             *)
(***************************************************************************)
EXTENDS Naturals, Sequences

CONSTANTS
    Item,       \* everything that may be sent to the session
    None,       \* no item
    Capacity    \* turnQueueCapacity, the length of the queue

\* The ways a turn that began may end.
Verdict == {"done", "abandoned", "dropped", "failed"}

VARIABLES
    queue,      \* the items accepted and not yet taken
    cur,        \* the item the pump has taken, or None
    turn,       \* who holds the turn token: "free", "pump" or "claim"
    outcome     \* "new" until sent, then "waiting", then how the item ended

vars == <<queue, cur, turn, outcome>>

-----------------------------------------------------------------------------

Init ==
    /\ queue = <<>>
    /\ cur = None
    /\ turn = "free"
    /\ outcome = [i \in Item |-> "new"]

Accept(i) ==
    /\ outcome[i] = "new"
    /\ Len(queue) < Capacity
    /\ queue' = Append(queue, i)
    /\ outcome' = [outcome EXCEPT ![i] = "waiting"]
    /\ UNCHANGED <<cur, turn>>

Take ==
    /\ cur = None
    /\ queue # <<>>
    /\ cur' = Head(queue)
    /\ queue' = Tail(queue)
    /\ UNCHANGED <<turn, outcome>>

Begin ==
    /\ cur # None
    /\ turn = "free"
    /\ turn' = "pump"
    /\ UNCHANGED <<queue, cur, outcome>>

\* The item is settled, once, by the holder of the token.
Settle(v) ==
    /\ turn = "pump"
    /\ outcome[cur] = "waiting"
    /\ outcome' = [outcome EXCEPT ![cur] = v]
    /\ UNCHANGED <<queue, cur, turn>>

\* The token goes back only once the item is settled.
Finish ==
    /\ turn = "pump"
    /\ outcome[cur] # "waiting"
    /\ turn' = "free"
    /\ cur' = None
    /\ UNCHANGED <<queue, outcome>>

\* A refused item is settled and finished in one step.
Refuse ==
    /\ turn = "pump"
    /\ outcome[cur] = "waiting"
    /\ outcome' = [outcome EXCEPT ![cur] = "refused"]
    /\ turn' = "free"
    /\ cur' = None
    /\ UNCHANGED queue

Claim ==
    /\ turn = "free"
    /\ turn' = "claim"
    /\ UNCHANGED <<queue, cur, outcome>>

Unclaim ==
    /\ turn = "claim"
    /\ turn' = "free"
    /\ UNCHANGED <<queue, cur, outcome>>

Next ==
    \/ \E i \in Item : Accept(i)
    \/ Take
    \/ Begin
    \/ \E v \in Verdict : Settle(v)
    \/ Finish
    \/ Refuse
    \/ Claim
    \/ Unclaim

Spec == Init /\ [][Next]_vars

=============================================================================
