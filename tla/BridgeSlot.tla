----------------------------- MODULE BridgeSlot -----------------------------
(***************************************************************************)
(* What the supervisor promises of each session name: one slot, which one  *)
(* supervised loop takes at a time.  A loop that holds the slot can be     *)
(* asked to end; the slot is free again only when that loop has returned.  *)
(* Nothing takes a slot that is not free.                                  *)
(***************************************************************************)
CONSTANT Name

VARIABLES slot,    \* [Name -> {"free", "held", "ending"}]
          closed   \* the daemon's context has ended: every loop is asked to end

vars == <<slot, closed>>

Init == slot = [n \in Name |-> "free"] /\ closed = FALSE

Take(n) == /\ slot[n] = "free"
           /\ slot' = [slot EXCEPT ![n] = IF closed THEN "ending" ELSE "held"]
           /\ UNCHANGED closed

Cancel(n) == /\ slot[n] = "held"
             /\ slot' = [slot EXCEPT ![n] = "ending"]
             /\ UNCHANGED closed

Release(n) == /\ slot[n] = "ending"
              /\ slot' = [slot EXCEPT ![n] = "free"]
              /\ UNCHANGED closed

CloseAll == /\ ~closed
            /\ closed' = TRUE
            /\ slot' = [n \in Name |-> IF slot[n] = "held" THEN "ending" ELSE slot[n]]

Next == CloseAll \/ \E n \in Name : Take(n) \/ Cancel(n) \/ Release(n)

Spec == Init /\ [][Next]_vars
=============================================================================
