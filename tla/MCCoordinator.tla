---------------------------- MODULE MCCoordinator ----------------------------
(* A lead and the two workers it may spawn. *)
EXTENDS Coordinator, TLC

CONSTANTS lead, w1, w2

MCSpawnNames == (lead :> <<w1, w2>>) @@ (w1 :> <<>>) @@ (w2 :> <<>>)
MCOrders == [s \in Name |->
    IF s = lead
    THEN {[op |-> "delegate", n |-> 1], [op |-> "fanout", n |-> 1],
          [op |-> "fanout", n |-> 2], [op |-> "seal", n |-> 1],
          [op |-> "merge", n |-> 0], [op |-> "handoff", n |-> 1]}
    ELSE {[op |-> "report", n |-> 0]}]
=============================================================================
