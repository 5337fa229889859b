----------------------------- MODULE MCTurnLoop -----------------------------
(* Small instances of TurnLoop: the items of each kind are model values. *)
EXTENDS TurnLoop, TLC

CONSTANTS m1, w1, w2, p1, c1

=============================================================================
