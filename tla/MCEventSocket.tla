---------------------------- MODULE MCEventSocket ----------------------------
(* A small instance of EventSocket: two subscribers, three lines. *)
EXTENDS EventSocket

CONSTANTS s1, s2

=============================================================================
