---------------------------- MODULE MCApprovals ----------------------------
(* A small instance of Approvals: a plain command and one with a shell     *)
(* operator, which the agent of s1 allows.                                 *)
EXTENDS Approvals, TLC

CONSTANTS s1, s2, c1, c2

MCTool == {"Bash", "Read"}
MCSubject == {"push", "make"}
MCPattern == MCSubject \cup {"", "*"}
MCLoose == ("push" :> {"push"}) @@ ("make" :> {"make"}) @@ ("" :> {})
           @@ ("*" :> MCSubject)
MCTight == [MCLoose EXCEPT !["*"] = {"make"}]
MCPlain == {"push", "make"}
MCChained == {"push"}
MCAsked == [tool : {"Bash"}, subject : MCSubject]
MCAgentRules == [s \in Session |-> IF s = s1
    THEN {[decision |-> "allow", tool |-> "Bash", pattern |-> "push"]}
    ELSE {[decision |-> "ask", tool |-> "Bash", pattern |-> "make"]}]
MCOperatorRules ==
    {[decision |-> "deny", tool |-> "Bash", pattern |-> "*"]}
MCModes == {"bypass"}
MCInitMode == [s \in Session |-> IF s = s1 THEN "smart" ELSE ""]
=============================================================================
