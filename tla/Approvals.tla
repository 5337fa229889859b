------------------------------ MODULE Approvals ------------------------------
(***************************************************************************)
(* The approvals: tool calls that wait for a human (core/host/approve.go,   *)
(* approve_cmd.go), over the rules of ApprovalPolicy.                      *)
(*                                                                         *)
(* A call asks on its own goroutine: it reads the rules, then the session's *)
(* mode, then what the session's driver remembers, may have a model rate    *)
(* it, takes a slot of the table, posts the menus, and waits for the answer,*)
(* its timer or the end of its context.  Operators answer from other        *)
(* goroutines in three steps, look the call up, send into its channel of    *)
(* one place, remember, with no lock held from one to the next.             *)
(***************************************************************************)
EXTENDS ApprovalPolicy, Naturals, FiniteSets

CONSTANTS
    Session, Call,
    Asked,                 \* the requests calls make, a subset of Request
    AgentRules,            \* the rules each session's agent brings
    OperatorRules,         \* the rules `approve rule` may add
    Modes,                 \* the modes `approve mode` may set
    Ratings,               \* the ratings the model gives
    InitMode,              \* the mode each session was created with
    MaxPendingPerSession, MaxPendingApprovals,
    MaxEdits,              \* bound: rule and mode edits, and sessions' ends
    MaxAnswers,            \* bound: answers the operators give
    None

\* approvalScope.
Scope == {"once", "session", "always", "deny"}

ASSUME ApprovalsAssumption ==
    /\ Asked \subseteq Request
    /\ AgentRules \in [Session -> SUBSET Rule]
    /\ OperatorRules \subseteq Rule
    /\ Modes \subseteq Mode /\ Ratings \subseteq Risk
    /\ InitMode \in [Session -> Mode]
    /\ MaxPendingPerSession \in Nat /\ MaxPendingApprovals \in Nat
    /\ MaxEdits \in Nat /\ MaxAnswers \in Nat
    /\ None \notin Session \cup Decision \cup Risk \cup Scope
    /\ IsFiniteSet(Call)

\* An answer settles the call it is for: every scope but deny allows.
AnswerDecision(scope) == IF scope = "deny" THEN "deny" ELSE "allow"

Stage == {"idle", "ruled", "decided", "rating", "refused", "posting",
          "waiting", "leaving", "done"}

VARIABLES
    rules,      \* State.Approvals
    mode,       \* each session row's mode
    live,       \* the sessions with a driver
    grants,     \* sessionDriver.grants: the requests its driver remembers
    verdicts,   \* sessionDriver.verdicts
    stage,      \* how far askApproval is
    by,         \* the session each call is of
    req,        \* the request each call makes
    policy,     \* the rules it read, the daemon's and the agent's
    own,        \* history: the daemon's own among them
    under,      \* the mode it read
    decided,    \* its verdict so far
    table,      \* approvalTable.m: the calls that hold a slot
    answer,     \* pendingApproval.answer
    result,     \* what askApproval returns
    desk,       \* the answers being given, and how far each one is
    edits,      \* the edits so far
    answers,    \* the answers so far
    first,      \* history: the first answer sent to each call
    passed,     \* history: the requests rated low, and those not rated
    kept        \* history: the requests allowed for the whole session

askVars == <<stage, by, req, policy, own, under, decided, result>>
deskVars == <<desk, answers, first>>
driverVars == <<live, grants, verdicts>>
ruleVars == <<rules, mode, edits>>
vars == <<askVars, deskVars, driverVars, ruleVars, table, answer, passed, kept>>

Init ==
    /\ rules = {} /\ edits = 0
    /\ mode = InitMode
    /\ live = Session
    /\ grants = [s \in Session |-> {}]
    /\ verdicts = [s \in Session |-> {}]
    /\ stage = [c \in Call |-> "idle"]
    /\ by = [c \in Call |-> None]
    /\ req = [c \in Call |-> None]
    /\ policy = [c \in Call |-> {}] /\ own = [c \in Call |-> {}]
    /\ decided = [c \in Call |-> None]
    /\ under = [c \in Call |-> None]
    /\ table = {}
    /\ answer = [c \in Call |-> None]
    /\ result = [c \in Call |-> None]
    /\ desk = {}
    /\ answers = 0
    /\ first = [c \in Call |-> None]
    /\ passed = {} /\ kept = {}

-----------------------------------------------------------------------------
(* askApproval. *)

\* askApproval ends without having taken a slot.
Return(c, d) ==
    /\ stage' = [stage EXCEPT ![c] = "done"]
    /\ result' = [result EXCEPT ![c] = d]

\* A tool call of a session arrives, from its hook or `session shell`:
\* sessionPolicy reads the daemon's rules and adds the agent's.
Ask(c, s, r) ==
    /\ stage[c] = "idle"
    /\ stage' = [stage EXCEPT ![c] = "ruled"]
    /\ by' = [by EXCEPT ![c] = s]
    /\ req' = [req EXCEPT ![c] = r]
    /\ policy' = [policy EXCEPT ![c] = Merge(rules, AgentRules[s])]
    /\ own' = [own EXCEPT ![c] = rules]
    /\ UNCHANGED <<under, decided, result, deskVars, driverVars, ruleVars,
                   table, answer, passed, kept>>

\* sessionPolicy reads the mode, and the rules and the mode decide.
Verdict(c) ==
    LET m == mode[by[c]]
        d == Apply(m, req[c].tool, Decide(policy[c], req[c]),
                   Matched(policy[c], req[c]))
    IN  /\ stage[c] = "ruled"
        /\ under' = [under EXCEPT ![c] = m]
        /\ decided' = [decided EXCEPT ![c] = d]
        /\ IF d = "deny"
           THEN Return(c, "deny")
           ELSE stage' = [stage EXCEPT ![c] = "decided"] /\ UNCHANGED result
        /\ UNCHANGED <<by, req, policy, own, deskVars, driverVars, ruleVars, table,
                       answer, passed, kept>>

\* The call is allowed, or it is for a human.
Settled(c, d) ==
    IF d = "allow"
    THEN Return(c, "allow")
    ELSE stage' = [stage EXCEPT ![c] = "refused"] /\ UNCHANGED result

\* What the session's driver remembers: the call itself, else its rating.
Recall(c) ==
    LET s == by[c]
        known == {v \in verdicts[s] : v.req = req[c]}
        judged == Judged(under[c], req[c].tool, decided[c],
                         Matched(policy[c], req[c]))
    IN  /\ stage[c] = "decided"
        /\ CASE req[c] \in grants[s] ->
                    Return(c, "allow") /\ UNCHANGED decided
             [] req[c] \notin grants[s] /\ judged /\ known # {} ->
                    \E v \in known :
                        /\ decided' = [decided EXCEPT ![c] = RiskDecision(v.risk)]
                        /\ Settled(c, RiskDecision(v.risk))
             [] req[c] \notin grants[s] /\ judged /\ known = {} ->
                    /\ stage' = [stage EXCEPT ![c] = "rating"]
                    /\ UNCHANGED <<result, decided>>
             [] OTHER -> Settled(c, decided[c]) /\ UNCHANGED decided
        /\ UNCHANGED <<by, req, policy, own, under, deskVars, driverVars,
                       ruleVars, table, answer, passed, kept>>

\* The judge answers, and the driver there is now keeps the rating.
Rate(c, risk) ==
    LET s == by[c]
        verdict == [req |-> req[c], risk |-> risk]
    IN  /\ stage[c] = "rating"
        /\ decided' = [decided EXCEPT ![c] = RiskDecision(risk)]
        /\ Settled(c, RiskDecision(risk))
        /\ passed' = IF risk = "low" THEN passed \cup {verdict} ELSE passed
        /\ verdicts' =
              IF s \in live
              THEN [verdicts EXCEPT ![s] =
                        {v \in @ : v.req # req[c]} \cup {verdict}]
              ELSE verdicts
        /\ UNCHANGED <<by, req, policy, own, under, deskVars, live, grants,
                       ruleVars, table, answer, kept>>

\* No model, or it could not rate the call: it is decided as in ask mode.
RateFails(c) ==
    /\ stage[c] = "rating"
    /\ Settled(c, decided[c])
    /\ passed' = passed \cup {[req |-> req[c], risk |-> None]}
    /\ UNCHANGED <<by, req, policy, own, under, decided, deskVars, driverVars,
                   ruleVars, table, answer, kept>>

\* registerApproval: the two caps, and the slot.
Waiting(s) == {c \in table : by[c] = s}

\* Plausible mutation: the cap of a session counts the whole fleet's calls
\* but one, so a session may take more than its share.
HasRoomLoose(s) ==
    /\ Cardinality(table) < MaxPendingApprovals
    /\ Cardinality(Waiting(s)) <= MaxPendingPerSession

HasRoom(s) ==
    /\ Cardinality(table) < MaxPendingApprovals
    /\ Cardinality(Waiting(s)) < MaxPendingPerSession

RegisterApproval(c) ==
    /\ stage[c] = "refused"
    /\ IF HasRoom(by[c])
       THEN /\ table' = table \cup {c}
            /\ stage' = [stage EXCEPT ![c] = "posting"]
            /\ UNCHANGED result
       ELSE Return(c, "deny") /\ UNCHANGED table
    /\ UNCHANGED <<by, req, policy, own, under, decided, deskVars,
                   driverVars, ruleVars, answer, passed, kept>>

\* Plausible mutation: the post waits for a driver to post on.
PostedLive(c) ==
    /\ stage[c] = "posting"
    /\ by[c] \in live
    /\ stage' = [stage EXCEPT ![c] = "waiting"]
    /\ UNCHANGED <<by, req, policy, own, under, decided, result, deskVars,
                   driverVars, ruleVars, table, answer, passed, kept>>

\* The menus are posted, or posting them outlived its deadline; the timer of
\* the wait starts only now.
Posted(c) ==
    /\ stage[c] = "posting"
    /\ stage' = [stage EXCEPT ![c] = "waiting"]
    /\ UNCHANGED <<by, req, policy, own, under, decided, result, deskVars,
                   driverVars, ruleVars, table, answer, passed, kept>>

\* The select takes the answer,
TakeAnswer(c) ==
    /\ stage[c] = "waiting"
    /\ answer[c] # None
    /\ stage' = [stage EXCEPT ![c] = "leaving"]
    /\ result' = [result EXCEPT ![c] = AnswerDecision(answer[c])]
    /\ answer' = [answer EXCEPT ![c] = None]
    /\ UNCHANGED <<by, req, policy, own, under, decided, deskVars,
                   driverVars, ruleVars, table, passed, kept>>

\* or the timer, or the end of the caller's context, an answer in the channel
\* or not.
GiveUp(c) ==
    /\ stage[c] = "waiting"
    /\ stage' = [stage EXCEPT ![c] = "leaving"]
    /\ result' = [result EXCEPT ![c] = "deny"]
    /\ UNCHANGED <<by, req, policy, own, under, decided, deskVars,
                   driverVars, ruleVars, table, answer, passed, kept>>

\* Plausible mutation: the slot is given back by the one who answers.
ReleaseAnswered(c) ==
    /\ stage[c] = "leaving"
    /\ stage' = [stage EXCEPT ![c] = "done"]
    /\ table' = IF first[c] # None THEN table \ {c} ELSE table
    /\ UNCHANGED <<by, req, policy, own, under, decided, result, deskVars,
                   driverVars, ruleVars, answer, passed, kept>>

\* The deferred release gives the slot back.
Release(c) ==
    /\ stage[c] = "leaving"
    /\ stage' = [stage EXCEPT ![c] = "done"]
    /\ table' = table \ {c}
    /\ UNCHANGED <<by, req, policy, own, under, decided, result, deskVars,
                   driverVars, ruleVars, answer, passed, kept>>

-----------------------------------------------------------------------------
(* settleApproval. *)

\* `approve allow`, `approve deny`, or a pick in the call's own session: the
\* call is looked up.  A pick in another session is swallowed, and a call that
\* is not in the table is reported as not waiting: neither changes anything.
Answer(c, scope) ==
    /\ answers < MaxAnswers
    /\ c \in table
    /\ answers' = answers + 1
    /\ desk' = desk \cup {[n |-> answers', call |-> c, scope |-> scope,
                           sent |-> FALSE]}
    /\ UNCHANGED <<first, askVars, driverVars, ruleVars, table, answer, passed,
                   kept>>

\* An answer that goes into the channel; an allow is then remembered.
Sent(a) ==
    /\ answer' = [answer EXCEPT ![a.call] = a.scope]
    /\ first' = [first EXCEPT ![a.call] = IF @ = None THEN a.scope ELSE @]
    /\ desk' = IF a.scope = "deny" THEN desk \ {a}
               ELSE (desk \ {a}) \cup {[n |-> a.n, call |-> a.call,
                                       scope |-> a.scope, sent |-> TRUE]}

\* Plausible mutation: the last answer wins.
SendLast(a) ==
    /\ ~a.sent
    /\ Sent(a)
    /\ UNCHANGED <<answers, askVars, driverVars, ruleVars, table, passed, kept>>

\* The answer goes into the channel unless one is there: the first one wins,
\* and the operator is told the call was settled either way.
Send(a) ==
    /\ ~a.sent
    /\ IF answer[a.call] = None
       THEN Sent(a)
       ELSE desk' = desk \ {a} /\ UNCHANGED <<answer, first>>
    /\ UNCHANGED <<answers, askVars, driverVars, ruleVars, table, passed, kept>>

\* What an allow leaves behind: a rule for the call, if one can be written.
RuleOf(a) ==
    IF a.scope = "always" THEN {RuleFor(req[a.call])} \ {NoRule} ELSE {}

\* Plausible mutation: every live driver remembers the call.
RememberEverywhere(a) ==
    LET c == a.call
    IN  /\ a.sent
        /\ desk' = desk \ {a}
        /\ rules' = rules \cup RuleOf(a)
        /\ IF a.scope = "session"
           THEN /\ grants' = [s \in Session |-> IF s \in live
                       THEN grants[s] \cup {req[c]} ELSE grants[s]]
                /\ kept' = kept \cup {[by |-> by[c], req |-> req[c]]}
           ELSE UNCHANGED <<grants, kept>>
        /\ UNCHANGED <<answers, first, askVars, live, verdicts, mode, edits,
                       table, answer, passed>>

\* What an allow is remembered by: the driver there is now, or a rule.
Remember(a) ==
    LET c == a.call
    IN  /\ a.sent
        /\ desk' = desk \ {a}
        /\ rules' = rules \cup RuleOf(a)
        /\ IF a.scope = "session" /\ by[c] \in live
           THEN /\ grants' = [grants EXCEPT ![by[c]] = @ \cup {req[c]}]
                /\ kept' = kept \cup {[by |-> by[c], req |-> req[c]]}
           ELSE UNCHANGED <<grants, kept>>
        /\ UNCHANGED <<answers, first, askVars, live, verdicts, mode, edits,
                       table, answer, passed>>

-----------------------------------------------------------------------------
(* What the operator edits, and the sessions that come and go. *)

Edit == edits < MaxEdits /\ edits' = edits + 1

\* `approve rule`, and `approve rule --rm`.
AddApprovalRule(rule) ==
    /\ Edit
    /\ rules' = rules \cup {rule}
    /\ UNCHANGED <<mode, askVars, deskVars, driverVars, table, answer, passed, kept>>

RemoveApprovalRule(rule) ==
    /\ Edit
    /\ rule \in rules
    /\ rules' = rules \ {rule}
    /\ UNCHANGED <<mode, askVars, deskVars, driverVars, table, answer, passed, kept>>

\* `approve mode`.
SetSessionApprovals(s, m) ==
    /\ Edit
    /\ mode[s] # m
    /\ mode' = [mode EXCEPT ![s] = m]
    /\ UNCHANGED <<rules, askVars, deskVars, driverVars, table, answer, passed, kept>>

\* Plausible mutation: the grants outlive the driver.
GoDeadKeeps(s) ==
    /\ Edit
    /\ s \in live
    /\ live' = live \ {s}
    /\ UNCHANGED <<grants, verdicts, rules, mode, askVars, deskVars, table,
                   answer, passed, kept>>

\* The session goes dead with what its driver remembers, and live with an
\* empty driver; its calls go on.
GoDead(s) ==
    /\ Edit
    /\ s \in live
    /\ live' = live \ {s}
    /\ grants' = [grants EXCEPT ![s] = {}]
    /\ verdicts' = [verdicts EXCEPT ![s] = {}]
    /\ UNCHANGED <<rules, mode, askVars, deskVars, table, answer, passed, kept>>

GoLive(s) ==
    /\ s \notin live
    /\ live' = live \cup {s}
    /\ UNCHANGED <<ruleVars, askVars, deskVars, grants, verdicts, table,
                   answer, passed, kept>>

-----------------------------------------------------------------------------
AskStep(c) ==
    \/ \E s \in Session, r \in Asked : Ask(c, s, r)
    \/ Verdict(c) \/ Recall(c)
    \/ \E risk \in Ratings : Rate(c, risk)
    \/ RateFails(c)
    \/ RegisterApproval(c) \/ Posted(c)
    \/ TakeAnswer(c) \/ GiveUp(c) \/ Release(c)

DeskStep ==
    \/ \E c \in Call, scope \in Scope : Answer(c, scope)
    \/ \E a \in desk : Send(a) \/ Remember(a)

EditStep ==
    \/ \E rule \in OperatorRules : AddApprovalRule(rule)
    \/ \E rule \in rules : RemoveApprovalRule(rule)
    \/ \E s \in Session, m \in Modes : SetSessionApprovals(s, m)
    \/ \E s \in Session : GoDead(s) \/ GoLive(s)

Next ==
    \/ \E c \in Call : AskStep(c)
    \/ DeskStep
    \/ EditStep

Spec == Init /\ [][Next]_vars

\* A goroutine of a call goes on once it has begun: the judge has a deadline
\* of its own, the posting one of the wait, and the wait its timer.
Fairness ==
    \A c \in Call :
        /\ WF_vars(Verdict(c) \/ Recall(c) \/ RateFails(c)
                   \/ RegisterApproval(c) \/ Posted(c) \/ Release(c))
        /\ WF_vars(GiveUp(c))

FairSpec == Spec /\ Fairness

-----------------------------------------------------------------------------
(* Type correctness. *)

\* What askApproval holds: a call names its session and its request once it
\* has been asked, and its mode once that is read.
AsksTyped ==
    /\ stage \in [Call -> Stage]
    /\ by \in [Call -> Session \cup {None}]
    /\ req \in [Call -> Request \cup {None}]
    /\ policy \in [Call -> SUBSET Rule] /\ own \in [Call -> SUBSET Rule]
    /\ under \in [Call -> Mode \cup {None}]
    /\ decided \in [Call -> Decision \cup {None}]
    /\ result \in [Call -> {"allow", "deny", None}]
    /\ \A c \in Call : stage[c] # "idle" =>
          by[c] \in Session /\ req[c] \in Request
    /\ \A c \in Call : stage[c] \notin {"idle", "ruled"} =>
          under[c] \in Mode /\ decided[c] \in Decision

\* An answer being given is for a call that took a slot.
DeskTyped ==
    /\ desk \subseteq [n : Nat, call : Call, scope : Scope, sent : BOOLEAN]
    /\ \A a \in desk :
          stage[a.call] \in {"posting", "waiting", "leaving", "done"}
    /\ answers \in Nat
    /\ first \in [Call -> Scope \cup {None}]

\* A driver that is gone remembers nothing.
DriversTyped ==
    /\ live \subseteq Session
    /\ grants \in [Session -> SUBSET Request]
    /\ verdicts \in [Session -> SUBSET [req : Request, risk : Risk]]
    /\ \A s \in Session \ live : grants[s] = {} /\ verdicts[s] = {}

RulesTyped ==
    /\ rules \subseteq Rule
    /\ mode \in [Session -> Mode]
    /\ edits \in Nat

TableTyped == table \subseteq Call /\ answer \in [Call -> Scope \cup {None}]

HistoryTyped ==
    /\ passed \subseteq [req : Request, risk : {"low", None}]
    /\ kept \subseteq [by : Session, req : Request]

\* The variables of the calls, of the answers, of the drivers, of the rules and
\* of the table stay in their sets.
TypeOK ==
    /\ AsksTyped /\ DeskTyped /\ DriversTyped /\ RulesTyped /\ TableTyped
    /\ HistoryTyped

(* Safety. *)

\* A slot of the table is held by a call that waits, from its registration to
\* its release, however it ends, and the two caps hold whoever registers and
\* releases in between (registerApproval and the deferred release of
\* askApproval): a slot that leaks would refuse every later call of the fleet.
SlotsHold ==
    /\ table = {c \in Call : stage[c] \in {"posting", "waiting", "leaving"}}
    /\ Cardinality(table) <= MaxPendingApprovals
    /\ \A s \in Session : Cardinality(Waiting(s)) <= MaxPendingPerSession

\* These rules and the mode the call read leave it to a human.
AsksAHuman(c, rs) ==
    LET tool == req[c].tool
    IN  /\ under[c] \notin {"bypass", "auto"}
        /\ \/ Reached(rs, req[c], "ask")
           \/ /\ ~Matched(rs, req[c])
              /\ CASE under[c] = "strict" -> TRUE
                   [] under[c] = "smart" -> ~IsRead(tool)
                   [] under[c] = "accept-edits" -> RunsCommand(tool)
                   [] under[c] = "ask" -> EditsFiles(tool) \/ RunsCommand(tool)
                   [] OTHER -> FALSE

\* An operator's first answer to the call allows it, or an operator allowed the
\* same request of the same session for as long as that runs, or, in smart
\* mode, the model rated it low, or failed and no rule asks about it.
ByRight(c) ==
    \/ first[c] \in Scope \ {"deny"}
    \/ [by |-> by[c], req |-> req[c]] \in kept
    \/ /\ under[c] = "smart"
       /\ \/ [req |-> req[c], risk |-> "low"] \in passed
          \/ /\ [req |-> req[c], risk |-> None] \in passed
             /\ ~Reached(policy[c], req[c], "ask")

\* No rule of the daemon's matches the call, and one of the agent's allows it.
OnlyAgentAllows(c) ==
    ~Matched(own[c], req[c]) /\ Reached(AgentRules[by[c]], req[c], "allow")

\* A call that the rules and the mode leave to a human is allowed only by right,
\* and so is one that the daemon's rules alone would leave to a human, unless
\* none of them matches it and the agent allows it (askApproval, sessionPolicy,
\* settleApproval, remember and the drivers' tables).
AllowedByRight ==
    \A c \in Call : result[c] = "allow" =>
        /\ AsksAHuman(c, policy[c]) => ByRight(c)
        /\ AsksAHuman(c, own[c]) => ByRight(c) \/ OnlyAgentAllows(c)

\* "An agent's own APPROVALS file can only tighten what the daemon set, never
\* widen it" (README.md:243, and Merge in policy.go): a call that the daemon's
\* rules and the mode leave to a human is allowed only by right, whatever the
\* agent's rules say.  The code has it otherwise.
AgentNeverWidens ==
    \A c \in Call : result[c] = "allow" /\ AsksAHuman(c, own[c]) => ByRight(c)

\* A call that a rule it read denies is not allowed, whatever was granted,
\* rated or written since, unless the session skips the approvals; and a
\* session in plan mode runs only what reads (Decide, Apply and the order of
\* askApproval).
DenyStands ==
    \A c \in Call : result[c] = "allow" =>
        /\ under[c] # "bypass" => ~Reached(policy[c], req[c], "deny")
        /\ under[c] = "plan" => ReadOnly(req[c].tool)

\* A call that takes an answer returns the first one that was sent to it, no
\* matter how many operators answered (settleApproval's channel of one place).
FirstAnswerStands ==
    [][\A c \in Call : answer[c] # None /\ answer'[c] = None =>
            result'[c] = AnswerDecision(first[c])]_vars

(* Liveness. *)

\* A call that has begun returns, if only refused, and its slot with it: the
\* wait has a timer (askApproval).
EveryCallReturns == \A c \in Call : stage[c] = "ruled" ~> stage[c] = "done"

=============================================================================
