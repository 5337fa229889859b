--------------------------- MODULE ApprovalPolicy ---------------------------
(***************************************************************************)
(* The pure half of the approvals: what the rules, a session's mode and a   *)
(* rating say of one tool call (core/internal/approval/policy.go).          *)
(*                                                                         *)
(* A subject is opaque, and a pattern is known by the subjects it matches:  *)
(* Loose[p] when its wildcards may stand for anything, Tight[p] when they   *)
(* may not cross a shell operator (match with and without wildcardStops).   *)
(* A subject without wildcards is itself a pattern, the one that matches    *)
(* only that subject.                                                      *)
(***************************************************************************)
CONSTANTS
    Tool,           \* the tools a call may name
    Subject,        \* the subjects: command lines, file names, URLs
    Pattern,        \* the patterns a rule may carry, AnySubject among them
    Loose, Tight,   \* the subjects each pattern matches
    Plain,          \* the subjects without wildcard or line break
    Chained,        \* the subjects with a shell operator
    AnySubject,     \* the empty pattern
    AnyTool,        \* the tool "*" of a rule
    NoRule          \* the rule there is none of

ASSUME PatternAssumption ==
    /\ Plain \subseteq Subject /\ Plain \subseteq Pattern
    /\ AnySubject \in Pattern \ Plain
    /\ AnyTool \notin Tool
    /\ Loose \in [Pattern -> SUBSET Subject]
    /\ Tight \in [Pattern -> SUBSET Subject]
    /\ \A p \in Pattern : Tight[p] \subseteq Loose[p]
    /\ \A s \in Plain : Loose[s] = {s} /\ Tight[s] = {s}

-----------------------------------------------------------------------------
(* Decisions, rules, modes and ratings. *)

Decision == {"allow", "ask", "deny"}

Request == [tool : Tool, subject : Subject]

Rule == [decision : Decision, tool : Tool \cup {AnyTool}, pattern : Pattern]

\* "" is the mode of a row that names none, Go's zero Mode.
Mode == {"ask", "accept-edits", "plan", "auto", "bypass", "strict", "smart", ""}

Risk == {"low", "medium", "high"}

\* Only a low risk is allowed without a human.
RiskDecision(risk) == IF risk = "low" THEN "allow" ELSE "ask"

\* The tools the code names; every other tool is a write it does not know.
IsRead(tool) == tool \in {"Read", "Glob", "Grep", "LS"}

ReadOnly(tool) ==
    IsRead(tool) \/ tool \in {"WebFetch", "WebSearch", "TodoWrite"}

EditsFiles(tool) == tool \in {"Edit", "Write", "NotebookEdit"}

RunsCommand(tool) == tool = "Bash"

-----------------------------------------------------------------------------
(* What the rules say. *)

\* The subjects a rule speaks about when the call is of this tool: an allow
\* rule for a command line does not let a wildcard cross a shell operator.
RuleCovers(rule, req) ==
    req.subject \in IF rule.decision = "allow" /\ RunsCommand(req.tool)
                    THEN Tight[rule.pattern] ELSE Loose[rule.pattern]

Matches(rule, req) ==
    /\ rule.tool \in {AnyTool, req.tool}
    /\ rule.pattern = AnySubject \/ RuleCovers(rule, req)

\* A rule of the policy that reaches this decision on the call.
Reached(policy, req, d) ==
    \E rule \in policy : rule.decision = d /\ Matches(rule, req)

Matched(policy, req) == \E rule \in policy : Matches(rule, req)

\* Plausible mutation: the loosest matching rule wins.
DecideLoosest(policy, req) ==
    CASE Reached(policy, req, "allow") -> "allow"
      [] ~Reached(policy, req, "allow") /\ Reached(policy, req, "ask") -> "ask"
      [] OTHER -> IF Matched(policy, req) THEN "deny" ELSE "allow"

\* The strictest decision any rule reaches; nothing matching is allow.
Decide(policy, req) ==
    CASE Reached(policy, req, "deny") -> "deny"
      [] ~Reached(policy, req, "deny") /\ Reached(policy, req, "ask") -> "ask"
      [] OTHER -> "allow"

\* An agent's own rules are appended to the daemon's.
Merge(daemon, agent) == daemon \cup agent

\* The session's mode folded into the verdict of the rules.
Apply(mode, tool, decided, matched) ==
    LET unmatched == decided = "allow" /\ ~matched
        asks == \/ mode = "strict"
                \/ mode = "accept-edits" /\ RunsCommand(tool)
                \/ mode = "ask" /\ (EditsFiles(tool) \/ RunsCommand(tool))
    IN  CASE mode = "bypass" -> "allow"
          [] mode = "auto" -> IF decided = "deny" THEN "deny" ELSE "allow"
          [] mode = "plan" -> IF ReadOnly(tool) THEN decided ELSE "deny"
          [] OTHER -> IF unmatched /\ asks THEN "ask" ELSE decided

\* Smart mode has a model rate the calls the rules leave open.
Judged(mode, tool, decided, matched) ==
    /\ mode = "smart"
    /\ ~IsRead(tool)
    /\ decided # "deny"
    /\ decided = "allow" => ~matched

\* The rule that allows a call like this one from now on, if it can be
\* written without matching more.
RuleFor(req) ==
    IF req.subject \in Plain /\ ~(RunsCommand(req.tool) /\ req.subject \in Chained)
    THEN [decision |-> "allow", tool |-> req.tool, pattern |-> req.subject]
    ELSE NoRule
=============================================================================
