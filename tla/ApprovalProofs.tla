--------------------------- MODULE ApprovalProofs ---------------------------
(***************************************************************************)
(* The theorems about the approvals, for every set of sessions, calls, tools*)
(* and rules.                                                              *)
(***************************************************************************)
EXTENDS Approvals, FiniteSetTheorems, TLAPS

\* The table holds the calls between their registration and their release.
SlotInv == table = {c \in Call : stage[c] \in {"posting", "waiting", "leaving"}}

LEMMA InitTyped == ASSUME Init PROVE TypeOK
BY ApprovalsAssumption DEF Init, TypeOK, AsksTyped, DeskTyped, DriversTyped,
   RulesTyped, TableTyped, HistoryTyped, Stage, Scope

\* The rule written for a call that was asked is a rule.
LEMMA RuleForTyped ==
  ASSUME NEW r \in Request, RuleFor(r) # NoRule
  PROVE  RuleFor(r) \in Rule
BY PatternAssumption DEF RuleFor, Request, Rule, Decision

LEMMA VerdictTyped ==
  ASSUME NEW m \in Mode, NEW tool, NEW d \in Decision, NEW named \in BOOLEAN
  PROVE  Apply(m, tool, d, named) \in Decision
BY DEF Apply, Mode, Decision

LEMMA DecideTyped ==
  ASSUME NEW p, NEW r
  PROVE  Decide(p, r) \in Decision /\ Matched(p, r) \in BOOLEAN
BY DEF Decide, Decision, Matched

LEMMA MergeTyped ==
  ASSUME RulesTyped, NEW s \in Session
  PROVE  Merge(rules, AgentRules[s]) \in SUBSET Rule
BY ApprovalsAssumption DEF RulesTyped, Merge

\* What the calls hold stays in its sets.
LEMMA Next_AsksTyped ==
    ASSUME TypeOK, [Next]_vars
    PROVE  AsksTyped'
<1> USE ApprovalsAssumption DEF TypeOK, AsksTyped, Stage, Decision, Return, Settled, RiskDecision, AnswerDecision, TableTyped, DriversTyped, RulesTyped, deskVars, driverVars, ruleVars, askVars
<1>1. ASSUME NEW c \in Call, NEW s \in Session, NEW r \in Asked, Ask(c, s, r) PROVE AsksTyped'
  <2>1. r \in Request /\ Merge(rules, AgentRules[s]) \in SUBSET Rule
    BY ApprovalsAssumption, MergeTyped DEF TypeOK
  <2>2. stage' = [stage EXCEPT ![c] = "ruled"] /\ by' = [by EXCEPT ![c] = s]
        /\ req' = [req EXCEPT ![c] = r]
        /\ policy' = [policy EXCEPT ![c] = Merge(rules, AgentRules[s])]
        /\ own' = [own EXCEPT ![c] = rules] /\ rules \in SUBSET Rule
        /\ UNCHANGED <<under, decided, result>>
    BY <1>1 DEF Ask
  <2> QED
    BY <2>1, <2>2 DEF TypeOK, AsksTyped, Stage
<1>2. ASSUME NEW c \in Call, Verdict(c) PROVE AsksTyped'
  <2> DEFINE m == mode[by[c]]
              d == Apply(m, req[c].tool, Decide(policy[c], req[c]),
                         Matched(policy[c], req[c]))
  <2>1. m \in Mode /\ d \in Decision
    <3>1. m \in Mode
      BY <1>2 DEF TypeOK, AsksTyped, RulesTyped, Verdict
    <3>2. /\ Decide(policy[c], req[c]) \in Decision
          /\ Matched(policy[c], req[c]) \in BOOLEAN
      BY DecideTyped
    <3> QED
      BY <3>1, <3>2, VerdictTyped
  <2>2. under' = [under EXCEPT ![c] = m] /\ decided' = [decided EXCEPT ![c] = d]
        /\ UNCHANGED <<by, req, policy, own>> /\ stage[c] = "ruled"
        /\ \/ /\ stage' = [stage EXCEPT ![c] = "done"]
              /\ result' = [result EXCEPT ![c] = "deny"]
           \/ stage' = [stage EXCEPT ![c] = "decided"] /\ result' = result
    BY <1>2 DEF Verdict, Return
  <2> HIDE DEF m, d
  <2> QED
    BY <2>1, <2>2 DEF TypeOK, AsksTyped, Stage
<1>3. ASSUME NEW c \in Call, Recall(c) PROVE AsksTyped'
  BY <1>3 DEF Recall
<1>4. ASSUME NEW c \in Call, NEW risk \in Ratings, Rate(c, risk) PROVE AsksTyped'
  BY <1>4 DEF Rate
<1>5. ASSUME NEW c \in Call, RateFails(c) PROVE AsksTyped'
  BY <1>5, SMTT(30) DEF RateFails
<1>6. ASSUME NEW c \in Call, RegisterApproval(c) PROVE AsksTyped'
  BY <1>6 DEF RegisterApproval
<1>7. ASSUME NEW c \in Call, Posted(c) PROVE AsksTyped'
  BY <1>7 DEF Posted
<1>8. ASSUME NEW c \in Call, TakeAnswer(c) PROVE AsksTyped'
  BY <1>8 DEF TakeAnswer
<1>9. ASSUME NEW c \in Call, GiveUp(c) PROVE AsksTyped'
  BY <1>9 DEF GiveUp
<1>10. ASSUME NEW c \in Call, Release(c) PROVE AsksTyped'
  BY <1>10 DEF Release
<1>11. ASSUME NEW c \in Call, NEW scope \in Scope, Answer(c, scope) PROVE AsksTyped'
  BY <1>11 DEF Answer
<1>12. ASSUME NEW a \in desk, Send(a) PROVE AsksTyped'
  BY <1>12 DEF Send
<1>13. ASSUME NEW a \in desk, Remember(a) PROVE AsksTyped'
  BY <1>13 DEF Remember
<1>14. ASSUME NEW rule \in OperatorRules, AddApprovalRule(rule) PROVE AsksTyped'
  BY <1>14 DEF AddApprovalRule
<1>15. ASSUME NEW rule \in rules, RemoveApprovalRule(rule) PROVE AsksTyped'
  BY <1>15 DEF RemoveApprovalRule
<1>16. ASSUME NEW s \in Session, NEW m \in Modes, SetSessionApprovals(s, m) PROVE AsksTyped'
  BY <1>16 DEF SetSessionApprovals
<1>17. ASSUME NEW s \in Session, GoDead(s) PROVE AsksTyped'
  BY <1>17 DEF GoDead
<1>18. ASSUME NEW s \in Session, GoLive(s) PROVE AsksTyped'
  BY <1>18 DEF GoLive
<1>19. CASE UNCHANGED vars
  BY <1>19 DEF vars, askVars, deskVars, driverVars, ruleVars
<1> QED
  BY <1>1, <1>2, <1>3, <1>4, <1>5, <1>6, <1>7, <1>8, <1>9, <1>10, <1>11, <1>12, <1>13,
     <1>14, <1>15, <1>16, <1>17, <1>18, <1>19 DEF Next, AskStep, DeskStep, EditStep

\* An answer being given stays for a call that took a slot.
LEMMA Next_DeskTyped ==
    ASSUME TypeOK, SlotInv, [Next]_vars
    PROVE  DeskTyped'
<1> USE DEF TypeOK, AsksTyped, DeskTyped, TableTyped, Return, Settled, Sent, askVars, deskVars
<1>1. ASSUME NEW c \in Call, NEW s \in Session, NEW r \in Asked, Ask(c, s, r) PROVE DeskTyped'
  BY <1>1 DEF Ask
<1>2. ASSUME NEW c \in Call, Verdict(c) PROVE DeskTyped'
  BY <1>2 DEF Verdict
<1>3. ASSUME NEW c \in Call, Recall(c) PROVE DeskTyped'
  BY <1>3 DEF Recall
<1>4. ASSUME NEW c \in Call, NEW risk \in Ratings, Rate(c, risk) PROVE DeskTyped'
  BY <1>4 DEF Rate
<1>5. ASSUME NEW c \in Call, RateFails(c) PROVE DeskTyped'
  BY <1>5 DEF RateFails
<1>6. ASSUME NEW c \in Call, RegisterApproval(c) PROVE DeskTyped'
  BY <1>6 DEF RegisterApproval
<1>7. ASSUME NEW c \in Call, Posted(c) PROVE DeskTyped'
  BY <1>7 DEF Posted
<1>8. ASSUME NEW c \in Call, TakeAnswer(c) PROVE DeskTyped'
  BY <1>8 DEF TakeAnswer
<1>9. ASSUME NEW c \in Call, GiveUp(c) PROVE DeskTyped'
  BY <1>9 DEF GiveUp
<1>10. ASSUME NEW c \in Call, Release(c) PROVE DeskTyped'
  BY <1>10 DEF Release
<1>11. ASSUME NEW c \in Call, NEW scope \in Scope, Answer(c, scope) PROVE DeskTyped'
  <2> DEFINE a == [n |-> answers + 1, call |-> c, scope |-> scope, sent |-> FALSE]
  <2>1. desk' = desk \cup {a} /\ answers' = answers + 1
        /\ UNCHANGED <<first, stage>> /\ c \in table
    BY <1>11 DEF Answer, askVars
  <2>2. a \in [n : Nat, call : Call, scope : Scope, sent : BOOLEAN]
        /\ a.call = c
    BY DEF TypeOK, DeskTyped
  <2>3. stage[c] \in {"posting", "waiting", "leaving", "done"}
    BY <2>1 DEF SlotInv
  <2> HIDE DEF a
  <2> QED
    BY <2>1, <2>2, <2>3 DEF TypeOK, DeskTyped
<1>12. ASSUME NEW a \in desk, Send(a) PROVE DeskTyped'
  <2> DEFINE b == [n |-> a.n, call |-> a.call, scope |-> a.scope, sent |-> TRUE]
  <2>1. a \in [n : Nat, call : Call, scope : Scope, sent : BOOLEAN]
    BY DEF TypeOK, DeskTyped
  <2>2. b \in [n : Nat, call : Call, scope : Scope, sent : BOOLEAN]
        /\ b.call = a.call
    BY <2>1
  <2>3. desk' \subseteq desk \cup {b} /\ UNCHANGED <<answers, stage>>
        /\ \/ first' = [first EXCEPT ![a.call] =
                            IF first[a.call] = None THEN a.scope ELSE first[a.call]]
           \/ UNCHANGED first
    BY <1>12 DEF Send, Sent, askVars
  <2>4. first' \in [Call -> Scope \cup {None}]
    BY <2>1, <2>3 DEF TypeOK, DeskTyped
  <2> HIDE DEF b
  <2> QED
    BY <2>1, <2>2, <2>3, <2>4 DEF TypeOK, DeskTyped
<1>13. ASSUME NEW a \in desk, Remember(a) PROVE DeskTyped'
  BY <1>13 DEF Remember
<1>14. ASSUME NEW rule \in OperatorRules, AddApprovalRule(rule) PROVE DeskTyped'
  BY <1>14 DEF AddApprovalRule
<1>15. ASSUME NEW rule \in rules, RemoveApprovalRule(rule) PROVE DeskTyped'
  BY <1>15 DEF RemoveApprovalRule
<1>16. ASSUME NEW s \in Session, NEW m \in Modes, SetSessionApprovals(s, m) PROVE DeskTyped'
  BY <1>16 DEF SetSessionApprovals
<1>17. ASSUME NEW s \in Session, GoDead(s) PROVE DeskTyped'
  BY <1>17 DEF GoDead
<1>18. ASSUME NEW s \in Session, GoLive(s) PROVE DeskTyped'
  BY <1>18 DEF GoLive
<1>19. CASE UNCHANGED vars
  BY <1>19 DEF vars, askVars, deskVars, driverVars, ruleVars
<1> QED
  BY <1>1, <1>2, <1>3, <1>4, <1>5, <1>6, <1>7, <1>8, <1>9, <1>10, <1>11, <1>12, <1>13,
     <1>14, <1>15, <1>16, <1>17, <1>18, <1>19 DEF Next, AskStep, DeskStep, EditStep

\* What the drivers remember stays in its sets.
LEMMA Next_DriversTyped ==
    ASSUME TypeOK, [Next]_vars
    PROVE  DriversTyped'
<1> USE DEF TypeOK, DriversTyped, AsksTyped, DeskTyped, driverVars
<1>1. ASSUME NEW c \in Call, NEW s \in Session, NEW r \in Asked, Ask(c, s, r) PROVE DriversTyped'
  BY <1>1 DEF Ask
<1>2. ASSUME NEW c \in Call, Verdict(c) PROVE DriversTyped'
  BY <1>2 DEF Verdict
<1>3. ASSUME NEW c \in Call, Recall(c) PROVE DriversTyped'
  BY <1>3 DEF Recall
<1>4. ASSUME NEW c \in Call, NEW risk \in Ratings, Rate(c, risk) PROVE DriversTyped'
  <2> DEFINE v == [req |-> req[c], risk |-> risk]
  <2>1. v \in [req : Request, risk : Risk] /\ by[c] \in Session
    BY <1>4, ApprovalsAssumption DEF TypeOK, AsksTyped, Rate
  <2>2. UNCHANGED <<live, grants>>
        /\ \/ /\ by[c] \in live
              /\ verdicts' = [verdicts EXCEPT ![by[c]] =
                     {u \in verdicts[by[c]] : u.req # req[c]} \cup {v}]
           \/ UNCHANGED verdicts
    BY <1>4 DEF Rate
  <2> HIDE DEF v
  <2> QED
    BY <2>1, <2>2 DEF TypeOK, DriversTyped
<1>5. ASSUME NEW c \in Call, RateFails(c) PROVE DriversTyped'
  BY <1>5 DEF RateFails
<1>6. ASSUME NEW c \in Call, RegisterApproval(c) PROVE DriversTyped'
  BY <1>6 DEF RegisterApproval
<1>7. ASSUME NEW c \in Call, Posted(c) PROVE DriversTyped'
  BY <1>7 DEF Posted
<1>8. ASSUME NEW c \in Call, TakeAnswer(c) PROVE DriversTyped'
  BY <1>8 DEF TakeAnswer
<1>9. ASSUME NEW c \in Call, GiveUp(c) PROVE DriversTyped'
  BY <1>9 DEF GiveUp
<1>10. ASSUME NEW c \in Call, Release(c) PROVE DriversTyped'
  BY <1>10 DEF Release
<1>11. ASSUME NEW c \in Call, NEW scope \in Scope, Answer(c, scope) PROVE DriversTyped'
  BY <1>11 DEF Answer
<1>12. ASSUME NEW a \in desk, Send(a) PROVE DriversTyped'
  BY <1>12 DEF Send
<1>13. ASSUME NEW a \in desk, Remember(a) PROVE DriversTyped'
  BY <1>13 DEF Remember
<1>14. ASSUME NEW rule \in OperatorRules, AddApprovalRule(rule) PROVE DriversTyped'
  BY <1>14 DEF AddApprovalRule
<1>15. ASSUME NEW rule \in rules, RemoveApprovalRule(rule) PROVE DriversTyped'
  BY <1>15 DEF RemoveApprovalRule
<1>16. ASSUME NEW s \in Session, NEW m \in Modes, SetSessionApprovals(s, m) PROVE DriversTyped'
  BY <1>16 DEF SetSessionApprovals
<1>17. ASSUME NEW s \in Session, GoDead(s) PROVE DriversTyped'
  BY <1>17 DEF GoDead
<1>18. ASSUME NEW s \in Session, GoLive(s) PROVE DriversTyped'
  BY <1>18 DEF GoLive
<1>19. CASE UNCHANGED vars
  BY <1>19 DEF vars, askVars, deskVars, driverVars, ruleVars
<1> QED
  BY <1>1, <1>2, <1>3, <1>4, <1>5, <1>6, <1>7, <1>8, <1>9, <1>10, <1>11, <1>12, <1>13,
     <1>14, <1>15, <1>16, <1>17, <1>18, <1>19 DEF Next, AskStep, DeskStep, EditStep

\* Rules stay rules, and modes modes.
LEMMA Next_RulesTyped ==
    ASSUME TypeOK, [Next]_vars
    PROVE  RulesTyped'
<1> USE ApprovalsAssumption DEF TypeOK, AsksTyped, DeskTyped, RulesTyped, RuleOf, Edit, ruleVars
<1>1. ASSUME NEW c \in Call, NEW s \in Session, NEW r \in Asked, Ask(c, s, r) PROVE RulesTyped'
  BY <1>1 DEF Ask
<1>2. ASSUME NEW c \in Call, Verdict(c) PROVE RulesTyped'
  BY <1>2 DEF Verdict
<1>3. ASSUME NEW c \in Call, Recall(c) PROVE RulesTyped'
  BY <1>3 DEF Recall
<1>4. ASSUME NEW c \in Call, NEW risk \in Ratings, Rate(c, risk) PROVE RulesTyped'
  BY <1>4 DEF Rate
<1>5. ASSUME NEW c \in Call, RateFails(c) PROVE RulesTyped'
  BY <1>5 DEF RateFails
<1>6. ASSUME NEW c \in Call, RegisterApproval(c) PROVE RulesTyped'
  BY <1>6 DEF RegisterApproval
<1>7. ASSUME NEW c \in Call, Posted(c) PROVE RulesTyped'
  BY <1>7 DEF Posted
<1>8. ASSUME NEW c \in Call, TakeAnswer(c) PROVE RulesTyped'
  BY <1>8 DEF TakeAnswer
<1>9. ASSUME NEW c \in Call, GiveUp(c) PROVE RulesTyped'
  BY <1>9 DEF GiveUp
<1>10. ASSUME NEW c \in Call, Release(c) PROVE RulesTyped'
  BY <1>10 DEF Release
<1>11. ASSUME NEW c \in Call, NEW scope \in Scope, Answer(c, scope) PROVE RulesTyped'
  BY <1>11 DEF Answer
<1>12. ASSUME NEW a \in desk, Send(a) PROVE RulesTyped'
  BY <1>12 DEF Send
<1>13. ASSUME NEW a \in desk, Remember(a) PROVE RulesTyped'
  <2>1. a.call \in Call /\ req[a.call] \in Request
    BY DEF TypeOK, AsksTyped, DeskTyped
  <2>2. RuleOf(a) \subseteq Rule
    BY <2>1, RuleForTyped DEF RuleOf
  <2> QED
    BY <1>13, <2>2 DEF Remember, TypeOK, RulesTyped
<1>14. ASSUME NEW rule \in OperatorRules, AddApprovalRule(rule) PROVE RulesTyped'
  BY <1>14 DEF AddApprovalRule
<1>15. ASSUME NEW rule \in rules, RemoveApprovalRule(rule) PROVE RulesTyped'
  BY <1>15 DEF RemoveApprovalRule
<1>16. ASSUME NEW s \in Session, NEW m \in Modes, SetSessionApprovals(s, m) PROVE RulesTyped'
  BY <1>16 DEF SetSessionApprovals
<1>17. ASSUME NEW s \in Session, GoDead(s) PROVE RulesTyped'
  BY <1>17 DEF GoDead
<1>18. ASSUME NEW s \in Session, GoLive(s) PROVE RulesTyped'
  BY <1>18 DEF GoLive
<1>19. CASE UNCHANGED vars
  BY <1>19 DEF vars, askVars, deskVars, driverVars, ruleVars
<1> QED
  BY <1>1, <1>2, <1>3, <1>4, <1>5, <1>6, <1>7, <1>8, <1>9, <1>10, <1>11, <1>12, <1>13,
     <1>14, <1>15, <1>16, <1>17, <1>18, <1>19 DEF Next, AskStep, DeskStep, EditStep

\* The table stays a set of calls.
LEMMA Next_TableTyped ==
    ASSUME TypeOK, [Next]_vars
    PROVE  TableTyped'
<1> USE DEF TypeOK, TableTyped, DeskTyped, Sent
<1>1. ASSUME NEW c \in Call, NEW s \in Session, NEW r \in Asked, Ask(c, s, r) PROVE TableTyped'
  BY <1>1 DEF Ask
<1>2. ASSUME NEW c \in Call, Verdict(c) PROVE TableTyped'
  BY <1>2 DEF Verdict
<1>3. ASSUME NEW c \in Call, Recall(c) PROVE TableTyped'
  BY <1>3 DEF Recall
<1>4. ASSUME NEW c \in Call, NEW risk \in Ratings, Rate(c, risk) PROVE TableTyped'
  BY <1>4 DEF Rate
<1>5. ASSUME NEW c \in Call, RateFails(c) PROVE TableTyped'
  BY <1>5 DEF RateFails
<1>6. ASSUME NEW c \in Call, RegisterApproval(c) PROVE TableTyped'
  BY <1>6 DEF RegisterApproval
<1>7. ASSUME NEW c \in Call, Posted(c) PROVE TableTyped'
  BY <1>7 DEF Posted
<1>8. ASSUME NEW c \in Call, TakeAnswer(c) PROVE TableTyped'
  BY <1>8 DEF TakeAnswer
<1>9. ASSUME NEW c \in Call, GiveUp(c) PROVE TableTyped'
  BY <1>9 DEF GiveUp
<1>10. ASSUME NEW c \in Call, Release(c) PROVE TableTyped'
  BY <1>10 DEF Release
<1>11. ASSUME NEW c \in Call, NEW scope \in Scope, Answer(c, scope) PROVE TableTyped'
  BY <1>11 DEF Answer
<1>12. ASSUME NEW a \in desk, Send(a) PROVE TableTyped'
  BY <1>12 DEF Send
<1>13. ASSUME NEW a \in desk, Remember(a) PROVE TableTyped'
  BY <1>13 DEF Remember
<1>14. ASSUME NEW rule \in OperatorRules, AddApprovalRule(rule) PROVE TableTyped'
  BY <1>14 DEF AddApprovalRule
<1>15. ASSUME NEW rule \in rules, RemoveApprovalRule(rule) PROVE TableTyped'
  BY <1>15 DEF RemoveApprovalRule
<1>16. ASSUME NEW s \in Session, NEW m \in Modes, SetSessionApprovals(s, m) PROVE TableTyped'
  BY <1>16 DEF SetSessionApprovals
<1>17. ASSUME NEW s \in Session, GoDead(s) PROVE TableTyped'
  BY <1>17 DEF GoDead
<1>18. ASSUME NEW s \in Session, GoLive(s) PROVE TableTyped'
  BY <1>18 DEF GoLive
<1>19. CASE UNCHANGED vars
  BY <1>19 DEF vars, askVars, deskVars, driverVars, ruleVars
<1> QED
  BY <1>1, <1>2, <1>3, <1>4, <1>5, <1>6, <1>7, <1>8, <1>9, <1>10, <1>11, <1>12, <1>13,
     <1>14, <1>15, <1>16, <1>17, <1>18, <1>19 DEF Next, AskStep, DeskStep, EditStep

\* The histories stay in their sets.
LEMMA Next_HistoryTyped ==
    ASSUME TypeOK, [Next]_vars
    PROVE  HistoryTyped'
<1> USE DEF TypeOK, HistoryTyped, AsksTyped, DeskTyped
<1>1. ASSUME NEW c \in Call, NEW s \in Session, NEW r \in Asked, Ask(c, s, r) PROVE HistoryTyped'
  BY <1>1 DEF Ask
<1>2. ASSUME NEW c \in Call, Verdict(c) PROVE HistoryTyped'
  BY <1>2 DEF Verdict
<1>3. ASSUME NEW c \in Call, Recall(c) PROVE HistoryTyped'
  BY <1>3 DEF Recall
<1>4. ASSUME NEW c \in Call, NEW risk \in Ratings, Rate(c, risk) PROVE HistoryTyped'
  BY <1>4 DEF Rate
<1>5. ASSUME NEW c \in Call, RateFails(c) PROVE HistoryTyped'
  BY <1>5 DEF RateFails
<1>6. ASSUME NEW c \in Call, RegisterApproval(c) PROVE HistoryTyped'
  BY <1>6 DEF RegisterApproval
<1>7. ASSUME NEW c \in Call, Posted(c) PROVE HistoryTyped'
  BY <1>7 DEF Posted
<1>8. ASSUME NEW c \in Call, TakeAnswer(c) PROVE HistoryTyped'
  BY <1>8 DEF TakeAnswer
<1>9. ASSUME NEW c \in Call, GiveUp(c) PROVE HistoryTyped'
  BY <1>9 DEF GiveUp
<1>10. ASSUME NEW c \in Call, Release(c) PROVE HistoryTyped'
  BY <1>10 DEF Release
<1>11. ASSUME NEW c \in Call, NEW scope \in Scope, Answer(c, scope) PROVE HistoryTyped'
  BY <1>11 DEF Answer
<1>12. ASSUME NEW a \in desk, Send(a) PROVE HistoryTyped'
  BY <1>12 DEF Send
<1>13. ASSUME NEW a \in desk, Remember(a) PROVE HistoryTyped'
  BY <1>13 DEF Remember
<1>14. ASSUME NEW rule \in OperatorRules, AddApprovalRule(rule) PROVE HistoryTyped'
  BY <1>14 DEF AddApprovalRule
<1>15. ASSUME NEW rule \in rules, RemoveApprovalRule(rule) PROVE HistoryTyped'
  BY <1>15 DEF RemoveApprovalRule
<1>16. ASSUME NEW s \in Session, NEW m \in Modes, SetSessionApprovals(s, m) PROVE HistoryTyped'
  BY <1>16 DEF SetSessionApprovals
<1>17. ASSUME NEW s \in Session, GoDead(s) PROVE HistoryTyped'
  BY <1>17 DEF GoDead
<1>18. ASSUME NEW s \in Session, GoLive(s) PROVE HistoryTyped'
  BY <1>18 DEF GoLive
<1>19. CASE UNCHANGED vars
  BY <1>19 DEF vars, askVars, deskVars, driverVars, ruleVars
<1> QED
  BY <1>1, <1>2, <1>3, <1>4, <1>5, <1>6, <1>7, <1>8, <1>9, <1>10, <1>11, <1>12, <1>13,
     <1>14, <1>15, <1>16, <1>17, <1>18, <1>19 DEF Next, AskStep, DeskStep, EditStep

LEMMA NextTyped == ASSUME TypeOK, SlotInv, [Next]_vars PROVE TypeOK'
BY Next_AsksTyped, Next_DeskTyped, Next_DriversTyped, Next_RulesTyped,
   Next_TableTyped, Next_HistoryTyped DEF TypeOK

-----------------------------------------------------------------------------
(* The slots and the caps. *)

\* A slot is taken at the registration and given back at the release.
LEMMA NextSlots ==
    ASSUME TypeOK, SlotInv, [Next]_vars
    PROVE  SlotInv'
<1> USE DEF TypeOK, AsksTyped, TableTyped, SlotInv, Return, Settled, askVars
<1>1. ASSUME NEW c \in Call, NEW s \in Session, NEW r \in Asked, Ask(c, s, r) PROVE SlotInv'
  BY <1>1 DEF Ask
<1>2. ASSUME NEW c \in Call, Verdict(c) PROVE SlotInv'
  BY <1>2 DEF Verdict
<1>3. ASSUME NEW c \in Call, Recall(c) PROVE SlotInv'
  BY <1>3 DEF Recall
<1>4. ASSUME NEW c \in Call, NEW risk \in Ratings, Rate(c, risk) PROVE SlotInv'
  BY <1>4 DEF Rate
<1>5. ASSUME NEW c \in Call, RateFails(c) PROVE SlotInv'
  BY <1>5 DEF RateFails
<1>6. ASSUME NEW c \in Call, RegisterApproval(c) PROVE SlotInv'
  BY <1>6 DEF RegisterApproval
<1>7. ASSUME NEW c \in Call, Posted(c) PROVE SlotInv'
  BY <1>7 DEF Posted
<1>8. ASSUME NEW c \in Call, TakeAnswer(c) PROVE SlotInv'
  BY <1>8 DEF TakeAnswer
<1>9. ASSUME NEW c \in Call, GiveUp(c) PROVE SlotInv'
  BY <1>9 DEF GiveUp
<1>10. ASSUME NEW c \in Call, Release(c) PROVE SlotInv'
  BY <1>10 DEF Release
<1>11. ASSUME NEW c \in Call, NEW scope \in Scope, Answer(c, scope) PROVE SlotInv'
  BY <1>11 DEF Answer
<1>12. ASSUME NEW a \in desk, Send(a) PROVE SlotInv'
  BY <1>12 DEF Send
<1>13. ASSUME NEW a \in desk, Remember(a) PROVE SlotInv'
  BY <1>13 DEF Remember
<1>14. ASSUME NEW rule \in OperatorRules, AddApprovalRule(rule) PROVE SlotInv'
  BY <1>14 DEF AddApprovalRule
<1>15. ASSUME NEW rule \in rules, RemoveApprovalRule(rule) PROVE SlotInv'
  BY <1>15 DEF RemoveApprovalRule
<1>16. ASSUME NEW s \in Session, NEW m \in Modes, SetSessionApprovals(s, m) PROVE SlotInv'
  BY <1>16 DEF SetSessionApprovals
<1>17. ASSUME NEW s \in Session, GoDead(s) PROVE SlotInv'
  BY <1>17 DEF GoDead
<1>18. ASSUME NEW s \in Session, GoLive(s) PROVE SlotInv'
  BY <1>18 DEF GoLive
<1>19. CASE UNCHANGED vars
  BY <1>19 DEF vars, askVars, deskVars, driverVars, ruleVars
<1> QED
  BY <1>1, <1>2, <1>3, <1>4, <1>5, <1>6, <1>7, <1>8, <1>9, <1>10, <1>11, <1>12, <1>13,
     <1>14, <1>15, <1>16, <1>17, <1>18, <1>19 DEF Next, AskStep, DeskStep, EditStep

Caps ==
  /\ Cardinality(table) <= MaxPendingApprovals
  /\ \A s \in Session : Cardinality(Waiting(s)) <= MaxPendingPerSession

LEMMA CapsGrow ==
  ASSUME TypeOK, Caps, NEW c \in Call, HasRoom(by[c]), c \notin table,
         table' = table \cup {c}, by' = by
  PROVE  Caps'
<1>1. IsFiniteSet(table) /\ Cardinality(table) \in Nat
  BY FS_Subset, FS_CardinalityType, ApprovalsAssumption DEF TypeOK, TableTyped
<1>2. Cardinality(table') <= MaxPendingApprovals
  <2>1. Cardinality(table \cup {c}) = Cardinality(table) + 1
    BY <1>1, FS_AddElement
  <2>2. Cardinality(table) < MaxPendingApprovals
    BY DEF HasRoom
  <2> QED
    BY <1>1, <2>1, <2>2, ApprovalsAssumption
<1>3. ASSUME NEW s \in Session PROVE Cardinality(Waiting(s)') <= MaxPendingPerSession
  <2>1. IsFiniteSet(Waiting(s)) /\ Cardinality(Waiting(s)) \in Nat
    BY <1>1, FS_Subset, FS_CardinalityType DEF Waiting
  <2>2. CASE s = by[c]
    <3>1. Waiting(s)' = Waiting(s) \cup {c} /\ c \notin Waiting(s)
      BY <2>2 DEF Waiting
    <3>2. Cardinality(Waiting(s) \cup {c}) = Cardinality(Waiting(s)) + 1
      BY <2>1, <3>1, FS_AddElement
    <3>3. Cardinality(Waiting(s)) < MaxPendingPerSession
      BY <2>2 DEF HasRoom
    <3> QED
      BY <2>1, <3>1, <3>2, <3>3, ApprovalsAssumption
  <2>3. CASE s # by[c]
    <3>1. Waiting(s)' = Waiting(s)
      BY <2>3 DEF Waiting
    <3> QED
      BY <3>1 DEF Caps
  <2> QED  BY <2>2, <2>3
<1> QED  BY <1>2, <1>3 DEF Caps

LEMMA CapsShrink ==
  ASSUME TypeOK, Caps, table' \subseteq table,
         \A c \in table : by'[c] = by[c]
  PROVE  Caps'
<1>1. IsFiniteSet(table) /\ Cardinality(table) \in Nat
  BY FS_Subset, FS_CardinalityType, ApprovalsAssumption DEF TypeOK, TableTyped
<1>2. IsFiniteSet(table') /\ Cardinality(table') <= Cardinality(table)
      /\ Cardinality(table') \in Nat
  BY <1>1, FS_Subset, FS_CardinalityType
<1>3. ASSUME NEW s \in Session PROVE Cardinality(Waiting(s)') <= MaxPendingPerSession
  <2>1. IsFiniteSet(Waiting(s)) /\ Waiting(s)' \subseteq Waiting(s)
    BY <1>1, FS_Subset DEF Waiting
  <2>2. Cardinality(Waiting(s)') <= Cardinality(Waiting(s))
        /\ Cardinality(Waiting(s)') \in Nat /\ Cardinality(Waiting(s)) \in Nat
    BY <2>1, FS_Subset, FS_CardinalityType
  <2> QED
    BY <2>2, ApprovalsAssumption DEF Caps
<1> QED
  BY <1>1, <1>2, <1>3, ApprovalsAssumption DEF Caps

LEMMA NextCaps ==
  ASSUME TypeOK, SlotInv, Caps, [Next]_vars
  PROVE  Caps'
<1>1. CASE \E c \in Call : RegisterApproval(c) /\ HasRoom(by[c])
  <2>1. PICK c \in Call : RegisterApproval(c) /\ HasRoom(by[c])
    BY <1>1
  <2>2. c \notin table /\ table' = table \cup {c} /\ by' = by
    BY <2>1 DEF RegisterApproval, SlotInv
  <2> QED
    BY <2>1, <2>2, CapsGrow
<1>2. CASE ~\E c \in Call : RegisterApproval(c) /\ HasRoom(by[c])
  <2>1. table' \subseteq table
    BY <1>2 DEF Next, AskStep, DeskStep, EditStep, vars, Ask, Verdict, Recall, Rate,
       RateFails, RegisterApproval, Posted, TakeAnswer, GiveUp, Release, Answer,
       Send, Remember, AddApprovalRule, RemoveApprovalRule,
       SetSessionApprovals, GoDead, GoLive
  <2>2. \A c \in table : by'[c] = by[c]
    <3>1. CASE UNCHANGED by
      BY <3>1
    <3>2. CASE \E c \in Call, s \in Session, r \in Asked : Ask(c, s, r)
      BY <3>2 DEF Ask, SlotInv, TypeOK, AsksTyped
    <3> QED
      BY <3>1, <3>2 DEF Next, AskStep, DeskStep, EditStep, vars, askVars, Verdict,
         Recall, Rate, RateFails, RegisterApproval, Posted, TakeAnswer, GiveUp,
         Release, Answer, Send, Remember, AddApprovalRule, RemoveApprovalRule,
         SetSessionApprovals, GoDead, GoLive
  <2> QED
    BY <2>1, <2>2, CapsShrink
<1> QED  BY <1>1, <1>2

LEMMA InitSlots == ASSUME Init PROVE SlotInv /\ Caps
<1>1. table = {} /\ SlotInv
  BY DEF Init, SlotInv
<1>2. \A s \in Session : Waiting(s) = {}
  BY <1>1 DEF Waiting
<1> QED
  BY <1>1, <1>2, FS_EmptySet, ApprovalsAssumption DEF Caps

(***************************************************************************)
(* For every set of sessions and calls, the variables stay in their sets.   *)
(***************************************************************************)
THEOREM ApprovalsTyped == Spec => []TypeOK
<1>1. Init => TypeOK /\ SlotInv
  BY InitTyped, InitSlots
<1>2. TypeOK /\ SlotInv /\ [Next]_vars => (TypeOK /\ SlotInv)'
  BY NextTyped, NextSlots
<1> QED
  BY <1>1, <1>2, PTL DEF Spec

(***************************************************************************)
(* For every set of sessions and calls and every two caps, a slot is held   *)
(* exactly from a call's registration to its release, and the caps hold.    *)
(***************************************************************************)
THEOREM SlotsAreHeld == Spec => []SlotsHold
<1>1. Init => TypeOK /\ SlotInv /\ Caps
  BY InitTyped, InitSlots
<1>2. TypeOK /\ SlotInv /\ Caps /\ [Next]_vars => (TypeOK /\ SlotInv /\ Caps)'
  BY NextTyped, NextSlots, NextCaps
<1>3. TypeOK /\ SlotInv /\ Caps => SlotsHold
  BY DEF SlotInv, Caps, SlotsHold
<1> QED
  BY <1>1, <1>2, <1>3, PTL DEF Spec

-----------------------------------------------------------------------------
(* What the rules and the mode say. *)

\* A call that is not denied at once is not one its rules or its plan deny.
Clean(c) ==
  /\ under[c] # "bypass" => ~Reached(policy[c], req[c], "deny")
  /\ under[c] = "plan" => ReadOnly(req[c].tool)

LEMMA NotDenied ==
  ASSUME NEW m \in Mode, NEW p, NEW r,
         Apply(m, r.tool, Decide(p, r), Matched(p, r)) # "deny"
  PROVE  /\ m # "bypass" => ~Reached(p, r, "deny")
         /\ m = "plan" => ReadOnly(r.tool)
BY DEF Apply, Decide, Mode

\* What the first step of a call decided, as long as nothing else has.
DecidedInv ==
  \A c \in Call :
    /\ stage[c] = "decided" =>
         decided[c] = Apply(under[c], req[c].tool, Decide(policy[c], req[c]),
                            Matched(policy[c], req[c]))
    /\ stage[c] = "rating" =>
         /\ decided[c] = Apply(under[c], req[c].tool, Decide(policy[c], req[c]),
                               Matched(policy[c], req[c]))
         /\ Judged(under[c], req[c].tool, decided[c], Matched(policy[c], req[c]))
    /\ stage[c] \notin {"leaving", "done"} => result[c] = None

DenyInv ==
  \A c \in Call :
    stage[c] \notin {"idle", "ruled"} => Clean(c) \/ result[c] = "deny"

\* Only the steps after it change what was decided.
LEMMA NextDecided ==
    ASSUME TypeOK, DecidedInv, [Next]_vars
    PROVE  DecidedInv'
<1> USE DEF TypeOK, AsksTyped, DecidedInv, Return, Settled, askVars
<1>1. ASSUME NEW c \in Call, NEW s \in Session, NEW r \in Asked, Ask(c, s, r) PROVE DecidedInv'
  BY <1>1 DEF Ask
<1>2. ASSUME NEW c \in Call, Verdict(c) PROVE DecidedInv'
  <2>1. \A k \in Call : k # c =>
          /\ stage'[k] = stage[k] /\ decided'[k] = decided[k]
          /\ result'[k] = result[k] /\ by'[k] = by[k] /\ req'[k] = req[k]
          /\ policy'[k] = policy[k] /\ under'[k] = under[k]
    BY <1>2 DEF Verdict, Return, Settled, TypeOK, AsksTyped
  <2>2. /\ UNCHANGED <<by, req, policy>>
        /\ stage'[c] \in {"done", "decided"}
        /\ stage'[c] = "decided" => result'[c] = result[c]
        /\ decided'[c] = Apply(under'[c], req[c].tool, Decide(policy[c], req[c]),
                               Matched(policy[c], req[c]))
        /\ under'[c] = mode[by[c]] /\ stage[c] = "ruled"
    BY <1>2 DEF Verdict, Return, TypeOK, AsksTyped
  <2> DEFINE P(k) ==
        /\ stage[k] = "decided" =>
             decided[k] = Apply(under[k], req[k].tool, Decide(policy[k], req[k]),
                                Matched(policy[k], req[k]))
        /\ stage[k] = "rating" =>
             /\ decided[k] = Apply(under[k], req[k].tool, Decide(policy[k], req[k]),
                                   Matched(policy[k], req[k]))
             /\ Judged(under[k], req[k].tool, decided[k], Matched(policy[k], req[k]))
        /\ stage[k] \notin {"leaving", "done"} => result[k] = None
  <2>3. ASSUME NEW k \in Call, k # c PROVE P(k)'
    BY <2>1, <2>3
  <2>4. P(c)'
    BY <2>2
  <2> QED
    BY <2>3, <2>4
<1>3. ASSUME NEW c \in Call, Recall(c) PROVE DecidedInv'
  BY <1>3 DEF Recall
<1>4. ASSUME NEW c \in Call, NEW risk \in Ratings, Rate(c, risk) PROVE DecidedInv'
  BY <1>4 DEF Rate
<1>5. ASSUME NEW c \in Call, RateFails(c) PROVE DecidedInv'
  BY <1>5 DEF RateFails
<1>6. ASSUME NEW c \in Call, RegisterApproval(c) PROVE DecidedInv'
  BY <1>6 DEF RegisterApproval
<1>7. ASSUME NEW c \in Call, Posted(c) PROVE DecidedInv'
  BY <1>7 DEF Posted
<1>8. ASSUME NEW c \in Call, TakeAnswer(c) PROVE DecidedInv'
  BY <1>8 DEF TakeAnswer
<1>9. ASSUME NEW c \in Call, GiveUp(c) PROVE DecidedInv'
  BY <1>9 DEF GiveUp
<1>10. ASSUME NEW c \in Call, Release(c) PROVE DecidedInv'
  BY <1>10 DEF Release
<1>11. ASSUME NEW c \in Call, NEW scope \in Scope, Answer(c, scope) PROVE DecidedInv'
  BY <1>11 DEF Answer
<1>12. ASSUME NEW a \in desk, Send(a) PROVE DecidedInv'
  BY <1>12 DEF Send
<1>13. ASSUME NEW a \in desk, Remember(a) PROVE DecidedInv'
  BY <1>13 DEF Remember
<1>14. ASSUME NEW rule \in OperatorRules, AddApprovalRule(rule) PROVE DecidedInv'
  BY <1>14 DEF AddApprovalRule
<1>15. ASSUME NEW rule \in rules, RemoveApprovalRule(rule) PROVE DecidedInv'
  BY <1>15 DEF RemoveApprovalRule
<1>16. ASSUME NEW s \in Session, NEW m \in Modes, SetSessionApprovals(s, m) PROVE DecidedInv'
  BY <1>16 DEF SetSessionApprovals
<1>17. ASSUME NEW s \in Session, GoDead(s) PROVE DecidedInv'
  BY <1>17 DEF GoDead
<1>18. ASSUME NEW s \in Session, GoLive(s) PROVE DecidedInv'
  BY <1>18 DEF GoLive
<1>19. CASE UNCHANGED vars
  BY <1>19 DEF vars, askVars, deskVars, driverVars, ruleVars
<1> QED
  BY <1>1, <1>2, <1>3, <1>4, <1>5, <1>6, <1>7, <1>8, <1>9, <1>10, <1>11, <1>12, <1>13,
     <1>14, <1>15, <1>16, <1>17, <1>18, <1>19 DEF Next, AskStep, DeskStep, EditStep

\* A call that has not been denied stays clean: its rules are its own.
LEMMA NextDeny ==
    ASSUME TypeOK, DecidedInv, DenyInv, [Next]_vars
    PROVE  DenyInv'
<1> USE DEF DenyInv
<1>1. ASSUME NEW c \in Call, NEW s \in Session, NEW r \in Asked, Ask(c, s, r) PROVE DenyInv'
  <2>1. /\ stage' = [stage EXCEPT ![c] = "ruled"] /\ UNCHANGED <<under, result>>
        /\ \A k \in Call : k # c => /\ req'[k] = req[k] /\ policy'[k] = policy[k]
                                   /\ stage'[k] = stage[k]
    BY <1>1 DEF Ask, TypeOK, AsksTyped
  <2>2. \A k \in Call : k # c => (Clean(k)' <=> Clean(k))
    BY <2>1 DEF Clean
  <2> QED
    BY <2>1, <2>2 DEF TypeOK, AsksTyped
<1>2. ASSUME NEW c \in Call, Verdict(c) PROVE DenyInv'
  <2>1. \A k \in Call : k # c =>
          /\ stage'[k] = stage[k] /\ decided'[k] = decided[k]
          /\ result'[k] = result[k] /\ by'[k] = by[k] /\ req'[k] = req[k]
          /\ policy'[k] = policy[k] /\ under'[k] = under[k]
    BY <1>2 DEF Verdict, Return, Settled, TypeOK, AsksTyped
  <2>2. /\ UNCHANGED <<by, req, policy>> /\ under'[c] = mode[by[c]]
        /\ Apply(mode[by[c]], req[c].tool, Decide(policy[c], req[c]),
                 Matched(policy[c], req[c])) = "deny" => result'[c] = "deny"
    BY <1>2 DEF Verdict, Return, TypeOK, AsksTyped
  <2>3. mode[by[c]] \in Mode
    BY <1>2 DEF Verdict, TypeOK, AsksTyped, RulesTyped
  <2>4. Clean(c)' \/ result'[c] = "deny"
    BY <2>2, <2>3, NotDenied DEF Clean
  <2>5. \A k \in Call : k # c => (Clean(k)' <=> Clean(k))
    BY <2>1 DEF Clean
  <2> QED
    BY <2>1, <2>4, <2>5
<1>3. ASSUME NEW c \in Call, Recall(c) PROVE DenyInv'
  <2>1. /\ UNCHANGED <<by, req, policy, under>>
        /\ stage[c] \notin {"idle", "ruled"} /\ result[c] \notin {"allow", "deny"}
        /\ \A k \in Call : k # c => stage'[k] = stage[k] /\ result'[k] = result[k]
    BY <1>3, ApprovalsAssumption DEF Recall, Return, Settled, TypeOK, AsksTyped, DecidedInv,
       Decision
  <2>2. \A k \in Call : Clean(k)' <=> Clean(k)
    BY <2>1 DEF Clean
  <2> QED
    BY <2>1, <2>2
<1>4. ASSUME NEW c \in Call, NEW risk \in Ratings, Rate(c, risk) PROVE DenyInv'
  <2>1. /\ UNCHANGED <<by, req, policy, under>>
        /\ stage[c] \notin {"idle", "ruled"} /\ result[c] \notin {"allow", "deny"}
        /\ \A k \in Call : k # c => stage'[k] = stage[k] /\ result'[k] = result[k]
    BY <1>4, ApprovalsAssumption DEF Rate, Return, Settled, TypeOK, AsksTyped, DecidedInv,
       Decision
  <2>2. \A k \in Call : Clean(k)' <=> Clean(k)
    BY <2>1 DEF Clean
  <2> QED
    BY <2>1, <2>2
<1>5. ASSUME NEW c \in Call, RateFails(c) PROVE DenyInv'
  <2>1. /\ UNCHANGED <<by, req, policy, under>>
        /\ stage[c] \notin {"idle", "ruled"} /\ result[c] \notin {"allow", "deny"}
        /\ \A k \in Call : k # c => stage'[k] = stage[k] /\ result'[k] = result[k]
    BY <1>5, ApprovalsAssumption DEF RateFails, Return, Settled, TypeOK, AsksTyped,
       DecidedInv, Decision
  <2>2. \A k \in Call : Clean(k)' <=> Clean(k)
    BY <2>1 DEF Clean
  <2> QED
    BY <2>1, <2>2
<1>6. ASSUME NEW c \in Call, RegisterApproval(c) PROVE DenyInv'
  <2>1. /\ UNCHANGED <<by, req, policy, under>>
        /\ stage[c] \notin {"idle", "ruled"} /\ result[c] \notin {"allow", "deny"}
        /\ \A k \in Call : k # c => stage'[k] = stage[k] /\ result'[k] = result[k]
    BY <1>6, ApprovalsAssumption DEF RegisterApproval, Return, Settled, TypeOK, AsksTyped,
       DecidedInv, Decision
  <2>2. \A k \in Call : Clean(k)' <=> Clean(k)
    BY <2>1 DEF Clean
  <2> QED
    BY <2>1, <2>2
<1>7. ASSUME NEW c \in Call, Posted(c) PROVE DenyInv'
  <2>1. UNCHANGED <<req, policy, under, result>>
        /\ \A k \in Call : stage'[k] \notin {"idle", "ruled"} => stage[k] \notin {"idle", "ruled"}
    BY <1>7 DEF Posted, askVars, TypeOK, AsksTyped
  <2>2. \A k \in Call : Clean(k)' <=> Clean(k)
    BY <2>1 DEF Clean
  <2> QED
    BY <2>1, <2>2
<1>8. ASSUME NEW c \in Call, TakeAnswer(c) PROVE DenyInv'
  <2>1. /\ UNCHANGED <<by, req, policy, under>>
        /\ stage[c] \notin {"idle", "ruled"} /\ result[c] \notin {"allow", "deny"}
        /\ \A k \in Call : k # c => stage'[k] = stage[k] /\ result'[k] = result[k]
    BY <1>8, ApprovalsAssumption DEF TakeAnswer, Return, Settled, TypeOK, AsksTyped,
       DecidedInv, Decision
  <2>2. \A k \in Call : Clean(k)' <=> Clean(k)
    BY <2>1 DEF Clean
  <2> QED
    BY <2>1, <2>2
<1>9. ASSUME NEW c \in Call, GiveUp(c) PROVE DenyInv'
  <2>1. /\ UNCHANGED <<by, req, policy, under>>
        /\ stage[c] \notin {"idle", "ruled"} /\ result[c] \notin {"allow", "deny"}
        /\ \A k \in Call : k # c => stage'[k] = stage[k] /\ result'[k] = result[k]
    BY <1>9, ApprovalsAssumption DEF GiveUp, Return, Settled, TypeOK, AsksTyped, DecidedInv,
       Decision
  <2>2. \A k \in Call : Clean(k)' <=> Clean(k)
    BY <2>1 DEF Clean
  <2> QED
    BY <2>1, <2>2
<1>10. ASSUME NEW c \in Call, Release(c) PROVE DenyInv'
  <2>1. UNCHANGED <<req, policy, under, result>>
        /\ \A k \in Call : stage'[k] \notin {"idle", "ruled"} => stage[k] \notin {"idle", "ruled"}
    BY <1>10 DEF Release, askVars, TypeOK, AsksTyped
  <2>2. \A k \in Call : Clean(k)' <=> Clean(k)
    BY <2>1 DEF Clean
  <2> QED
    BY <2>1, <2>2
<1>11. ASSUME NEW c \in Call, NEW scope \in Scope, Answer(c, scope) PROVE DenyInv'
  <2>1. UNCHANGED <<req, policy, under, result>>
        /\ \A k \in Call : stage'[k] \notin {"idle", "ruled"} => stage[k] \notin {"idle", "ruled"}
    BY <1>11 DEF Answer, askVars, TypeOK, AsksTyped
  <2>2. \A k \in Call : Clean(k)' <=> Clean(k)
    BY <2>1 DEF Clean
  <2> QED
    BY <2>1, <2>2
<1>12. ASSUME NEW a \in desk, Send(a) PROVE DenyInv'
  <2>1. UNCHANGED <<req, policy, under, result>>
        /\ \A k \in Call : stage'[k] \notin {"idle", "ruled"} => stage[k] \notin {"idle", "ruled"}
    BY <1>12 DEF Send, askVars, TypeOK, AsksTyped
  <2>2. \A k \in Call : Clean(k)' <=> Clean(k)
    BY <2>1 DEF Clean
  <2> QED
    BY <2>1, <2>2
<1>13. ASSUME NEW a \in desk, Remember(a) PROVE DenyInv'
  <2>1. UNCHANGED <<req, policy, under, result>>
        /\ \A k \in Call : stage'[k] \notin {"idle", "ruled"} => stage[k] \notin {"idle", "ruled"}
    BY <1>13 DEF Remember, askVars, TypeOK, AsksTyped
  <2>2. \A k \in Call : Clean(k)' <=> Clean(k)
    BY <2>1 DEF Clean
  <2> QED
    BY <2>1, <2>2
<1>14. ASSUME NEW rule \in OperatorRules, AddApprovalRule(rule) PROVE DenyInv'
  <2>1. UNCHANGED <<req, policy, under, result>>
        /\ \A k \in Call : stage'[k] \notin {"idle", "ruled"} => stage[k] \notin {"idle", "ruled"}
    BY <1>14 DEF AddApprovalRule, askVars, TypeOK, AsksTyped
  <2>2. \A k \in Call : Clean(k)' <=> Clean(k)
    BY <2>1 DEF Clean
  <2> QED
    BY <2>1, <2>2
<1>15. ASSUME NEW rule \in rules, RemoveApprovalRule(rule) PROVE DenyInv'
  <2>1. UNCHANGED <<req, policy, under, result>>
        /\ \A k \in Call : stage'[k] \notin {"idle", "ruled"} => stage[k] \notin {"idle", "ruled"}
    BY <1>15 DEF RemoveApprovalRule, askVars, TypeOK, AsksTyped
  <2>2. \A k \in Call : Clean(k)' <=> Clean(k)
    BY <2>1 DEF Clean
  <2> QED
    BY <2>1, <2>2
<1>16. ASSUME NEW s \in Session, NEW m \in Modes, SetSessionApprovals(s, m) PROVE DenyInv'
  <2>1. UNCHANGED <<req, policy, under, result>>
        /\ \A k \in Call : stage'[k] \notin {"idle", "ruled"} => stage[k] \notin {"idle", "ruled"}
    BY <1>16 DEF SetSessionApprovals, askVars, TypeOK, AsksTyped
  <2>2. \A k \in Call : Clean(k)' <=> Clean(k)
    BY <2>1 DEF Clean
  <2> QED
    BY <2>1, <2>2
<1>17. ASSUME NEW s \in Session, GoDead(s) PROVE DenyInv'
  <2>1. UNCHANGED <<req, policy, under, result>>
        /\ \A k \in Call : stage'[k] \notin {"idle", "ruled"} => stage[k] \notin {"idle", "ruled"}
    BY <1>17 DEF GoDead, askVars, TypeOK, AsksTyped
  <2>2. \A k \in Call : Clean(k)' <=> Clean(k)
    BY <2>1 DEF Clean
  <2> QED
    BY <2>1, <2>2
<1>18. ASSUME NEW s \in Session, GoLive(s) PROVE DenyInv'
  <2>1. UNCHANGED <<req, policy, under, result>>
        /\ \A k \in Call : stage'[k] \notin {"idle", "ruled"} => stage[k] \notin {"idle", "ruled"}
    BY <1>18 DEF GoLive, askVars, TypeOK, AsksTyped
  <2>2. \A k \in Call : Clean(k)' <=> Clean(k)
    BY <2>1 DEF Clean
  <2> QED
    BY <2>1, <2>2
<1>19. CASE UNCHANGED vars
  <2>1. UNCHANGED <<req, policy, under, result, stage>>
    BY <1>19 DEF vars, askVars
  <2>2. \A k \in Call : Clean(k)' <=> Clean(k)
    BY <2>1 DEF Clean
  <2> QED
    BY <2>1, <2>2
<1> QED
  BY <1>1, <1>2, <1>3, <1>4, <1>5, <1>6, <1>7, <1>8, <1>9, <1>10, <1>11, <1>12, <1>13,
     <1>14, <1>15, <1>16, <1>17, <1>18, <1>19 DEF Next, AskStep, DeskStep, EditStep

(***************************************************************************)
(* For every set of rules, tools and subjects: no grant, rating or answer   *)
(* lets a call pass that a rule it read denies, or a write in plan mode.    *)
(***************************************************************************)
THEOREM DenyAlwaysStands == Spec => []DenyStands
<1>1. Init => TypeOK /\ SlotInv /\ DecidedInv /\ DenyInv
  BY InitTyped, InitSlots DEF Init, DecidedInv, DenyInv
<1>2. TypeOK /\ SlotInv /\ DecidedInv /\ DenyInv /\ [Next]_vars
      => (TypeOK /\ SlotInv /\ DecidedInv /\ DenyInv)'
  BY NextTyped, NextSlots, NextDecided, NextDeny
<1>3. TypeOK /\ DecidedInv /\ DenyInv => DenyStands
  BY ApprovalsAssumption DEF DenyInv, DecidedInv, DenyStands, Clean, TypeOK, AsksTyped,
     Stage, Decision
<1> QED
  BY <1>1, <1>2, <1>3, PTL DEF Spec

-----------------------------------------------------------------------------
(* Whose answer a call returns. *)

\* The channel of a call that waits holds the first answer sent to it.
FirstInv ==
  \A c \in Call :
    /\ stage[c] \notin {"posting", "waiting", "leaving", "done"} =>
         first[c] = None /\ answer[c] = None
    /\ stage[c] \in {"posting", "waiting"} => answer[c] = first[c]

\* Only a sender fills the channel, and only the call empties it.
LEMMA NextFirst ==
    ASSUME TypeOK, SlotInv, FirstInv, [Next]_vars
    PROVE  FirstInv'
<1> USE DEF TypeOK, AsksTyped, FirstInv, askVars, deskVars, Return
<1>1. ASSUME NEW c \in Call, NEW s \in Session, NEW r \in Asked, Ask(c, s, r) PROVE FirstInv'
  BY <1>1 DEF Ask
<1>2. ASSUME NEW c \in Call, Verdict(c) PROVE FirstInv'
  BY <1>2 DEF Verdict
<1>3. ASSUME NEW c \in Call, Recall(c) PROVE FirstInv'
  <2>1. /\ UNCHANGED <<first, answer>> /\ first[c] = None /\ answer[c] = None
        /\ \A k \in Call : k # c => stage'[k] = stage[k]
    BY <1>3 DEF Recall, Return, Settled, deskVars
  <2> QED
    BY <2>1
<1>4. ASSUME NEW c \in Call, NEW risk \in Ratings, Rate(c, risk) PROVE FirstInv'
  <2>1. /\ UNCHANGED <<first, answer>> /\ first[c] = None /\ answer[c] = None
        /\ \A k \in Call : k # c => stage'[k] = stage[k]
    BY <1>4 DEF Rate, Return, Settled, deskVars
  <2> QED
    BY <2>1
<1>5. ASSUME NEW c \in Call, RateFails(c) PROVE FirstInv'
  <2>1. /\ UNCHANGED <<first, answer>> /\ first[c] = None /\ answer[c] = None
        /\ \A k \in Call : k # c => stage'[k] = stage[k]
    BY <1>5 DEF RateFails, Return, Settled, deskVars
  <2> QED
    BY <2>1
<1>6. ASSUME NEW c \in Call, RegisterApproval(c) PROVE FirstInv'
  <2>1. /\ UNCHANGED <<first, answer>> /\ first[c] = None /\ answer[c] = None
        /\ \A k \in Call : k # c => stage'[k] = stage[k]
    BY <1>6 DEF RegisterApproval, Return, Settled, deskVars
  <2> QED
    BY <2>1
<1>7. ASSUME NEW c \in Call, Posted(c) PROVE FirstInv'
  BY <1>7 DEF Posted
<1>8. ASSUME NEW c \in Call, TakeAnswer(c) PROVE FirstInv'
  BY <1>8 DEF TakeAnswer
<1>9. ASSUME NEW c \in Call, GiveUp(c) PROVE FirstInv'
  BY <1>9 DEF GiveUp
<1>10. ASSUME NEW c \in Call, Release(c) PROVE FirstInv'
  BY <1>10 DEF Release
<1>11. ASSUME NEW c \in Call, NEW scope \in Scope, Answer(c, scope) PROVE FirstInv'
  BY <1>11 DEF Answer
<1>12. ASSUME NEW a \in desk, Send(a) PROVE FirstInv'
  <2>1. a.call \in Call /\ a.scope \in Scope /\ a.scope # None
        /\ stage[a.call] \in {"posting", "waiting", "leaving", "done"}
    BY ApprovalsAssumption DEF DeskTyped
  <2>2. /\ UNCHANGED stage
        /\ \A k \in Call : k # a.call => first'[k] = first[k] /\ answer'[k] = answer[k]
    BY <1>12, <2>1 DEF Send, Sent, askVars, DeskTyped, TableTyped
  <2>3. stage[a.call] \in {"posting", "waiting"} => answer'[a.call] = first'[a.call]
    BY <1>12, <2>1 DEF Send, Sent, DeskTyped, TableTyped
  <2> QED
    BY <2>1, <2>2, <2>3
<1>13. ASSUME NEW a \in desk, Remember(a) PROVE FirstInv'
  BY <1>13 DEF Remember
<1>14. ASSUME NEW rule \in OperatorRules, AddApprovalRule(rule) PROVE FirstInv'
  BY <1>14 DEF AddApprovalRule
<1>15. ASSUME NEW rule \in rules, RemoveApprovalRule(rule) PROVE FirstInv'
  BY <1>15 DEF RemoveApprovalRule
<1>16. ASSUME NEW s \in Session, NEW m \in Modes, SetSessionApprovals(s, m) PROVE FirstInv'
  BY <1>16 DEF SetSessionApprovals
<1>17. ASSUME NEW s \in Session, GoDead(s) PROVE FirstInv'
  BY <1>17 DEF GoDead
<1>18. ASSUME NEW s \in Session, GoLive(s) PROVE FirstInv'
  BY <1>18 DEF GoLive
<1>19. CASE UNCHANGED vars
  BY <1>19 DEF vars, askVars, deskVars
<1> QED
  BY <1>1, <1>2, <1>3, <1>4, <1>5, <1>6, <1>7, <1>8, <1>9, <1>10, <1>11, <1>12, <1>13,
     <1>14, <1>15, <1>16, <1>17, <1>18, <1>19 DEF Next, AskStep, DeskStep, EditStep

(***************************************************************************)
(* For every number of calls and answers, the answer a call takes is the    *)
(* first one that was sent to it.                                          *)
(***************************************************************************)
THEOREM TheFirstAnswerStands == Spec => FirstAnswerStands
<1>1. Init => TypeOK /\ SlotInv /\ FirstInv
  BY InitTyped, InitSlots DEF Init, FirstInv
<1>2. TypeOK /\ SlotInv /\ FirstInv /\ [Next]_vars
      => (TypeOK /\ SlotInv /\ FirstInv)'
  BY NextTyped, NextSlots, NextFirst
<1>3. TypeOK /\ FirstInv /\ [Next]_vars =>
        [\A c \in Call : answer[c] # None /\ answer'[c] = None =>
            result'[c] = AnswerDecision(first[c])]_vars
  <2> SUFFICES ASSUME TypeOK, FirstInv, Next, NEW k \in Call,
                      answer[k] # None, answer'[k] = None
               PROVE  result'[k] = AnswerDecision(first[k])
    OBVIOUS
  <2>1. CASE \E c \in Call : TakeAnswer(c)
    BY <2>1 DEF TakeAnswer, FirstInv, TypeOK, AsksTyped, TableTyped
  <2>2. CASE \E a \in desk : Send(a)
    <3>1. PICK a \in desk : Send(a)
      BY <2>2
    <3>2. a.scope # None
      BY ApprovalsAssumption DEF TypeOK, DeskTyped
    <3> QED
      BY <3>1, <3>2 DEF Send, Sent, TypeOK, TableTyped
  <2>3. CASE answer' = answer
    BY <2>3
  <2> QED
    BY <2>1, <2>2, <2>3 DEF Next, AskStep, DeskStep, EditStep, Ask, Verdict, Recall,
       Rate, RateFails, RegisterApproval, Posted, GiveUp, Release, Answer, Remember,
       AddApprovalRule, RemoveApprovalRule, SetSessionApprovals, GoDead, GoLive
<1> QED
  BY <1>1, <1>2, <1>3, PTL DEF Spec, FirstAnswerStands

-----------------------------------------------------------------------------
(* By what right a call is allowed. *)

\* What allows a call that is for a human.
Granted(c) == [by |-> by[c], req |-> req[c]] \in kept

Passed(c) ==
  /\ under[c] = "smart"
  /\ \/ [req |-> req[c], risk |-> "low"] \in passed
     \/ /\ [req |-> req[c], risk |-> None] \in passed
        /\ ~Reached(policy[c], req[c], "ask")

\* A driver remembers what an operator allowed, and rates low what a model did.
MemoryInv ==
  \A s \in Session :
    /\ \A r \in grants[s] : [by |-> s, req |-> r] \in kept
    /\ \A v \in verdicts[s] :
         v.risk = "low" => [req |-> v.req, risk |-> "low"] \in passed

\* What it read leaves the call to a human.
Asks(c) == AsksAHuman(c, policy[c])

RightInv ==
  \A c \in Call : result[c] = "allow" /\ Asks(c) =>
    first[c] \in Scope \ {"deny"} \/ Granted(c) \/ Passed(c)

\* Of the calls for a human the rules and the mode allow at once only those
\* that smart mode has rated.
LEMMA OnlySmartAllows ==
  ASSUME NEW c \in Call, under[c] \in Mode, Asks(c),
         Apply(under[c], req[c].tool, Decide(policy[c], req[c]),
               Matched(policy[c], req[c])) = "allow"
  PROVE  /\ under[c] = "smart" /\ ~Reached(policy[c], req[c], "ask")
         /\ Judged(under[c], req[c].tool, "allow", Matched(policy[c], req[c]))
BY DEF Asks, AsksAHuman, Apply, Judged, Mode, Decide, Reached, Matched

LEMMA JudgedIsSmart ==
  ASSUME NEW m, NEW tool, NEW d, NEW n, Judged(m, tool, d, n)
  PROVE  m = "smart"
BY DEF Judged

\* A driver learns only from an answer or from a rating.
LEMMA NextMemory ==
    ASSUME TypeOK, MemoryInv, [Next]_vars
    PROVE  MemoryInv'
<1> USE DEF TypeOK, DriversTyped, MemoryInv, driverVars
<1>1. ASSUME NEW c \in Call, NEW s \in Session, NEW r \in Asked, Ask(c, s, r) PROVE MemoryInv'
  BY <1>1 DEF Ask
<1>2. ASSUME NEW c \in Call, Verdict(c) PROVE MemoryInv'
  BY <1>2 DEF Verdict
<1>3. ASSUME NEW c \in Call, Recall(c) PROVE MemoryInv'
  BY <1>3 DEF Recall
<1>4. ASSUME NEW c \in Call, NEW risk \in Ratings, Rate(c, risk) PROVE MemoryInv'
  <2>1. /\ UNCHANGED <<grants, kept>> /\ passed \subseteq passed'
        /\ risk = "low" => [req |-> req[c], risk |-> "low"] \in passed'
    BY <1>4 DEF Rate
  <2>2. ASSUME NEW s \in Session, NEW v \in verdicts'[s], v.risk = "low"
        PROVE  [req |-> v.req, risk |-> "low"] \in passed'
    <3>1. CASE v \in verdicts[s]
      BY <2>1, <2>2, <3>1
    <3>2. CASE v \notin verdicts[s]
      <4>1. v = [req |-> req[c], risk |-> risk]
        BY <1>4, <2>2, <3>2 DEF Rate, DriversTyped
      <4> QED
        BY <2>1, <2>2, <4>1
    <3> QED  BY <3>1, <3>2
  <2> QED
    BY <2>1, <2>2
<1>5. ASSUME NEW c \in Call, RateFails(c) PROVE MemoryInv'
  BY <1>5 DEF RateFails, driverVars
<1>6. ASSUME NEW c \in Call, RegisterApproval(c) PROVE MemoryInv'
  BY <1>6 DEF RegisterApproval
<1>7. ASSUME NEW c \in Call, Posted(c) PROVE MemoryInv'
  BY <1>7 DEF Posted
<1>8. ASSUME NEW c \in Call, TakeAnswer(c) PROVE MemoryInv'
  BY <1>8 DEF TakeAnswer
<1>9. ASSUME NEW c \in Call, GiveUp(c) PROVE MemoryInv'
  BY <1>9 DEF GiveUp
<1>10. ASSUME NEW c \in Call, Release(c) PROVE MemoryInv'
  BY <1>10 DEF Release
<1>11. ASSUME NEW c \in Call, NEW scope \in Scope, Answer(c, scope) PROVE MemoryInv'
  BY <1>11 DEF Answer
<1>12. ASSUME NEW a \in desk, Send(a) PROVE MemoryInv'
  BY <1>12 DEF Send
<1>13. ASSUME NEW a \in desk, Remember(a) PROVE MemoryInv'
  <2>1. UNCHANGED <<verdicts, passed>> /\ kept \subseteq kept'
    BY <1>13 DEF Remember
  <2>2. ASSUME NEW s \in Session, NEW r \in grants'[s]
        PROVE  [by |-> s, req |-> r] \in kept'
    <3>1. CASE r \in grants[s]
      BY <2>1, <3>1
    <3>2. CASE r \notin grants[s]
      BY <1>13, <2>2, <3>2 DEF Remember, DriversTyped
    <3> QED  BY <3>1, <3>2
  <2> QED
    BY <2>1, <2>2
<1>14. ASSUME NEW rule \in OperatorRules, AddApprovalRule(rule) PROVE MemoryInv'
  BY <1>14 DEF AddApprovalRule
<1>15. ASSUME NEW rule \in rules, RemoveApprovalRule(rule) PROVE MemoryInv'
  BY <1>15 DEF RemoveApprovalRule
<1>16. ASSUME NEW s \in Session, NEW m \in Modes, SetSessionApprovals(s, m) PROVE MemoryInv'
  BY <1>16 DEF SetSessionApprovals
<1>17. ASSUME NEW s \in Session, GoDead(s) PROVE MemoryInv'
  BY <1>17 DEF GoDead
<1>18. ASSUME NEW s \in Session, GoLive(s) PROVE MemoryInv'
  BY <1>18 DEF GoLive
<1>19. CASE UNCHANGED vars
  BY <1>19 DEF vars, driverVars
<1> QED
  BY <1>1, <1>2, <1>3, <1>4, <1>5, <1>6, <1>7, <1>8, <1>9, <1>10, <1>11, <1>12, <1>13,
     <1>14, <1>15, <1>16, <1>17, <1>18, <1>19 DEF Next, AskStep, DeskStep, EditStep

\* A call that becomes allowed has a right to, and keeps it.
LEMMA NextRight ==
    ASSUME TypeOK, DecidedInv, FirstInv, MemoryInv, RightInv, [Next]_vars
    PROVE  RightInv'
<1> USE DEF RightInv
<1>1. ASSUME NEW c \in Call, NEW s \in Session, NEW r \in Asked, Ask(c, s, r) PROVE RightInv'
  <2>1. /\ UNCHANGED <<under, kept, passed, first, result>>
        /\ result[c] # "allow"
        /\ \A k \in Call : k # c => /\ by'[k] = by[k] /\ req'[k] = req[k]
                                   /\ policy'[k] = policy[k]
    BY <1>1, ApprovalsAssumption DEF Ask, DecidedInv, TypeOK, AsksTyped, deskVars, Decision
  <2>2. \A k \in Call : k # c =>
          /\ Asks(k)' <=> Asks(k)
          /\ Granted(k)' <=> Granted(k)
          /\ Passed(k)' <=> Passed(k)
    BY <2>1 DEF Asks, AsksAHuman, Granted, Passed
  <2> QED
    BY <2>1, <2>2
<1>2. ASSUME NEW c \in Call, Verdict(c) PROVE RightInv'
  <2>1. /\ UNCHANGED <<by, req, policy, kept, passed, first>>
        /\ result'[c] # "allow"
        /\ \A k \in Call : k # c => result'[k] = result[k] /\ under'[k] = under[k]
    BY <1>2, ApprovalsAssumption DEF Verdict, Return, DecidedInv, TypeOK, AsksTyped,
       deskVars, Decision
  <2>2. \A k \in Call : k # c =>
          /\ Asks(k)' <=> Asks(k)
          /\ Granted(k)' <=> Granted(k) 
          /\ Passed(k)' <=> Passed(k)
    BY <2>1 DEF Asks, AsksAHuman, Granted, Passed
  <2> QED
    BY <2>1, <2>2
<1>3. ASSUME NEW c \in Call, Recall(c) PROVE RightInv'
  <2>1. /\ UNCHANGED <<by, req, policy, under, kept>> /\ passed \subseteq passed'
        /\ first' = first
        /\ \A k \in Call : k # c => result'[k] = result[k]
    BY <1>3 DEF Recall, Return, Settled, TypeOK, AsksTyped, deskVars
  <2>2. \A k \in Call : /\ Asks(k)' <=> Asks(k)
                        /\ Granted(k) => Granted(k)'
                        /\ Passed(k) => Passed(k)'
    BY <2>1 DEF Asks, AsksAHuman, Granted, Passed
  <2>3. ASSUME result'[c] = "allow", Asks(c) PROVE Granted(c)' \/ Passed(c)'
    <3> DEFINE d == Apply(under[c], req[c].tool, Decide(policy[c], req[c]),
                          Matched(policy[c], req[c]))
               judged == Judged(under[c], req[c].tool, decided[c],
                                Matched(policy[c], req[c]))
    <3>1. decided[c] = d /\ result[c] # "allow" /\ under[c] \in Mode
          /\ by[c] \in Session
      BY <1>3, ApprovalsAssumption DEF Recall, DecidedInv, TypeOK, AsksTyped, Decision
    <3>2. CASE req[c] \in grants[by[c]]
      BY <2>1, <3>1, <3>2 DEF MemoryInv, Granted
    <3>3. CASE req[c] \notin grants[by[c]] /\ judged
      <4>1. under[c] = "smart"
        BY <3>3, JudgedIsSmart
      <4>2. PICK v \in verdicts[by[c]] : v.req = req[c] /\ RiskDecision(v.risk) = "allow"
        BY <1>3, <2>3, <3>1, <3>3 DEF Recall, Settled, Return, TypeOK, AsksTyped
      <4>3. v.risk = "low"
        BY <4>2 DEF RiskDecision
      <4> QED
        BY <2>1, <3>1, <4>1, <4>2, <4>3 DEF MemoryInv, Passed
    <3>4. CASE req[c] \notin grants[by[c]] /\ ~judged
      <4>1. decided[c] = "allow"
        BY <1>3, <2>3, <3>1, <3>4 DEF Recall, Settled, Return, TypeOK, AsksTyped
      <4> QED
        BY <2>3, <3>1, <3>4, <4>1, OnlySmartAllows
    <3> QED  BY <3>2, <3>3, <3>4
  <2> QED
    BY <2>1, <2>2, <2>3
<1>4. ASSUME NEW c \in Call, NEW risk \in Ratings, Rate(c, risk) PROVE RightInv'
  <2>1. /\ UNCHANGED <<by, req, policy, under, kept>> /\ passed \subseteq passed'
        /\ first' = first
        /\ \A k \in Call : k # c => result'[k] = result[k]
    BY <1>4 DEF Rate, Return, Settled, TypeOK, AsksTyped, deskVars
  <2>2. \A k \in Call : /\ Asks(k)' <=> Asks(k)
                        /\ Granted(k) => Granted(k)'
                        /\ Passed(k) => Passed(k)'
    BY <2>1 DEF Asks, AsksAHuman, Granted, Passed
  <2>3. ASSUME result'[c] = "allow" PROVE Passed(c)'
    <3>1. /\ RiskDecision(risk) = "allow" /\ stage[c] = "rating"
      BY <1>4, <2>3, ApprovalsAssumption DEF Rate, Settled, Return, DecidedInv, TypeOK,
         AsksTyped,
         Decision
    <3>2. [req |-> req[c], risk |-> "low"] \in passed'
      BY <1>4, <3>1 DEF Rate, RiskDecision
    <3>3. under[c] = "smart"
      BY <3>1, JudgedIsSmart DEF DecidedInv
    <3> QED
      BY <2>1, <3>2, <3>3 DEF Passed
  <2> QED
    BY <2>1, <2>2, <2>3
<1>5. ASSUME NEW c \in Call, RateFails(c) PROVE RightInv'
  <2>1. /\ UNCHANGED <<by, req, policy, under, kept>> /\ passed \subseteq passed'
        /\ first' = first
        /\ \A k \in Call : k # c => result'[k] = result[k]
    BY <1>5 DEF RateFails, Return, Settled, TypeOK, AsksTyped, deskVars
  <2>2. \A k \in Call : /\ Asks(k)' <=> Asks(k)
                        /\ Granted(k) => Granted(k)'
                        /\ Passed(k) => Passed(k)'
    BY <2>1 DEF Asks, AsksAHuman, Granted, Passed
  <2>3. ASSUME result'[c] = "allow", Asks(c) PROVE Passed(c)'
    <3>1. /\ decided[c] = "allow" /\ stage[c] = "rating" /\ under[c] \in Mode
          /\ [req |-> req[c], risk |-> None] \in passed'
      BY <1>5, <2>3, ApprovalsAssumption DEF RateFails, Settled, Return, DecidedInv, TypeOK,
         AsksTyped,
         Decision
    <3>2. under[c] = "smart" /\ ~Reached(policy[c], req[c], "ask")
      BY <2>3, <3>1, OnlySmartAllows DEF DecidedInv
    <3> QED
      BY <2>1, <3>1, <3>2 DEF Passed
  <2> QED
    BY <2>1, <2>2, <2>3
<1>6. ASSUME NEW c \in Call, RegisterApproval(c) PROVE RightInv'
  <2>1. /\ UNCHANGED <<by, req, policy, under, kept>> /\ passed \subseteq passed'
        /\ first' = first
        /\ \A k \in Call : k # c => result'[k] = result[k]
    BY <1>6 DEF RegisterApproval, Return, Settled, TypeOK, AsksTyped, deskVars
  <2>2. \A k \in Call : /\ Asks(k)' <=> Asks(k)
                        /\ Granted(k) => Granted(k)'
                        /\ Passed(k) => Passed(k)'
    BY <2>1 DEF Asks, AsksAHuman, Granted, Passed
  <2>3. result'[c] # "allow"
    BY <1>6, ApprovalsAssumption DEF RegisterApproval, Return, DecidedInv, TypeOK, AsksTyped,
         Decision
  <2> QED
    BY <2>1, <2>2, <2>3
<1>7. ASSUME NEW c \in Call, Posted(c) PROVE RightInv'
  <2>1. /\ UNCHANGED <<by, req, policy, under, result, first, passed>>
        /\ kept \subseteq kept'
    BY <1>7 DEF Posted, askVars, deskVars
  <2>2. \A k \in Call : /\ Asks(k)' <=> Asks(k)
                        /\ Granted(k) => Granted(k)'
                        /\ Passed(k) => Passed(k)'
    BY <2>1 DEF Asks, AsksAHuman, Granted, Passed
  <2> QED
    BY <2>1, <2>2
<1>8. ASSUME NEW c \in Call, TakeAnswer(c) PROVE RightInv'
  <2>1. /\ UNCHANGED <<by, req, policy, under, kept>> /\ passed \subseteq passed'
        /\ first' = first
        /\ \A k \in Call : k # c => result'[k] = result[k]
    BY <1>8 DEF TakeAnswer, Return, Settled, TypeOK, AsksTyped, deskVars
  <2>2. \A k \in Call : /\ Asks(k)' <=> Asks(k)
                        /\ Granted(k) => Granted(k)'
                        /\ Passed(k) => Passed(k)'
    BY <2>1 DEF Asks, AsksAHuman, Granted, Passed
  <2>3. result'[c] = "allow" => first[c] \in Scope \ {"deny"}
    BY <1>8, ApprovalsAssumption DEF TakeAnswer, FirstInv, AnswerDecision, TypeOK,
       AsksTyped, TableTyped
  <2> QED
    BY <2>1, <2>2, <2>3
<1>9. ASSUME NEW c \in Call, GiveUp(c) PROVE RightInv'
  <2>1. /\ UNCHANGED <<by, req, policy, under, kept>> /\ passed \subseteq passed'
        /\ first' = first
        /\ \A k \in Call : k # c => result'[k] = result[k]
    BY <1>9 DEF GiveUp, Return, Settled, TypeOK, AsksTyped, deskVars
  <2>2. \A k \in Call : /\ Asks(k)' <=> Asks(k)
                        /\ Granted(k) => Granted(k)'
                        /\ Passed(k) => Passed(k)'
    BY <2>1 DEF Asks, AsksAHuman, Granted, Passed
  <2>3. result'[c] # "allow"
    BY <1>9 DEF GiveUp, TypeOK, AsksTyped
  <2> QED
    BY <2>1, <2>2, <2>3
<1>10. ASSUME NEW c \in Call, Release(c) PROVE RightInv'
  <2>1. /\ UNCHANGED <<by, req, policy, under, result, first, passed>>
        /\ kept \subseteq kept'
    BY <1>10 DEF Release, askVars, deskVars
  <2>2. \A k \in Call : /\ Asks(k)' <=> Asks(k)
                        /\ Granted(k) => Granted(k)'
                        /\ Passed(k) => Passed(k)'
    BY <2>1 DEF Asks, AsksAHuman, Granted, Passed
  <2> QED
    BY <2>1, <2>2
<1>11. ASSUME NEW c \in Call, NEW scope \in Scope, Answer(c, scope) PROVE RightInv'
  <2>1. /\ UNCHANGED <<by, req, policy, under, result, first, passed>>
        /\ kept \subseteq kept'
    BY <1>11 DEF Answer, askVars, deskVars
  <2>2. \A k \in Call : /\ Asks(k)' <=> Asks(k)
                        /\ Granted(k) => Granted(k)'
                        /\ Passed(k) => Passed(k)'
    BY <2>1 DEF Asks, AsksAHuman, Granted, Passed
  <2> QED
    BY <2>1, <2>2
<1>12. ASSUME NEW a \in desk, Send(a) PROVE RightInv'
  <2>1. /\ UNCHANGED <<by, req, policy, under, kept, result, passed>>
        /\ \A k \in Call : first[k] # None => first'[k] = first[k]
    BY <1>12 DEF Send, Sent, askVars, TypeOK, DeskTyped
  <2>2. \A k \in Call : /\ Asks(k)' <=> Asks(k)
                        /\ Granted(k)' <=> Granted(k)
                        /\ Passed(k)' <=> Passed(k)
    BY <2>1 DEF Asks, AsksAHuman, Granted, Passed
  <2> QED
    BY <2>1, <2>2, ApprovalsAssumption
<1>13. ASSUME NEW a \in desk, Remember(a) PROVE RightInv'
  <2>1. /\ UNCHANGED <<by, req, policy, under, result, first, passed>>
        /\ kept \subseteq kept'
    BY <1>13 DEF Remember, askVars, deskVars
  <2>2. \A k \in Call : /\ Asks(k)' <=> Asks(k)
                        /\ Granted(k) => Granted(k)'
                        /\ Passed(k) => Passed(k)'
    BY <2>1 DEF Asks, AsksAHuman, Granted, Passed
  <2> QED
    BY <2>1, <2>2
<1>14. ASSUME NEW rule \in OperatorRules, AddApprovalRule(rule) PROVE RightInv'
  <2>1. /\ UNCHANGED <<by, req, policy, under, result, first, passed>>
        /\ kept \subseteq kept'
    BY <1>14 DEF AddApprovalRule, askVars, deskVars
  <2>2. \A k \in Call : /\ Asks(k)' <=> Asks(k)
                        /\ Granted(k) => Granted(k)'
                        /\ Passed(k) => Passed(k)'
    BY <2>1 DEF Asks, AsksAHuman, Granted, Passed
  <2> QED
    BY <2>1, <2>2
<1>15. ASSUME NEW rule \in rules, RemoveApprovalRule(rule) PROVE RightInv'
  <2>1. /\ UNCHANGED <<by, req, policy, under, result, first, passed>>
        /\ kept \subseteq kept'
    BY <1>15 DEF RemoveApprovalRule, askVars, deskVars
  <2>2. \A k \in Call : /\ Asks(k)' <=> Asks(k)
                        /\ Granted(k) => Granted(k)'
                        /\ Passed(k) => Passed(k)'
    BY <2>1 DEF Asks, AsksAHuman, Granted, Passed
  <2> QED
    BY <2>1, <2>2
<1>16. ASSUME NEW s \in Session, NEW m \in Modes, SetSessionApprovals(s, m) PROVE RightInv'
  <2>1. /\ UNCHANGED <<by, req, policy, under, result, first, passed>>
        /\ kept \subseteq kept'
    BY <1>16 DEF SetSessionApprovals, askVars, deskVars
  <2>2. \A k \in Call : /\ Asks(k)' <=> Asks(k)
                        /\ Granted(k) => Granted(k)'
                        /\ Passed(k) => Passed(k)'
    BY <2>1 DEF Asks, AsksAHuman, Granted, Passed
  <2> QED
    BY <2>1, <2>2
<1>17. ASSUME NEW s \in Session, GoDead(s) PROVE RightInv'
  <2>1. /\ UNCHANGED <<by, req, policy, under, result, first, passed>>
        /\ kept \subseteq kept'
    BY <1>17 DEF GoDead, askVars, deskVars
  <2>2. \A k \in Call : /\ Asks(k)' <=> Asks(k)
                        /\ Granted(k) => Granted(k)'
                        /\ Passed(k) => Passed(k)'
    BY <2>1 DEF Asks, AsksAHuman, Granted, Passed
  <2> QED
    BY <2>1, <2>2
<1>18. ASSUME NEW s \in Session, GoLive(s) PROVE RightInv'
  <2>1. /\ UNCHANGED <<by, req, policy, under, result, first, passed>>
        /\ kept \subseteq kept'
    BY <1>18 DEF GoLive, askVars, deskVars
  <2>2. \A k \in Call : /\ Asks(k)' <=> Asks(k)
                        /\ Granted(k) => Granted(k)'
                        /\ Passed(k) => Passed(k)'
    BY <2>1 DEF Asks, AsksAHuman, Granted, Passed
  <2> QED
    BY <2>1, <2>2
<1>19. CASE UNCHANGED vars
  <2>1. /\ UNCHANGED <<by, req, policy, under, result, first, passed>>
        /\ kept \subseteq kept'
    BY <1>19 DEF vars, askVars, deskVars
  <2>2. \A k \in Call : /\ Asks(k)' <=> Asks(k)
                        /\ Granted(k) => Granted(k)'
                        /\ Passed(k) => Passed(k)'
    BY <2>1 DEF Asks, AsksAHuman, Granted, Passed
  <2> QED
    BY <2>1, <2>2
<1> QED
  BY <1>1, <1>2, <1>3, <1>4, <1>5, <1>6, <1>7, <1>8, <1>9, <1>10, <1>11, <1>12, <1>13,
     <1>14, <1>15, <1>16, <1>17, <1>18, <1>19 DEF Next, AskStep, DeskStep, EditStep

\* The rules a call read are the daemon's and the agent's of its session.
OwnInv ==
  \A c \in Call : stage[c] # "idle" => policy[c] = Merge(own[c], AgentRules[by[c]])

LEMMA NextOwn ==
  ASSUME TypeOK, OwnInv, [Next]_vars
  PROVE  OwnInv'
<1>1. ASSUME NEW c \in Call, NEW s \in Session, NEW r \in Asked, Ask(c, s, r)
      PROVE  OwnInv'
  <2>1. /\ policy' = [policy EXCEPT ![c] = Merge(rules, AgentRules[s])]
        /\ own' = [own EXCEPT ![c] = rules] /\ by' = [by EXCEPT ![c] = s]
        /\ stage' = [stage EXCEPT ![c] = "ruled"]
    BY <1>1 DEF Ask
  <2>2. ASSUME NEW k \in Call, k # c
        PROVE  /\ policy'[k] = policy[k] /\ own'[k] = own[k] /\ by'[k] = by[k]
               /\ stage'[k] = stage[k]
    BY <2>1, <2>2 DEF TypeOK, AsksTyped
  <2>3. policy'[c] = Merge(own'[c], AgentRules[by'[c]])
    BY <2>1 DEF TypeOK, AsksTyped
  <2> QED  BY <2>2, <2>3 DEF OwnInv
<1>2. ASSUME NEW c \in Call, AskStep(c), ~\E s \in Session, r \in Asked : Ask(c, s, r)
      PROVE  /\ UNCHANGED <<policy, own, by>>
             /\ \A k \in Call : stage'[k] # "idle" => stage[k] # "idle"
  BY <1>2 DEF AskStep, Verdict, Recall, Rate, RateFails, RegisterApproval, Posted,
     TakeAnswer, GiveUp, Release, Return, Settled, TypeOK, AsksTyped
<1>3. ASSUME DeskStep \/ EditStep \/ UNCHANGED vars
      PROVE  UNCHANGED <<policy, own, by, stage>>
  BY <1>3 DEF DeskStep, Answer, Send, Remember, EditStep, AddApprovalRule,
     RemoveApprovalRule, SetSessionApprovals, GoDead, GoLive, vars, askVars
<1>4. ASSUME UNCHANGED <<policy, own, by>>,
             \A k \in Call : stage'[k] # "idle" => stage[k] # "idle"
      PROVE  OwnInv'
  BY <1>4 DEF OwnInv
<1> QED  BY <1>1, <1>2, <1>3, <1>4 DEF Next

\* What merged rules decide, one of the two decides.
LEMMA MergeReaches ==
  ASSUME NEW daemon, NEW agent, NEW r
  PROVE  /\ \A d : Reached(Merge(daemon, agent), r, d)
                     <=> Reached(daemon, r, d) \/ Reached(agent, r, d)
         /\ Matched(Merge(daemon, agent), r) <=> Matched(daemon, r) \/ Matched(agent, r)
BY DEF Reached, Matched, Merge

LEMMA MatchedReaches ==
  ASSUME NEW rs \in SUBSET Rule, NEW r
  PROVE  Matched(rs, r) <=> \E d \in Decision : Reached(rs, r, d)
BY DEF Matched, Reached, Rule

(***************************************************************************)
(* For every set of sessions, rules and calls: a call that is for a human   *)
(* is allowed only by an operator's answer to it or to the same request of  *)
(* the same session, or by a rating, or its failure, in smart mode; and one *)
(* that is so by the daemon's rules only then too, but for a call none of    *)
(* them matches and the agent's allow.                                      *)
(***************************************************************************)
THEOREM AllowedOnlyByRight == Spec => []AllowedByRight
<1> DEFINE I == /\ TypeOK /\ SlotInv /\ DecidedInv /\ DenyInv /\ FirstInv
                /\ MemoryInv /\ RightInv /\ OwnInv
<1>1. Init => I
  BY InitTyped, InitSlots, ApprovalsAssumption
     DEF Init, DecidedInv, DenyInv, FirstInv, MemoryInv, RightInv, OwnInv, Decision
<1>2. I /\ [Next]_vars => I'
  BY NextTyped, NextSlots, NextDecided, NextDeny, NextFirst, NextMemory, NextRight, NextOwn
<1>3. I => AllowedByRight
  <2> SUFFICES ASSUME I, NEW c \in Call, result[c] = "allow"
               PROVE  /\ Asks(c) => ByRight(c)
                      /\ AsksAHuman(c, own[c]) => ByRight(c) \/ OnlyAgentAllows(c)
    BY DEF AllowedByRight, Asks
  <2>1. Asks(c) => ByRight(c)
    BY DEF RightInv, ByRight, Granted, Passed
  <2>2. ASSUME AsksAHuman(c, own[c]), ~OnlyAgentAllows(c)
        PROVE  Asks(c)
    <3>1. policy[c] = Merge(own[c], AgentRules[by[c]]) /\ by[c] \in Session
      BY ApprovalsAssumption DEF OwnInv, DecidedInv, TypeOK, AsksTyped, Decision
    <3>2. under[c] # "bypass" /\ ~Reached(policy[c], req[c], "deny")
      BY <2>2, ApprovalsAssumption
         DEF AsksAHuman, DenyInv, DecidedInv, Clean, TypeOK, AsksTyped, Decision
    <3>3. CASE Reached(own[c], req[c], "ask")
      <4>1. Reached(policy[c], req[c], "ask")
        BY <3>1, <3>3, MergeReaches
      <4> QED  BY <2>2, <4>1 DEF Asks, AsksAHuman
    <3>4. CASE ~Reached(own[c], req[c], "ask")
      <4>1. ~Matched(own[c], req[c])
        BY <2>2, <3>4 DEF AsksAHuman
      <4>2. ~Reached(AgentRules[by[c]], req[c], "allow")
        BY <2>2, <4>1 DEF OnlyAgentAllows
      <4>3. ~Matched(policy[c], req[c]) \/ Reached(policy[c], req[c], "ask")
        <5>1. AgentRules[by[c]] \in SUBSET Rule
          BY <3>1, ApprovalsAssumption
        <5>2. /\ ~Reached(AgentRules[by[c]], req[c], "deny")
              /\ Reached(AgentRules[by[c]], req[c], "ask")
                    => Reached(policy[c], req[c], "ask")
              /\ Matched(policy[c], req[c]) => Matched(AgentRules[by[c]], req[c])
          BY <3>1, <3>2, <4>1, MergeReaches
        <5>3. Matched(AgentRules[by[c]], req[c])
                => \E d \in Decision : Reached(AgentRules[by[c]], req[c], d)
          BY <5>1, MatchedReaches
        <5> QED  BY <4>2, <5>2, <5>3 DEF Decision
      <4> QED  BY <2>2, <3>4, <4>1, <4>3 DEF Asks, AsksAHuman
    <3> QED  BY <3>3, <3>4
  <2> QED  BY <2>1, <2>2
<1> QED
  BY <1>1, <1>2, <1>3, PTL DEF Spec

-----------------------------------------------------------------------------
(* The rules, for every tool, subject and pattern. *)

\* What the rules and the mode make of a call, and that they alone let it through.
Ruling(m, rs, r) == Apply(m, r.tool, Decide(rs, r), Matched(rs, r))

LetsThrough(m, rs, r) ==
  Ruling(m, rs, r) = "allow" /\ ~Judged(m, r.tool, Ruling(m, rs, r), Matched(rs, r))

(***************************************************************************)
(* What an agent's rules do to the verdict of the daemon's, under each mode  *)
(* (Merge, Decide, Apply and Judged): a call the daemon denies stays denied, *)
(* and a call is let through with them that was not without them exactly     *)
(* when no rule of the daemon's matches it, the agent allows it with none of *)
(* its rules stricter, and the mode leaves such a call to a human or the     *)
(* judge.                                                                  *)
(***************************************************************************)
THEOREM AgentWidensOnlyTheUnmatched ==
  ASSUME NEW daemon \in SUBSET Rule, NEW agent \in SUBSET Rule, NEW r, NEW m \in Mode
  PROVE  /\ Ruling(m, daemon, r) = "deny" => Ruling(m, Merge(daemon, agent), r) = "deny"
         /\ LetsThrough(m, Merge(daemon, agent), r) /\ ~LetsThrough(m, daemon, r)
              <=> /\ ~Matched(daemon, r) /\ Reached(agent, r, "allow")
                  /\ ~Reached(agent, r, "ask") /\ ~Reached(agent, r, "deny")
                  /\ Ruling(m, {}, r) # "deny" /\ ~LetsThrough(m, {}, r)
<1> DEFINE both == Merge(daemon, agent)
<1>1. /\ \A d : Reached(both, r, d) <=> Reached(daemon, r, d) \/ Reached(agent, r, d)
      /\ Matched(both, r) <=> Matched(daemon, r) \/ Matched(agent, r)
  BY MergeReaches
<1>2. /\ Matched(daemon, r) <=> \E d \in Decision : Reached(daemon, r, d)
      /\ Matched(agent, r) <=> \E d \in Decision : Reached(agent, r, d)
  BY MatchedReaches
<1>3. ~Matched({}, r) /\ \A d : ~Reached({}, r, d)
  BY DEF Matched, Reached
<1> HIDE DEF both
<1>4. Ruling(m, daemon, r) = "deny" => Ruling(m, both, r) = "deny"
  BY <1>1, <1>2 DEF Ruling, Apply, Decide, Mode
<1>5. ASSUME Matched(daemon, r)
      PROVE  LetsThrough(m, both, r) => LetsThrough(m, daemon, r)
  BY <1>1, <1>2, <1>5 DEF LetsThrough, Ruling, Apply, Decide, Judged, Mode, Decision
<1>6. ASSUME ~Matched(daemon, r)
      PROVE  /\ LetsThrough(m, daemon, r) <=> LetsThrough(m, {}, r)
             /\ LetsThrough(m, both, r) /\ ~LetsThrough(m, {}, r)
                  <=> /\ Reached(agent, r, "allow")
                      /\ ~Reached(agent, r, "ask") /\ ~Reached(agent, r, "deny")
                      /\ Ruling(m, {}, r) # "deny" /\ ~LetsThrough(m, {}, r)
  BY <1>1, <1>2, <1>3, <1>6 DEF LetsThrough, Ruling, Apply, Decide, Judged, Mode, Decision
<1> QED  BY <1>4, <1>5, <1>6 DEF both

(***************************************************************************)
(* The rule an operator's allow-always writes speaks about the very call it *)
(* was given for and about no other (RuleFor).                             *)
(***************************************************************************)
THEOREM RuleNamesOneCall ==
  ASSUME NEW r \in Request, NEW q \in Request, RuleFor(r) # NoRule
  PROVE  Matches(RuleFor(r), q) <=> q = r
<1>1. r.subject \in Plain /\ r.tool \in Tool /\ q.tool \in Tool
  BY DEF RuleFor, Request
<1>2. /\ Loose[r.subject] = {r.subject} /\ Tight[r.subject] = {r.subject}
      /\ r.subject # AnySubject /\ r.tool # AnyTool
  BY <1>1, PatternAssumption
<1>3. RuleFor(r) = [decision |-> "allow", tool |-> r.tool, pattern |-> r.subject]
  BY DEF RuleFor
<1>4. Matches(RuleFor(r), q) <=> q.tool = r.tool /\ q.subject = r.subject
  BY <1>2, <1>3 DEF Matches, RuleCovers
<1> QED
  BY <1>4 DEF Request

=============================================================================
