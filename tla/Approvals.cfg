SPECIFICATION FairSpec
CONSTANTS
  s1 = s1
  s2 = s2
  c1 = c1
  c2 = c2
  None = None
  NoRule = NoRule
  AnySubject = ""
  AnyTool = "*"
  Tool <- MCTool
  Subject <- MCSubject
  Pattern <- MCPattern
  Loose <- MCLoose
  Tight <- MCTight
  Plain <- MCPlain
  Chained <- MCChained
  Session = {s1, s2}
  Call = {c1, c2}
  Asked <- MCAsked
  AgentRules <- MCAgentRules
  OperatorRules <- MCOperatorRules
  Modes <- MCModes
  MaxPendingPerSession = 1
  MaxPendingApprovals = 2
  Ratings = {"low", "high"}
  InitMode <- MCInitMode
  MaxEdits = 1
  MaxAnswers = 2
INVARIANTS TypeOK SlotsHold AllowedByRight DenyStands
PROPERTIES FirstAnswerStands EveryCallReturns
CHECK_DEADLOCK FALSE
