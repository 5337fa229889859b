SPECIFICATION Spec
CONSTANTS
  a = a
  b = b
  claude = claude
  codex = codex
  disp = disp
  boot = boot
  picker = picker
  Name = {a, b}
  Caller = {disp, boot, picker}
  Disp = disp
  Boot = boot
  Unlocked = {boot, picker}
  Run = {1, 2, 3, 4}
  Conf <- MCConf
  NoRun = NoRun
  Vendor = {claude, codex}
  Driver = {1, 2}
  Verb = {"create", "close", "archive", "unarchive", "switch", "rewind", "rename", "other"}
  UnlockedVerb = {"resume"}
  Absent = Absent
  NoToken = NoToken
  NoDriver = NoDriver
  MaxCalls = 2
  MaxFaults = 1
  MaxTurns = 1
  Rows = {a}
INVARIANTS HubTypeOK OneLoop Reachable OneDriver TreeIsFree AtRest Continues
PROPERTIES StopMeansStopped ImplementsSlots
CHECK_DEADLOCK FALSE
