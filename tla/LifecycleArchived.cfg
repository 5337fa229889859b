SPECIFICATION Spec
CONSTANTS
  a = a
  b = b
  claude = claude
  codex = codex
  disp = disp
  boot = boot
  picker = picker
  Name = {a}
  Caller = {disp, boot, picker}
  Disp = disp
  Boot = boot
  Unlocked = {boot, picker}
  Run = {1, 2, 3, 4}
  Conf <- MCConf
  NoRun = NoRun
  Vendor = {claude, codex}
  Driver = {1, 2}
  Verb = {"close", "archive", "unarchive", "switch"}
  UnlockedVerb = {"resume"}
  Absent = Absent
  NoToken = NoToken
  NoDriver = NoDriver
  MaxCalls = 2
  MaxFaults = 1
  MaxTurns = 1
  Rows = {a}
INVARIANT ArchivedHasNoBridge
CHECK_DEADLOCK FALSE
