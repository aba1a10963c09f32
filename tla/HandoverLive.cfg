SPECIFICATION LiveSpec
CONSTANTS
  Process = {p1, p2}
  Client = {c1}
  Job = {j1}
  Command = {"setup", "disable", "stop", "restart", "repair", "uninstall"}
  Overlook = {"busy", "closing", "starting"}
  CrashMax = 1
  None = None
PROPERTIES
  QueuedSurvives
  CommandEnds
