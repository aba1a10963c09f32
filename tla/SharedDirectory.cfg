SPECIFICATION SharedSpec
CONSTANTS
  Process = {p1, p2}
  Client = {c1}
  Job = {j1}
  Command = {"start", "setup", "disable", "stop", "restart", "repair", "uninstall", "kill"}
  Overlook = {"busy", "closing", "starting"}
  CrashMax = 1
  None = None
  Run = {r1, r2, r3}
  Void = Void
  Order <- TwoFiles
  MaxComponents = 2
  MaxRevision = 3
  MaxHistory = 2
  MaxAtOnce = 2
SYMMETRY SharedSymmetry
CHECK_DEADLOCK FALSE
INVARIANTS
  OneReachableDaemon
  OneRecovery
  OneExecution
  CheckpointMatches
  CompletedIsKept
  DraftIsWhole
  PageIsCurrent
