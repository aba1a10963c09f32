SPECIFICATION Spec
CONSTANTS
  Process = {p1, p2}
  Client = {c1}
  Job = {j1}
  Command = {"start"}
  Overlook = {"busy"}
  CrashMax = 0
  None = None
SYMMETRY ProcessSymmetry
INVARIANT InterruptedMeansStopped
