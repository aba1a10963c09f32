SPECIFICATION Spec
CONSTANTS
  Process = {p1, p2}
  Client = {c1}
  Job = {j1}
  Command = {"start", "restart"}
  Overlook = {"closing"}
  CrashMax = 0
  None = None
SYMMETRY ProcessSymmetry
INVARIANT ServingIsReachable
