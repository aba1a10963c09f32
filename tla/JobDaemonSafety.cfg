SPECIFICATION Spec
CONSTANTS
  Job = {1, 2}
  Worker = {w1, w2}
  Handler = {h1, h2}
  QueueMax = 1
  StoreMayFail = TRUE
  None = None
SYMMETRY ThreadSymmetry
INVARIANTS
  RunsAtMostOnce
  RunningIsHeld
  QueuedIsReachable
  OutputMatchesRecord
  RefusedNeverRuns
  RetriedIsFinished
PROPERTY ImplementsLifecycle
