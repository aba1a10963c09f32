SPECIFICATION FairSpec
CONSTANTS
  Job = {1, 2}
  Worker = {w1}
  Handler = {h1, h2}
  QueueMax = 1
  StoreMayFail = FALSE
  None = None
PROPERTIES
  QueuedProgress
  RunningProgress
  CancelAnswered
