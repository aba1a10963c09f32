SPECIFICATION FairSpec
CONSTANTS
  Job = {1, 2}
  Worker = {w1, w2}
  Handler = {h1}
  QueueMax = 1
  StoreMayFail = FALSE
  None = None
PROPERTY CancellationResolves
