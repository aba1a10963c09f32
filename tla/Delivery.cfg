SPECIFICATION DeliverySpec
CONSTANTS
  first = first
  second = second
  None = None
  Producer = {first, second}
  Kinds = {"generate", "bundle", "gmsh"}
  Directory = {"out"}
  Process = {"command1", "command2"}
  Target <- RaceTarget
  Home <- RaceHome
  Empty = Empty
  Text = {a, b, Empty}
  Mode = {"enclosure", "prompt", "project"}
  ProjectMode = {"enclosure", "project"}
  MaxGeneration = 4
CHECK_DEADLOCK FALSE
INVARIANTS
  WorkspaceIsHeld
  OutputIsCurrent
  ControlsMatch
  ProposalIsFresh
PROPERTIES
  ImplementsAtomicDirectory
  CallsEnd
  UnsavedSurvives
  OutputSurvivesFailure
  ControlsReturn
