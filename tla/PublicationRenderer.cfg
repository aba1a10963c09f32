SPECIFICATION Spec
CONSTANTS
  first = first
  second = second
  None = None
  Producer = {first, second}
  Kinds = {"generate"}
  Directory = {"out1", "out2"}
  Process = {"daemon"}
  Target <- ThreadTarget
  Home <- ThreadHome
CHECK_DEADLOCK FALSE
INVARIANTS
  RendererIsTrue
