SPECIFICATION DocumentsSpec
CONSTANTS
  Schedule <- TwoSamples
  Endpoint <- Endpoints
  Manifest = Manifest
  OtherManifest = OtherManifest
  Garbage = Garbage
  None = None
  MaxChanges = 1
  Ids = {"a", "t"}
  TopIds = {"t"}
  Value = {0, 1, 2}
  Room = 4
  Starts <- TwoStarts
  CutoutLists <- FourLists
  Instructions <- NineInstructions
  MaxRevision = 3
  MaxActions = 2
  NoFile = NoFile
  Meshes <- FiveMeshes
  Drafts <- TwoDrafts
CHECK_DEADLOCK FALSE
INVARIANTS
  AuditIsExact
  AnchoredIsTrue
  HistoryIsExact
  AppliedIsReviewed
  ReportIsExact
  SolidIsExact
  HierarchyIsExact
  BoundsAreTrue
