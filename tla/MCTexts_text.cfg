SPECIFICATION Spec
CONSTANTS
  Keywords <- IfAndOf
  Tasks <- AllTasks
  SplitLineEnds = FALSE
INVARIANTS
  WrittenIsRead
  PartIsRefused
  TokensStandAlone
  PositionsAreRight
  CallsAgree
CHECK_DEADLOCK FALSE
