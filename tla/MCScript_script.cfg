SPECIFICATION Spec
CONSTANTS
  FramesMax = 5
  ThrowMax = 4
  ProtoMax = 4
  LocalMax = 16
  PipeExitMax = 8
  Programs <- Everything
INVARIANTS
  
  NothingIsLeft
  EvaluationAboveLocals
CHECK_DEADLOCK FALSE
