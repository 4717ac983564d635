SPECIFICATION Spec
CONSTANTS
  Main = "main"
  Fns = {"f"}
  Native = "native"
  Exits = {}
  FramesMax = 3
  TryMax = 2
  LoopMax = 2
  StackMax = 5
  MaxScopes = 2
  MaxRuns = 2
INVARIANTS
  StacksMatchCode
PROPERTY
  ImplementsStructuredControl
