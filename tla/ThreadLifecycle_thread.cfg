SPECIFICATION FairSpec
CONSTANTS
  Body = Body
  None = None
  Clients = {c1, c2}
  Calls = {"await", "join", "cancel", "then", "catch"}
  MaxResults = 2
  MaxReturn = 3
  MaxSpurious = 1
INVARIANTS
  ThreadInvariant
  WaitersSeeAllResults
PROPERTIES
  ResultsFrozen
  WaitersReturn
  StoredCallbackRuns
