\* Two workspaces with different permissions; calls fail.
SPECIFICATION FairSpec
CONSTANTS
  Spaces <- TwoSpaces
  First = "w1"
  Lists <- TwoLists
  Permitted <- NoClientsInW2
  Nothing = Nothing
  MaxCalls = 2
  MaxActs = 2
INVARIANTS TypeOK OneWorkspaceShown
PROPERTY ScreenComesToRest
CHECK_DEADLOCK FALSE
