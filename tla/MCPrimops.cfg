SPECIFICATION Spec
CONSTANTS
  Plugins <- MCPlugins
  Trees <- MCTrees
  MaxDepth = 2
  MaxItems = 1
  MaxIndex = 9
INVARIANTS
  ReleasedOnce
  InitialisedOnce
  PrimopOutcome
  PanicsOnlyByKeys
  ListsAgree
CHECK_DEADLOCK FALSE
