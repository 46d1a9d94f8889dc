SPECIFICATION MCSpec
CONSTANTS
  Keys = {"a", "b", "c", "d"}
  Values = {"1", "2", "3", "4"}
  Renamed <- MCRenamed
INVARIANTS
  TypeOK
  LengthIsExact
  NoKeyTwice
  SidesAgree
PROPERTY ImplementsUnion
CHECK_DEADLOCK FALSE
