SPECIFICATION Spec
CONSTANTS
  None = None
  Workspaces <- MCWorkspaces
INVARIANTS
  TypeOK
  RenamedAsInToml
  LibrariesFound
  LibrariesDistinct
  OverridesReach
  FlagsOfOwnScript
CHECK_DEADLOCK FALSE
