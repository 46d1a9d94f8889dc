SPECIFICATION Spec
CONSTANTS
  None = None
  Workspaces <- MCWorkspaces
INVARIANT
  MetadataReachesDependents
CHECK_DEADLOCK FALSE
