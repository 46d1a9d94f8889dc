SPECIFICATION Spec
CONSTANTS
  LockFiles <- MCLockFileSet
  RawSources <- MCRawSources
  Rank <- MCRank
INVARIANT UniqueTables
