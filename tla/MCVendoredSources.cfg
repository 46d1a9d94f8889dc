SPECIFICATION FairSpec
CONSTANTS
  LockFiles <- MCLockFileSet
  RawSources <- MCRawSources
  Rank <- MCRank
INVARIANTS
  ParserTypeOK
  YieldsListed
  ErrorsExact
  TypeOK
  SourcesListed
  TablesComplete
  GetFinds
PROPERTY VendoringEnds
