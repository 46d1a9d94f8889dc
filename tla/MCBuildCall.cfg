SPECIFICATION CallFairSpec
CONSTANTS
  Packages <- MCPackages
  Root <- MCRoot
  Resolves <- MCResolves
  Manifests <- MCManifests
INVARIANTS
  TypeOK
  DependenciesPrecede
  EdgesMatchResolve
  OneNodePerPackage
  GraphOfRoot
  NodesInPostOrder
  CallInv
  ExternsAsResolved
  DirectoriesAsResolved
  ReturnsRequestedLibrary
  PanicsOverNeeded
PROPERTIES
  ImplementsBuildOrder
  CallEnds
