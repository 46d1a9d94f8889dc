SPECIFICATION Spec
CONSTANT Graphs <- BinaryDependencyGraphs
INVARIANT OnlyLibraryDependencies
