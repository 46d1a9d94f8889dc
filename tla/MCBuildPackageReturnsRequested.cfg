SPECIFICATION Spec
CONSTANT Graphs <- BinaryRootGraphs
INVARIANT ReturnsRequested
