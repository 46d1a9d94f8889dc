SPECIFICATION Spec
CONSTANT Graphs <- MCGraphs
INVARIANTS
  TypeOK
  ExternsFound
