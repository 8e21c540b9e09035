CONSTANTS
  a = a
  b = b
  c = c
  d = d
  Package = {a, b, c, d}
  NoPackage = NoPackage
  HardwareThreads = 2
  Graphs <- MCGraphs
SPECIFICATION Spec
INVARIANTS TypeOK MarkedExactly MarkInv NoConcurrentInsert GreyIsVisited
PROPERTIES AtomicRemoval UsersKeepDependencies
