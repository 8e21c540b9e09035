CONSTANTS
  a = a
  b = b
  c = c
  d = d
  Package = {a, b, c, d}
  NoPackage = NoPackage
  HardwareThreads = 0
  Graphs <- LiveGraphs
SPECIFICATION LiveSpec
PROPERTIES OperationsReturn
