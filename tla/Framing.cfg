CONSTANTS
  Message = {"short", "long"}
  TextLength <- TextLengths
  HeaderLength = 3
  Lengths = {0, 2, 3, 5, 6}
  Capacity = 4
  SendLimit = 3
SPECIFICATION Spec
INVARIANTS TypeOK WholeNeverGarbled
PROPERTIES ImplementsChannel AllReceived ReceiveEnds
CHECK_DEADLOCK FALSE
