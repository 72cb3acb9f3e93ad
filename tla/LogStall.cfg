SPECIFICATION LogSpec
CONSTANTS
  Streams = {g1}
  NoStream = NoStream
  LineSlots = 1
  OutSlots = 2
  MaxLines = 4
  MaxLine = 4
PROPERTY LinesArrive
CHECK_DEADLOCK FALSE
