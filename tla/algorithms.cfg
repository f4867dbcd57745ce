CONSTANTS
  Null = Null
  Frames <- ServerFrames
  MaxSent = 3
  Builders = {b1, b2}
  Requests <- Asked
  Scanned <- SourceTexts
  Databases <- Schemas
  Names = {"a", "b"}
  Oids = {23, 25}
  Attributes = {"t.a"}
  NoAttribute = "none"
  MaxBuilds = 2
  MaxChanges = 1
  MaxMessage = 60
  InlineCap = 2
  BadByte = 255999
  Max64 = 1000
  Max32 = 600
  Max16 = 99
  Epoch = 9
  Chrono = 500
  Second = 10
  Day = 24
  ArcBase = 2097152
SPECIFICATION Spec
SYMMETRY Alike
CHECK_DEADLOCK FALSE
INVARIANTS
  FramesKept
  
  TextKept
  MetadataKept
