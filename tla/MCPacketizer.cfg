CONSTANTS
  Sync = sync
  Other = other
  Pat = pat
  Broken = broken
  Packet = 2
  UnitEnd = 4
  HeadPackets = 5
  MinCount = 2
  ResyncUnits = 3
  Small = 4
  FirstSize = 12
  MaxBytes = 20
  MaxPats = 36
  Chunk <- MCChunk
  Admits <- MCAdmits
SPECIFICATION Spec
INVARIANTS BufferIsTail InOrder CutsDoNotMatter PoolBounded
PROPERTY UnitRight
