CONSTANTS
  Elem = {e1, e2, e3}
  None = None
  Pids = {p1, p2}
  Byte <- MCByte
  Stuffing = 3
  ShortHeader = 2
  LongHeader = 3
  MaxRaw = 5
  Genuine <- MCGenuine
  Payloads <- MCPayloads
  MaxTotal = 4
SPECIFICATION FairSpec
INVARIANTS TypeOK Ownership QueuedIntact
PROPERTIES HeldStable FeedSpec PutReturns
