CONSTANTS
  Dec = {d1, d2}
  None = None
  Unseen = Unseen
  Clear = Clear
  Foreign = Foreign
  Cleared = Cleared
  PatPid = pid0
  CatPid = pid1
  NullPid = null
  pmt1 = pmt1
  pmt2 = pmt2
  ecm1 = ecm1
  ecm2 = ecm2
  v1 = v1
  v2 = v2
  emm1 = emm1
  emm2 = emm2
  e1 = e1
  e2 = e2
  own = own
  other = other
  PmtPids <- MCPmtPids
  EcmPids <- MCEcmPids
  EsPids <- MCEsPids
  EmmPids <- MCEmmPids
  Ecms <- MCEcms
  Emms <- MCEmms
  Own <- MCOwn
  Pats <- MCPats
  Cats <- MCCats
  Pmts <- MCPmts
  Packets <- MCPackets
  Streams <- ManyTables
  Strip = TRUE
  EmmOn = TRUE
  UnitPackets = 2
  PatLimit = 3
  TableLimit = 4
  MayFlush = FALSE
  MayWithdraw = FALSE
  CardMayFail = TRUE
  MaxPut = 2
SPECIFICATION FairDecoderSpec
INVARIANTS DecoderTypeOK SearchCovers
PROPERTY CallReturns
