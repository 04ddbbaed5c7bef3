CONSTANTS
  W = 3
  Round = 4
  XorW <- MCXorW
  OrW <- MCOrW
  N = 3
  None = None
  Block <- Blk
  Part <- Word
  Plain <- MCPlain
  Key <- MCKey
  Iv <- MCIv
  Zero <- MCZero
  Enc <- MCEnc
  Dec <- MCDec
  Xor <- MCXor
  PartXor <- MCPartXor
  Widths <- MCWidths
SPECIFICATION Spec
CHECK_DEADLOCK FALSE
INVARIANTS IsCbcOfb RoundTrip NeighbourKept
