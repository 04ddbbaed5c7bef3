CONSTANTS
  Dec = {d1, d2, d3}
  None = None
  Unseen = Unseen
  Clear = Clear
  Foreign = Foreign
  PatPid = pid0
  CatPid = pid1
  pmt1 = pmt1
  pmt2 = pmt2
  ecm1 = ecm1
  ecm2 = ecm2
  v1 = v1
  v2 = v2
  emm1 = emm1
  emm2 = emm2
  PmtPids <- MCPmtPids
  EcmPids <- MCEcmPids
  EsPids <- MCEsPids
  EmmPids <- MCEmmPids
  Pats <- MCPats
  Cats <- MCCats
  Pmts <- MCPmts
SYMMETRY MCSymmetry
SPECIFICATION Spec
INVARIANTS TypeOK RefsExact NoDangling NoIdleDecryptor DeclaredBinding
