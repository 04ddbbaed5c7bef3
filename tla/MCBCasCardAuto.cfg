CONSTANTS
  None = None
  Failed = Failed
  Unknown = Unknown
  bcas = bcas
  acascard = acascard
  h1 = h1
  h2 = h2
  e1 = e1
  m1 = m1
  Card <- MCCard
  Handle <- MCHandle
  Readers = 2
  Named <- MCNamed
  Speaks <- MCSpeaks
  Ids <- MCIds
  Pages <- MCPages
  Ecms <- MCEcms
  Emms <- MCEmms
  Room = 2
  MaxEvents = 2
SPECIFICATION AutoSpec
INVARIANT ModeMatches
