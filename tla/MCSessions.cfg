CONSTANTS
  r1 = r1  r2 = r2
  Requests = {r1, r2}
  idleTTL = 2
  absoluteTTL = 3
  touchGranularity = 1
  maxSessionsPerUsr = 1
  MaxSessions = 3
  MaxTime <- LastTicks
SPECIFICATION Spec
SYMMETRY Symmetry
INVARIANTS TypeOK TrimsOldest CapHolds IndexCovers
PROPERTIES AbsoluteBound NotSignedOutEarly
