CONSTANTS
  r1 = r1  r2 = r2  c1 = c1  f1 = f1  f2 = f2
  Replicas = {r1, r2}
  Files <- TwoFiles
  NoReplica = NoReplica
  NoFile = NoFile
  Conns = {}
  Home <- AtFirst
  Burst = 1
  Cost = 1
  RatePerTick = 1
  MaxFrames = 0
  MaxTicks = 0
SPECIFICATION FairSpec
INVARIANTS AppliedOnce NoDuplicateWork
PROPERTY Settles
