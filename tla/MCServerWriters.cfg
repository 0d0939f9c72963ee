CONSTANTS
  r1 = r1  r2 = r2  c1 = c1  f1 = f1  f2 = f2
  Replicas = {r1}
  Files <- OneFile
  NoReplica = NoReplica
  NoFile = NoFile
  Conns = {c1}
  Home <- AtFirst
  Burst = 1
  Cost = 1
  RatePerTick = 1
  MaxFrames = 1
  MaxTicks = 1
SPECIFICATION Spec
INVARIANT NoWriterPanic
