CONSTANTS
  r1 = r1  r2 = r2  c1 = c1  f1 = f1  f2 = f2
  Replicas = {r1}
  Files <- OneFile
  NoReplica = NoReplica
  NoFile = NoFile
  Conns = {c1}
  Home <- AtFirst
  Burst = 2
  Cost = 2
  RatePerTick = 1
  MaxFrames = 5
  MaxTicks = 5
SPECIFICATION Spec
INVARIANTS TypeOK CleanExit BudgetExact
