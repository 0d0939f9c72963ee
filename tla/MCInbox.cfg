CONSTANTS
  c1 = c1  c2 = c2
  alice = alice  bob = bob
  Conns = {c1, c2}
  Users = {alice, bob}
  UserOf <- AllBob
  MaxEvents = 3
  SendBufferSize = 1
  MayVanish = {c1, c2}
SPECIFICATION FairSpec
INVARIANTS TypeOK NoPanic Bookkeeping NoGhost NothingMissed
PROPERTIES ConnectionReclaimed ShutdownDrains
