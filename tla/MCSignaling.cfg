CONSTANTS
  c1 = c1  c2 = c2  c3 = c3
  alice = alice  bob = bob
  r1 = r1
  Clients = {c1, c2, c3}
  Users = {alice, bob}
  Rooms = {r1}
  UserOf <- TwoTabs
  RoomOf <- OneRoom
  Everyone = Everyone
  SendBufferSize = 1
  MaxPublish = 1
  MayVanish = {}
SPECIFICATION Spec
SYMMETRY Tabs
INVARIANTS TypeOK NoPanic Bookkeeping PresenceExact NoGhost
PROPERTIES RelayScoped Implements
