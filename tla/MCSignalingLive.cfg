CONSTANTS
  c1 = c1  c2 = c2  c3 = c3
  alice = alice  bob = bob
  r1 = r1
  Clients = {c1, c2}
  Users = {alice, bob}
  Rooms = {r1}
  UserOf <- TwoTabs
  RoomOf <- OneRoom
  Everyone = Everyone
  SendBufferSize = 1
  MaxPublish = 1
  MayVanish = {c1, c2}
SPECIFICATION FairSpec
PROPERTIES ConnectionReclaimed HubReturns ShutdownCompletes
