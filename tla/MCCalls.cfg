CONSTANTS
  q1 = q1  q2 = q2  q3 = q3
  caller = caller  callee = callee
  s1 = s1
  Requests = {q1, q2, q3}
  Users = {caller, callee}
  Slugs = {s1}
  slugAttempts = 2
  PerSender = 1
  MaxDisabled = 1
  None = None
SPECIFICATION Spec
SYMMETRY Symmetry
INVARIANTS TypeOK RealTimeOrder DeletedIsGone TicketSingleUse DisabledKeptOut RingsBounded
