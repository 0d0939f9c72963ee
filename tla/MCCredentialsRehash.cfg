CONSTANTS
  p1 = p1  p2 = p2  weak = weak  r1 = r1  r2 = r2
  Requests = {r1, r2}
  Passwords = {p1, p2, weak}
  Weak = {weak}
  Limit <- Quotas
  Window = 1
  hashSlots = 1
  MaxRequests = 2
SPECIFICATION Spec
INVARIANT RehashKeepsPassword
