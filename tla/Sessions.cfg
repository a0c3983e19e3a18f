\* Two users, two requests at a time, three sessions, one failed call.
CONSTANTS
  alice = alice
  bob = bob
  r1 = r1
  r2 = r2
  User = {alice, bob}
  NoUser = NoUser
  Request = {r1, r2}
  Lifetime = 2
  MaxTime = 3
  MaxSessions = 3
  MaxFaults = 1
SPECIFICATION Spec
SYMMETRY RequestSymmetry
INVARIANTS
  SessionsTypeOK
  LatestSessionOnly
  GrantedToOwner
PROPERTIES
  SessionFixed
  ImplementsTokens
