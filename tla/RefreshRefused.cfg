\* Two users, one request at a time, two sessions, no failed call.
CONSTANTS
  alice = alice
  bob = bob
  r1 = r1
  User = {alice, bob}
  NoUser = NoUser
  Request = {r1}
  Lifetime = 2
  MaxTime = 3
  MaxSessions = 2
  MaxFaults = 0
SPECIFICATION Spec
PROPERTY LiveSessionRefreshes
