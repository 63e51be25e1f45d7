SPECIFICATION CountedFairSpec
CONSTANTS
  r1 = r1  r2 = r2  r3 = r3
  Replica = {r1, r2, r3}
  Vacant = Vacant
  Absent = Absent
  LeaseDuration = 2
  RetryInterval = 2
  TicksPerSecond = 2
  Timely = TRUE
  Faults = {"api", "crash", "restart"}
  MaxInFlight = 3
  MaxRestarts = 1
 
PROPERTY LeadershipRecovers
