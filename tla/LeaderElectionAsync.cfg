SPECIFICATION CountedSpec
CONSTANTS
  r1 = r1  r2 = r2  r3 = r3
  Replica = {r1, r2}
  Vacant = Vacant
  Absent = Absent
  LeaseDuration = 2
  RetryInterval = 1
  TicksPerSecond = 1
  Timely = FALSE
  Faults = {"claim", "crash", "delete"}
  MaxInFlight = 2
  MaxRestarts = 0
SYMMETRY Symm
INVARIANTS TypeOK RequestsAreCurrent
PROPERTIES RegisterSpec ReleaseAfterStop
