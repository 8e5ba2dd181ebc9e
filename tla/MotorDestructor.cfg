\* The destructor of a motor that idles.
SPECIFICATION FairSpec
CONSTANTS
  Clients = {c1}
  Accelerations <- MCAccelerations
  STOP_THRESHOLD = 2
  Intervals <- MCIntervals
  MaxClock = 4
  Turns = 3
PROPERTY DestructorReturns
