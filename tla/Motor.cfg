\* Two clients, three accelerations, intervals on both sides of the threshold.
SPECIFICATION FairSpec
CONSTANTS
  Clients = {c1, c2}
  Accelerations <- MCAccelerations
  STOP_THRESHOLD = 2
  Intervals <- MCIntervals
  MaxClock = 4
  Turns = 3
INVARIANTS
  TypeOK
  SleepsOnlyStopped
  PositionFollowsPulses
  ChangesAddUp
PROPERTIES
  WokenMotorPulses
  StoppedMotorRests
  RunningMotorIsJoined
