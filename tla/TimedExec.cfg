\* One call of timed_exec in a second of eight ticks.
SPECIFICATION TimingSpec
CONSTANTS
  Second = 8
  Callers = {"timed_exec"}
  Periods = {2}
  MaxClock = 8
CHECK_DEADLOCK FALSE
INVARIANT ReturnsTheDuration
