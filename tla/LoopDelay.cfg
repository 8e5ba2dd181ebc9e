\* One round of a loop_thread, with a delay of two ticks in seconds of eight.
SPECIFICATION TimingSpec
CONSTANTS
  Second = 8
  Callers = {"enforce_delay"}
  Periods = {2}
  MaxClock = 16
CHECK_DEADLOCK FALSE
INVARIANT RepeatsAtTheInterval
