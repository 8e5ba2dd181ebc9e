\* loop_thread: three threads, enough to start again after a detach and after a
\* join.
\* Timed calls: seconds of four ticks, periods shorter and longer than one, calls
\* over up to four of them.
\* Registry: two interfaces with three implementations, two instances of each.
SPECIFICATION SupportSpec
CONSTANTS
  Threads = {t1, t2, t3}
  NoThread = NoThread
  Second = 4
  Callers <- BothCallers
  Periods = {0, 2, 5}
  MaxClock = 16
  Interfaces = {raspi, widget}
  Impls = {impl, mock_impl, other_impl}
  None = None
  MaxInstances = 2
INVARIANTS
  RunningIsHeldOrDetached
  DisposedIsQuiet
  TimingTypeOK
  NeverTooShort
  SleepsForWhatIsLeft
  AnswersAsAsked
PROPERTIES
  JoinEnds
  HaltStopsAllThreads
  ImplementsSingletons
