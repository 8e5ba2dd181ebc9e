\* Registers: three pins over two function and two level registers.
\* Emulated Pi: five drivers on two pins, and two output devices.
\* Simulated motor: two and a quarter seconds of four ticks, changed three times.
SPECIFICATION Spec
CONSTANTS
  Pins <- MCPins
  BootModes <- MCBootModes
  Drivers <- MCDrivers
  Devices = {scope1, scope2}
  None = None
  Second = 4
  Accelerations = {0, 1}
  Positions = {0, 5}
  Garbage = {2, 100}
  MaxClock = 9
  MaxCalls = 3
INVARIANTS
  GpioTypeOK
  ReadsWhatWasWritten
  FailuresAreClashes
  DevicesSeeTheirPin
  VelocityIsIntegrated
  CoastingIsIntegrated
PROPERTIES
  OthersKeepTheirFunction
  CallsMoveNothing
