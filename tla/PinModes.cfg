\* One pin, an input at first.
SPECIFICATION GpioSpec
CONSTANTS
  Pins = {8}
  BootModes = {0}
INVARIANT PinModeSetsTheMode
