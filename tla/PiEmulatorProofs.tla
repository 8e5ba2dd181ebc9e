--------------------------- MODULE PiEmulatorProofs ---------------------------
(***************************************************************************)
(* Theorems about PiEmulator for any drivers and devices.                  *)
(***************************************************************************)
EXTENDS PiEmulator, TLAPS

\* The mode of a driver's pin is the mode of a driver of that pin.
ModeOfADriver ==
  \A d \in created : \E e \in created :
    PinOf(e) = PinOf(d) /\ pin_modes[PinOf(d)] = ModeOf(e)

\* An output device is on one pin, and nothing was written to it before.
OnePinPerDevice ==
  \A p, q \in DriverPins : outputs[p] # None /\ outputs[p] = outputs[q] => p = q

FreshDevicesShowNothing ==
  \A dev \in Devices : (\A p \in DriverPins : outputs[p] # dev) => shown[dev] = None

IInv ==
  /\ PiTypeOK
  /\ OneDevicePerPin
  /\ ModeOfADriver
  /\ FailuresAreClashes
  /\ OnePinPerDevice
  /\ FreshDevicesShowNothing
  /\ DevicesSeeTheirPin

-----------------------------------------------------------------------------
LEMMA PinsOfDrivers == \A d \in Drivers : PinOf(d) \in DriverPins
BY DEF DriverPins

LEMMA ModesOfDrivers ==
  /\ \A d \in Drivers : ModeOf(d) \in Modes /\ d.kind \in Kinds
  /\ \A d \in Drivers : ModeOf(d) = OUTPUT <=> d.kind = "motor"
BY PiEmulatorAssumption DEF ModeOf, Modes, INPUT, OUTPUT, Kinds

LEMMA NoneIsNothingElse ==
  None \notin Levels /\ None \notin Modes /\ None \notin Devices
BY PiEmulatorAssumption

LEMMA InvInit == PiInit => IInv
<1> SUFFICES ASSUME PiInit
             PROVE  IInv
  OBVIOUS
<1>1. PiTypeOK
  BY DEF PiInit, PiTypeOK
<1>2. OneDevicePerPin /\ ModeOfADriver /\ FailuresAreClashes
  BY DEF PiInit, OneDevicePerPin, ModeOfADriver, FailuresAreClashes
<1>3. OnePinPerDevice /\ FreshDevicesShowNothing /\ DevicesSeeTheirPin
  BY DEF PiInit, OnePinPerDevice, FreshDevicesShowNothing, DevicesSeeTheirPin
<1> QED BY <1>1, <1>2, <1>3 DEF IInv

-----------------------------------------------------------------------------
(* A failure that is not a clash of modes, or that is one.                 *)
LEMMA FailStep ==
  ASSUME IInv, NEW how, Fail(how),
         how \in {"failed_connect", "failed_write", "failed_read"},
         how = "failed_connect" \/ Clash
  PROVE  IInv'
<1>1. PiTypeOK'
  BY DEF IInv, PiTypeOK, Fail
<1>2. FailuresAreClashes'
  BY DEF Fail, FailuresAreClashes, Clash
<1>3. /\ OneDevicePerPin' /\ ModeOfADriver' /\ OnePinPerDevice'
      /\ FreshDevicesShowNothing' /\ DevicesSeeTheirPin'
  BY DEF IInv, Fail, OneDevicePerPin, ModeOfADriver, OnePinPerDevice,
         FreshDevicesShowNothing, DevicesSeeTheirPin
<1> QED BY <1>1, <1>2, <1>3 DEF IInv

LEMMA CreateStep ==
  ASSUME IInv, NEW d \in Drivers, create(d)
  PROVE  IInv'
<1>p. PinOf(d) \in DriverPins /\ ModeOf(d) \in Modes
  BY PinsOfDrivers, ModesOfDrivers
<1>c. created' = created \cup {d} /\ created \subseteq Drivers
  BY DEF create, IInv, PiTypeOK
<1>m. /\ pin_modes' = [pin_modes EXCEPT ![PinOf(d)] = ModeOf(d)]
      /\ pin_modes \in [DriverPins -> Modes \cup {None}]
  BY DEF create, IInv, PiTypeOK
<1>1. PiTypeOK'
  <2>1. pin_modes' \in [DriverPins -> Modes \cup {None}]
    BY <1>m, <1>p
  <2> QED BY <2>1, <1>c DEF create, IInv, PiTypeOK
<1>2. ModeOfADriver'
  <2> SUFFICES ASSUME NEW b \in created'
               PROVE  \E e \in created' : /\ PinOf(e) = PinOf(b)
                                          /\ pin_modes'[PinOf(b)] = ModeOf(e)
    BY DEF ModeOfADriver
  <2>1. CASE PinOf(b) = PinOf(d)
    <3>1. pin_modes'[PinOf(b)] = ModeOf(d)
      BY <2>1, <1>m, <1>p
    <3> QED BY <3>1, <2>1, <1>c
  <2>2. CASE PinOf(b) # PinOf(d)
    <3>1. b \in created
      BY <2>2, <1>c
    <3>2. PICK e \in created : PinOf(e) = PinOf(b) /\ pin_modes[PinOf(b)] = ModeOf(e)
      BY <3>1 DEF IInv, ModeOfADriver
    <3>3. pin_modes'[PinOf(b)] = pin_modes[PinOf(b)]
      BY <2>2, <1>m, <1>c, <3>1, PinsOfDrivers
    <3> QED BY <3>2, <3>3, <1>c
  <2> QED BY <2>1, <2>2
<1>3. FailuresAreClashes'
  BY DEF create, Running, FailuresAreClashes
<1>4. OneDevicePerPin' /\ OnePinPerDevice' /\ FreshDevicesShowNothing' /\ DevicesSeeTheirPin'
  BY DEF create, IInv, OneDevicePerPin, OnePinPerDevice, FreshDevicesShowNothing,
         DevicesSeeTheirPin
<1> QED BY <1>1, <1>2, <1>3, <1>4 DEF IInv

(* What is left alone by the connection of a device and by a write.        *)
LEMMA ModesUntouched ==
  ASSUME IInv, Running, UNCHANGED <<pin_modes, created, program>>
  PROVE  ModeOfADriver' /\ FailuresAreClashes'
BY DEF IInv, Running, ModeOfADriver, FailuresAreClashes, Clash

LEMMA ConnectOutputStep ==
  ASSUME IInv, NEW p \in DriverPins, NEW dev \in Devices, connect_output(p, dev)
  PROVE  IInv'
<1>1. CASE Occupied(p)
  BY <1>1, FailStep DEF connect_output
<1>2. CASE ~ Occupied(p)
  <2>o. /\ outputs' = [outputs EXCEPT ![p] = dev]
        /\ wire' = [wire EXCEPT ![p] = None]
        /\ outputs \in [DriverPins -> Devices \cup {None}]
        /\ wire \in [DriverPins -> Levels \cup {None}]
        /\ UNCHANGED <<pin_modes, inputs, created, shown, reading, program>>
        /\ \A q \in DriverPins : outputs[q] # dev
        /\ Running
    BY <1>2 DEF connect_output, IInv, PiTypeOK
  <2>f. inputs[p] = None /\ dev # None
    BY <1>2, NoneIsNothingElse DEF Occupied
  <2>1. PiTypeOK'
    BY <2>o DEF IInv, PiTypeOK
  <2>2. OneDevicePerPin'
    BY <2>o, <2>f DEF IInv, OneDevicePerPin
  <2>3. OnePinPerDevice'
    BY <2>o DEF IInv, OnePinPerDevice
  <2>4. FreshDevicesShowNothing'
    <3> SUFFICES ASSUME NEW d \in Devices, \A q \in DriverPins : outputs'[q] # d
                 PROVE  shown'[d] = None
      BY DEF FreshDevicesShowNothing
    <3>1. d # dev
      BY <2>o
    <3>2. \A q \in DriverPins : outputs[q] # d
      BY <2>o, <2>f, <1>2, NoneIsNothingElse DEF Occupied
    <3> QED BY <3>2, <2>o DEF IInv, FreshDevicesShowNothing
  <2>5. DevicesSeeTheirPin'
    <3>1. shown[dev] = None
      BY <2>o DEF IInv, FreshDevicesShowNothing
    <3> QED BY <3>1, <2>o, <2>f DEF IInv, DevicesSeeTheirPin
  <2> QED BY <2>o, <2>1, <2>2, <2>3, <2>4, <2>5, ModesUntouched DEF IInv
<1> QED BY <1>1, <1>2

LEMMA ConnectInputStep ==
  ASSUME IInv, NEW p \in DriverPins, connect_input(p)
  PROVE  IInv'
<1>1. CASE Occupied(p)
  BY <1>1, FailStep DEF connect_input
<1>2. CASE ~ Occupied(p)
  <2>i. /\ inputs' = [inputs EXCEPT ![p] = LOW]
        /\ wire' = [wire EXCEPT ![p] = LOW]
        /\ UNCHANGED <<pin_modes, outputs, created, shown, reading, program>>
        /\ Running
    BY <1>2 DEF connect_input
  <2>f. outputs[p] = None
    BY <1>2 DEF Occupied
  <2>1. PiTypeOK'
    BY <2>i DEF IInv, PiTypeOK, Levels
  <2>2. OneDevicePerPin' /\ OnePinPerDevice' /\ FreshDevicesShowNothing'
    BY <2>i, <2>f DEF IInv, PiTypeOK, OneDevicePerPin, OnePinPerDevice,
                      FreshDevicesShowNothing
  <2>3. DevicesSeeTheirPin'
    BY <2>i, <2>f DEF IInv, PiTypeOK, DevicesSeeTheirPin
  <2> QED BY <2>i, <2>1, <2>2, <2>3, ModesUntouched DEF IInv
<1> QED BY <1>1, <1>2

LEMMA HandleWriteStep ==
  ASSUME IInv, NEW p \in DriverPins, NEW level \in Levels, handle_write(p, level)
  PROVE  IInv'
<1>i. /\ inputs' = [inputs EXCEPT ![p] = level]
      /\ wire' = [wire EXCEPT ![p] = level]
      /\ UNCHANGED <<pin_modes, outputs, created, shown, reading, program>>
      /\ Running
  BY DEF handle_write
<1>f. outputs[p] = None
  BY DEF handle_write, IInv, OneDevicePerPin
<1>1. PiTypeOK'
  BY <1>i DEF IInv, PiTypeOK
<1>2. OneDevicePerPin' /\ OnePinPerDevice' /\ FreshDevicesShowNothing'
  BY <1>i, <1>f DEF IInv, PiTypeOK, OneDevicePerPin, OnePinPerDevice,
                    FreshDevicesShowNothing
<1>3. DevicesSeeTheirPin'
  BY <1>i, <1>f DEF IInv, PiTypeOK, DevicesSeeTheirPin
<1> QED BY <1>i, <1>1, <1>2, <1>3, ModesUntouched DEF IInv

(* A driver whose pin is not in its mode has lost it to another driver.    *)
LEMMA WrongModeIsAClash ==
  ASSUME IInv, NEW d \in created, pin_modes[PinOf(d)] # ModeOf(d)
  PROVE  Clash
BY DEF IInv, ModeOfADriver, Clash

LEMMA DigitalWriteStep ==
  ASSUME IInv, NEW d \in Drivers, NEW level \in Levels, emulated_write(d, level)
  PROVE  IInv'
<1> DEFINE p == PinOf(d)
<1>d. d \in created /\ ModeOf(d) = OUTPUT /\ p \in DriverPins
  BY ModesOfDrivers, PinsOfDrivers DEF emulated_write
<1>1. CASE pin_modes[p] # OUTPUT
  <2>1. Clash
    BY <1>d, <1>1, WrongModeIsAClash
  <2> QED BY <2>1, <1>1, FailStep DEF emulated_write
<1>2. CASE pin_modes[p] = OUTPUT /\ outputs[p] = None
  <2>1. UNCHANGED pi_vars
    BY <1>2 DEF emulated_write, pi_vars
  <2> QED BY <2>1 DEF pi_vars, IInv, PiTypeOK, OneDevicePerPin, ModeOfADriver,
                      FailuresAreClashes, Clash, OnePinPerDevice,
                      FreshDevicesShowNothing, DevicesSeeTheirPin
<1>3. CASE pin_modes[p] = OUTPUT /\ outputs[p] # None
  <2>s. /\ shown' = [shown EXCEPT ![outputs[p]] = level]
        /\ wire' = [wire EXCEPT ![p] = level]
        /\ UNCHANGED <<pin_modes, inputs, outputs, created, reading, program>>
        /\ Running
    BY <1>3 DEF emulated_write
  <2>f. inputs[p] = None /\ outputs[p] \in Devices
    BY <1>3, <1>d DEF IInv, OneDevicePerPin, PiTypeOK
  <2>1. PiTypeOK'
    BY <2>s DEF IInv, PiTypeOK
  <2>2. OneDevicePerPin' /\ OnePinPerDevice'
    BY <2>s DEF IInv, OneDevicePerPin, OnePinPerDevice
  <2>3. FreshDevicesShowNothing'
    BY <2>s, <2>f, <1>d DEF IInv, PiTypeOK, FreshDevicesShowNothing
  <2>4. DevicesSeeTheirPin'
    <3> SUFFICES ASSUME NEW q \in DriverPins
                 PROVE  /\ outputs[q] # None => shown'[outputs[q]] = wire'[q]
                        /\ inputs[q] # None => inputs[q] = wire'[q]
      BY <2>s DEF DevicesSeeTheirPin
    <3>1. CASE q = p
      BY <3>1, <2>s, <2>f, <1>d DEF IInv, PiTypeOK
    <3>2. CASE q # p
      <4>1. outputs[q] # None => outputs[q] # outputs[p]
        BY <3>2, <1>d DEF IInv, OnePinPerDevice
      <4>2. wire'[q] = wire[q]
        BY <3>2, <2>s DEF IInv, PiTypeOK
      <4>3. outputs[q] # None => shown'[outputs[q]] = shown[outputs[q]]
        BY <4>1, <2>s DEF IInv, PiTypeOK
      <4> QED BY <4>2, <4>3 DEF IInv, DevicesSeeTheirPin
    <3> QED BY <3>1, <3>2
  <2> QED BY <2>s, <2>1, <2>2, <2>3, <2>4, ModesUntouched DEF IInv
<1> QED BY <1>1, <1>2, <1>3

LEMMA DigitalReadStep ==
  ASSUME IInv, NEW d \in Drivers, d.kind # "motor", emulated_read(d)
  PROVE  IInv'
<1>d. d \in created /\ ModeOf(d) = INPUT /\ PinOf(d) \in DriverPins
  BY ModesOfDrivers, PinsOfDrivers DEF emulated_read, ModeOf
<1>1. CASE pin_modes[PinOf(d)] # INPUT
  <2>1. Clash
    BY <1>d, <1>1, WrongModeIsAClash
  <2> QED BY <2>1, <1>1, FailStep DEF emulated_read
<1>2. CASE pin_modes[PinOf(d)] = INPUT
  <2>r. /\ UNCHANGED <<pin_modes, inputs, outputs, created, shown, wire, program>>
        /\ Running
        /\ reading' = [reading EXCEPT ![d] = IF inputs[PinOf(d)] # None
                                             THEN inputs[PinOf(d)] ELSE LOW]
    BY <1>2 DEF emulated_read
  <2>1. PiTypeOK'
    BY <2>r, <1>d DEF IInv, PiTypeOK, Levels
  <2>2. OneDevicePerPin' /\ OnePinPerDevice' /\ FreshDevicesShowNothing' /\ DevicesSeeTheirPin'
    BY <2>r DEF IInv, OneDevicePerPin, OnePinPerDevice, FreshDevicesShowNothing,
                DevicesSeeTheirPin
  <2> QED BY <2>r, <2>1, <2>2, ModesUntouched DEF IInv
<1> QED BY <1>1, <1>2

LEMMA InvStep == IInv /\ [PiNext]_pi_vars => IInv'
<1> SUFFICES ASSUME IInv, [PiNext]_pi_vars
             PROVE  IInv'
  OBVIOUS
<1>1. ASSUME NEW d \in Drivers, create(d)
      PROVE  IInv'
  BY <1>1, CreateStep
<1>2. ASSUME NEW d \in Drivers, is_pushed(d) \/ is_triggered(d)
      PROVE  IInv'
  BY <1>2, DigitalReadStep DEF is_pushed, is_triggered
<1>3. ASSUME NEW d \in Drivers, NEW level \in Levels, emulated_write(d, level)
      PROVE  IInv'
  BY <1>3, DigitalWriteStep
<1>4. ASSUME NEW p \in DriverPins, NEW dev \in Devices, connect_output(p, dev)
      PROVE  IInv'
  BY <1>4, ConnectOutputStep
<1>5. ASSUME NEW p \in DriverPins, connect_input(p)
      PROVE  IInv'
  BY <1>5, ConnectInputStep
<1>6. ASSUME NEW p \in DriverPins, NEW level \in Levels, handle_write(p, level)
      PROVE  IInv'
  BY <1>6, HandleWriteStep
<1>7. CASE UNCHANGED pi_vars
  BY <1>7 DEF pi_vars, IInv, PiTypeOK, OneDevicePerPin, ModeOfADriver,
              FailuresAreClashes, Clash, OnePinPerDevice,
              FreshDevicesShowNothing, DevicesSeeTheirPin
<1> QED BY <1>1, <1>2, <1>3, <1>4, <1>5, <1>6, <1>7 DEF PiNext, Aborted

LEMMA Invariance == PiSpec => []IInv
BY InvInit, InvStep, PTL DEF PiSpec

-----------------------------------------------------------------------------
(***************************************************************************)
(* The emulated Pi's variables keep their types, whatever drivers and      *)
(* devices there are.                                                      *)
(***************************************************************************)
THEOREM TypeCorrect == PiSpec => []PiTypeOK
<1>1. IInv => PiTypeOK
  BY DEF IInv
<1> QED BY <1>1, Invariance, PTL

(***************************************************************************)
(* connect_device lets no pin have two devices, in whatever order they     *)
(* come.                                                                   *)
(***************************************************************************)
THEOREM PinsHaveOneDevice == PiSpec => []OneDevicePerPin
<1>1. IInv => OneDevicePerPin
  BY DEF IInv
<1> QED BY <1>1, Invariance, PTL

(***************************************************************************)
(* The process is aborted by a reading or a pulse only where drivers that  *)
(* need different modes share a pin.                                       *)
(***************************************************************************)
THEOREM OnlyClashesFail == PiSpec => []FailuresAreClashes
<1>1. IInv => FailuresAreClashes
  BY DEF IInv
<1> QED BY <1>1, Invariance, PTL

(***************************************************************************)
(* Every device sees the last level put on its pin.                        *)
(***************************************************************************)
THEOREM LevelsReachTheirDevice == PiSpec => []DevicesSeeTheirPin
<1>1. IInv => DevicesSeeTheirPin
  BY DEF IInv
<1> QED BY <1>1, Invariance, PTL
=============================================================================
