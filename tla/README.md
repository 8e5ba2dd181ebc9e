# Formal models of the self-driving simulation

TLA+ modules, TLC configurations and TLAPS proofs about the program in `src/`:
a simulation of cars on crossing tracks, driven through the GPIO pins of a
Raspberry Pi, or through an emulation of one. Paths below are relative to the
repository (`src/hardware/raspi.cpp`, `include/hardware/pi_emulator.h`, ...).

`PROJECT.json` lists the components, the runs, the lines each definition
models, the findings, the hazards and the theorems. This file says how they fit
together.

## 1. The system

| Component | Code | State | Operations | Modules |
|---|---|---|---|---|
| Oscilloscope emulator | `src/hardware/raspi.cpp` 214-355, `include/hardware/pi_emulator.h` | four lists of window requests under two locks, the pin's level, the last sample, a sampler and a flusher thread | `write`, two `fill_window`, `sample`, `flush`, destructor | `Oscilloscope`, `OscilloscopeTrace`, abstract: `WindowService` |
| Motor driver | `src/hardware/motor.cpp` 32-212 | kinematics under `data_lock`, `halt`, a thread | `set_acceleration`, `change_acceleration`, `calibrate`, getters, `idle`, `pwm`, destructor | `Motor` |
| Loop threads | `src/system/threading.cpp` 21-114 | a `std::thread`, `halt` | `start`, `join`, `detach`, `main`, destructor | `LoopThread` |
| Timed calls | `src/system/threading.cpp` 27-64, 116-127, `include/system/time.h` | the clock | `enforce_delay`, `timed_exec`, `now`, `useconds_since` | `Timing` |
| Object registry | `src/objects/` | four maps: registrations, mocks, replacements, instances | registrations, `get`, `replace`, `mock`, `reset` | `Objects`, abstract: `Singletons` |
| Emulated Pi | `src/hardware/raspi.cpp` 103-208 | pin modes, input values, output devices | `connect_device`, `pin_mode`, `digital_write`, `digital_read`, input handle | `PiEmulator` |
| Buttons, sensors | `src/hardware/button.cpp`, `sensor.cpp` | a pin | creation, reading | `PiEmulator` (drivers) |
| Pi registers | `src/hardware/raspi.cpp` 17-101 | memory-mapped registers | `pin_mode`, `digital_write`, `digital_read` | `Gpio` |
| Simulated motor | `src/hardware/motor.cpp` 214-271 | offsets and times of calibration, the acceleration | as the motor | `SimulatedMotor` |
| Planning | `src/simulation/` | a window for each intersection; the cars | `find_accelerations` and all it calls | `Planning`, `Kinematics` |
| Log levels | `include/diagnostics/logging.h` 21-68, 73-78, 121-125 | the level of `base_log_level`, of new and of existing loggers | scopes of `level_setter`, `logger`, `set_level` | `LogLevel` |
| Test harness | `test/test.cpp` | a trie of test names | insert, find, run | not modelled |
| Logging, assertions, configuration | `include/diagnostics/`, `src/config/` | - | formatting, I/O | not modelled |

How they interact. A car creates its motor through the registry's
`motor_factory`; motor, button and sensor drivers get the `raspi` from the
registry and set the mode of their pin; a motor's thread writes its pin. A
grid reads its cars' motors, real or simulated, while they move. With
`emulate_raspi` the registry answers with the emulated Pi, which passes levels
written to a pin to the output device connected to it. The oscilloscope is such
a device: its `write` runs on the motor's thread, its windows are filled by its
sampler and handed to callbacks by its flusher, and both are `loop_thread`s
whose rounds `enforce_delay` paces by `sys::now()`.

What is hard. Four kinds of thread (clients, motor, sampler, flusher) share
state under three locks, with reads outside them; two condition variables are
waited on with predicates that leave out `halt`; destructors join threads that
may be asleep; a clock wraps every second; registrations run in any order;
pins are shared between drivers of different kinds; a plan is made of numbers
that may be infinite or none, from positions that change while it is made, over
windows that earlier plans left behind. `PROJECT.json` lists these
hazards line by line, with the properties that cover each.

What makes each part correct:

- oscilloscope: no request is lost, duplicated or returned partly filled; a
  window is a run of consecutive samples from the right start; every window
  comes back; no wake-up is lost; the destructor returns;
- motor: an acceleration starts a stopped motor; the pin is low between pulses;
  position counts pulses; changes add up; the destructor returns;
- loop threads: no thread is forgotten, none uses a disposed object, joins end;
- timed calls: a call takes its period, no less and no more;
- registry: `get` answers with what was last asked for;
- emulated Pi: one device per pin, values reach it, only clashes abort;
- registers: a call touches its own pin only, modes and levels take effect;
- simulated motor: position and velocity are integrals, and calls as such move
  nothing;
- planning: a crossing takes the time of its window, an automatic car keeps
  clear of another's window, windows stay numbers, a round that finds nothing
  changed gives the same result;
- log levels: the level in force is that of the innermost scope.

## 2. The modules

**`WindowService`** states what an oscilloscope promises: requests are armed or
filling, an edge starts all that wait for it, windows grow sample by sample,
full ones come back once each and in order. **`Oscilloscope`** is the code. An
action is a critical section, or the part of a function between two points
where another thread can interfere: `sample()` is `TakeSample` (lock, sample,
triggers), `PushSample` (one iteration), `EndFill`, `QueueFilled` (second
lock), `Notify`; `flush()` is `CollectFilled` (the predicate of the wait, run
under the lock), `Callback`, `EndFlush`. `requests_lock` and `filled_lock` are
variables where a thread keeps them over several steps, in particular over the
callbacks, which the code calls with `filled_lock` held. `fill_window` is
`FillWindow` and `FillWindowOnTrigger`. The destructor is `Destroy`,
`FlusherJoined`, `SamplerJoined`: members are destroyed in reverse order of
declaration and `~loop_thread` sets `halt` and joins. `value` and `last_sample`
start with any content, since the constructor does not set them.
**`OscilloscopeTrace`** adds history variables (the samples taken, when and for
what each window was asked) that only watch `Oscilloscope`'s actions, to state
what a window must contain.

**`Motor`** has the clients, the motor thread and the destructor. Locked
sections are single actions; the loop condition of `pwm`, which reads `next`
and `curr` without the lock, is two reads in either order
(`CheckFirst`, `CheckSecond`). `change_acceleration` is `ReadAcceleration` and
`ChangeAcceleration`, since it locks twice. Time is kept as in the code, by
`curr` and `next`; the new interval `4688 / velocity` is any of `Intervals`.

**`LoopThread`** has one `loop_thread` with the threads it has started;
`handle` is the `std::thread` it holds. Assigning over a joinable `std::thread`
and an exception in the destructor end the process. A thread that outlives the
object reads a `halt` that may be anything.

**`Timing`** has one call of `enforce_delay` or `timed_exec` over a true clock;
`now` is that clock modulo `Second`. A sleep ends at `wake` or later (`Awake`),
or the `usleep` fails before that, and the call goes on (`SleepFails`).

**`Singletons`** states what the registry promises; **`Objects`** is the code:
static registrations in any order, then `main`. `FactoryOf`, `Instantiate` and
`get` are `get_instance` and `get`; `Replace` has the code's two branches.

**`PiEmulator`** has the maps of `mock_raspi` and the drivers that use it.
`create` is a driver's factory and constructor, `PinOf` its lookup in the
`pins` map, which invents pin 0 for an unknown track.

**`Kinematics`** has the equations of motion of `car.cpp`, clamping and case
distinctions included. Doubles are fixed-point integers with `NaN` and
`Infinity` beside them, in units that make `MAX_VEL` and `MAX_ACC` both 1:
lengths are in 1/12 m, velocities in 1/2 m/s. The quadratic formula is taken in
the equal form that does not divide by a small acceleration. `Root` finds a
square root in two steps, so that it is both quick to evaluate and a definition
that proofs can use, which a recursive one is not.
**`Planning`** is `find_accelerations`. The intersections ahead are a set of
which each round of a loop takes the `Nearest`; the code sorts a vector by the
same positions. A step is one round of one of its loops or the code between two
of them: `SetHumanWindow`, `set_min_windows` and `LookAhead` (which read the
motor one after the other), `PlanCrossing`, `PushAcceleration`. `AsVelocity` is
the conversion that the units need where the code takes a position in metres as
a velocity in m/s (`grid.cpp:81`). Two histories watch `PlanCrossing`:
`crossing` is the last crossing planned, with what it was planned from, and
`stalls` is the set of intersections for which a plan had numbers but no time: a
car without velocity or above the limit whose acceleration is, or rounds to, 0,
or one that is there and has to be there at once (0 / 0). `final_acc` divides by
0 for a car exactly at the end of its track, with an infinite acceleration or
NaN as the result (`Quotient`). `Drive` is a motor that reports another position
and velocity, of any of its `Moves`, between any two steps: on, or back, as a
simulated motor jumps at the end of a second. Grids follow each other over the
same intersections, as in `test/simulation/test_grid.cpp`, each with its cars in
any order.

**`SimulatedMotor`** has one `mock_motor`. `set_acceleration` is a step for
each of its readings of the clock (`set_acceleration`, `StorePosition`,
`EndCalibrate`, `StoreVelocity`, `SetAccel`), and the clock ticks in between.
`speed`, `integral`, `lost` and `coasting` are histories of what the members
should add up to.

**`LogLevel`** has the stack of `level_setter`s alive and `base_log_level`, over
which every one of them is copied; spdlog's registry is external.

**`Raspi`** has the levels and modes of `struct raspi`. **`Gpio`** has the
registers as sets of bits; what the hardware does with them (`Function`,
`Level`, `Output`, `Drive`, `World`) is external.

**`MC*`** modules hold constants for TLC that a `.cfg` cannot spell and a
symmetry set. `MCHardware` and `MCSupport` put three modules each into one run:
`part` says which of them a behaviour is of, and the variables of the others
stay at one of their initial states. The modules share no state in the code, so
this adds up their state spaces instead of multiplying them; the variables and
specifications of such modules have names of their own (`GpioSpec`, `PiSpec`,
`MotorSpec`, `LoopSpec`, `TimingSpec`). **`*Proofs`** modules hold theorems, one
for each component; `ThreadingProofs` is about both parts of `threading.cpp`,
`Timing` and `LoopThread`.

Operators named `Fault...` are deliberate faults, each a plausible slip in the
definition that follows it (a lock section swapped, a flag not looked at). No
specification uses them. `PROJECT.json` pairs each property with one: with the
fault in place of the definition, TLC finds that property violated.

## 3. The runs

Runs that pass:

| Run | Question | Bounds |
|---|---|---|
| `Oscilloscope` | Are requests conserved, windows full, wake-ups kept? May callbacks ask for windows, does the sampler outlive the flusher? Do windows come back, does a pending one release the destructor? Do threads and lists implement `WindowService`? | two requests of no or two samples: one in each of two lists, or both together, at every step; the theorems hold for any number |
| `OscilloscopeTrace` | Are windows contiguous, edges seen? | two requests of one or two samples, up to three samples: two edges and a window of two after either |
| `Motor` | Sleep, pin, position, changes, wake-up, rest, join | two clients, an interval above the threshold, one below and a negative one, `curr` up to twice the threshold |
| `Support`, loop threads | Is every thread accounted for, do joins end? | three threads: a start after a detach and one after a join |
| `Support`, timed calls | Is a call ever too short, does it sleep for what is left? | seconds of four ticks, periods below and above one, four seconds |
| `Support`, registry | Does `get` answer as asked, is the service implemented? | two interfaces, three implementations, two instances of each: an instance before and after a replace |
| `Hardware`, emulated Pi | Devices, clashes, values | a pin that a motor and a button share, and pin 0, which a button has and a motor and a sensor of unknown tracks get; two devices |
| `Hardware`, registers | Do pins of one register disturb each other, do outputs read back? | pins 8, 9 (end of a function register) and 41 (pin 9's bit in the other level register) |
| `Planning` | Do plans hold what they promise, and what of earlier rounds is in them? | two tracks across, two down; one human; every order of three automatic cars; up to three readings of each motor: waiting at a crossing, too fast to wait, passing it, with nothing ahead, exactly at the end of the track, jumping back; any number of rounds |
| `Hardware`, simulated motor | What do velocity and position lose to the clock and to the calls? | seconds of four ticks, two and a quarter of them, three changes |

Runs with a violation, each a disagreement between the code and what the
repository says of it, with the quotation under "findings":

| Run | What happens |
|---|---|
| `MotorDestructor` | An idling motor is never joined. |
| `LogLevel` | Leaving a scope sets the level of the scope entered last, not the one before. |
| `OscilloscopeCallbacks` | The sampler waits for `filled_lock` until all callbacks have returned: `flush` keeps the lock to its end, although the comment before its loop says that it is done with it. |
| `PinModes` | An output that is set to be an input stays an output: `pin_mode` clears the bits it then sets, and no others. |
| `TimedExec` | `timed_exec` overwrites its start with the elapsed time and returns the clock less that, not a duration. |
| `LoopDelay` | A round whose body runs over the end of a second sleeps too long, by that second. |

The passing runs do not exclude such behaviours; their properties are the
strongest that hold with them, and their conditions show where the code is
weaker than one might wish:

- `FillingLeadsToCallback` is for windows of at least one sample. One shorter
  than a sampling period is for 0 samples, has 1 after the first push, and
  never comes back.
- `PendingWindowReleasesDestructor` is for destructors that find a window under
  way. Otherwise the flusher may sleep through `halt` as an idling motor does;
  `RunningMotorIsJoined` is likewise for a motor that is not asleep or just
  woken.
- `WindowsAreContiguous` counts edges between samples. A change that precedes a
  request but follows the last sample triggers it.
- `StoppedMotorRests` allows pulses after a stop: the loop condition and the
  delay are read apart. What stops a motor may be `set_acceleration` itself,
  which zeroes `curr` before it takes `next - curr`.
- `ChangesAddUp` is for calls that do not overlap.
- `DisposedIsQuiet` leaves out detached threads, and disposal after `detach`
  without a new `start` ends the process (`ended_by_dispose`).
- `NeverTooShort` is for calls whose `usleep` does not fail,
  `SleepsForWhatIsLeft` for bodies that stay within a second (`LoopDelay` shows
  the others).
- `OthersKeepTheirFunction` says which functions a call of `pin_mode` changes;
  what its own pin becomes is in `PinModes`.
- `LocksAreReleased` says that callbacks can call `fill_window` without a
  deadlock, although they run with `filled_lock` held: the sampler never waits
  for that lock with `requests_lock` in its hands. How long it waits is up to the
  callbacks (`OscilloscopeCallbacks`), and `FillingLeadsToCallback` needs them to
  return.
- `SamplerOutlivesFlusher` rests on the order in which `pi_emulator.h` declares
  the two threads: the flusher, whose wait only the sampler ends, is destroyed
  and joined first.
- `ArrivesWhenPlanned` is for velocities that a car can have and for ways on
  which it does not stop. For others the final velocity is the root of a
  negative number, and the window is that of a car at `MAX_VEL`. The velocity
  at the second intersection and those after it is the sum of the present one and
  one that is computed with the position in the place of the velocity; where it
  is one that a car can have, the later crossings are checked as the first is.
- `KeepsClear` is for a car that can wait: `calculate_acc` did not clamp the
  deceleration, the car would not have to turn back, and the track of the car
  is not wider than the other, as `collision` takes `across_wd_` for both.
- `NaNHasASource` allows windows that are no numbers. Behind a crossing with the
  human, whose window never ends, a car's later windows are NaN, and those reach
  the cars that cross its track. It also allows a car that stalled as a source;
  in the run no plan stalls, so there all of them come from the human, while on
  other grids the velocities that `set_min_windows` adds up can make one stall.
- `SettledPlansRepeat` holds because windows are kept from round to round: the
  orders of the cars that `test_grid.cpp` tries one after the other make a
  difference in the first round only, while nobody moves.
- `CoastingIsIntegrated` ends with the second, and is for a motor without
  acceleration: `position` multiplies the present velocity by all the time since
  the last calibration.
- `VelocityIsIntegrated` counts in `lost` what the end of a second takes away.

Bounds, all constants named in the modules: `MaxData` (samples kept of a window
that never completes; larger than any that does, which an assumption states),
`MaxSamples` (samples in an `OscilloscopeTrace` behaviour), the motor's
`MaxClock` (`curr` saturates beyond the threshold) and `Turns` (positions are
counted modulo this), `MaxClock` of `Timing` and `SimulatedMotor`, `MaxCalls`
(changes of a simulated motor), `MaxInstances`, `MaxScopes`. `Planning` has no
bound but its `Moves`; `Tolerance` is what fixed-point rounding does to a time
or a place, 1/100 of the unit. Deadlock is checked except where a bound or the
end of a single call is the only reason to stop (`OscilloscopeTrace`,
`TimedExec`, `LoopDelay`). In the other runs the end of the program is a step of
its own (`Terminated`, `Finished`, `Aborted`), and so is the bound of a timed
call and of a simulated motor (`TimingStopped`, `MotorStopped`).

Symmetry over requests is used in `OscilloscopeTrace`, which checks invariants
only.

Fairness. Weak fairness of each thread: the operating system schedules it, its
sleeps end, its callbacks and work return. Each waits for a lock only while
another fair thread holds it; a thread that holds one lock over several steps
takes no other meanwhile, but for callbacks that call `fill_window`, and the
sampler has let go of `requests_lock` when it waits for `filled_lock`
(`LocksAreReleased`, of which there is a theorem). In `Support` only the loop
threads have fairness. Weak fairness suffices for the sampler although
`requests_lock` is contended, because client calls hold it for one step and are
finite in number; for both sides of `filled_lock`, because the flusher that
holds it proceeds. `Joined`, `Joiner` and `Returns` are the return of
`std::thread::join`. Clients, writes, destruction and spurious wake-ups have no
fairness.

## 4. What is proved

TLAPS proves, for all values of the constants that satisfy the named
assumptions (`OscilloscopeAssumption`, `MotorAssumption`, `LoopThreadAssumption`,
`ObjectsAssumption`, `PiEmulatorAssumption`, `TimingAssumption`,
`SimulatedMotorAssumption`, `KinematicsAssumption`, `PlanningAssumption`,
`GpioAssumption`, which TLC also evaluates):

- `OscilloscopeProofs`: `TypeCorrect`; `WakeupsAreNotLost`, inductive together
  with types, as notifications come only from the step that filled the queue;
  `NobodyKeepsALock` and `FlusherExitsFirst`, from `ThreadInv`: it says at which
  places of its round each thread holds each lock (`LocksInv`), and that a thread
  has exited only after its `halt` was set, in the order in which the destructor
  joins (`ExitInv`). With `WakeupsAreNotLost` they cover every place at which a
  thread waits, that is, the safety half of what liveness needs;
  `NoRequestLostOrDuplicated`; `WindowsLeaveFull`. The conservation proof looks
  at the seven lists as one function `Lists` and shows that each action is one
  of three changes of it: a new request at the end of one list, one list moved
  to the end of another, one element moved. Each is a lemma over any two lists
  (`AskConserves`, `SpliceConserves`, `TransferConserves`), so a step only
  names its lists. `WindowsLeaveFull` rests on conservation: a window that has
  left is not in `requested_windows`, so `PushSample` cannot touch it.
  `OscilloscopeImplementsService`: the abstract queue of full windows is
  `to_flush`, `filled_windows` and `newly_filled_windows` one behind the other
  (`Ready`), so moving a list on is a stutter; the armed requests are the sets
  of the two trigger lists (`ArmedFor`); and `Bounded` (no request is for as
  many samples as `MaxData` cuts off) makes a push of the code a push of the
  service. The trace properties, `EdgesAreSeen` and `WindowsHoldTheSignal`,
  follow from `TraceInv`, which says of each window how much of the history it
  has: all of it from its start (`UpToDate`), all but the sample just taken
  (`Behind`, from `cursor` on while `sample()` fills windows), or all it was to
  have (`Complete`, once it left the sampler). It needs `Watched`: the last
  sample of the history is `last_sample`, and a sampler that fills windows
  holds `requests_lock`, which keeps new requests out of the list it walks.
- `MotorProofs`: types, `NoStartIsSleptThrough`, `PinIsLowAtRest`,
  `NoChangeIsLost`. That a waiting thread implies a stopped motor survives
  `Accelerate` because the notification is in the same critical section, and
  the other actions because no step of the thread itself occurs while it
  sleeps. `NoChangeIsLost` needs `ChangesKnown`: without overlap, what a client
  is about to set is the present acceleration plus its change.
  `PositionIsThePulses` is `PositionFollowsPulses` by way of `InStep`: position
  and pulses agree but between the end of a pulse and the update of the
  kinematics.
- `ThreadingProofs`, about loop threads: `NoThreadIsForgotten` and
  `NoThreadOutlivesItsObject` need the strengthening `OwnerHasObject` (the owner
  acts only on a live object).
- `ObjectsProofs`: types, `OnlyRegisteredHolds`, `AnswersAreAsAsked`, and
  `RegistryImplementsSingletons`: the initial states map to those of
  `Singletons` and each step to one of its steps or a stutter, given the three
  invariants.
- `PiEmulatorProofs`: types, `OneDevicePerPin`, `FailuresAreClashes`,
  `DevicesSeeTheirPin`. A failure is a clash because of `ModeOfADriver` (a pin's
  mode is that of some driver of the pin); a device sees its own pin only
  because of `OnePinPerDevice`, and from the start because of
  `FreshDevicesShowNothing`.
- `ThreadingProofs`, about timed calls: types, `NeverTooShort` and
  `SleepsForWhatIsLeft` (`SleepsEndWithThePeriod`), for any length of
  a second. The arithmetic is one lemma, `Difference`: two readings of the clock
  differ by the true difference less the whole seconds between them. So
  `ExcessIsWraps` is inductive: a sleep is too long by exactly those seconds,
  none if the body stays within one.
- `SimulatedMotorProofs`: types, `VelocityIsIntegrated`, `CoastingIsIntegrated`,
  `CallsMoveNothing`. `TickOfVelocity` says what a tick does to the velocity,
  within a second and at its end; `InCall` says how far a call has come that was
  made at the present moment.
- `GpioProofs`: types, `OthersKeepTheirFunction` (`OthersKeepTheirs`),
  `ReadsWhatWasWritten` (`ReadsBack`), for all pins of a Pi and any functions
  they have at the start. Fields of ten pins and bits of 32 do
  not overlap (`FieldsAreDisjoint`, `LevelsAreDistinct`), so a call moves one
  pin (`PinModeAddsToOneField`, `DriveMovesOnePin`). `OutputsStayOutputs` is
  the general form of what `PinModes` shows: whatever is called, an output is
  never an input again.
- `PlanningProofs`, for any grid, any number of cars and any precision:
  `TypeCorrect`, that is, whatever the windows hold and the motors report, all
  that is planned is a number, infinite or NaN, and the acceleration for a
  crossing is within the limits or NaN; an infinite one comes only from
  `final_acc`, whose denominator the code does not test for 0. It needs that
  somebody plans while `pc` is in `set_min_windows` (`SomeonePlans`) and that
  `Root` has a value (`RootIsARoot`, from `LeastNumber`, since induction is out
  of reach). `SettledRoundsRepeat` is `SettledPlansRepeat`: while nobody moves
  and once all windows are set, what a car plans is a function `PlanOf` of
  motors and windows. `SettledInv` says that the human's windows are as
  `HumanWindow` would set them again, but for the first such round
  (`HumansSet`); that every car has its plan or is yet to make it (`PlansMade`);
  that the locals of `set_min_windows` lead to it (`PlanUnderWay`); that the
  previous result was made of the same plans (`PreviousPlans`).
  `NaNSpreadsDownstream` is `NaNHasASource`. What is inductive is `NaNInv`, with
  `NumbersInv`: a car that plans still has an integer time and velocity, or has
  met a source before everything that is ahead of it. It is kept by
  `CrossingNumbers`: a crossing planned from numbers, that finds numbers and an
  end, and does not stall, has numbers for its window and leaves numbers behind;
  this in turn rests on `TimeOfNumbers`, which says when `calculate_time` of
  numbers is a number, `OptimalType`, which says when `optimal_acc` is one, and
  `NearestIsThere`. Sources are never lost, as windows that are set are kept
  (`SourcesStay`). `SensiblePlansHaveTimes`: a crossing that
  `ArrivesWhenPlanned` and `KeepsClear` speak of has two numbers for its window,
  so neither holds for want of a time to compare.

Proved, and in no run of their own: `PinLowAtRest`, `OneDevicePerPin`,
`OnlyRegistered`, `OutputsStayOutputs`, `PlannedTimes`, and the types of
`LoopThread`, `SimulatedMotor`, `Objects` and `PiEmulator`.

Only model-checked:

- liveness (`FillingLeadsToCallback`, `PendingWindowReleasesDestructor`,
  `WokenMotorPulses`, `StoppedMotorRests`, `RunningMotorIsJoined`, `JoinEnds`,
  `HaltStopsAllThreads`): fairness and `ENABLED` are outside the prover;
- `ArrivesWhenPlanned` and `KeepsClear`: they compare roots and quotients in
  fixed point with true ones up to `Tolerance`, which is right for the numbers
  of the run and for no precision in general.

## 5. What is left out

Names and log messages; contents of callbacks; floating-point rounding
(intervals are any of a set, times and places of plans are within `Tolerance`; a
window's sample count is the exact quotient, which is what the code computes:
`size * sr` is a product of integers, and `1e-6` as a double is so close to the
millionth that the product with a multiple of a million, being rounded, is the
integer, and with any other number stays on its side of it, for counts below
2^33); movement of a car within one round of a loop of the planner; that
`base_log_level` is a `static` of a header, of which each translation unit has
its own; the trie of test names, which only the test runner uses, on one thread;
`usleep` of odd values; concurrent calls of the registry and of `mock_raspi`,
which have no locks and whose maps then promise nothing; the constructor of
`motor_impl` locking a mutex that is not yet constructed; stack growth by the
mutual recursion of `idle` and `pwm`; deletion of registry instances through
`object*`; `pio_init`.

## 6. Plan

Done: all modules of section 2 with the proofs of section 4. Next, most
important first:

1. `Bench`: a motor whose thread writes through `PiEmulator` to an
   oscilloscope, the composition the hardware tests rely on.
2. An abstract `Reservations` specification of planning, without kinematics,
   that `Planning` implements where `CanWait` holds.
3. `TestTrie`: insert and find against the set of inserted names.
4. Proofs: an error bound of `Root` and the quotients as a function of the
   precision, from which `ArrivesWhenPlanned` follows; `KeepsClear` for exact
   arithmetic, as a lemma about `optimal_acc` with times and places as an
   ordered set; the reservations of item 2.
