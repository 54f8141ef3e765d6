# Specifications of arm-core

TLA+ models of the software of a 7-DoF robotic arm, model-checked with TLC and in part proved with
TLAPS: the controllers and drivers of the firmware (`firmware/`), the hardware-in-the-loop scripts
(`hil/scripts/`) and the bus protection circuit with its analysis (`sim/`). Paths below are relative
to the repository. `PROJECT.json` maps every definition to the lines it stands for, lists the runs,
a mutation of the code for each property, the hazards and the theorems.

    tlc -workers 2 -config ArmSafetyRules.cfg MCArmController     # a run
    tlapm ArmControllerProofs.tla                                 # a proof

## 1. The system

| Part | State | Operations | What makes it correct |
|---|---|---|---|
| **Arm controller** `arm_controller.cpp` | the joints, e-stop, watchdog flag, time of the last tick | `tick`, `ingest_can_frame`, `estop`, `release_estop`, `clear_joint_fault` | a stop silences the arm, and only a release while no joint has a fault lifts it; a tick is late exactly after 5 ms, across the wrap of the clock |
| **Joint controller** `joint_controller.cpp` | last feedback, mode, two PIDs in use (`pid_tor_` is only constructed and reset), the command sent | `ingest_feedback`, `tick`, `clear_fault` | torque within both limits, none outwards at a soft limit, none on a fault, loops that start from reset |
| **PID** `pid.hpp` | integral, previous error, filtered derivative, previous output, gains | `update`, `reset`, `set_gains` | clamps, anti-windup, a filter that does not amplify |
| **CAN driver** `can_driver.cpp` | the peripheral's three mailboxes and its FIFO | `start`, `transmit`, `receive` | the frames the bus has the time for arrive, the newer after the older |
| **Encoder driver** `as5047p.cpp` | the last error; in the chip, a pipeline of one command | `read_angle`, `read_raw`, `read_errors`, `read_diag` | an accepted angle is the angle; the error is this call's |
| **HIL runner** `hil_runner.py` | row, clock, frames, last seen, reason of the abort, the log | the replay loop, the checks, the idle loop | no row after a breach, an idle arm at the end, a log of what passed |
| **Simulated joints** `_DryRunBus` in it | position and velocity of each | `send`, `recv` | they follow the rows and stay within them |
| **Trajectory generator** `gen_trajectory.py` | the file | sine, step, ramp, zeros | the rows the shapes promise, in a file its readers agree on |
| **Trajectory plots** `plot_trajectory.py` | none | a figure of a file, or of a file and a log (not modelled) | shows what was commanded, of a file it can read |
| **CAN protocol of the host** `can_protocol.py` | none | encode a command, decode a feedback | agrees with the firmware's frames |
| **Overcurrent protection** `overcurrent_protection.cir`, `overcurrent_analysis.py`, `spice_parser.py` | load, capacitor, gate, switch | the transient; trip time, waveforms, `load_wrdata`, `find_trip_time` | no false trip, a trip in time, a bus no lower than predicted, a sound report of a simulation cut short |
| SPI and I2C drivers, `main.cpp`, schematics, tests | | | see section 9 |

**How the parts interact.** The comments of `arm_controller.hpp:18-22` give the contexts: feedback frames
come in by the CAN interrupt, `tick()` runs from a 1 kHz timer or a task, the operator's calls come from the
main loop. Which of the two interrupts outranks the other they do not say. `tick()` runs every joint, which
hands one command frame to the CAN driver and does not look at the result. There are no locks. `main.cpp`
does not put the parts together yet: its loop drains the receive FIFO and drops the frames, and the control
loop is a placeholder. So the models compose the arm controller with its joints, and the joints with the
transmit path, the way the headers say and the tests do it. The HIL runner is another master of the same
bus: it sends the same command frames from a host, checks what the joints answer and idles them at the end.
On the bench the trajectory generator, the simulated joints, the frames, the runner's safety check and the
plot make a closed system of their own, in which the scripts meet in two files: the trajectory, which two of
them read each in its way, and the log. The protection circuit is independent of all of it.

**What is hard.** Calls from three contexts over the same fields, without locks (half-decoded
feedback, a release that races a fault or a late tick); an unsigned clock that wraps; faults, stops
and releases in any order; state that outlives a mode; seven frames for three mailboxes; an encoder
that answers one transfer late; time, feedback, breaches, Ctrl-C and exceptions in any order in the
runner; a log that may end in the middle of a row; files with columns missing or lines cut off; a
circuit that switches off the current it measures. `PROJECT.json`, `hazards`, has each of
them at its line with the properties that cover it.

## 2. The modules

| Module | Models | Extends / uses |
|---|---|---|
| `ArmSafety` | abstract: stop, fault, movement, and what may follow what | |
| `JointOps` | a joint by what the safety rules tell apart: faulted, mode, side of the soft limits, PIDs in use, sign of the torque | |
| `ArmController` | the arm controller, one step a call, with the clock | `JointOps`; implements `ArmSafety` |
| `ArmIsr` | the same calls cut where an interrupt or the timer may come in between | `JointOps` |
| `JointContract` | abstract: a single joint of `JointOps` under all its calls | `JointOps` |
| `FixedPoint` | clamp, quotient, rounding, a step of a first-order lag | |
| `Pid` | the arithmetic of `Pid::update` and `reset` | `FixedPoint` |
| `PidLoop` | one PID under updates, resets and changes of gains | `Pid` |
| `Wire` | the numbers of the frames, bytes, scale and rounding, at both ends of the bus | `FixedPoint` |
| `JointController` | the numeric joint controller, with two `Pid`s and the frames | `Pid`, `Wire`; implements `JointContract` |
| `CommandTx` | the command frames of a tick, the mailboxes and the bus | |
| `As5047p` | the encoder driver, one step an SPI transfer, and the chip | |
| `HilRunner` | `run()` on hardware | |
| `Trajectory` | the four shapes, the command line and the file of them | `FixedPoint` |
| `DryRun` | `run()` with `--dry-run`: rows, simulated joints, frames, check | `Trajectory`, `Wire` |
| `Plot` | what `plot_trajectory.py` without `--log` ends in and draws | `Trajectory` |
| `Bench` | the scripts one after the other: file, dry run with its log, figure | `DryRun`, `Plot` |
| `Overcurrent` | the protection circuit in steps, with its analysis and the report of it beside it | `FixedPoint` |
| `MC*` | small instances for TLC | |
| `*Proofs` | the theorems | |

**Code and model.** A method is an action with the method's name; a variable has the member's name
and a comment with it. `history:` marks variables the code does not have and no guard reads; they
remember something for a property. Operators named `...` with `\* Mutant` before them are faulty
variants of the definition after them; no specification uses them.

* *Arm.* `Tick` is `Measure` (the elapsed time and the watchdog) followed by the stopped or the
  running branch, each over all joints. The setpoint and the sign of a running loop's torque are any
  of a set, so whatever the PIDs compute is included; `JointController` shows that what they really
  compute is allowed (`ImplementsContract`). `ingest_can_frame` with an id of no joint does nothing.
* *Interrupts.* In `ArmIsr` a piece of a call reads or writes a joint's fields once: the soft limits
  read the position twice (`TickLower`, `TickUpper`), and the torque goes out later (`TickSend`). Without
  `TimerFirst` the CAN interrupt may come between any two pieces of a tick and runs to its end; with it
  the tick may come between any two of the interrupt. Both come between any two pieces of the main
  loop's calls. Lateness is a choice there, and the PIDs' state is left out.
* *Mailboxes.* A tick starts sending whatever is still pending, as in the code. What the bus can do in
  between is a parameter: `Window` frames, or more, from one loop's end to the next tick.
* *Numbers.* Floats are integers in the unit of the CAN frame, or in a unit of the module, with
  quotients rounded towards 0. Rounding of floating point is not modelled.
* *Wire.* An int16 is two bytes, low one first, and `Byte` the number of values of one: 256 in
  `DryRun`, 4 in the runs of `JointController`, so that its frames overflow. Numbers are fixed-point,
  with some steps to the unit of the frame. The firmware truncates (`FirmwareI16`); its cast of a
  float that does not fit is undefined in C++, and here a choice of any int16. The host rounds to the
  nearest, of two to the even one, and clamps (`HostI16`).
* *Frames.* A frame is its joint and what the properties need of it. In `As5047p` a word is the set
  of its bits, so parity, flags and masks are done as the driver does them.
* *Uninitialized reply.* A failed SPI transfer leaves the reply unwritten: `read_errors` and
  `read_diag` then return any word.
* *Dry run.* `Send` moves joints in the code's order, and Ctrl-C may come between two joints of a
  row, or of the idle loop, which nothing guards. `PackageMissing` is a host without python-can.
* *Bench.* A file is whether it exists, which joints have a column, and its rows; the column of times is
  left out, since rows are one interval apart. Whether a cell of another column has text is kept: the runner
  reads the joints' columns and the times only, the plot makes a number of every cell. A frame's line is
  written once it has passed, so a breach or Ctrl-C cuts the log within a row; `CheckAndLog` and
  `InterruptAndLog` are the actions of `DryRun` with it, and `BenchSpec` implements its `Spec`. The plot
  keeps nothing, so it is a function of what it is given, looked at in every state. Time is exact in the
  models; where a sum or a quotient of floats may fall short, `RowCounts` and `StepRows` have both outcomes.
* *Report.* The simulation may be stopped in any state of the circuit. `Report` is what the analysis
  prints of the file up to there with `last` numbers left of its last line, for every `last`.
* *Circuit.* One step is 38.1 ns. The capacitor lies behind the sense resistor, so the state of the
  bus is the current that would flow through the closed switch. Circuit and analysis have constants of
  their own. The netlist's comparator has no delay, and its gate the time constant of `Rcomp` and
  `Rpullup`, 346.5 ns (`GateTau`, 9 steps); the analysis lets the gate hold for 150 ns (`PredictDelay`, 4)
  after the load's step and fall with `R_GATE` besides, 381 ns (`PredictTau`, 10), to a voltage of its
  own (`PredictLow`).

## 3. The runs

| Run | Bounds | States | Question |
|---|---|---|---|
| `arm_safety_rules` | 2 joints, clock of 4, late after 1 | 161,280 | do the safety rules hold in every order of calls? |
| `arm_isr_races` | 2 joints about the upper limit | 7,755,189 | and if frames preempt the tick, and both the main loop? |
| `arm_isr_timer_first` | the same | 129,647 | and if the tick preempts the frames? |
| `arm_isr_limits` | 1 joint on any side | 103,480 | is a soft limit honoured if frames come in between? |
| `pid_windup` | 3 gains, errors -3..3, intervals 0..2 | 1,909 | does the PID keep its limits? |
| `joint_control` | 1 joint, limits of -1..1, int16 of -8..7, 2 steps a unit | 82,490 | and the joint its limits, with real loops? |
| `command_tx_left_over` | 7 joints, 3 mailboxes, 3 ticks, 2 frames in between | 163,788 | who is served, and in what order? |
| `hil_replay` | 2 joints, 3 rows, a check every 2 | 1,535,957 | is the arm idle after whatever happens? |
| `encoder_read` | 4 angles, 3 diagnostics, 16-bit words | 12,254 | is an accepted angle right? |
| `dry_run` | 2 joints, up to 5 rows, all shapes and columns | 22,745 | what do the dry run, its log and the plot show of a trajectory? |
| `overcurrent_trip` | 4 loads, 2 changes at any time, a bus of 10,000 | 1,337,018 | does the protection trip, and what is made of it? |
| `arm_fault_latched`, `joint_motor_torque`, `command_tx_every_joint` | | | section 6 |

**What they show.**

* `arm_safety_rules`: no joint is driven from a refused tick to the next accepted one
  (`QuietWhenStopped`); an idle joint has reset PIDs (`IdleIsReset`); the watchdog's flag comes with
  the e-stop (`WatchdogImpliesEstop`); a tick is late exactly when it is, for less than a whole wrap
  (`WatchdogExact`); the controller refines `ArmSafety` (`ImplementsArmSafety`), in which, among others, a
  stop is lifted only while no joint reports a fault, a fault no tick has seen included; and a stop and
  a fault lead to zero torque as long as the timer ticks (`EstopQuiets`, `FaultSilences`).
* `arm_isr_races`: what is left of that if frames preempt the tick, and both the main loop. A late tick is
  refused (`LateIsRefused`), a fault older than the tick is honoured (`FaultHonoured`), a release misses
  only faults that came while it looked (`ReleaseSeesOldFaults`). A joint that has been past a soft limit
  since before the tick is not driven further out, however many frames come between the two reads of its
  position and before the torque goes out (`PushesInward`). The first needs what `MainMay` says, that the
  main loop does not preempt the tick, and the last what `TickMay` does, that the tick does not preempt
  the frames: the mutants drop these guards. Which of the two interrupts outranks the other the source
  does not say; with a timer that does (`TimerFirst`), a limit may be judged by a half-decoded position,
  and the other three hold: that is proved. `PushesInward` says nothing of a joint that passes the limit
  between the test and `transmit`: that one gets the torque of before, once.
* `pid_windup`: `WithinClamp`, also right after `set_gains`; `NoWindup`, that after any saturation the
  integral leaves the clamp by all the errors since the last change of sign; `FilterDoesNotAmplify`.
* `joint_control`: `TorqueCeiling`, and that the numeric controller is what `ArmController` takes it for
  (`ImplementsContract`).
* `command_tx_left_over`: the bus has the time for two frames, so of the three that are accepted one may
  be left over and hold a mailbox when the next tick starts. The first two joints find a mailbox all the
  same (`FirstJointsServed`), get no older command after a newer one (`NoStaleCommand`), and what is
  accepted of them arrives (`AcceptedIsReceived`). Of the other joints none of this is
  certain, and nothing is said of them.
* `hil_replay`: after a breach has been received no joint is sent another row, whatever else came with it
  (`NoRowAfterBreach`); a run that ends has idled every joint (`IdleOnDone`); a silent joint is noticed by
  the next check (`SilenceNoticed`); a breach idles the arm unless the program crashes (`BreachIdlesArm`).
* `encoder_read`: an accepted angle is the register's, bit for bit, whatever call was before and
  whichever bit of a reply turned over (`AngleIsSound`); the error is exactly that of this `read_raw`
  (`ReadRawErrorExact`).
* `dry_run`: joints stay within what their rows have spanned (`WithinSetpoints`); they do not overtake
  a ramp or a step (`NoOvershoot`); a trajectory within the fence, and half of what the time constant
  makes of the velocity limit, is never aborted (`NoFalseAlarm`); no row is sent while a joint is out
  of the fence, also with positions and velocities that do not fit the frame (`FenceHolds`): of a row at
  327.68 rad both would wrap to 0 if they were not clamped, which is the mutant. The log has every joint of
  every row in its turn and nothing that did not pass, complete up to the row that is next, and after a
  breach the first joint it lacks is one that breached (`LogIsWhatPassed`). The runner and the plot,
  which read the file each in its way, agree on it: of a file that is replayed the plot ends by an
  exception exactly if another column has text, and otherwise a curve is what was commanded, and a
  joint without a curve is commanded 0 (`FigureShowsCommands`).
* `overcurrent_trip`: no false trip (`NoFalseTrip`); a sensed overcurrent lasts no longer than the fall
  of a full gate, also when the circuit chatters (`TripInTime`); the analysis's bus is a lower bound of
  the circuit's, but for what the switch and the sense resistor drop (`BusAbovePrediction`), although
  after a step from 14 A the switch opens before the analysis has it: that lead is worth less than the
  drop of the largest load. Whenever the simulation stops and wherever its file is cut, a trip is reported
  only of a fault with the gate below the threshold since, and of a whole file if the switch has opened
  (`ReportIsSound`); and the switch, having no latch, always closes again (`ClosesAgain`).

**Why the bounds are enough.** Two joints show one joint's effect on another; no code treats a third
differently, except the mailboxes, where the run has all seven and three. A clock of 4 with a limit
of 1 has ticks in time and late, before, at and after the wrap, and a whole wrap. Three rows with a
check every second row have a checked row, an unchecked one and a last one. Errors up to 3 against
clamps of 3 to 6 saturate, leave and re-enter. An int16 of -8..7 is
exceeded by a velocity limit of `ManySetpoints`, and its odd numbers are cut by the scale of 2. Where
preemption is the question, joints are between their limits or past the upper one; the lower one is the
same with its sign, and only the proof has both. A window of two for three
mailboxes is the smallest difference between the two, and may leave a frame over in every tick. In the dry
run the rows lie further apart than the time constant, so that the lag takes more than half of the
way; amplitudes are gentle, too fast, beyond the fence and beyond the frame, where position and velocity
would both wrap to 0. Files have no row to five, a step before, at and after the end, any columns, and
text in another one or not; a path may have no file. The circuit has the netlist's values but for the
bus, 10,000 units instead of 505,200: its bottom then comes within some ten openings, and the prediction
is checked up to there. A second change of the load may come while the switch is closed, opening, open or
closing. Named bounds: `WRAP`, `MaxTicks`, `MaxTime` (where the clock stops), `MaxQueue`, `MaxChanges`,
`MaxOver` (where a history stops counting), `BusVoltage`, `Sides` and `Torques` (in `ArmIsr`).

## 4. Fairness

* `ArmController`: weak fairness of `Tick`. A hardware timer calls it at 1 kHz, whatever else runs.
  None for feedback or for the operator's calls.
* `CommandTx`: weak fairness of the bus, of the timer, and of the loop over the joints. No bus-off. `WindowOver`
  is an assumption on the bus and not a guard of the code: `can_bus_map.md:87-119` has all feedback and
  commands fit a tick with little to spare, or not at all.
* `HilRunner`: weak fairness of the interpreter's next step (not of exceptions or Ctrl-C) and of time.
* `Overcurrent`: weak fairness of the step of time. Loads need not change.

Deadlock is checked everywhere. Programs that end have a stuttering action for it.

## 5. What is proved

For every value of the constants within the named assumptions (`...Assumption` in the modules, which
TLC evaluates too).

* `ArmControllerProofs`: `TypeCorrect`, `QuietTheorem`, `IdleResetTheorem`, `WatchdogTheorem`,
  `WatchdogExactTheorem`, `ImplementsArmSafetyTheorem` (the refinement), for any
  number of joints, width of the clock and limit below it. The invariant is
  `TypeOK /\ ClockInv /\ QuietWhenStopped /\ IdleIsReset /\ WatchdogImpliesEstop`: `ClockInv` ties the
  clock to `lastTickUs` and the history, without which `WatchdogExact` says nothing of the unsigned
  difference; the refinement needs `QuietWhenStopped`, because a stopped tick maps to a halt. The
  lemmas say what one call leaves in the record of one joint, so each action takes a line per conjunct.
* `PidProofs`: `WithinClampTheorem`, `NoWindupTheorem`, `FilterTheorem`, for all gains with clamps
  around 0, all errors up to a bound and all intervals. `NoWindup` is inductive with its history
  `push`, the sum of the steps since the last change of sign, saturated at the clamp's width; the
  lemma `WindlessStep` is the arithmetic of it. The filter's bound needs that of the error it stores.
* `ArmIsrProofs`: `LateIsRefusedTheorem`, `FaultHonouredTheorem`, `PushesInwardTheorem` and
  `ReleaseSeesOldFaultsTheorem`, for any number of joints and every way the interrupt and the timer can
  cut into the calls, whichever outranks the other; only `PushesInwardTheorem` assumes `~TimerFirst`. The
  invariant has a part for what each context may rely on where it is: `Calibrated` (only the joint being
  unpacked has a position that is not calibrated, and the frame still knows the right one), `LateTick` and
  `FaultyTick` (the joints up to the one the tick is at are at rest if the tick is late, or if they had a
  fault before it), `LimitTick` (the same of the torque inwards, with the one that is about to go out) and
  `Scanned` (what a release has passed had no old fault). None of the properties is inductive without
  them: they speak of the end of a call, the invariant of every point in it.
* `BusProofs`, what goes over the buses, in three parts:
  * the runner: `NoRowAfterBreachTheorem`, `IdleOnDoneTheorem`, `SilenceNoticedTheorem`, for any
    trajectory, check interval and timeout. `BreachSeen` says where in the loop a breach that was received
    is still to be looked at, `Checked` and `Heard` what the last timeout check was of and found,
    `IdleLoop` how far the idle loop has come; `DueAgain` is the arithmetic of "every 100 rows".
  * the firmware's commands: `FirstJointsServedTheorem` and `NoStaleCommandTheorem`, for any numbers of
    joints and mailboxes and any window between two ticks. `Room` counts: the mailboxes free when the
    loop is at a joint and the joints it has passed make up the window, so the first ones find one.
    `InOrder` says of the joints the window is enough for that at most one frame of each is pending, and
    only once the loop has passed it: since the lowest ids go first, between two ticks the ids still
    pending are no lower than the number of frames sent. `Fresh` says that what is pending of the joints in
    time is of this tick, so that whichever mailbox goes first it is not older than what was received.
  * the encoder: `AngleIsSoundTheorem` and `ReadRawErrorExactTheorem`, for any contents of the registers.
    `ParityOfBits` shows that the driver's four shifts find the parity of every 16-bit word, so a
    reply passes the check if and only if its bits are even (`ParityOkIsEven`) and every single turned
    bit is found (`ReplyIsSound`), and the chip takes each command for what it was meant
    (`CommandIsTaken`). The invariant adds `RawSoFar`: between the two transfers the error is that of
    the first and the angle is in the pipeline.

  The three have no constant or variable in common, so each theorem rests on the assumption of its own
  part only; the prefixes of `TxSpec` and `EncoderSpec` keep them apart.
* `BenchProofs`: `WithinSetpointsTheorem`, `NoFalseAlarmTheorem`, `FenceTheorem`, `NoOvershootTheorem` of
  the dry run, for every trajectory, interval, time constant and pair of limits an int16 can hold. The
  invariant adds `StaysGentle` (a gentle trajectory keeps positions and distances within the limits, with
  half a distance to each side) and `Behind` (a joint of a one-way trajectory is not beyond its row).
  `RoundedBounds` and `RoundedReports` carry the limits through the frame's rounding and back. Then
  `BenchImplementsDryRun`, by which these theorems hold of the scripts one after the other;
  `LogIsWhatPassedTheorem` and `FigureShowsCommandsTheorem`, for every file with numbers in the joints'
  columns (`BenchAssumption`), whatever its other columns have, and any limits. `LogInv` gives a line its
  place in the log, which `LinesAreGood` carries over a whole row; the figure needs only what the runner has
  read and that there is a row.
* `OvercurrentProofs`: `NoFalseTripTheorem`, `ReportIsSoundTheorem` and `TripInTimeTheorem`, for every load
  profile, threshold and time constant. The invariant adds `Calm` (until the first fault load and current
  are at most the trip current, since a lag does not overshoot) and `FoundInTime` (the switch does not open
  without a sample below the analysis's threshold, and such a sample is of a fault). `TripInTimeTheorem` has
  an invariant of its own on top, `TripInv`: while the comparator trips the gate is no higher than the fall
  of a full one (`Fallen`; `LagsKeepOrder` says that of two lags with one target the one behind stays
  behind), and a gate below VOff has the switch open. The fall is a recursive function; that it is what its
  recursion says (`FallUnfolds`) and made of numbers (`FallType`) is induction over its argument, which
  `Numbers` draws from the library's theorem that a set of naturals has a least member.
* `JointControllerProofs`: `TypeCorrect`, `TorqueCeilingTheorem`, `LoopsResetTheorem`
  and `ImplementsContractTheorem`, for any gains, limits, calibration,
  scale and set of frames. The invariant is `TypeOK /\ TorqueCeiling /\ LoopsResetTogether`; the
  refinement needs its last part, because the contract lets a joint that was just reset ask for
  nothing while no time elapses. `SentWithinLimits` follows a torque through both clamps, the soft
  limit, the truncation and the bytes. So what `ArmControllerProofs` says of joints, it says of these.
* `NumberProofs`: the facts about clamps, quotients, lags, rounding and bytes the others rest on;
  `FrameKeepsNumber`, that what one end packs the other reads, for every int16; and
  `MastersAgree`, that of the same number the two masters' encodings are at most a step apart and the
  firmware's never further from 0 than the number, without which `TorqueCeiling` would not hold. The
  assumption on `Byte` comes with it into `PidProofs` and `OvercurrentProofs`, where nothing uses it.

Every safety property a passing run checks is a theorem but one: `BusAbovePrediction` depends on the values
of the circuit. Where the switch opens before the analysis has it, the bound holds only because the lead is
short beside the drop of the largest load, and a largest load close to the trip current would break it; so
it is checked for the netlist's values. Only model-checked besides: liveness (`EstopQuiets`,
`FaultSilences`, `AcceptedIsReceived`, `BreachIdlesArm`, `ClosesAgain`), with the `ENABLED` of its fairness,
which the prover does not handle.

## 6. Findings

Runs that end in a violation, each of a sentence of the repository.

* `arm_fault_latched`: `joint_state.hpp:42` calls FAULT a "latched fault — must be cleared before
  re-enabling". `unpack_feedback` overwrites the fault byte (`joint_controller.cpp:59`), so one fault-free
  frame and a tick re-enable the joint without `clear_fault()`, and with the PIDs it had.
* `joint_motor_torque`: `direction_inverted` turns the feedback (`joint_controller.cpp:64-68`) and not the
  command, so at a soft limit "force positive (away from limit)" (`:121`) drives the motor further out.
* `command_tx_every_joint`: `can_bus_map.md:31` has a command "sent every 1 ms (1 kHz) for every joint".
  Seven frames meet three mailboxes, `transmit` returns false and nobody looks.

## 7. Other differences between documents and code

Read while modelling; the models follow the code, and no run is about them.

* `arm_controller.hpp:16` reads as if a missing tick made the joints idle; the watchdog is looked at
  by the tick it waits for (`arm_controller.cpp:54`), so while none comes the last torque stays.
* A stall of a whole wrap (71 minutes) and at most 5 ms more is not late (`arm_controller.cpp:50`).
* `arm_controller.hpp:15`: the e-stop is a flag (`arm_controller.cpp:78`); the joints hear of it at the
  next tick.
* `joint_state.hpp:64` has a velocity limit for the joint; only POSITION mode applies it, and VELOCITY
  mode follows what it is asked (`joint_controller.cpp:97-99`). `JointConfig::vel_max` is never read.
* `test_joint_controller.cpp:284` says the torque "must be negative (pushing back)" beyond a limit; the code
  mirrors an outward torque (`joint_controller.cpp:119-123`), so where the loops ask for none, as at a
  setpoint beyond the limit, nothing pushes back. The test allows 0.
* `can_bus_map.md:137` has COMM_TIMEOUT after 5 ticks without feedback; nothing raises it.
* `hal.hpp:29` calls `transmit` blocking; it returns at once. `hal.hpp:35` has a bus healthy while it is
  error-active or error-passive; `is_healthy` wants no error bit at all (`can_driver.cpp:79`).
* `as5047p.hpp:67`: `has_error` is to be true if the last transaction flagged an error. `read_errors`
  overwrites the error of its own failed transfer with bits of an uninitialized reply
  (`as5047p.cpp:108`), and `read_diag` reports its flags to its caller only.
* `hil_runner.py:282` idles all joints on exit; only `KeyboardInterrupt` is caught (`:279`), so an
  exception of the bus, or a Ctrl-C in the idle loop, ends the program before or in the middle of it.
* `hil_runner.py:48` has the limits checked every tick; timeouts are checked every 100 rows (`:265`), and a
  joint that never answered is never late (`:165`).
* `hil_runner.py:276` waits "for next tick deadline", and `:4` has the trajectory replayed "at the correct
  rate". The deadline is that of the row just sent (`:214, 277`), over at once for the first, so every
  row but the first goes out an interval early, the first two back to back. A stall is made up for in a burst.
* `hil_runner.py:78` says the simulated joints move at 1 rad/s; they follow a lag of 0.2 s, and the velocity
  they report is the distance to go over 0.2 s, so any step of more than 1.6 rad is a breach.
* `gen_trajectory.py:103` gives the ramp's velocity as target / duration; it reaches the target with the last
  row, one interval early. A ramp of one row stays at 0.
* `overcurrent_protection.cir:7` and `overcurrent_analysis.py:266` have the switch off after the trip; the
  comparator measures the current of that switch, so it closes again, on and on (`ClosesAgain`).
* `overcurrent_protection.cir:8` has "Expected trip time: ~531ns (comparator 150ns + gate RC 381ns)", and
  `overcurrent_analysis.py:104` counts it from the load's step. The capacitor behind the sense resistor
  holds the sensed current back: after the step from a settled 10 A to 25 A it takes some 0.4 µs to pass
  15 A, and the gate some 0.39 µs more, without the delay and `R_GATE`, which the netlist does not have.
  From just below the trip current the circuit is the faster one: after a step from 14 A to 25 A the gate is
  below the threshold some 50 ns before the analysis has it.
* `hil_runner.py:30` has python-can imported "only when not in dry-run mode" and a missing one fail fast; the
  import is always tried, its failure noted, and the dry run makes its frames of `can.Message`
  (`:225`), so without the package it ends by a NameError at the first command (`PackageMissing`).
* `plot_trajectory.py:9` has "Trajectory + actual HIL log overlaid (shows tracking error)". It looks for
  columns `time_s` and `j*pos*` (`:49-53`); the runner writes `timestamp_s`, `joint_id` and one row a joint
  (`can_protocol.py:124`). So of a runner's log it always ends by an exception: a KeyError, or of a log
  without lines a TypeError.
* A trajectory without rows is an IndexError in the plot (`plot_trajectory.py:37`), and one with text in a
  column the runner does not read a ValueError (`:34`).
* The plot of the simulation looks for signals
  `v(sense_hi)` and `v(48v_out)`, which `spice_parser.py` does not name.

## 8. Plan

Done, in this order: the arm controller with its joints and safety rules, its interrupts, the PID, the
numeric joint and the contract between the two, the transmit path, the encoder, the runner, the
trajectories with the dry run, the protection circuit, the wire, the files, log and figure of the
bench, the parser and the report of the simulation; proofs of their safety properties.
Left, in order of weight:

1. The receive path: the FIFO of three frames, the super-loop of `main.cpp` or the interrupt that drains it,
   the schedule of `can_bus_map.md`; how old the feedback a tick works on can be.
2. Proofs: that a run of `ArmIsr` in which nothing is preempted is one of `ArmController`; the composition
   of the transmit path with the arm controller.
3. `start`, `receive` and `is_healthy` with bus-off and recovery, if the code comes to use them.

## 9. Not modelled

* SPI and I2C drivers: one call of the vendor's library each and no state. A failing transfer is in
  `As5047p`.
* `main.cpp`: there is no behaviour yet beyond dropping frames (plan, item 1).
* `overcurrent_analysis.py` beyond the trip time, the two waveforms and the report: the sweep over resistor
  values, the printed summary and the drawing of figures, closed formulas without state.
* `gen_schematics.py`: writes one fixed drawing from constants; no input, no state and nothing that
  interacts. The overlay of a log in `plot_trajectory.py` and its RMS errors, which no log of
  the runner gets to.
* Floating-point rounding (but for the number of rows and the row of the step), the exact timing of the
  busy wait, printing, and files with text in the columns the runner reads, on which it ends at once.
* `pid_tor_`, `JointConfig::vel_max`, temperature and measured torque in the firmware: stored, never read.
