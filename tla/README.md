# foc_motor: a TLA+ model of the motor controller

The firmware under `src/` drives a three-phase motor from one STM32G4 core
running Zephyr. A timer triggers the ADC, a DMA interrupt runs the control step
20 000 times a second, and everything else — measuring the motor, measuring its
cogging torque, reporting, supervising, dying safely — happens around that
interrupt, with atomics instead of locks. The modules here model that: the
power stage and everyone who may switch it off, the sequencers the control step
runs, what the control step carries from one period to the next, every buffer
that changes hands between the interrupt and the thread, and the thread itself
from reset to its end.

1. [Inventory](#inventory) — 2. [Modules](#modules) — 3. [Runs](#runs) —
4. [Fairness](#fairness) — 5. [Proofs](#proofs) — 6. [Findings](#findings) —
7. [Not modelled](#not-modelled) — 8. [Plan](#plan)

## Inventory

### Who runs

| Context | Preempted by | What it does |
|---|---|---|
| report thread, priority 7 (`main.c:334-417`) | everything below | checks the pins, polls and prints results, gives buffers back |
| log thread, priority 6 | the interrupts | keeps the report thread waiting for many periods |
| 10 ms timer interrupt (`main.c:96-99`) | the FOC interrupt | `pwm_adc_supervise()` |
| FOC interrupt, zero latency (`pwm_adc.c:227-347`) | nothing but a hardware exception | ADC samples, `foc_ctrl_step()`, duties, power transitions, fault latch |
| fatal handler (`main.c:72-78`) | the FOC interrupt until PRIMASK is set, if it was entered by SVC | `pwm_adc_fatal_off()`, halt |
| debugger | — | writes the volatile block `foc_ctrl_cmd` at any moment |

The core is single, so the FOC interrupt is atomic for everyone else: one step
of a model. The thread and the timer interrupt are modelled access by access.

### Components

| Component | State | Operations | What makes it correct |
|---|---|---|---|
| power_guard | three streak counters, the request | one step per period | arms only after complete streaks; trips on a complete bad streak; no nuisance trips |
| pwm_adc, power stage | pins, `powered`, fault mask, CCR preload, TIM1 | `dma_isr`, `power_on/off`, `fault_latch`, `pwm_adc_stop`, `pwm_adc_supervise`, `pwm_adc_fatal_off`, `pwm_adc_outputs_safe` | drivers see only zero or bounded vectors; every shutdown happens and is final; no arming on wrong pins |
| pwm_adc, statistics | a window of period statistics, `seq`, `reset_req` | written by the interrupt, `pwm_adc_stats_take` | copies in one piece, no period counted twice |
| pwm_adc, set-up | callbacks, timer, ADC, DMA, interrupt enable | `pwm_adc_init` | no interrupt before what it uses; a failure leaves everything off |
| foc_ctrl, control step | mode, offset calibration, identified parameters | `foc_ctrl_step`, `mode_enter`, `mode_allowed` | no forbidden mode while powered |
| foc_ctrl, commanded motion | open-loop phase and carry, ramp, integrals, gains, rpm | parts of `foc_ctrl_step` and `mode_enter` | exact phase; nothing from an unpowered period acts on the motor |
| foc_ctrl, snapshot | `snap`, `snap_seq` | written by the control step, `foc_ctrl_snapshot` | of one control step |
| foc_ctrl, captures | one buffer, `cap_state`, `step_seen` | the captures of three modes, get, release | a capture shows the step its header names; requests are deferred, not lost |
| motor_ident | a sequencer of 6 parks, R, L and rotation phases | start, step, abort | complete results, no angle jump under excitation, always ends in time |
| ident hand-over | `ident_result`, `ident_ready`, `ident_published`, the calibration | publish, get, release | each result once and in order; calibration of the last run only |
| cog_map | a sequencer and the raw sums | start, step, abort, release | sums clean, bounded, and stable while the thread has them |
| cogging table | `ff_valid`, `ff_table` | copy, publish, invalidate | never stale, torn or lost |
| cog_proc | none (stack) | raw sums to table | numeric |
| foc_speed | bucket, ring, published sums | `foc_ctrl_speed_reset`, `foc_ctrl_speed_step` | the sum is the distance moved; a lasting excess is decided |
| encoder | a hardware counter | `encoder_init`, reads | a failed set-up starts nothing |
| analog, sincos, lib/foc | hardware or nothing | reads, conversions, float mathematics | numeric |
| foc_bench | none | timing at boot | — |
| main | supervisor timer, cadences | `main`, report loop, crash hook | sets up in order, takes and gives back every buffer, ends with the stage off |

### How they interact

* `dma_isr` calls `foc_ctrl_step`, which runs the guard, one mode, and at most
  one sequencer, and returns duties, the wanted power state and a trip mask.
* A latched fault and `pwm_adc_stop()` end those calls for good and run the
  callback `foc_ctrl_fault()`, which aborts a running map.
* Results travel to the thread through three buffers with the same protocol
  (interrupt fills, flag set, thread prints, flag cleared); the table travels
  back through `ff_valid`.
* Statistics and snapshot are copied by the thread under a sequence lock.
* The speed estimator sees the encoder in the current modes and in MAP and
  feeds the overspeed trip, the speed loop and the report; its window starts
  again at each entry of such a mode.

### What is hard

The orders nobody tests: an interrupt between two writes of a shutdown; a duty
preloaded before the drivers come on; an identification started between the
thread's check and its publication; a buffer requested while it is printed; a
set-up step that fails halfway; an integral that ran while the stage was off; a
fault that ends the control step in the middle of a sequence; timeouts above a
dozen other timeouts. `PROJECT.json` lists every one under `hazards`, at its
line, with the properties that watch it.

## Modules

State and operations keep the names of the code. Each definition's source lines
are in `PROJECT.json` under `map`.

| Module | Models | Remarks |
|---|---|---|
| `PowerGuard` | `power_guard.c` | operators over the four variables; currents and VBUS are classes of the windows they are compared with |
| `GuardContract` | — | the guard alone, with a ghost window of its last inputs, against the contract of `power_guard.h` |
| `FocControl` | the control step as the stage sees it | EXTENDS `PowerGuard`; a vector is zero, capped or free; sequencers are coarse phases |
| `PowerStage` | `pwm_adc.c` around it | EXTENDS `FocControl`; interrupt, CCR preload, latch, thread, timer, fatal handler |
| `PinCheck` | `pwm_adc_outputs_safe()` | register by register, the interrupt between any two reads; one step of `PowerStage` |
| `StatsWindow` | `pwm_adc_stats_take()` and the window it copies | copy word by word |
| `ReportLoop` | `main.c` from reset to its end, `pwm_adc_init()`, `foc_ctrl_snapshot()` | EXTENDS `PinCheck` and `StatsWindow`: the places of the thread, each error return, the crash hook |
| `OpenLoop` | `openloop_angle()` | the code's own numbers; truncating division |
| `Speed` | `foc_speed.c` | operators on a record |
| `Motion` | what the control step keeps between periods | EXTENDS `FocControl`, `OpenLoop` and `Speed`; a controller is the set of power flags of the periods in its state |
| `MCMotion` | — | the rotors TLC gives to `Motion` |
| `MotorIdent` | `motor_ident.c` | every phase, counter, timeout; sums are counts of samples |
| `IdentExchange` | results of `motor_ident` in `foc_ctrl.c` | a run is its number and its verdict |
| `CogMap` | `cog_map.c` | every phase and counter; of the bins one is followed, the others may be full at any time; the servo's current is any value in its range |
| `MapExchange` | the raw buffer and the table | the thread's processing, check, copy and compare-and-swap as separate steps |
| `CaptureExchange` | the step captures | a sample is the command it answers |
| `Handoff` | abstract | what a buffer promises the thread |
| `FeedForward` | abstract | what the table promises the current loop |

`PowerStage` composes guard, control step and BSP. `Motion` composes the same
guard and control step with the open-loop phase and the speed estimator, whose
decision becomes the control step's overspeed input. `ReportLoop` composes the
pin check, the statistics and the snapshot: all three are read by one thread,
and one interrupt moves what all three read.

The three exchanges are refinements: `CaptureExchange`, `IdentExchange` and
`MapExchange` each implement `Handoff` (a result is offered whole, taken,
unchanged while held, and taken back by the thread alone), and `MapExchange`
implements `FeedForward`. The sequencers' own modules stand for the coarse
phases the others use: `MotorIdent` behind "running, done, failed" of
`FocControl` and `IdentExchange`, `CogMap` behind "gain, sweep" of `FocControl`
and "ACTIVE" of `MapExchange`.

Some correspondences that are not one to one:

* In `PowerStage`, `CounterTop` is the timer: it activates the preloaded duties
  and triggers the ADC; the interrupt follows before, at or after the next top.
* The CPU enters the fatal handler either by a hardware exception, which blocks
  the FOC interrupt, or by an SVC oops, which does not until `FatalOff`.
* `isrs` counts interrupts since the last tick; the code subtracts two values of
  a wrapping 32-bit counter, which is the same for fewer than 2^32 of them.
* In `MotorIdent` the current is any member of a class per step, so every
  servo, hold, discard and average counter is exercised by every history of
  currents. In `CogMap` the rotor is any count per step.
* The ghost `quiet_n` of `MotorIdent` counts the samples of a decay that were
  near zero current under zero voltage, in a row and up to the latest one. It is
  not the code's `reached_n`, which the band check has to keep equal to it.
* The counter of a bin in `CogMap` wraps like the `uint16_t` it is, so a check
  for its limit that comes too late lets the sum outgrow it (`SumsBounded`).
* `CogMap` counts its gain voltage in ramp steps of 50 µV and moves the target
  by the fraction `Rate / Den` counts per period, as the code does.
* In `ReportLoop` the stage as the thread sees it is switched by `ControlStep`
  and `FaultLatch`, which leave out why: `PowerStage` has the reasons. The
  supervisor's stop is one step there, and step by step in `PowerStage`.
  `StopMask` and `StopOff` are `pwm_adc_stop()` called by the thread.
* A word of the snapshot in `ReportLoop` is the number of the control step that
  wrote it; a word of the statistics in `StatsWindow` is the stretch of periods
  accumulated in it.
* The history `passed` of `ReportLoop` holds the two checks of the set-up that were
  passed, with the timer and with the ADC armed: reading the pins is a call without
  an effect of its own, and what may follow only after it has to be stated.
* In `Motion` a ramp, an integral or a speed loop is the set of power flags of
  the periods whose updates it still contains, and a reset empties it. Whether an
  unpowered history reaches the motor is then a question about sets, not floats.
* A rotor in `Motion` is a set of moves, one of which it makes from each sample to
  the next while a mode estimates. The first sample of such a mode finds it
  elsewhere (`Entries`): before that nobody looked. Which sets there are is a
  constant, and `RotorAssumption` leaves out only what the encoder and the buckets cannot tell
  apart from a slower rotor. A bucket is an `int16_t`, and what is stored in it is
  cut to that width (`InBucket`).
* `Written` in `CaptureExchange` lets the debugger write between the two reads
  of `step_seq` of one control step; elsewhere commands are chosen per step.

## Runs

`tlc -config X.cfg M` with the pairs below. Constants are scaled down; what
matters is that each limit can be reached, missed by one and passed.

| Run | Module, configuration | Shows |
|---|---|---|
| `guard_contract` | `GuardContract`, `.cfg` | over the samples given, not the counters: trips, arms and falls exactly as the header says |
| `stage_isr` | `PowerStage`, `StageIsr.cfg` | the interrupt with six commands, every data fault, overruns and gaps |
| `stage_shutdown` | `PowerStage`, `StageShutdown.cfg` | stop, supervisor, fatal handler, silent ADC and broken pins against the interrupt, with liveness |
| `map_exchange` | `MapExchange`, `.cfg` | table and buffer safety, publication, both refinements |
| `capture_exchange` | `CaptureExchange`, `.cfg` | what a capture shows; order, deferral, refinement |
| `motor_ident` | `MotorIdent`, `.cfg` | timeouts, completeness, unexcited switching, latched verdict |
| `ident_exchange` | `IdentExchange`, `.cfg` | publication, calibration, refinement |
| `cog_map` | `CogMap`, `.cfg` | timeout budget, sums, clearing, unexcited steps |
| `report_loop` | `ReportLoop`, `.cfg` | from reset to the end: set-up order with its two pin checks and error returns, pin verdicts, statistics and snapshot against the interrupt, the supervisor and corrupted registers |
| `motion` | `MCMotion`, `.cfg` | the open-loop phase, the estimator and its trip, and every reset on the way to power |
| `stage_ident_fault` | `PowerStage`, `StageIdentFault.cfg` | ends in a counterexample; see [Findings](#findings) |
| `stats_silent` | `StatsWindow`, `StatsSilent.cfg` | ends in a counterexample; see [Findings](#findings) |

A type invariant that is proved is not checked by a run as well, and
`LatchedMeansOff`, `PoweredMeansArmed`, `NeverArmsOnBrokenPins`, `RawIsStable`
and the refinement of `Handoff` by `IdentExchange` are likewise proved and not
repeated by a run.

### Bounds, and why they are enough

* **Guard.** Streaks of 3, 2 and 2 with a window of 3: long enough for a streak
  to be complete, one short, and broken in the middle. `MaxBad` bounds how long
  a powered stage stays outside; the guard has tripped long before.
* **Power stage.** `StageIsr` has two-step arming, tripping and idling, two
  overruns to a fault and a gap of three tops; commands are one of each class
  the arbitration tells apart (idle, never powered, current loop, the two
  sequencers, unknown; STEP, DC and OPENLOOP go the way of the voltage rule that
  MAP's gain check takes). `StageShutdown` shortens the streaks to 1 and adds the
  actors. One tick needs one interrupt instead of 150: what matters is whether
  the count falls short. The two configurations split the external events
  because their product adds states and no interaction: data faults live inside
  the interrupt, shutdown actors outside it.
* **IdlePeriods ≥ 2** is an assumption of `PowerStage` (20 in the code). With 1
  the first idle step could arm in the period in which an uncapped vector still
  is active; `ArmsWithZeroVector` and `OnlyBoundedVectorDrives` fail.
* **MapExchange.** Two bins show a torn table, two periods a run that is
  complete, running or aborted; three maps and three identifications let each
  supersede the other in every state of the thread. Sequences beyond that repeat.
* **CaptureExchange.** Five samples with the step at the second and off at the
  fourth; three references; three requests, so that one runs, one is deferred and
  one overtakes it.
* **MotorIdent.** Each counter has room for below, at and above its limit.
  `RunTimeoutN = 67` is exactly the sum of the phases' longest durations plus
  one, the tightest value the assumption admits; with 66 the assumption fails,
  and so does the property. With the constants of the code the sum is 613 990
  periods, against a timeout of 620 000.
* **IdentExchange.** Five identifications; the thread prints one while others end.
* **CogMap.** Four encoder counts in two bins, one turn of travel, so that the
  rotor wraps, slips, reverses and dwells in a bin until its counter is full.
  `TimeoutN = 26` is exactly the budget of a run at voltage 1 and one that
  voltage 2 exceeds, so `TimesOutOverBudget` is checked from both sides.
* **ReportLoop.** Structures of two words can be torn; five interrupts give two
  complete windows and a retry of either copy; three attempts as in the code, two
  overwritten registers, so that one may hide another, and one idle step to
  re-arm, so that a disarm and a re-arm fit between two reads. Every other round
  reports.
* **Motion.** A turn of four counts, two periods per bucket and two buckets per
  ring: the encoder and the ring both wrap, a bucket can be filled before and
  after a publication, and the limit of two counts is reached, missed and passed
  in both directions. One rotor moves a count forward or half a turn backwards,
  1 and -2 being the ends of what a turn of four counts can tell apart, and the
  other stands still; a mode finds it where it was or one count on. `BucketMax =
  3` is the narrowest bucket they fit, filled to its lower end by the first;
  with 2 `RotorAssumption` fails. The open loop has the code's own constants:
  two rates, one inside and one beyond the clamp, with either sign, from angles
  before and behind the end of the turn, for four periods. A history commands
  one of two families of modes, so that the phase and the estimator, which no
  mode uses together, do not multiply each other's states. Supply and load stay
  inside their windows: what they do to the stage is `PowerStage`'s subject.
* **StatsSilent.** One word and two interrupts are the whole counterexample.

`CHECK_DEADLOCK FALSE` stands where the model really may stop: after a halt
with the counter off (`StageShutdown`), after a trip or the end of the thread
(`Motion`, `ReportLoop`), and where the bound on starts, requests or interrupts
is used up.

## Fairness

* `StageShutdown`: weak fairness of the counter and the interrupt (hardware);
  of the timer interrupt (highest kernel priority); strong fairness of the
  report thread, which gets the CPU between two ticks again and again but not
  continuously; weak fairness of the fatal handler, whose preceding diagnostics
  are unbounded but finite. `SilenceSwitchesOff` needs the timer, which is why
  `Silence` stops the ADC and not the timer. A hardware exception or an oops may
  happen first; then `FatalOff` does it.
* `MapExchange`, `IdentExchange`, `CaptureExchange`: the thread gets the CPU
  again and again (it sleeps 100 ms per round and the interrupt takes less than
  half the time). In `IdentExchange` and `CaptureExchange` the interrupt also
  keeps coming while it is not stopped; `GoodMapPublished` does not need it. What
  the debugger commands is never assumed fair: deferral is checked for as long
  as the mode stays.
* `ReportLoop` and `Motion` state safety only and assume no fairness: the thread
  may be as slow as the log thread makes it.
* Nothing assumes that a sequencer succeeds, a motor moves or a fault stays out.

## Proofs

`tlapm M.tla` checks each. The theorems hold for every value of the constants
that satisfies the named assumptions of the modules, not only for the runs'.
Every safety invariant and every action property that a run checks is a theorem.

| Module | Theorems |
|---|---|
| `PowerStageProofs` | of the guard alone `TripsOnBadStreak`, `ArmsAfterStreaks`, `FallsOnlyForCause`; of the stage types, `OnlyBoundedVectorDrives`, `LatchedMeansOff`, `PoweredMeansArmed`, `PoweredModePermitted`, `MapNeverOutlivesPower`, `ArmsWithZeroVector`, `ShutdownIsFinal`, `NeverArmsOnBrokenPins` |
| `MapExchangeProofs` | types, `ValidTableIsCurrent`, `FeedForwardIsValid`, `RawIsStable`, refinements of `FeedForward` and `Handoff` |
| `CaptureExchangeProofs` | types, `CaptureIsOneStep`, `RequestsInOrder`, refinement of `Handoff` |
| `MotorIdentProofs` | types, `NeverRunTimeout`, `DoneIsComplete`, `AngleSwitchesUnexcited`, `TerminalIsLatched` |
| `IdentExchangeProofs` | types, `CalibIsOfLastRun`, `PublishedOnceInOrder`, refinement of `Handoff` |
| `CogMapProofs` | types, `TimesOutOverBudget`, `SumsBounded`, `SweepStartsClean`, `AngleStepsUnexcited`, that a map is done only with every angle recorded |
| `ReportLoopProofs` | of the whole loop types, `CopyIsConsistent`, `WindowsDisjoint`, `VerdictIsRight`, `SnapshotIsOneStep`, `StartsReadyEndsOff` |
| `MotionProofs` | `OpenLoopExact`, `FreshPowerUp`, `SpeedIsDisplacement`, `OverspeedIsCaught` |

### Assumptions worth a word

Each module names what it assumes of its constants; most is that a count is
positive. These say more, and a proof fails without each:

* `IdlePeriods >= 2` (`PowerStage`; 20 in the code): see [Bounds](#bounds-and-why-they-are-enough).
* `RunTimeoutN >= LongestRun` (`MotorIdent`, `BudgetAssumption`): the longest identification fits
  into its timeout; 613 990 periods against 620 000.
* `ZeroN > 0` (`CogMap`; 400 in the code): without a wait at zero voltage the
  angle of the gain check would step in the period that takes the last ramp
  step of voltage away, and `AngleStepsUnexcited` fails.
* `RotorAssumption` (`Motion`): from one sample to the next a rotor moves at most
  half a turn backwards and less than half a turn forwards, or the wrapped
  difference of two readings would be of another move, and no bucket of its moves
  exceeds `int16_t`. With the code's constants (4096 counts, 20 periods of 50 µs,
  32 767) the second is the stricter: 1638 counts a period, 480 000 revolutions
  per minute. The overspeed limit of 205 counts in 200 periods is about one count
  a period.

### The arguments

**Guard.** The counters say something about the past: `Counted` relates each to
the ghost window (`vbus_ok_n` latest samples were in the arm window, and so on).
The contract follows from `Counted` and the thresholds.

**Power stage.** That the drivers only see bounded vectors is not inductive: the
duty in the timer is up to two periods old, and may have been computed without
a cap. `StageInv` adds `Pipeline` (between a counter top and its interrupt the
active duty is the preloaded one, and a counted idle step preloaded the zero
vector), and `RequestPowersOrEnds` (a request not followed by power means no
control step will run again: the only way is a failed pin check, which
latches). Arming needs two idle steps in a row, so both registers hold the zero
vector by then. That a shutdown is final needs the order of `pwm_adc_stop()`:
`StopsMasked` says the interrupt is masked whenever a stop is about to switch
off, or the masked interrupt could have been pending and armed again.

**Map exchange.** `ff_valid` becomes 0 only at a map start, which needs the raw
buffer, which the thread owns (`Owned`). So a thread that saw 0 sees 0 or 2
until it publishes, and its compare-and-swap fails exactly when an identification
came in between (`Copying`, `Fresh`). The refinement maps the abstract table to
the concrete one when `ff_valid = 1`, and to none otherwise; copying is a stutter.
The hand-over maps to `Handoff` with the raw buffer and its verdict as the item:
`Owned` says that an offered buffer has ended, so no step of the interrupt
touches it.

**Identification.** `Budget` bounds the periods run so far by where the run is: parks
completed times the longest park and decay, points times the longest point, and
the counters of the current target. It needs `Timers` (what the servo's counters
can be in each phase), `Counts` (samples taken, which also gives
`DoneIsComplete`) and `Visited` (parks done). `LongestRun` stays below the run
timeout by `IdentAssumption`, so the timeout never strikes. Unexcited switching
needs two more inductive facts: during a decay the voltage is zero and the angle
is that of the park it follows (`Angle`), and `reached_n`, which a sample outside
the band resets, is the number of quiet samples without a gap (`Dwelled`).

**Captures.** The control step writes a sample from what it has just computed, so
the fact that carries over is about the future: `Filling` says, for each of the
three kinds, what the *next* sample will show given the periods so far (the
zero vector, the old or the new reference, the target), and that the samples
already taken show the step of the header. `Ordered` says that the request in
the header has been seen, and that only commanded requests are seen, so a newer
header is of a newer request. `Owned` says that
the thread dumps a finished capture; order and the refinement follow.

**Cogging map.** A sweep has no timer. It ends because the target advances by
`Rate / Den` counts a period and the rotor may not be further from it than the
slip limit. `Tracks` keeps that limit for now *and* for the moment the sweep
began: the distance travelled is then at least the target's less twice the
limit, and the sweep ends before `SweepMax` periods. With `Timers` (what ramp,
dwell and point can be in each phase) every phase has a bound, and `Budget` says
how many periods a run can have had where it is. A timeout therefore means that
the longest map at its voltage exceeds the timeout (`TimesOutOverBudget`).
`Cleared` carries the empty bins from the clearing to the first sweep;
`Recorded` says which angles have their gain.

**Identification hand-over.** `Newer` says a result not yet published is of a
later run than the one in the buffer, `Owned` that the thread prints something
real and its own. Order, calibration and the refinement follow.

**Report thread.** Every step of the loop is a step of `StatsWindow` or leaves
its variables alone (`LoopTakesWindows`), so what holds of `StatsWindow` alone
holds of the loop. There: while `seq` has not moved since the reader noted it,
every word copied so far is the window's (`Locked`), so an accepted copy is of
one window; a window starts after every period the reader has already reported
(`Fresh`). The snapshot is the same argument on `snap_seq` (`SnapLocked`), with
one more fact: the number of the control step never exceeds the number of
interrupts, so a rewritten snapshot always has a later number.

Likewise every step of the loop moves the pins as `PinCheck` says or not at all
(`LoopMovesPins`). `CheckInv` follows one attempt, in two parts. Nothing
overwritten and no transition: every read so far was right (`Whole`), so a broken
verdict needs a corrupted register, two transitions or one in the last attempt.
The pins never right during the attempt and nothing overwritten since it began:
either transition would have set them right unless a fixed pin is wrong, so all
reads are of one broken state and one of them shows it (`Broken`).

`BootInv` says what each place of the thread owes to the places before it
(callbacks before the DMA, interrupt enabled before the counter, everything off
until then), and that the interrupt is masked when `pwm_adc_stop()` switches off.
`PassedInv` does the same for the two checks: behind each of them `passed` holds
it, on every path that does not end there.

**Motion.** The carry is what truncating division leaves over, with the sign of
the dividend and less than the divisor, so phase and carry together always are
the start plus the sum of the rates. That no unpowered history is used at power
holds because each of the powered modes has been entered with the stage as it
is, or resets at the change: `FreshInv` says for every mode, not only the powered
ones, what its ramp, loop and integrals may contain.

For the estimator, the ghost `moved[k]` is the distance of the last `k` periods.
`EstimatorInv` says that the bucket `Age(k)` places back in the ring holds the
distance of its own `Div` periods, and that the published sum is that of the
`Window` buckets closed last. Between publications the oldest bucket is out of
the ghost's sight, so the sum is stated through it: adding the new bucket and
taking the oldest away gives the distance of the last turn of the ring again,
and no induction over the ring is needed. That the bucket still is the distance
once it is cut to 16 bits needs a bound that grows with it: after `periods` of its
`Div` samples it holds at most their share of `BucketMax` (`BucketFits`), because
each move of the rotor does. A rotor that has been above the limit
since the ring began to turn has been so for at most `index * Div + periods`
periods, and the publication at the end of the turn, which the trip reads,
covers all of them: `OverspeedIsCaught`.

### Only model-checked

Six liveness properties (`FatalSwitchesOff`, `SilenceSwitchesOff`,
`BrokenPinsSwitchOff`, `GoodMapPublished`, `DeferredRequestServed`,
`ResultPublished`) rest on fairness and so on ENABLED, which the prover does
not handle. Induction over data is out of its reach too, such as what the
sums of a whole sweep amount to: `SumsBounded` relates each sum to its own
counter instead. No property says so, and no run checks it.

## Findings

Two runs end in a counterexample; `PROJECT.json` quotes what they contradict.

* `stage_ident_fault` — a fault that bypasses the control step (or latches after
  it) leaves the identification "running" for ever: the callback aborts the map
  only, and no terminal result appears.
* `stats_silent` — only the interrupt resets a window, and then counts itself,
  so after `pwm_adc_stop()` the report's "no ISR in this window" (`main.c:129`)
  is never printed; the last window is, with its rate and its power state.

Smaller divergences met while modelling, which no run repeats:

* A map commanded while the thread owns the raw buffer is dropped at the entry of
  the mode (`foc_ctrl.c:442`) and there is no second entry; `foc_ctrl.h:242` says
  it is deferred. `StepMap` shows it: `MayStart` is never true again in MAP.
* A voltage capture requested in the step in which its mode is entered starts
  with a sample that answers the vector of the mode before, where the header
  promises zero vectors; `CaptureIsOneStep` excepts that sample.
* The comment on the range of the map's sums assumes 0.5 A, the sweep may
  command 1.0 A. The sums still fit, because the 16-bit counters stop the run
  first: `SumsBounded` holds with the larger limit.
* Two power transitions between the reads of the pin check (a disarm and a
  re-arm while the log thread keeps the report thread waiting) leave the flag it
  compares as it was: healthy pins are called broken at the first attempt, and
  the thread stops the drive for good. `VerdictIsRight` counts such a mixture
  among the causes of an alarm.
* The other way round, pins already broken can be called safe once if a second
  register is overwritten between the reads, because no two registers are read
  at the same time. `VerdictIsRight` excepts exactly that; the next round finds
  both.

One more observation: with the code's constants a map fits into its
timeout, however the rotor lags, for gain voltages up to about 0.837 V; up
to 0.9 V is accepted, so at the very top a run that lags all the way can time out.
`TimesOutOverBudget` states the budget as a formula.

And another: the overspeed decision reads a sum published once per turn of
the ring, 10 ms, and every entry of CURRENT, SPEED or MAP starts the ring again.
Commands that alternate between two of these modes faster than that keep the
decision at zero at any speed. No source promises otherwise, so
`OverspeedIsCaught` speaks of a stay in one mode, of at least one turn of the
ring (and of both parts of a map).

## Not modelled

* **Floating-point mathematics** (`lib/foc`, `analog`, `sincos`, `cog_proc`,
  regressions of `motor_ident`, servo laws, the numbers of the PI controllers):
  their results are classes, sets, or arbitrary values in the range the code
  clamps them to. The prover and the model checker have no floats.
* **Register values that only configure**, `duty_to_ccr()`, DMA and ADC geometry:
  written once before the first interrupt. Their order and their failures are in
  `ReportLoop`.
* **Rotor angle**: one modular expression without state.
* **Minima, maxima and sticky words** of the statistics.
* **A refused power-up inside `Motion`**: the stage follows the request or
  trips; that broken pins latch a fault instead is `PowerStage`'s.
* **`encoder_index_get()`, `encoder_period()`**: nothing in the program calls
  them.
* **Telemetry text, cadences**: what is printed, and how long a dump takes.
* **foc_bench**: runs before the interrupts exist.

## Plan

Done: the power stage with its guard and control step, first because a fault in
it destroys hardware; the two sequencers; the three exchanges; the report thread
with its checks and copies; the commanded motion.

Proved: every safety and action property of these modules.

Next, extending the model:

1. A composition of `MotorIdent` with `IdentExchange`, and of `CogMap` with
   `MapExchange`, replacing their coarse phases.
2. Proofs that those sequencers implement the coarse phases: `CogMap` those of
   `MapExchange` and `FocControl`, `MotorIdent` those of `IdentExchange`.
