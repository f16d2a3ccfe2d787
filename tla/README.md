# p2afan in TLA+

p2afan is a host-side fan controller for servers with an ASPEED BMC. It reads
temperatures and tachometers, decides on a fan duty, and writes it into the
BMC's PWM registers over the PCIe-to-AHB bridge (P2A), underneath the BMC's own
firmware, which keeps running; or it feeds the BMC's own temperature sensors, so
that the BMC cools. Three things can go wrong: the loop may decide on too little
cooling, nobody may act on a decision in time, and the takeover of the registers
may not be undone. The project models all three, checks the models with TLC on
small instances, and proves most of their safety properties with TLAPS for every
value of the constants.

## Inventory

| component | code | state | operations |
| --- | --- | --- | --- |
| Zone and curve | `curve.py` | failure count per source, setpoint of the hysteresis | `Curve.__init__`, `Curve.duty_pct`, `Zone.sample` |
| Controller | `control.py:345-605` | fan failure counts, stall strikes, `failsafe`, `cool_ticks`, `current_pct` | `tick`, `run` (hold loop, emergency actuation), `release` |
| Sensor injection | `control.py:332-343`, `ipmi.py` | what the BMC's GPU sensors were fed | `_inject_sensors` |
| Ownership | `control.py:174-329` | `/run/p2afan/baseline.json`: per device the duty each owned channel had before; an old version kept it in `state.json` | `capture_manual_baseline`, `_restore_baseline`, `writable_channels` |
| Emergency and stop | `control.py:612-738` | none of its own | `run_daemon`, `release`, `force_failsafe`, `stop_post` |
| P2A bridge | `ahb.py` | lock file, window register, a copy of it per process | `_acquire`, `ensure_bridge`, `_select`, `close` |
| PWM registers | `pwm.py` | four DUTY words of two channels each, enable bits | `set_fall`, `get_fall`, `enabled` |
| Fan mapping | `cli.py:150-213`, `control.py:389-402` | `mapping.toml`, `base_fall` of `map` | `cmd_map`, `load_mapping`, `_watched_fans` |
| Commands | `cli.py` | none | `set`, `set-raw`, `release`, `failsafe`, `map`, `check-config`, and commands that read |
| Sources | `sources.py`, `ipmi.py` | none | `read` of four kinds, decoding of a raw sensor reading |
| Configuration | `control.py:74-171` | none | validation of `config.toml` |
| Unit | `systemd/p2afan.service` | state of the unit, result of the last run, watchdog | start, stop, watchdog, `ExecStopPost`, restart |
| Status | `control.py:204-233` | `/run/p2afan/state.json` | heartbeat for `p2afan status`, `sd_notify` |

The components meet at four places. The **registers** are shared by the daemon,
the commands, stop-post and the BMC; the lock serialises the first three and
nothing stops the BMC. The **files** in `/run` and `/etc` are shared by the same
processes and outlive each; the baseline also outlives versions of the program,
but not a reset of the host, which the registers do outlive. The **window** of
the bridge is one register that every access goes through. The **unit** connects
the processes in time: whatever way the daemon ends, stop-post runs and decides
from `SERVICE_RESULT` between restoring the baseline and driving failsafe, and
the daemon is started again.

What makes this hard: the processes may be killed between any two register
accesses; the BMC may change a duty or disable a channel at any moment; the
lock may be lost between the daemon and its own stop-post; bus writes are posted
and take effect later; the loop's decision depends on five counters fed by every
reading, and a reading may be an echo of what the loop fed; all of the loop's
memory is lost at a restart while the registers are not. `PROJECT.json` lists the
hazards one by one, each at the line where it bites.

What makes each component correct:

* *Controller*: the duty covers what the curves ask for; any trouble in the
  readings means failsafe and only trouble does; failsafe is left only after
  enough clean ticks; the duty falls slowly and settles.
* *Injection*: no sensor tells the BMC of a calmer machine than the daemon saw.
* *Ownership*: the duty the BMC itself chose is never lost; it is persisted
  before anything overwrites it, is not captured again, and is forgotten only
  after it has been restored; what cannot be read is refused and not replaced.
* *Emergency*: if it returns, it cooled.
* *Bridge*: one process at a time; every access lands in its own window, and the
  window is put back.
* *Registers*: setting a channel leaves its sibling alone; a pass ends with every
  channel at the duty, or says that it was overridden.
* *Curve and configuration*: nondecreasing and within 0 and 100; no oscillation
  around a knee; the failsafe duty covers every curve.
* *Mapping*: probing leaves no duty behind; the daemon watches exactly its fans.
* *Sources*: a reading is real or nothing, and the hottest readable one.
* *Unit*: stop-post always ends; a stop is honoured; the fans hear of the unit
  within a bound; the watchdog kills only what hangs.

## Modules

| module | what it is |
| --- | --- |
| `FanPolicy` | the abstract promise of the daemon about the duty it commands |
| `ControlLoop` | zones, curves' state, `Controller.tick` and `run`, death and restart; implements `FanPolicy` |
| `ControlHeartbeat` | `ControlLoop` with a heartbeat per tick, for the liveness properties |
| `ControlHistory` | `ControlLoop` beside a log of the readings, for properties that must not use the controller's own counters |
| `InjectLoop` | `ControlHistory` with the sensors it feeds and the sources that read them back |
| `Takeover` | registers, baseline, lock, daemon, commands, stop-post, unit, BMC: one register access per step |
| `Ownership` | the abstract promise of `baseline.json` |
| `BaselineStore` | the files behind the takeover, their damage and their rewriting; implements `Ownership` |
| `Emergency` | the unit around those files, with every fallback of `force_failsafe`; implements `BaselineStore` |
| `P2ABridge` | lock, window register, posted writes, sessions |
| `Service` | the unit in discrete time over the bridge; implements `P2ABridge` |
| `PwmChannels` | the abstract promise of `pwm.py`: eight independent channels |
| `PwmDuty` | the DUTY registers, `set_fall` and the pass of `apply_duty`, one bus access per step, beside the BMC; implements `PwmChannels` |
| `TempCurve` | checks, sort, interpolation and hysteresis of one curve |
| `ConfigRules` | the rules of `Config.__init__` around that curve |
| `FanMapping` | `map`, its file and the daemon that reads it |
| `SourceRead` | one reading of each kind of source |
| `*Proofs` | the theorems |
| `MC*` | values of the constants for TLC |

### ControlLoop, ControlHeartbeat, ControlHistory

One `Tick` is one call of `Controller.tick`: `Sample` is `Zone.sample` and
`Curve.duty_pct` for every zone, `ReadFans` the fan health part, and the
decision is one of four disjuncts, `Trip`, `Linger`, `Leave` and `Regulate`, for
the four ways through `control.py:512-535`. `Hold` is one pass of the hold loop.
`TickRaises` is an exception of the tick with the emergency actuation of `run`,
`Die` any other sudden end, `CleanStop` a SIGTERM with its release, `StopPost`
the failsafe actuation that follows a death, `Start` the restart. The readings
are chosen by the environment: each source returns a temperature or nothing,
each tach is missing, low or healthy.

What is abstracted: temperatures and duties are integers where the code has
floats, which it only compares, adds and interpolates; the interpolation is the
constant `RawDuty`, any nondecreasing function (what `TempCurve!CurveIsReference`
shows it to be). All driven channels receive the same value in one loop, so
`duty` is one variable; single channels are `Takeover`'s subject. `fail_counts` of
a source grows without bound in the code and is only compared with the limit, so
it is capped there. `ConfigAssumption` is what `Config.__init__` validates: in
particular that the failsafe duty covers every curve (`ConfigRules!ConfigCovers`).

`ControlHeartbeat` adds `beat`, flipped by every tick where the code sends
`WATCHDOG=1`. On a machine at rest a tick changes nothing else, and weak fairness
of a step that changes nothing is empty: without the heartbeat, `Converges` would
hold of nothing.

`ControlHistory` adds two variables nobody in the code has: `log`, the last `Window`
ticks of the running daemon, emptied with its memory, and `lowRun`, a fan's low
readings counted across restarts. Its properties define trouble and cleanliness
over the readings alone.

### InjectLoop

`sensor` is what each injected sensor reads. `ITick` is a tick followed by
`_inject_sensors`: every sensor is tried and any of them may refuse; the value is
`failsafe_inject_c` in failsafe and else the hottest reading. `IEnd` and `IOther` are
the other steps of `ControlLoop`, two of which feed the failsafe temperature: the
emergency of `run` when a tick raises, and `force_failsafe` when the channels
cannot be reached. The sources in `Echo` read `sensor`, or nothing. `BmcRefresh` puts
the BMC's own value back. Rounding of what is fed is `ConfigRules!Fed`; here a
temperature is a whole number.

### Takeover

Every process (the manual commands, and `Unit`, which is the daemon and later
stop-post) has a place `pc`, a job, the device it works on, the channels left in
its current loop and the value it writes. The table gives the places:

| place | in the code |
| --- | --- |
| `lock` | `Ahb._acquire` polling |
| `open` | lock held, bridge being opened, then the capture |
| `captured`, `ready` | `Controller` built; SIGTERM handler installed |
| `tick`, `hold`, `panic`, `sleep` | `apply_duty` of a tick, of the hold loop, of the emergency in `run`; between passes |
| `write` | the loop of `set` and `set-raw` |
| `drive` | the loop of `force_failsafe` |
| `term`, `restore` | SIGTERM arrived; the loop of `_restore_baseline` |
| `probe`, `probed`, `unmap` | `map`: about to probe, probing, its `finally` clause |

One register write is one step, and `Kill` may come between any two. Every end
of a process goes through `Exit`, which gives the lock back, as `Ahb.close` or
the kernel does. An action whose name ends in `Fails` stands for every exception
that its part of the code may raise. `HostWrite` is `Pwm.set_fall`; all loops
visit the channels in order and stop at a disabled one. The capture is one step,
because under the lock only the BMC can interfere with it.

The baseline is a variable here, a file in `BaselineStore`. Three variables observe
and are read by no action of the code: `orig` is the duty the BMC itself last gave
a channel while nobody owned it (after a restore, whatever it holds then); `taken`
are the owned channels whose live duty was written by the host; `stray` are
channels that were written without ownership, by `map` or by an emergency whose
capture failed. What the BMC writes to an owned channel is not counted as its
choice: the code restores the value of the first capture, by design.

### BaselineStore and Emergency

`BaselineStore` gives the record its shape: `baseline.json` may be missing, corrupt,
of the form without devices (`unscoped`), or a book with an entry per device that
is absent, inactive, active with duties, or of a shape `_active_baseline` refuses;
`state.json` may be missing, unreadable, an old version's with a takeover in it
(`owner`), or today's heartbeat (`plain`). `Readable` and `Known` are the exceptions of
`_baseline_state` and `_active_baseline`. The book is written to `tmp` and renamed by
`Replace`; `PersistFails` is any failure before the rename, after which a daemon or
command ends and an emergency goes on without a record. Sessions of any number
of processes take turns under the lock; `HostReset` empties `/run` and stops every
process while the registers stay. A takeover's duty is told from the BMC's by its
value, so that a channel driven by somebody is seen as such whoever reads it.
`old` and `lost` observe: driven channels that only an unusable file knows of, and
channels driven without a record.

`Emergency` puts the unit around it: the daemon in both modes, every end of it,
`stop_post` after a clean end (`PostNothing`, `PostRelease`) and after an unclean one
(`PostEmergency` in pwm mode and with a configuration of which only the mode can be
read, `PostInjects` where no channel can be trusted), the capture or its refusal
(`Choose`), the loop (`DriveFirst`), and the fallback to the sensors on any exception
(`FallBack`). The configuration may be edited or broken between any two of its reads.
Every step is a step of `BaselineStore`, which is proved.

### P2ABridge and Service

`P2ABridge` has the register at `BAR1+0xf004` as two variables: `window`, what it holds,
and `posted`, a write that is on its way. A read of the register flushes what is
posted. `SelectSame` and `SelectOther` are the two ways through `_select`; `ReadBack` is
its check; `Close` posts the old window and `Unlock` gives the lock away without
reading it back. The BMC may lock the bridge, after which writes are ignored.
`spoiled` says that a session was killed or the bridge locked, so nobody put the
window back.

`Service` adds time to the unit. A tick reads its sources and fans one by one, each
up to its timeout (`ReadOne`), writes the channels and the heartbeat (`Act`) and sleeps
what is left of `tick_seconds`. `Hang` is a read with no timeout. systemd kills a
daemon that is silent (`WatchdogKills`), starts stop-post, which waits for the lock,
drives the channels or injects, and starts the daemon again after `RestartSec`.
`Elapse` is the passing of one unit of time and waits for whoever has something to
do: register accesses take none. A command may hold the lock for as long as it
likes. `exposed` is the time since the fans or sensors last heard of the unit.

### PwmDuty

`Takeover` gives every channel a duty of its own and writes it in one step. In the
hardware two channels share a 32-bit register that is read and written whole, and
`PwmDuty` models that: `CheckEnabled`, `ReadWord` and `WriteWord` are the three
accesses of `Pwm.set_fall`, `Verify` the readback of `apply_duty`, `Abort` a kill or
an access that raises. The two halves of a register are kept as a pair, half 1 for
bits 31:16; within a half the shift by eight is arithmetic, as in the code. Bytes
have their full width. The BMC's driver updates a half by its own read and
write, `BmcRead` and `BmcWrite`; the host's lock means nothing to it. There is one host
pass because `Takeover!Exclusive` holds. The list of channels is visited in any
order, which covers the order of every configuration. `pct` is a whole percentage
where the code has a float, so the ties of `round` are those at 10, 30, 50, 70 and
90. `QuietSiblings` is the condition under which the registers are `Takeover`'s: the
BMC does not set the other half of a register the program drives.

### TempCurve and ConfigRules

The constant `PointLists` holds the lists a configuration may contain; `Build` is
`Curve.__init__` on one of them, which sorts it or raises. `Keep` and `Follow` are the
two ways through `duty_pct`. Duties between points are exact fractions, compared
crosswise; the code's floats round them.

`ConfigRules` adds the options: `Rules` is the conjunction of the checks of
`Config.__init__`, one zone with its whole curve and the others by their highest
duty and `critical_c`, with the options' temperatures in tenths of a degree.
`Improper` stands for a value of the wrong type or not finite; `wellFormed` for the
checks of names, counts, channels and source tables, which are a Boolean here.
`Fed` is Python's `round` and the clip to a byte.

### FanMapping

`Begin` is the entry of `cmd_map` (duties and fan speeds before), `Probe` and `Measure`
one turn of its loop, `Finally` its end or interruption, `PutBack` the finally clause,
`Truncate` and `WriteMapping` the two steps in which the file is replaced. A fan turns
as fast as the fastest channel that moves it; a sensor may not answer. The
threshold of `--threshold` is any rise at all. `Start` is a daemon that reads the file,
`WatchedFans` its `_watched_fans`. `sound` says that every sensor answered and no duty
on entry was as high as the probe's, `touched` which channels the BMC changed
meanwhile.

### SourceRead

`ReadTemp` and `ReadFanRpm` decode the BMC's answer, whole or cut short at any byte;
`ReadHwmon` reads one file, `ReadExec` a command's output; `List`, `ReadNode` and `ScanEnds`
are `PciHwmon.read`, whose inputs change and disappear between two reads and are read
in the order the file system gives.

## Runs

| run | module | expects | asks |
| --- | --- | --- | --- |
| `ControlLive` | `ControlHeartbeat` | pass | does any sequence of readings, deaths and restarts undercut the curves, drift from the decision, or leave the abstract policy; does the loop recover and settle? |
| `ControlInject` | `InjectLoop` | pass | do the counters implement the rules about readings they stand for; what do fed sensors tell the BMC, and what does their echo do? |
| `ControlRestart` | `InjectLoop` | violation | what does a stalled fan see after a crash? |
| `TakeoverDevices` | `Takeover` | pass | two devices, `set`, `release` and `failsafe`, and a configuration that changes under the daemon |
| `TakeoverLive` | `Takeover` | pass | `set`, `release` and `map` beside the unit: does stop-post end, is a stop honoured, is no baseline lost? |
| `TakeoverLatch` | `Takeover` | violation | can the failsafe duty become the baseline? |
| `TakeoverParked` | `Takeover` | violation | does an emergency drive every owned channel? |
| `Emergency` | `Emergency` | pass | what do damaged and old files, failed writes, kills and host resets do to the record; does an emergency that returns cool? |
| `Service` | `Service` | pass | how long may the fans be left alone; whom does the watchdog kill; where do accesses land? |
| `PwmPass` | `PwmDuty` | pass | do whole-word accesses behave as independent channels, what does a pass guarantee, and what does its readback report? |
| `PwmSibling` | `PwmDuty` | violation | is the sibling of a written channel never disturbed? |
| `Commissioning` | `ConfigRules`, `FanMapping`, `SourceRead` | pass | do curve, configuration, mapping and sources give the daemon what it relies on? |

**Bounds.**

* *The loop.* All its variables are finite. `ControlLive` has two zones (for the
  maximum over zones, and for hysteresis that differs), three temperatures (below a
  knee, on it, critical) and a floor of 0 for `current_pct or min_duty_pct`.
  `SourceFailLimit` and `RecoverTicks` are 2 or 3, the least values at which counting
  differs from not counting. The log of `ControlInject` is one tick longer than the
  longest rule needs, so that a missing reading fits between two low ones; it has
  one zone, one fed sensor, a source that reads it and one that does not.
  `ControlRestart`, which looks for one history, has a limit of 1 and a log of two.
* *Takeover.* Two channels are needed for a loop that stops half way, one of them
  mapped and the other not; four duties are 0, one of the BMC's, the daemon's and the
  failsafe duty; one manual command at a time beside the unit, repeated for ever,
  gives every order of two lock holders, and a third process waiting could only time
  out. The runs share the commands out between them.
* *Emergency.* Two channels on the configured device, the first of which the BMC may
  disable, so that a loop stops at its start and in its middle; the second device is
  there as an entry of the files, which may be damaged. The unit and one manual
  command (`set` or `release`). Channels on both devices are proved.
* *Service.* Two reads a tick and one or a few units for every time limit, in the
  order they have in the unit and its defaults (the watchdog longer than a tick with
  all its timeouts, the start-up limit longer than the watchdog); other values are
  proved.
* *PwmDuty.* `MaxOverrides` ends the run after one counted override. `PwmPass` has the
  channels of the reference board: a pair of siblings, a single channel the BMC sets
  too, and a second list, at a duty that a truncation would miss and one above 100.
  Its BMC leaves siblings alone, because `ImplementsChannels` holds only then; that the
  others hold for every BMC is proved, and `PwmSibling` shows the overlap itself.
* *Commissioning.* Its three parts share no variable, and a behaviour explores one
  of them: their product would add nothing. Curves have up to three points, which
  gives an inner segment on either side of a knee, in any order, with duties out of
  range, duplicates and falling curves; options lie at, under and over every limit.
  The mapping has two channels that share a fan; a daemon in inject mode starts only
  between two mappings, since it shares nothing with one. The card has three inputs,
  one without the label asked for; the sources begin with no sensor, and time leads
  everywhere else.

`CHECK_DEADLOCK FALSE` is said where the system may stop: in `PwmPass` and `PwmSibling`
because of the bound on overrides, in `Commissioning` because a rejected curve is the
end.

**Fairness.** `ControlHeartbeat!FairSpec` assumes that a running daemon goes on ticking:
`Controller.run` is an endless loop and the reads in it have timeouts. It
assumes nothing about readings; `Recovers` and `Converges` are conditional on a
machine that stays calm, and `Calm` is defined by readings and counters, not by
the decision. `Takeover!FairSpec` assumes that every process that can take a step
does, and that systemd does its work (restart, stop-post). No fairness is given
to commands being started, to stop requests, kills or the BMC. Lock acquisition
is only weakly fair: `UnitSettles` does not rest on stop-post ever getting the
lock. `Service` states its liveness as a bound in time, `CoolsInTime`, and needs no
fairness.

**Findings.** The four violated properties quote the repository.
`ControlRestart`: `control.py:490-491` promises that a stalled fan never sees a
downward step before failsafe is reasserted; the evidence of the stall dies with
the process, so a restarted daemon steps down for one tick. `TakeoverLatch`:
`README.md:380-381` promises that a restart after failsafe cannot latch the
failsafe duty as factory; an emergency whose capture failed drives the channels
without a baseline, and the next daemon captures what it finds. `TakeoverParked`:
`README.md:377-378` says that stop-post drives every owned channel; it drives the
writable ones, and a channel parked at 0 by a manual `set` is not. `PwmSibling`:
`README.md:357-358` says the sibling channel is never disturbed; `apply_fall` indeed
keeps the sibling's half of the word it is given, but that word may be out of date
by the time it is written.

**What to read with care.** `NoFalseKill` is conditional: reads at their timeouts and
the sleep must fit into `WatchdogSec`. The shipped configuration reads twelve sources
and six fans over IPMI at five seconds each, which does not fit into 30 seconds; with a
BMC that answers nothing the watchdog may kill a daemon that works, and `CoolsInTime`
still bounds what follows. `OnlyEmergencyUnrecorded` names the ways in which a driven
channel loses its record: an emergency that could not write it, a reset of the host,
and the heartbeat of an injecting daemon over an old version's `state.json`.
`SteadyInputCounts` speaks of the inputs that can be read: an input that fails for good
is left out by `PciHwmon.read`, not reported as a failure. `ConfigCovers` grants the
half degree that rounding may take from a `failsafe_inject_c` that is not whole.

## Proofs

All theorems hold for every value of the constants that satisfies the module's
assumption.

`ControlLoopProofs` (`ConfigAssumption`): `TypeOK`, `CoversDemand`, `FailsafeInForce`,
`HoldsDecision`, `BoundedStepDown`, and that the loop implements `FanPolicy`. The
inductive invariant `IInv` adds `QuietOutside`: a daemon that does not run has no
decision, and ticks are counted towards recovery only inside failsafe. `CoversDemand`
is not inductive without `TypeOK`'s clause that a setpoint has a temperature exactly
when it has a duty, and needs the lemmas `CurveDutyCovers` (hysteresis never undercuts
the curve), `DemandCovers` and `SlewRange`. `Max` is a CHOOSE over a set; `BoundedMax`
shows that it exists for a bounded set of integers.

Of the two liveness properties of the loop the module proves what needs no fairness.
`CalmTicksSettle`: a tick after which no trouble is left, at the temperatures of the tick
before, brings the daemon out of failsafe and to its setpoint, or lowers `Rank`, which
is a number of at most `FailsafeDuty + RecoverTicks`. `SetpointInv` says why nothing
hunts: a temperature read again leaves the setpoint as it was, whether hysteresis kept
that setpoint or not, and a regulating daemon is never below it, so that slew has only
one way to go. `HeartbeatKeepsLoop` carries the theorems over to `FairSpec`.

The same module proves the rules of `ControlHistory` (`WindowAssumption` too):
`TroubleForcesFailsafe`, `FailsafeHasCause` and `RecoveryEarned`. Their invariant `HInv` ties
each counter to the log. A failure counter is the exact length of the run of misses the
log ends with, up to the limit. Low readings since the last healthy one are all in
the strikes. The first strike stands in the log just before the fan's misses, which
is why one low reading more is enough to show a stall; the log must be one tick
longer than `SourceFailLimit` for that. `cool_ticks` counts clean entries at the log's
end. Every step of `InjectLoop` is one of `ControlHistory` (`InjectionKeepsHistory`), so
the three hold there too, and on top of them `SensorsFollow` and `EchoHolds` are proved
(`InjectAssumption`).

`TakeoverProofs` (`TakeoverAssumption`): `TypeOK`, `Exclusive`, `PersistBeforeWrite`,
`Recoverable`, `TakeoverRetained` and `OwnershipEndsRestored`, for any channels,
devices and commands. `IInv` adds `Restoring`: a restore in progress has only owned
channels ahead of it and no driven one behind it. Without it, the end of a restore
could clear a channel that it never visited. By `Exclusive` a process past the lock is
alone (`OnlyMover`), so a step of it has nobody else's loop to disturb; each action is
then one of four kinds (moving on quietly, capturing, writing a register, ending),
with a lemma each. Of `UnitSettles` and `StopHonoured` the module proves what needs no
fairness. `UnitInv` says where the unit's process can be in each state of the unit.
`EndingAdvances`: once stop-post is due, or a SIGTERM is being answered, every step of
the unit or systemd leads to the unit's next state, to a later `Stage` or past one more
channel, of which there are finitely many in a machine, and no step of anybody else
sets it back. `StopIsRemembered`: a requested stop is never answered by a restart.

`BaselineStoreProofs` (`StoreAssumption`): `TypeOK`, `KeptIsBmcs`, `OldRefused`,
`OwnershipEnds`, `RefusedStays`, `OnlyEmergencyUnrecorded`, and that the store implements
`Ownership`. `StoreInv` adds what a session in progress has in hand: only the holder
of the lock is past `open`; what a capture is about to rename extends the record by
live duties that are the BMC's or lost, and what a release is about to rename drops
channels that are already restored. `KeptIsBmcs` says nothing of the temporary file,
and a rename would break it without these.

`EmergencyProofs` (`EmergencyAssumption`): every step of the unit is a step of
`BaselineStore` or leaves it alone, so the invariants above hold of the unit, and it
implements `Ownership`; and `EmergencyAnswers`, with the invariant `AnswerInv`: a channel
the emergency chose is ahead of its loop, at the failsafe duty, or touched by
another.

`ServiceProofs` begins with the bridge (`BridgeAssumption`): `AccessLands` and
`WindowRestored`, for any number of processes and windows. `BInv` says that a session's
copy is the settled register while it holds the lock, which is what lets it skip a
write. Of the unit (`ServiceAssumption`): every step of the unit in time is a step of
`P2ABridge` or leaves it alone; `STypeOK`, `NoFalseKill` and `CoolsInTime` for all time
limits. `Silence` bounds the time since the last heartbeat by the reads left and the
time spent in this one; `Exposure` bounds `exposed` in every phase of the unit by what
the phases before it may have taken.

`PwmDutyProofs` (`PwmAssumption`): `TypeOK`, `NoInventedDuty`, `QuietPassHolds`,
`NoFalseOverride` and, assuming `QuietSiblings`, that `PwmDuty` implements `PwmChannels`.
`WriteEffect` and `BmcEffect` say what a whole-word write does to each channel. Three
invariants are needed, one for each claim: `GivenInv` (what either side holds of the
other half was given to it), `PassInv` (the channels behind a quiet pass hold its duty,
and the word in hand is the register's), `FreshInv` (the half a program does not set has
not moved since it was read; here `QuietSiblings` is used).

`CommissioningProofs` (`MappingAssumption`, `SourceAssumption`): `MapRestores`,
`WatchesItsFans`, `ReadingIsReal` and `SteadyInputCounts`. `MapInv` follows an undisturbed
probing: all channels are at their duty on entry but the one being probed, and the
fans named so far are those the channels behind the loop move; `OneFanSet` shows that
raising one channel over all others speeds up the fans it moves and no other.
`SourceInv` follows a scan: no input that stayed readable and lies behind it is hotter
than the best so far.

`PartsKeepApart` says that `CSpec`, the specification of the run, is each of its three
parts seen by itself, so that the theorems about the parts hold of it.

`CurveProofs` (`CurveAssumption`, `OptionAssumption`): `CurveIsReference`, `NoFlutter` and
`ConfigCovers`, for lists of any length and order, any hysteresis, options and number
of zones.

* *The sort.* `Sorted` is a CHOOSE among the reorderings of a list. That one of them is in
  order is `Ranked`: the position of a point is the number of points before it, ties
  broken by index; positions are distinct, hence a bijection. `AcceptsConsistent` then
  turns the checks of the sorted list into the absence of a contradiction between any
  two points of the list handed over, which is how the property states them.
* *The scan.* `SegmentHolds` says that a temperature inside the curve lies in some
  segment, so that there is a first one; `DutyCases` names the three ways through
  `raw_duty_pct`. `KnotBounds` carries the rest: at, below and above each point the
  duty is on the right side of that point's. Two duties are compared through a point
  between their temperatures or, in one segment, by their products; so `DutyRange`,
  `DutyClimbs` and `DutyOnCurve`.
* *The memory.* `CurveInv` says what `self.points` is once the list is accepted, that the
  returned duty is the remembered one, and that the remembered temperature is not
  above `peak`; this last clause makes `NoFlutter` follow.
* *The rules.* `RulesInv`: what was accepted fulfils `Rules` and nothing changes after.
  `FiniteMax` gives the maximum over the zones, of which there are finitely many, and
  `FedIsNear` bounds the rounding of Python's `round`.

Only model-checked: the liveness properties `Recovers`, `Converges`, `UnitSettles` and
`StopHonoured`, which need fairness and ENABLED; `CalmTicksSettle` and `EndingAdvances` are
the measures they descend by. Every invariant and action property of
a passing run is proved. The type invariants of `Takeover`,
`PwmDuty`, `BaselineStore` and `Service`, and `FailsafeInForce`, `BoundedStepDown`,
`TakeoverRetained` and `RefusedStays`, are proved and therefore checked by no run but
where one of them is part of its question.

## Not modelled

* *Packaging, installation, release building and the scripts under `re/` and
  `scripts/`*: none of them runs beside the daemon.
* *Argument parsing, printing, the layout of the status file, `dump-flash`'s output*:
  nothing depends on them. The sessions that reading commands hold over the bridge are
  `P2ABridge`'s.
* *Types of configuration values*: `build` of the sources checks the options of a source
  table and the program refuses a wrong one before it touches hardware; in
  `ConfigRules` this is the Boolean `wellFormed`. Values that are not finite are `Improper`.
* *Address arithmetic inside a window and the BAR mapping.*
* *`Pwm.snapshot`, `Pwm.restore`, `Curve.reset`*: called by nobody.
* *A clean stop in `Service`*: it is in `Takeover` and `Emergency`; while it lasts, the BMC
  has its duties back.
* *Two `map` commands at once*: both hold the lock while they probe, and write the file
  without it; the file of the later one stands, whole, or cut off by its kill.
* *The composition of `Takeover` with `PwmDuty` and of `ControlLoop` with `Takeover`*: each
  pair meets in one abstraction, `PwmChannels` (a duty per channel, written at once) and
  the common duty of a pass; the products are out of TLC's reach.
