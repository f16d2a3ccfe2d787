----------------------------- MODULE ControlLoop -----------------------------
(***************************************************************************)
(* The fan daemon's control loop: Zone.sample and Curve.duty_pct           *)
(* (p2afan/curve.py), Controller.tick and Controller.run                   *)
(* (p2afan/control.py), with the ways the process ends and is started      *)
(* again under systemd.                                                    *)
(*                                                                         *)
(* A tick reads one value from every temperature source and one from every *)
(* watched fan; both are chosen by the environment.  Duties are integer    *)
(* percentages and temperatures integers: the code's floats are compared,  *)
(* added and interpolated only, and the interpolation is the constant      *)
(* function RawDuty.  The driven channels always receive one common value, *)
(* so one variable, duty, stands for their registers.                      *)
(***************************************************************************)
EXTENDS Integers, FiniteSetsExt

CONSTANTS
  Zone, Source, ZoneOf,      \* the configured zones and their sources
  Fan,                       \* the watched tachs
  MinTemp, MaxTemp,          \* what a source can return
  RawDuty,                   \* per zone, the duty of its curve at a temperature
  Hysteresis, Critical,      \* per zone
  MinDuty, FailsafeDuty, FullDuty, DownSlew,
  SourceFailLimit, RecoverTicks,
  NoReading, NoDuty          \* Python's None

Temp == MinTemp .. MaxTemp
Duty == 0 .. FailsafeDuty

(* Config.__init__ validates every one of these before hardware opens. *)
ASSUME ConfigAssumption ==
  /\ MinTemp \in Int /\ MaxTemp \in Int
  /\ Zone # {} /\ ZoneOf \in [Source -> Zone]
  /\ \A z \in Zone : \E s \in Source : ZoneOf[s] = z
  /\ MinDuty \in Nat /\ FailsafeDuty \in Nat /\ FullDuty \in Nat
  /\ MinDuty <= FailsafeDuty /\ 0 < FailsafeDuty /\ FailsafeDuty <= FullDuty
  /\ DownSlew \in Nat \ {0}
  /\ SourceFailLimit \in Nat \ {0} /\ RecoverTicks \in Nat \ {0}
  /\ Critical \in [Zone -> Int] /\ Hysteresis \in [Zone -> Nat]
  /\ RawDuty \in [Zone -> [Temp -> Duty]]
  /\ \A z \in Zone : \A t, u \in Temp : t <= u => RawDuty[z][t] <= RawDuty[z][u]
  /\ NoReading \notin Int /\ NoDuty \notin Int

VARIABLES
  phase,        \* "running", "dead" (ExecStopPost pending) or "down"
  failCount,    \* Zone.fail_counts, capped at SourceFailLimit
  lastTemp,     \* Zone.last_temp
  heldTemp,     \* Curve._last_temp
  heldDuty,     \* Curve._last_duty
  fanFails,     \* Controller.fan_fail_counts
  strikes,      \* Controller.low_rpm_strikes
  failsafe,     \* Controller.failsafe
  coolTicks,    \* Controller.cool_ticks
  currentPct,   \* Controller.current_pct
  duty          \* the driven channels' duty; NoDuty while the BMC's own is live

zoneVars == <<failCount, lastTemp, heldTemp, heldDuty>>
fanVars  == <<fanFails, strikes>>
modeVars == <<failsafe, coolTicks, currentPct>>
memory   == <<zoneVars, fanVars, modeVars>>
vars     == <<phase, memory, duty>>

(* The counters in the code that only matter up to a limit.  Operators named *)
(* Buggy... are mutants: slips the properties below are shown to detect.     *)
BuggyCountUp(n, limit) == n + 1

CountUp(n, limit) == IF n < limit THEN n + 1 ELSE limit

-----------------------------------------------------------------------------
(* The memory of a daemon that has just started. *)
Fresh ==
  /\ failCount  = [s \in Source |-> 0]
  /\ lastTemp   = [z \in Zone |-> NoReading]
  /\ heldTemp   = [z \in Zone |-> NoReading]
  /\ heldDuty   = [z \in Zone |-> NoDuty]
  /\ fanFails   = [f \in Fan |-> 0]
  /\ strikes    = [f \in Fan |-> 0]
  /\ failsafe   = FALSE
  /\ coolTicks  = 0
  /\ currentPct = NoDuty

Init == phase = "running" /\ Fresh /\ duty = NoDuty

-----------------------------------------------------------------------------
(* Zone.sample: the hottest valid reading of the zone, or none. *)
Valid(reading, z) ==
  {reading[s] : s \in {s \in Source : ZoneOf[s] = z}} \ {NoReading}

ZoneTemp(reading, z) ==
  IF Valid(reading, z) = {} THEN NoReading ELSE Max(Valid(reading, z))

FailCountAfter(reading) ==
  [s \in Source |-> IF reading[s] = NoReading
                    THEN CountUp(failCount[s], SourceFailLimit) ELSE 0]

(* Curve.duty_pct keeps the old setpoint while the temperature has not      *)
(* fallen by the whole hysteresis below the one that produced it.           *)
BuggyKeepsSetpoint(z, temp) ==
  heldDuty[z] # NoDuty /\ temp > heldTemp[z] - Hysteresis[z]

KeepsSetpoint(z, temp) ==
  /\ heldDuty[z] # NoDuty
  /\ RawDuty[z][temp] < heldDuty[z]
  /\ temp > heldTemp[z] - Hysteresis[z]

CurveDuty(z, temp) ==
  IF KeepsSetpoint(z, temp) THEN heldDuty[z] ELSE RawDuty[z][temp]

Sample(reading) ==
  /\ failCount' = FailCountAfter(reading)
  /\ lastTemp' = [z \in Zone |-> ZoneTemp(reading, z)]
  /\ heldTemp' = [z \in Zone |->
       IF lastTemp'[z] = NoReading \/ KeepsSetpoint(z, lastTemp'[z])
       THEN heldTemp[z] ELSE lastTemp'[z]]
  /\ heldDuty' = [z \in Zone |->
       IF lastTemp'[z] = NoReading THEN heldDuty[z] ELSE CurveDuty(z, lastTemp'[z])]

-----------------------------------------------------------------------------
(* The fan health part of Controller.tick: a missing reading counts against *)
(* the telemetry and leaves the stall evidence alone.                       *)
FanFailsAfter(rpm) ==
  [f \in Fan |-> IF rpm[f] = "missing"
                 THEN CountUp(fanFails[f], SourceFailLimit) ELSE 0]

BuggyStrikesAfter(rpm) ==
  [f \in Fan |-> IF rpm[f] = "low" THEN CountUp(strikes[f], 2) ELSE 0]

StrikesAfter(rpm) ==
  [f \in Fan |-> CASE rpm[f] = "missing" -> strikes[f]
                   [] rpm[f] = "low"     -> CountUp(strikes[f], 2)
                   [] rpm[f] = "healthy" -> 0]

ReadFans(rpm) ==
  /\ fanFails' = FanFailsAfter(rpm)
  /\ strikes' = StrikesAfter(rpm)

FansHealthy(rpm) == \A f \in Fan : rpm[f] = "healthy"

-----------------------------------------------------------------------------
(* The failsafe decision of Controller.tick. *)
BuggyReadingAlarm(reading) ==
  \/ \E z \in Zone : ZoneTemp(reading, z) = NoReading
  \/ \E z \in Zone : ZoneTemp(reading, z) # NoReading
                       /\ ZoneTemp(reading, z) > Critical[z]
  \/ \E s \in Source : FailCountAfter(reading)[s] >= SourceFailLimit

ReadingAlarm(reading) ==
  \/ \E z \in Zone : ZoneTemp(reading, z) = NoReading
  \/ \E z \in Zone : ZoneTemp(reading, z) # NoReading
                       /\ ZoneTemp(reading, z) >= Critical[z]
  \/ \E s \in Source : FailCountAfter(reading)[s] >= SourceFailLimit

BuggyFanAlarm(rpm) ==
  \E f \in Fan : FanFailsAfter(rpm)[f] >= SourceFailLimit \/ StrikesAfter(rpm)[f] >= 1

FanAlarm(rpm) ==
  \E f \in Fan : FanFailsAfter(rpm)[f] >= SourceFailLimit \/ StrikesAfter(rpm)[f] >= 2

Alarm(reading, rpm) == ReadingAlarm(reading) \/ FanAlarm(rpm)

BuggyRecovered(rpm) == coolTicks + 1 >= RecoverTicks

Recovered(rpm) == FansHealthy(rpm) /\ coolTicks + 1 >= RecoverTicks

Demand(reading) == Max({CurveDuty(z, ZoneTemp(reading, z)) : z \in Zone})

Clamp(target) ==
  IF target > FullDuty THEN FullDuty ELSE IF target < MinDuty THEN MinDuty ELSE target

BuggySlewStuck(previous, target) ==
  IF previous = NoDuty THEN target
  ELSE IF previous - DownSlew > target THEN previous ELSE target

Slew(previous, target) ==
  IF previous = NoDuty THEN target
  ELSE IF previous - DownSlew > target THEN previous - DownSlew ELSE target

Trip(reading, rpm) ==
  /\ Alarm(reading, rpm)
  /\ failsafe' = TRUE /\ coolTicks' = 0 /\ currentPct' = FailsafeDuty

BuggyLingerForgets(reading, rpm) ==
  /\ failsafe /\ ~Alarm(reading, rpm) /\ ~Recovered(rpm)
  /\ coolTicks' = 0
  /\ currentPct' = FailsafeDuty
  /\ UNCHANGED failsafe

Linger(reading, rpm) ==
  /\ failsafe /\ ~Alarm(reading, rpm) /\ ~Recovered(rpm)
  /\ coolTicks' = IF FansHealthy(rpm) THEN coolTicks + 1 ELSE 0
  /\ currentPct' = FailsafeDuty
  /\ UNCHANGED failsafe

BuggyLeaveJumps(reading, rpm) ==
  /\ failsafe /\ ~Alarm(reading, rpm) /\ Recovered(rpm)
  /\ failsafe' = FALSE /\ coolTicks' = 0
  /\ currentPct' = Clamp(Demand(reading))

Leave(reading, rpm) ==
  /\ failsafe /\ ~Alarm(reading, rpm) /\ Recovered(rpm)
  /\ failsafe' = FALSE /\ coolTicks' = 0
  /\ currentPct' = Slew(FailsafeDuty, Clamp(Demand(reading)))

Regulate(reading, rpm) ==
  /\ ~failsafe /\ ~Alarm(reading, rpm)
  /\ currentPct' = Slew(currentPct, Clamp(Demand(reading)))
  /\ UNCHANGED <<failsafe, coolTicks>>

Decide(reading, rpm) ==
  \/ Trip(reading, rpm)
  \/ Linger(reading, rpm)
  \/ Leave(reading, rpm)
  \/ Regulate(reading, rpm)

Reading == [Source -> Temp \cup {NoReading}]
Rpm     == [Fan -> {"missing", "low", "healthy"}]

Tick(reading, rpm) ==
  /\ phase = "running"
  /\ Sample(reading)
  /\ ReadFans(rpm)
  /\ Decide(reading, rpm)
  /\ duty' = currentPct'
  /\ UNCHANGED phase

(* Controller.run between two ticks: apply_duty(current_pct or min_duty_pct), *)
(* where a current_pct of 0 is false in Python.                               *)
BuggyHoldDuty == IF currentPct = 0 THEN FailsafeDuty ELSE currentPct

HoldDuty == IF currentPct = 0 THEN MinDuty ELSE currentPct

Hold ==
  /\ phase = "running" /\ currentPct # NoDuty
  /\ duty' = HoldDuty
  /\ UNCHANGED <<phase, memory>>

-----------------------------------------------------------------------------
(* The process and its memory are gone. *)
Forget ==
  /\ failCount'  = [s \in Source |-> 0]
  /\ lastTemp'   = [z \in Zone |-> NoReading]
  /\ heldTemp'   = [z \in Zone |-> NoReading]
  /\ heldDuty'   = [z \in Zone |-> NoDuty]
  /\ fanFails'   = [f \in Fan |-> 0]
  /\ strikes'    = [f \in Fan |-> 0]
  /\ failsafe'   = FALSE
  /\ coolTicks'  = 0
  /\ currentPct' = NoDuty

(* A tick that raises: the emergency actuation of Controller.run reaches    *)
(* the channels, or fails as the tick's own did.                            *)
TickRaises ==
  /\ phase = "running" /\ phase' = "dead" /\ Forget
  /\ duty' \in {duty, FailsafeDuty}

(* SIGKILL, the watchdog, or an exception of the hold loop, which no        *)
(* handler covers.                                                          *)
Die == phase = "running" /\ phase' = "dead" /\ Forget /\ UNCHANGED duty

(* ExecStopPost after an unclean exit: the failsafe duty, or sensor         *)
(* injection when the bridge fails.                                         *)
StopPost ==
  /\ phase = "dead" /\ phase' = "down"
  /\ duty' \in {duty, FailsafeDuty}
  /\ UNCHANGED memory

(* SIGTERM: the baseline is restored and the BMC's loop resumes. *)
CleanStop == phase = "running" /\ phase' = "down" /\ Forget /\ duty' = NoDuty

Start == phase = "down" /\ phase' = "running" /\ UNCHANGED <<memory, duty>>

TickStep == \E reading \in Reading, rpm \in Rpm : Tick(reading, rpm)

Next == TickStep \/ Hold \/ TickRaises \/ Die \/ StopPost \/ CleanStop \/ Start

Spec == Init /\ [][Next]_vars

-----------------------------------------------------------------------------
(* Every variable keeps its type; the counters stay under their limits. *)
TypeOK ==
  /\ phase \in {"running", "dead", "down"}
  /\ failCount \in [Source -> 0 .. SourceFailLimit]
  /\ lastTemp \in [Zone -> Temp \cup {NoReading}]
  /\ heldTemp \in [Zone -> Temp \cup {NoReading}]
  /\ heldDuty \in [Zone -> Duty \cup {NoDuty}]
  /\ \A z \in Zone : heldTemp[z] = NoReading <=> heldDuty[z] = NoDuty
  /\ fanFails \in [Fan -> 0 .. SourceFailLimit]
  /\ strikes \in [Fan -> 0 .. 2]
  /\ failsafe \in BOOLEAN
  /\ coolTicks \in 0 .. RecoverTicks - 1
  /\ currentPct \in MinDuty .. FailsafeDuty \cup {NoDuty}
  /\ duty \in Duty \cup {NoDuty}

Ticked == phase = "running" /\ currentPct # NoDuty

(* Whatever hysteresis, slew and recovery did on the way, a regulating      *)
(* daemon (Controller.tick) commands at least what every zone's curve asks  *)
(* for at the temperature just read, and every zone has one under critical. *)
CoversDemand ==
  Ticked /\ ~failsafe =>
    \A z \in Zone :
      /\ lastTemp[z] # NoReading
      /\ lastTemp[z] < Critical[z]
      /\ RawDuty[z][lastTemp[z]] <= currentPct

(* Failsafe holds the failsafe duty for its whole length, also through the  *)
(* clean ticks that count towards recovery (Controller.tick).               *)
FailsafeInForce ==
  phase = "running" /\ failsafe => currentPct = FailsafeDuty /\ duty = FailsafeDuty

(* The hold loop of Controller.run never moves the channels away from the   *)
(* last tick's decision, also when that decision was 0 %.                   *)
HoldsDecision == Ticked => duty = currentPct

(* A daemon that is not running remembers nothing, and cool_ticks counts    *)
(* only inside failsafe.                                                    *)
QuietOutside ==
  /\ phase # "running" => ~failsafe /\ currentPct = NoDuty
  /\ ~failsafe => coolTicks = 0

(* The inductive invariant of the loop. *)
IInv == TypeOK /\ QuietOutside /\ FailsafeInForce /\ HoldsDecision /\ CoversDemand

(* From one decision of a daemon to the next the duty falls by DownSlew at  *)
(* most, also across failsafe and on the tick that leaves it.               *)
BoundedStepDown ==
  [][Ticked /\ phase' = "running" => currentPct' >= currentPct - DownSlew]_vars

(* The loop implements the abstract policy. *)
PolicyMode ==
  IF phase # "running" THEN "off" ELSE IF failsafe THEN "failsafe" ELSE "regulating"

Policy == INSTANCE FanPolicy WITH mode <- PolicyMode, pct <- currentPct, clean <- coolTicks

(* Controller's commands, seen alone, are those of FanPolicy. *)
ImplementsPolicy == Policy!Spec
==============================================================================
