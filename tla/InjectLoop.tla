------------------------------ MODULE InjectLoop ------------------------------
(***************************************************************************)
(* The control loop with inject = true (p2afan/control.py): after the      *)
(* channels a tick feeds the BMC's GPU sensors over IPMI with the hottest  *)
(* temperature, or with failsafe_inject_c in failsafe.  A source of the    *)
(* controller may read such a sensor, and then reads what was fed.         *)
(*                                                                         *)
(* A sensor keeps what it was fed until the BMC refreshes it; a write may  *)
(* fail, and beside PWM control that only shows in the heartbeat.           *)
(***************************************************************************)
EXTENDS ControlHistory

CONSTANTS
  Sensor,        \* INJECT_SENSORS
  Echo,          \* the sources that read such a sensor
  SensorOf,      \* and which
  FailsafeInject \* failsafe_inject_c as a byte

(* Config.__init__: failsafe_inject_c reaches every zone's critical_c. *)
ASSUME InjectAssumption ==
  /\ Echo \subseteq Source /\ SensorOf \in [Echo -> Sensor]
  /\ FailsafeInject \in Temp /\ \A z \in Zone : Critical[z] <= FailsafeInject

VARIABLES
  sensor,        \* what each sensor reads, or NoReading
  fed            \* history: the sensors that hold what the last tick fed

ivars == <<historyVars, sensor, fed>>

IInit == HInit /\ sensor \in [Sensor -> Temp \cup {NoReading}] /\ fed = {}

-----------------------------------------------------------------------------
(* A reply of the sensor, or none. *)
Readable(reading) ==
  \A s \in Echo : reading[s] \in {sensor[SensorOf[s]], NoReading}

Hottest(reading) == Max({reading[s] : s \in Source} \ {NoReading})

(* _inject_sensors: every sensor is tried. *)
Feed(value, failing) ==
  sensor' = [n \in Sensor |-> IF n \in failing THEN sensor[n] ELSE value]

BuggyFedValue(reading) ==
  IF \A s \in Source : reading[s] = NoReading THEN FailsafeInject ELSE Hottest(reading)

FedValue(reading) == IF failsafe' THEN FailsafeInject ELSE Hottest(reading)

ITick ==
  /\ HTick
  /\ LET reading == log'[Len(log')].reading
     IN  /\ Readable(reading)
         /\ \E failing \in SUBSET Sensor :
              Feed(FedValue(reading), failing) /\ fed' = Sensor \ failing

(* Controller.run's emergency actuation, and force_failsafe's fallback when  *)
(* the bridge fails, feed the failsafe temperature to what takes it.         *)
IEnd ==
  /\ HEnd /\ fed' = {}
  /\ IF TickRaises /\ duty' = FailsafeDuty
       THEN \E failing \in SUBSET Sensor : Feed(FailsafeInject, failing)
       ELSE UNCHANGED sensor

IOther ==
  /\ HOther /\ UNCHANGED fed
  /\ IF StopPost /\ duty' = duty
       THEN \E failing \in SUBSET Sensor : Feed(FailsafeInject, failing)
       ELSE UNCHANGED sensor

(* The BMC puts its own value in a sensor again. *)
BmcRefresh(n) ==
  /\ \E t \in Temp \cup {NoReading} : sensor' = [sensor EXCEPT ![n] = t]
  /\ fed' = fed \ {n}
  /\ UNCHANGED historyVars

INext == ITick \/ IEnd \/ IOther \/ \E n \in Sensor : BmcRefresh(n)

ISpec == IInit /\ [][INext]_ivars

-----------------------------------------------------------------------------
(* Behind a running daemon no sensor tells the BMC of a calmer machine than  *)
(* the tick saw: where the write went through and the BMC left it, it reads  *)
(* failsafe_inject_c in failsafe, and else what covers every zone, under     *)
(* critical (Controller.actuate).                                            *)
SensorsFollow ==
  Ticked => \A n \in fed :
    IF failsafe THEN sensor[n] = FailsafeInject
    ELSE \A z \in Zone : lastTemp[z] <= sensor[n] /\ sensor[n] < FailsafeInject

(* A source that reads a fed sensor keeps failsafe in force until the BMC     *)
(* refreshes the sensor or the daemon is gone: the echo is an alarm, and the *)
(* misses between two echoes are too few to recover (tick, actuate).          *)
Echoed(s) == sensor[SensorOf[s]] = FailsafeInject /\ coolTicks <= failCount[s]

EchoHolds ==
  [][\A s \in Echo :
       SourceFailLimit <= RecoverTicks /\ failsafe /\ Echoed(s)
         /\ phase = "running" /\ phase' = "running" /\ sensor'[SensorOf[s]] = FailsafeInject
       => failsafe' /\ Echoed(s)']_ivars
==============================================================================
