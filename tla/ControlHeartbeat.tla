-------------------------- MODULE ControlHeartbeat --------------------------
(***************************************************************************)
(* ControlLoop with the heartbeat every tick ends with (WATCHDOG=1, in     *)
(* Controller.tick).  A tick that reads what the last one read may change  *)
(* nothing else; the heartbeat makes it a step, so that fairness can speak *)
(* of ticks and a machine at rest is a behaviour of the specification.     *)
(***************************************************************************)
EXTENDS ControlLoop

VARIABLE beat      \* flipped by every tick

beatVars == <<vars, beat>>

BInit == Init /\ beat = FALSE

BTick == TickStep /\ beat' = ~beat

BOther ==
  /\ Hold \/ TickRaises \/ Die \/ StopPost \/ CleanStop \/ Start
  /\ UNCHANGED beat

BNext == BTick \/ BOther

(* The loop of Controller.run goes on for ever, so a running daemon ticks. *)
FairSpec == BInit /\ [][BNext]_beatVars /\ WF_beatVars(BTick)

-----------------------------------------------------------------------------
(* Nothing in the daemon's memory speaks of trouble. *)
Calm ==
  /\ phase = "running"
  /\ \A z \in Zone : lastTemp[z] # NoReading /\ lastTemp[z] < Critical[z]
  /\ \A s \in Source : failCount[s] = 0
  /\ \A f \in Fan : fanFails[f] = 0 /\ strikes[f] = 0

(* The duty is the one the curves' setpoints ask for. *)
AtSetpoint ==
  /\ \A z \in Zone : heldDuty[z] # NoDuty
  /\ currentPct = Clamp(Max({heldDuty[z] : z \in Zone}))

(* Once the machine stays well, the daemon leaves failsafe for good. *)
Recovers == <>[]Calm => <>[](~failsafe)

(* Once the machine stays well at constant temperatures, the duty reaches   *)
(* the setpoint and stays: slew never stops short and never hunts.          *)
Converges ==
  (<>[]Calm /\ <>[][UNCHANGED lastTemp]_beatVars) => <>[]AtSetpoint
==============================================================================
