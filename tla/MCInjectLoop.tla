---------------------------- MODULE MCInjectLoop ----------------------------
(***************************************************************************)
(* ControlHistory and InjectLoop for TLC: one zone, two sources, one fan.  *)
(* Temperature 1 needs the least duty and 2 is critical; "gpu" reads a     *)
(* sensor that the daemon feeds, "cpu" one of its own.                     *)
(***************************************************************************)
EXTENDS InjectLoop

HistZoneOf == [s \in Source |-> "hot"]
HistRawDuty == [hot |-> <<1, 3>>]
HistHysteresis == [hot |-> 0]
HistCritical == [hot |-> 2]
HistSensorOf == [s \in Echo |-> "gpu0"]
==============================================================================
