------------------------- MODULE MCControlHeartbeat -------------------------
(* An instance of ControlHeartbeat for TLC. *)
EXTENDS ControlHeartbeat

(* Two zones with one source each, whose curves both start at duty 0: the    *)
(* first cools by less than its hysteresis, the second has none.             *)
LiveZoneOf == [s \in Source |-> IF s = "outlet" THEN "slow" ELSE "hot"]
LiveRawDuty == [hot |-> <<0, 2, 4>>, slow |-> <<0, 1, 5>>]
LiveHysteresis == [hot |-> 2, slow |-> 0]
LiveCritical == [hot |-> 3, slow |-> 3]
==============================================================================
