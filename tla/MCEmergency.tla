----------------------------- MODULE MCEmergency -----------------------------
(***************************************************************************)
(* Two channels on the configured device, the first of which the BMC may   *)
(* disable, and a second device that is there only as an entry of the      *)
(* files; the unit and one manual command.                                 *)
(***************************************************************************)
EXTENDS Emergency

OneDevice == [c \in Chan |-> CfgDev]
==============================================================================
