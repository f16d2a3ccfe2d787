------------------------------ MODULE MCTakeover ------------------------------
(* Instances of Takeover for TLC. *)
EXTENDS Takeover

OneDevice == [c \in Chan |-> "d1"]

(* One channel on each of two devices. *)
TwoDevices == [c \in Chan |-> IF c = 1 THEN "d1" ELSE "d2"]
==============================================================================
