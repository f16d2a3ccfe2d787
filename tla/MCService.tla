------------------------------ MODULE MCService ------------------------------
(* The unit and one command, the window of the PWM block and one other. *)
EXTENDS Service
==============================================================================
