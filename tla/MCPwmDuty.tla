------------------------------ MODULE MCPwmDuty ------------------------------
(* Instances of PwmDuty for TLC.  Channels A .. H are 0 .. 7; the reference *)
(* board has its fans on D, E and F, and E and F share a register.          *)
EXTENDS PwmDuty

\* D, E and F; F alone after a restart found the others disabled.
BoardLists == {{3, 4, 5}, {5}}

==============================================================================
