------------------------------ MODULE FanPolicy ------------------------------
(***************************************************************************)
(* What the fan daemon promises about the duty it commands, whatever it    *)
(* reads from the machine: it either regulates, moving down by at most     *)
(* DownSlew per step and never under MinDuty, or it holds FailsafeDuty, a  *)
(* state it leaves only after RecoverTicks clean steps in a row and then   *)
(* by one slewed step.  Nothing is said here of temperatures or of fans:   *)
(* the module ControlLoop implements this specification.                   *)
(***************************************************************************)
EXTENDS Integers

CONSTANTS MinDuty, FailsafeDuty, DownSlew, RecoverTicks, NoDuty

VARIABLES mode,    \* "off", "regulating" or "failsafe"
          pct,     \* the duty last commanded, NoDuty before the first
          clean    \* clean steps in a row since the last alarm

policyVars == <<mode, pct, clean>>

Init == mode = "regulating" /\ pct = NoDuty /\ clean = 0

(* An alarm forces the failsafe duty from any running mode. *)
Trip ==
  /\ mode # "off"
  /\ mode' = "failsafe" /\ pct' = FailsafeDuty /\ clean' = 0

(* A step without alarm that has not yet earned recovery. *)
Linger ==
  /\ mode = "failsafe"
  /\ clean' \in {0, clean + 1} /\ clean' < RecoverTicks
  /\ UNCHANGED <<mode, pct>>

(* The last of RecoverTicks clean steps: regulation resumes, and the first *)
(* regulated duty is already one slewed step away from the failsafe duty.  *)
Leave ==
  /\ mode = "failsafe" /\ clean + 1 >= RecoverTicks
  /\ mode' = "regulating" /\ clean' = 0
  /\ pct' \in MinDuty .. FailsafeDuty /\ pct' >= FailsafeDuty - DownSlew

Regulate ==
  /\ mode = "regulating"
  /\ pct' \in MinDuty .. FailsafeDuty
  /\ pct # NoDuty => pct' >= pct - DownSlew
  /\ UNCHANGED <<mode, clean>>

(* The process ends and everything it knew is gone. *)
End == mode # "off" /\ mode' = "off" /\ pct' = NoDuty /\ clean' = 0

Begin == mode = "off" /\ mode' = "regulating" /\ UNCHANGED <<pct, clean>>

Next == Trip \/ Linger \/ Leave \/ Regulate \/ End \/ Begin

Spec == Init /\ [][Next]_policyVars
==============================================================================
