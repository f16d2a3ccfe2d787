----------------------------- MODULE PwmChannels -----------------------------
(***************************************************************************)
(* What p2afan/pwm.py promises its callers: eight independent duty         *)
(* channels.  Setting one leaves the other seven alone, although two       *)
(* channels share each 32-bit DUTY register.                               *)
(***************************************************************************)
EXTENDS Integers

CONSTANTS Driven,    \* channels the program sets
          HostByte,  \* the fall bytes it gives them
          BmcChan,   \* channels the BMC sets by itself
          BmcHalf    \* the 16-bit settings the BMC uses

Channel == 0 .. 7

VARIABLE setting     \* per channel: 256 * fall + rise

Init == setting \in [Channel -> BmcHalf]

\* set_fall: a fall byte and rise = 0, in one step.
HostSets(c, v) == setting' = [setting EXCEPT ![c] = 256 * v]

BmcSets(c, h) == setting' = [setting EXCEPT ![c] = h]

Next == \/ \E c \in Driven, v \in HostByte : HostSets(c, v)
        \/ \E c \in BmcChan, h \in BmcHalf : BmcSets(c, h)

Spec == Init /\ [][Next]_setting
==============================================================================
