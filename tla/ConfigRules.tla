----------------------------- MODULE ConfigRules -----------------------------
(***************************************************************************)
(* The rules Config.__init__ (p2afan/control.py) applies to the options    *)
(* and zones of config.toml before any hardware is opened.  The first      *)
(* zone's curve is that of TempCurve; of the other zones only the highest  *)
(* duty and critical_c matter.                                             *)
(*                                                                         *)
(* Duties are whole percentages, the options' temperatures tenths of a     *)
(* degree; a float is not more precise here.  Improper stands for a        *)
(* string, a Boolean, NaN or an infinity where a number is expected.       *)
(***************************************************************************)
EXTENDS TempCurve, FiniteSetsExt

CONSTANTS Options, Improper

(* wellFormed: the names, counts, channels and sources are as they should be. *)
OptionRecord ==
  [mode : {"pwm", "inject"}, inject : BOOLEAN, wellFormed : BOOLEAN,
   min : Int \cup {Improper}, failsafe : Int \cup {Improper},
   injectC : Int \cup {Improper}, critical : Int \cup {Improper},
   others : SUBSET [duty : 0 .. 100, critical : Int]]

ASSUME OptionAssumption ==
  /\ Options \subseteq OptionRecord /\ Improper \notin Int
  /\ \A o \in Options : IsFiniteSet(o.others)

VARIABLES
  opts,         \* what config.toml says
  verdict       \* "unread", "accepted" or "refused": a ValueError

configVars == <<vars, opts, verdict>>

-----------------------------------------------------------------------------
(* _number *)
Number(v, low, high) == v # Improper /\ low <= v /\ v <= high

LowestC == -2731      \* absolute zero, in tenths

HighestDuty ==
  Max({points[i].duty : i \in DOMAIN points} \cup {z.duty : z \in opts.others})

HighestCritical == Max({opts.critical} \cup {z.critical : z \in opts.others})

Injecting == opts.inject \/ opts.mode = "inject"

BuggyRules ==
  /\ opts.wellFormed /\ Number(opts.min, 0, 100)
  /\ Number(opts.failsafe, opts.min, 100)
  /\ Number(opts.injectC, 0, 2550)
  /\ status = "built" /\ opts.critical # Improper /\ opts.critical >= LowestC
  /\ opts.failsafe > 0 /\ opts.failsafe >= points[1].duty
  /\ Injecting => opts.injectC >= HighestCritical

Rules ==
  /\ opts.wellFormed /\ Number(opts.min, 0, 100)
  /\ Number(opts.failsafe, opts.min, 100)
  /\ Number(opts.injectC, 0, 2550)
  /\ status = "built" /\ opts.critical # Improper /\ opts.critical >= LowestC
  /\ opts.failsafe > 0 /\ opts.failsafe >= HighestDuty
  /\ Injecting => opts.injectC >= HighestCritical

Check ==
  /\ verdict = "unread" /\ status # "new"
  /\ verdict' = IF Rules THEN "accepted" ELSE "refused"
  /\ UNCHANGED <<vars, opts>>

ConfigInit == Init /\ opts \in Options /\ verdict = "unread"

ConfigNext == Check \/ (Next /\ UNCHANGED <<opts, verdict>>)

ConfigSpec == ConfigInit /\ [][ConfigNext]_configVars

-----------------------------------------------------------------------------
(* The byte _inject_sensors makes of a temperature: Python's round, which    *)
(* takes a half to the even neighbour, and the limits of a byte.             *)
Fed(tenths) ==
  LET whole == tenths \div 10
      rest  == tenths % 10
      near  == IF rest > 5 \/ (rest = 5 /\ whole % 2 = 1) THEN whole + 1 ELSE whole
  IN  Max({0, Min({255, near})})

(* What ControlLoop assumes of an accepted configuration: no temperature     *)
(* makes a curve, or the floor under it, ask for more than the failsafe duty, *)
(* which is not 0; and a sensor fed with failsafe_inject_c reads at least     *)
(* every critical_c, but for the half degree the rounding may take.           *)
ConfigCovers ==
  verdict = "accepted" =>
    /\ 0 < opts.failsafe /\ opts.min <= opts.failsafe
    /\ \A t \in Temp : ~Less(Whole(opts.failsafe), RawDutyPct(t))
    /\ \A z \in opts.others : z.duty <= opts.failsafe
    /\ Injecting =>
         \A c \in {opts.critical} \cup {z.critical : z \in opts.others} :
           /\ 10 * Fed(opts.injectC) + 5 >= c
           /\ opts.injectC % 10 = 0 => 10 * Fed(opts.injectC) >= c
==============================================================================
