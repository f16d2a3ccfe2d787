--------------------------- MODULE MCCommissioning ---------------------------
(***************************************************************************)
(* What the daemon rests on: config.toml and its curves, mapping.toml, and *)
(* the sources.  The three parts share no variable; a behaviour explores   *)
(* one of them and leaves the others as they began.  A daemon in inject    *)
(* mode runs between two mappings, for a bound: it shares nothing with one.*)
(***************************************************************************)
EXTENDS ConfigRules, FanMapping, SourceRead

CONSTANTS PointTemp, PointDuty

Grid == [temp : PointTemp, duty : PointDuty]
SmallLists == UNION {[1 .. n -> Grid] : n \in 0 .. 3}

Plain ==
  [mode |-> "pwm", inject |-> FALSE, wellFormed |-> TRUE, min |-> 20, failsafe |-> 100,
   injectC |-> 950, critical |-> 850, others |-> {}]

(* Options around every limit: half degrees, the failsafe duty at the curve's *)
(* highest, temperatures that do not fit a byte.                              *)
SmallOptions ==
  {Plain}
  \cup {[Plain EXCEPT !.wellFormed = FALSE], [Plain EXCEPT !.min = Improper]}
  \cup {[Plain EXCEPT !.min = m, !.failsafe = f, !.others = o] :
          m \in {0, 20}, f \in {-1, 0, 19, 20, 50, 99, 101, Improper},
          o \in {{}, {[duty |-> 50, critical |-> 850]}}}
  \cup {[Plain EXCEPT !.mode = m, !.inject = i, !.injectC = t, !.critical = c, !.others = o] :
          m \in {"pwm", "inject"}, i \in BOOLEAN,
          t \in {850, 854, 855, 865, 2550, 2551, Improper}, c \in {-2732, -2731, 854, 865, 2551, Improper},
          o \in {{}, {[duty |-> 20, critical |-> 855]}}}

FewLists == {<<>>, <<[temp |-> 1, duty |-> 20]>>,
             <<[temp |-> 5, duty |-> 50], [temp |-> 1, duty |-> 20]>>,
             <<[temp |-> 1, duty |-> 0], [temp |-> 2, duty |-> 100]>>}

(* Fan f2 is moved by both channels. *)
TwoMoves == [c \in Chan |-> IF c = 1 THEN {"f1"} ELSE {"f1", "f2"}]

CurvePart == ConfigInit /\ (opts = Plain \/ (points \in FewLists /\ hysteresis = 0))

StillCurve == points = <<>> /\ opts = Plain /\ hysteresis = 0 /\ status = "new"

StillMap == \A c \in Chan : duty[c] = Min(IdleDuty)

StillFiles == file.kind = "missing" /\ run = "stopped" /\ enabled = Chan /\ pc = "idle"

(* The sources begin without any sensor; TimePasses leads everywhere else. *)
StillSources ==
  /\ reader = "idle" /\ node = [i \in Node |-> Absent]
  /\ bmc = [there |-> FALSE, count |-> Min(Count)]

CInit == CurvePart /\ MapInit /\ SourceInit /\ StillSources /\ (StillCurve \/ StillMap)

CNext ==
  \/ StillMap /\ StillFiles /\ StillSources /\ ConfigNext /\ UNCHANGED <<mapVars, sourceVars>>
  \/ StillCurve /\ StillSources /\ MapNext /\ UNCHANGED <<configVars, sourceVars>>
     /\ (run' = "inject" => pc' = "idle")
  \/ StillCurve /\ StillMap /\ StillFiles /\ SourceNext /\ UNCHANGED <<configVars, mapVars>>

CSpec == CInit /\ [][CNext]_<<configVars, mapVars, sourceVars>>
==============================================================================
