--------------------------- MODULE ControlLoopProofs ---------------------------
(***************************************************************************)
(* Proofs about ControlLoop, for every configuration ConfigAssumption      *)
(* admits, about its decisions seen against the log of ControlHistory,     *)
(* about the sensors InjectLoop feeds, and about a machine that is well.   *)
(***************************************************************************)
EXTENDS InjectLoop, ControlHeartbeat, WellFoundedInduction, TLAPS

-----------------------------------------------------------------------------
(* The order of the natural numbers as a set of pairs. *)
LessNat == {p \in Nat \X Nat : p[1] < p[2]}

LEMMA LessNatWellFounded == IsWellFoundedOn(LessNat, Nat)
  BY NatLessThanWellFounded DEF OpToRel, LessNat

(* Max of a nonempty bounded set of integers is its greatest element. *)
LEMMA BoundedMax ==
  ASSUME NEW lo \in Int, NEW hi \in Int, NEW S, S \subseteq lo .. hi, S # {}
  PROVE  Max(S) \in S /\ \A x \in S : x <= Max(S)
<1> DEFINE T == {hi - x : x \in S}
<1>1. T \subseteq Nat /\ T # {}
  OBVIOUS
<1>2. PICK m \in T : \A y \in T : <<y, m>> \notin LessNat
  <2> HIDE DEF T
  <2> QED BY <1>1, LessNatWellFounded, WFMin
<1>3. ASSUME NEW y \in T PROVE m <= y
  <2>1. y \in Nat /\ m \in Nat
    BY <1>1, <1>2
  <2>2. <<y, m>> \notin LessNat
    BY <1>2
  <2>3. ~ (y < m)
    BY <2>1, <2>2 DEF LessNat
  <2> QED BY <2>1, <2>3
<1>4. PICK x \in S : m = hi - x
  BY <1>2
<1>5. ASSUME NEW y \in S PROVE y <= x
  <2>1. hi - y \in T
    OBVIOUS
  <2>2. m <= hi - y
    BY <1>3, <2>1
  <2>3. x \in Int /\ y \in Int
    OBVIOUS
  <2> HIDE DEF T
  <2> QED BY <1>4, <2>2, <2>3
<1> QED BY <1>4, <1>5 DEF Max

-----------------------------------------------------------------------------
(* The operators of a tick. *)

LEMMA ZoneTempType ==
  ASSUME NEW reading \in Reading, NEW z \in Zone
  PROVE  ZoneTemp(reading, z) \in Temp \cup {NoReading}
<1>1. Valid(reading, z) \subseteq MinTemp .. MaxTemp
  BY DEF Valid, Reading, Temp
<1>2. CASE Valid(reading, z) = {}
  BY <1>2 DEF ZoneTemp
<1>3. CASE Valid(reading, z) # {}
  <2>1. Max(Valid(reading, z)) \in Valid(reading, z)
    BY <1>1, <1>3, BoundedMax, ConfigAssumption DEF ConfigAssumption
  <2> QED BY <1>1, <1>3, <2>1 DEF ZoneTemp, Temp
<1> QED BY <1>2, <1>3

(* Hysteresis may keep a setpoint above the curve, never below it. *)
LEMMA CurveDutyCovers ==
  ASSUME TypeOK, NEW z \in Zone, NEW temp \in Temp
  PROVE  CurveDuty(z, temp) \in Duty /\ RawDuty[z][temp] <= CurveDuty(z, temp)
<1>1. RawDuty[z][temp] \in Duty
  BY ConfigAssumption DEF ConfigAssumption
<1>2. heldDuty[z] \in Duty \cup {NoDuty}
  BY DEF TypeOK
<1>3. FailsafeDuty \in Nat
  BY ConfigAssumption DEF ConfigAssumption
<1> QED BY <1>1, <1>2, <1>3 DEF CurveDuty, KeepsSetpoint, Duty

LEMMA DemandCovers ==
  ASSUME TypeOK, NEW reading \in Reading,
         \A z \in Zone : ZoneTemp(reading, z) # NoReading
  PROVE  /\ Demand(reading) \in Duty
         /\ \A z \in Zone : RawDuty[z][ZoneTemp(reading, z)] <= Demand(reading)
<1> DEFINE D == {CurveDuty(z, ZoneTemp(reading, z)) : z \in Zone}
<1>1. \A z \in Zone : ZoneTemp(reading, z) \in Temp
  BY ZoneTempType
<1>2. \A z \in Zone : /\ CurveDuty(z, ZoneTemp(reading, z)) \in Duty
                      /\ RawDuty[z][ZoneTemp(reading, z)]
                           <= CurveDuty(z, ZoneTemp(reading, z))
  BY <1>1, CurveDutyCovers
<1>3. D \subseteq 0 .. FailsafeDuty /\ D # {}
  BY <1>2, ConfigAssumption DEF Duty, ConfigAssumption
<1>4. FailsafeDuty \in Int /\ 0 \in Int
  BY ConfigAssumption DEF ConfigAssumption
<1>5. Max(D) \in D /\ \A x \in D : x <= Max(D)
  <2> HIDE DEF D
  <2> QED BY <1>3, <1>4, BoundedMax
<1>6. Demand(reading) = Max(D)
  BY DEF Demand
<1>7. Demand(reading) \in Duty
  BY <1>3, <1>5, <1>6 DEF Duty
<1>8. ASSUME NEW z \in Zone
      PROVE  RawDuty[z][ZoneTemp(reading, z)] <= Demand(reading)
  <2>1. CurveDuty(z, ZoneTemp(reading, z)) <= Demand(reading)
    BY <1>5, <1>6
  <2>2. RawDuty[z][ZoneTemp(reading, z)] \in Duty
    BY <1>1, ConfigAssumption DEF ConfigAssumption
  <2> HIDE DEF D
  <2> QED BY <1>2, <1>4, <1>7, <2>1, <2>2 DEF Duty
<1> QED BY <1>7, <1>8

LEMMA ClampRange ==
  ASSUME NEW target \in Duty
  PROVE  Clamp(target) \in MinDuty .. FailsafeDuty /\ target <= Clamp(target)
BY ConfigAssumption DEF ConfigAssumption, Clamp, Duty

(* slew rises at once and falls by DownSlew at most. *)
LEMMA SlewRange ==
  ASSUME NEW previous \in MinDuty .. FailsafeDuty \cup {NoDuty},
         NEW target \in MinDuty .. FailsafeDuty
  PROVE  /\ Slew(previous, target) \in MinDuty .. FailsafeDuty
         /\ target <= Slew(previous, target)
         /\ previous # NoDuty => Slew(previous, target) >= previous - DownSlew
BY ConfigAssumption DEF ConfigAssumption, Slew

(* What a tick without alarm commands, from any previous duty. *)
LEMMA RegulatedDuty ==
  ASSUME TypeOK, NEW reading \in Reading, ~ReadingAlarm(reading),
         NEW previous \in MinDuty .. FailsafeDuty \cup {NoDuty}
  PROVE  LET pct == Slew(previous, Clamp(Demand(reading)))
         IN  /\ pct \in MinDuty .. FailsafeDuty
             /\ previous # NoDuty => pct >= previous - DownSlew
             /\ \A z \in Zone : /\ ZoneTemp(reading, z) # NoReading
                                /\ ZoneTemp(reading, z) < Critical[z]
                                /\ RawDuty[z][ZoneTemp(reading, z)] <= pct
<1> DEFINE target == Clamp(Demand(reading))
           pct    == Slew(previous, target)
<1>1. \A z \in Zone : ZoneTemp(reading, z) # NoReading
  BY DEF ReadingAlarm
<1>2. \A z \in Zone : ZoneTemp(reading, z) \in Temp
  BY <1>1, ZoneTempType
<1>3. \A z \in Zone : ~ (ZoneTemp(reading, z) >= Critical[z])
  BY <1>1 DEF ReadingAlarm
<1>4. /\ Demand(reading) \in Duty
      /\ \A z \in Zone : RawDuty[z][ZoneTemp(reading, z)] <= Demand(reading)
  BY <1>1, DemandCovers
<1>5. target \in MinDuty .. FailsafeDuty /\ Demand(reading) <= target
  BY <1>4, ClampRange
<1>6. /\ pct \in MinDuty .. FailsafeDuty /\ target <= pct
      /\ previous # NoDuty => pct >= previous - DownSlew
  <2> HIDE DEF target
  <2> QED BY <1>5, SlewRange
<1>7. ASSUME NEW z \in Zone
      PROVE  /\ ZoneTemp(reading, z) < Critical[z]
             /\ RawDuty[z][ZoneTemp(reading, z)] <= pct
  <2>1. ZoneTemp(reading, z) \in Int /\ Critical[z] \in Int
    BY <1>2, ConfigAssumption DEF ConfigAssumption, Temp
  <2>2. RawDuty[z][ZoneTemp(reading, z)] \in Int
    BY <1>2, ConfigAssumption DEF ConfigAssumption, Duty
  <2>3. Demand(reading) \in Int /\ target \in Int /\ pct \in Int
    <3> HIDE DEF target, pct
    <3> QED BY <1>4, <1>5, <1>6, ConfigAssumption DEF ConfigAssumption, Duty
  <2>4. RawDuty[z][ZoneTemp(reading, z)] <= Demand(reading)
    BY <1>4
  <2> HIDE DEF target, pct
  <2> QED BY <1>3, <1>5, <1>6, <2>1, <2>2, <2>3, <2>4
<1> QED BY <1>1, <1>6, <1>7

-----------------------------------------------------------------------------
(* The inductive invariant. *)

(* The values of a daemon's memory when it starts have their types. *)
LEMMA FreshValues ==
  /\ [s \in Source |-> 0] \in [Source -> 0 .. SourceFailLimit]
  /\ [z \in Zone |-> NoReading] \in [Zone -> Temp \cup {NoReading}]
  /\ [z \in Zone |-> NoDuty] \in [Zone -> Duty \cup {NoDuty}]
  /\ [f \in Fan |-> 0] \in [Fan -> 0 .. SourceFailLimit]
  /\ [f \in Fan |-> 0] \in [Fan -> 0 .. 2]
  /\ 0 \in 0 .. RecoverTicks - 1
BY ConfigAssumption DEF ConfigAssumption

LEMMA InitIInv == Init => IInv
<1> SUFFICES ASSUME Init PROVE IInv
  OBVIOUS
<1>1. TypeOK
  BY FreshValues, Zenon DEF Init, Fresh, TypeOK
<1> QED BY <1>1
        DEF Init, Fresh, IInv, QuietOutside, FailsafeInForce, HoldsDecision,
            CoversDemand, Ticked

LEMMA ForgetType ==
  ASSUME Forget, phase' \in {"running", "dead", "down"}, duty' \in Duty \cup {NoDuty}
  PROVE  TypeOK' /\ ~failsafe' /\ currentPct' = NoDuty /\ coolTicks' = 0
<1>1. TypeOK'
  BY FreshValues, Zenon DEF Forget, TypeOK
<1> QED BY <1>1, Zenon DEF Forget

(* Sampling keeps the types of what the zones and the fans remember. *)
LEMMA SampleType ==
  ASSUME TypeOK, NEW reading \in Reading, Sample(reading)
  PROVE  /\ failCount' \in [Source -> 0 .. SourceFailLimit]
         /\ lastTemp' \in [Zone -> Temp \cup {NoReading}]
         /\ heldTemp' \in [Zone -> Temp \cup {NoReading}]
         /\ heldDuty' \in [Zone -> Duty \cup {NoDuty}]
         /\ \A z \in Zone : heldTemp'[z] = NoReading <=> heldDuty'[z] = NoDuty
<1>1. failCount' \in [Source -> 0 .. SourceFailLimit]
  BY ConfigAssumption DEF ConfigAssumption, TypeOK, Sample, FailCountAfter, CountUp
<1>2. lastTemp' \in [Zone -> Temp \cup {NoReading}]
  BY ZoneTempType DEF Sample
<1>3. heldTemp' \in [Zone -> Temp \cup {NoReading}]
  BY <1>2 DEF TypeOK, Sample
<1>4. heldDuty' \in [Zone -> Duty \cup {NoDuty}]
  BY <1>2, CurveDutyCovers DEF TypeOK, Sample
<1>5. ASSUME NEW z \in Zone
      PROVE  heldTemp'[z] = NoReading <=> heldDuty'[z] = NoDuty
  <2>1. CASE lastTemp'[z] = NoReading
    BY <2>1 DEF TypeOK, Sample
  <2>2. CASE lastTemp'[z] # NoReading
    <3>1. lastTemp'[z] \in Temp
      BY <1>2, <2>2
    <3>2. CurveDuty(z, lastTemp'[z]) # NoDuty
      BY <3>1, CurveDutyCovers, ConfigAssumption DEF ConfigAssumption, Duty
    <3>3. KeepsSetpoint(z, lastTemp'[z]) => heldTemp[z] # NoReading
      BY DEF KeepsSetpoint, TypeOK
    <3> QED BY <2>2, <3>2, <3>3 DEF Sample
  <2> QED BY <2>1, <2>2
<1> QED BY <1>1, <1>2, <1>3, <1>4, <1>5

LEMMA ReadFansType ==
  ASSUME TypeOK, NEW rpm \in Rpm, ReadFans(rpm)
  PROVE  fanFails' \in [Fan -> 0 .. SourceFailLimit] /\ strikes' \in [Fan -> 0 .. 2]
<1>1. fanFails' \in [Fan -> 0 .. SourceFailLimit]
  BY ConfigAssumption DEF ConfigAssumption, TypeOK, ReadFans, FanFailsAfter, CountUp
<1>2. ASSUME NEW f \in Fan PROVE StrikesAfter(rpm)[f] \in 0 .. 2
  BY DEF TypeOK, StrikesAfter, CountUp, Rpm
<1> QED BY <1>1, <1>2 DEF ReadFans, StrikesAfter

(* Every outcome of a tick's decision. *)
LEMMA DecideInvariant ==
  ASSUME IInv, NEW reading \in Reading, NEW rpm \in Rpm, Tick(reading, rpm)
  PROVE  /\ failsafe' \in BOOLEAN /\ coolTicks' \in 0 .. RecoverTicks - 1
         /\ currentPct' \in MinDuty .. FailsafeDuty
         /\ failsafe' => currentPct' = FailsafeDuty
         /\ ~failsafe' => coolTicks' = 0
         /\ currentPct # NoDuty => currentPct' >= currentPct - DownSlew
         /\ ~failsafe' => \A z \in Zone :
              /\ lastTemp'[z] # NoReading
              /\ lastTemp'[z] < Critical[z]
              /\ RawDuty[z][lastTemp'[z]] <= currentPct'
<1> USE ConfigAssumption DEF ConfigAssumption
<1>1. TypeOK /\ phase = "running" /\ (failsafe => currentPct = FailsafeDuty)
        /\ (~failsafe => coolTicks = 0)
  BY DEF IInv, Tick, FailsafeInForce, QuietOutside
<1>2. \A z \in Zone : lastTemp'[z] = ZoneTemp(reading, z)
  BY DEF Tick, Sample
<1>3. /\ failsafe \in BOOLEAN /\ coolTicks \in 0 .. RecoverTicks - 1
      /\ currentPct \in MinDuty .. FailsafeDuty \cup {NoDuty}
  BY <1>1 DEF TypeOK
<1>4. CASE Trip(reading, rpm)
  BY <1>3, <1>4 DEF Trip
<1>5. CASE Linger(reading, rpm)
  BY <1>1, <1>3, <1>5 DEF Linger, Recovered
<1>6. CASE Leave(reading, rpm)
  <2>1. ~ReadingAlarm(reading)
    BY <1>6 DEF Leave, Alarm
  <2>2. LET pct == Slew(FailsafeDuty, Clamp(Demand(reading)))
        IN  /\ pct \in MinDuty .. FailsafeDuty
            /\ FailsafeDuty # NoDuty => pct >= FailsafeDuty - DownSlew
            /\ \A z \in Zone : /\ ZoneTemp(reading, z) # NoReading
                               /\ ZoneTemp(reading, z) < Critical[z]
                               /\ RawDuty[z][ZoneTemp(reading, z)] <= pct
    BY <1>1, <2>1, RegulatedDuty
  <2>3. /\ currentPct' = Slew(FailsafeDuty, Clamp(Demand(reading)))
        /\ failsafe' = FALSE /\ coolTicks' = 0 /\ failsafe
    BY <1>6 DEF Leave
  <2>4. currentPct = FailsafeDuty /\ FailsafeDuty \in Int /\ FailsafeDuty # NoDuty
    BY <1>1, <2>3
  <2>5. 0 \in 0 .. RecoverTicks - 1
    OBVIOUS
  <2>6. /\ currentPct' \in MinDuty .. FailsafeDuty
        /\ currentPct' >= currentPct - DownSlew
        /\ \A z \in Zone : /\ lastTemp'[z] # NoReading
                           /\ lastTemp'[z] < Critical[z]
                           /\ RawDuty[z][lastTemp'[z]] <= currentPct'
    BY <1>2, <2>2, <2>3, <2>4
  <2> QED BY <2>3, <2>5, <2>6, Zenon
<1>7. CASE Regulate(reading, rpm)
  <2>1. ~ReadingAlarm(reading)
    BY <1>7 DEF Regulate, Alarm
  <2>2. LET pct == Slew(currentPct, Clamp(Demand(reading)))
        IN  /\ pct \in MinDuty .. FailsafeDuty
            /\ currentPct # NoDuty => pct >= currentPct - DownSlew
            /\ \A z \in Zone : /\ ZoneTemp(reading, z) # NoReading
                               /\ ZoneTemp(reading, z) < Critical[z]
                               /\ RawDuty[z][ZoneTemp(reading, z)] <= pct
    BY <1>1, <1>3, <2>1, RegulatedDuty
  <2> QED BY <1>1, <1>2, <1>3, <1>7, <2>2 DEF Regulate
<1> QED BY <1>4, <1>5, <1>6, <1>7 DEF Tick, Decide

LEMMA TickInvariant ==
  ASSUME IInv, NEW reading \in Reading, NEW rpm \in Rpm, Tick(reading, rpm)
  PROVE  IInv'
<1>1. TypeOK
  BY DEF IInv
<1>2. Sample(reading) /\ ReadFans(rpm) /\ duty' = currentPct' /\ phase' = "running"
  BY DEF Tick
<1>3. currentPct' \in Duty
  BY DecideInvariant, ConfigAssumption DEF ConfigAssumption, Duty
<1>4. TypeOK'
  BY <1>1, <1>2, <1>3, SampleType, ReadFansType, DecideInvariant DEF TypeOK
<1> QED BY <1>2, <1>4, DecideInvariant
        DEF IInv, QuietOutside, FailsafeInForce, HoldsDecision, CoversDemand, Ticked

LEMMA NextIInv == IInv /\ [Next]_vars => IInv'
<1> SUFFICES ASSUME IInv, [Next]_vars PROVE IInv'
  OBVIOUS
<1> USE ConfigAssumption DEF ConfigAssumption
<1>0. TypeOK /\ duty \in Duty \cup {NoDuty} /\ FailsafeDuty \in Duty
  BY DEF IInv, TypeOK, Duty
<1>1. CASE TickStep
  BY <1>1, TickInvariant DEF TickStep
<1>2. CASE Hold
  <2>1. currentPct = 0 => MinDuty = 0
    BY <1>0 DEF TypeOK
  <2>2. HoldDuty = currentPct
    BY <2>1 DEF HoldDuty
  <2> QED BY <1>2, <2>2
          DEF Hold, IInv, TypeOK, QuietOutside, FailsafeInForce, HoldsDecision,
              CoversDemand, Ticked, memory, zoneVars, fanVars, modeVars, Duty
<1>3. CASE TickRaises
  BY <1>0, <1>3, ForgetType
     DEF TickRaises, IInv, QuietOutside, FailsafeInForce, HoldsDecision, CoversDemand, Ticked
<1>4. CASE Die
  BY <1>0, <1>4, ForgetType
     DEF Die, IInv, QuietOutside, FailsafeInForce, HoldsDecision, CoversDemand, Ticked
<1>5. CASE StopPost
  BY <1>0, <1>5
     DEF StopPost, IInv, TypeOK, QuietOutside, FailsafeInForce, HoldsDecision,
         CoversDemand, Ticked, memory, zoneVars, fanVars, modeVars
<1>6. CASE CleanStop
  BY <1>0, <1>6, ForgetType
     DEF CleanStop, IInv, QuietOutside, FailsafeInForce, HoldsDecision, CoversDemand, Ticked
<1>7. CASE Start
  BY <1>7
     DEF Start, IInv, TypeOK, QuietOutside, FailsafeInForce, HoldsDecision,
         CoversDemand, Ticked, memory, zoneVars, fanVars, modeVars
<1>8. CASE UNCHANGED vars
  BY <1>8
     DEF vars, IInv, TypeOK, QuietOutside, FailsafeInForce, HoldsDecision,
         CoversDemand, Ticked, memory, zoneVars, fanVars, modeVars
<1> QED BY <1>1, <1>2, <1>3, <1>4, <1>5, <1>6, <1>7, <1>8 DEF Next

LEMMA Invariance == Spec => []IInv
BY InitIInv, NextIInv, PTL DEF Spec

-----------------------------------------------------------------------------
(* Every variable of the loop keeps its type. *)
THEOREM TypeCorrect == Spec => []TypeOK
<1>1. IInv => TypeOK
  BY DEF IInv
<1> QED BY <1>1, Invariance, PTL

(* A regulating daemon always covers what every zone's curve asks for at    *)
(* the temperature just read.                                               *)
THEOREM DemandCovered == Spec => []CoversDemand
<1>1. IInv => CoversDemand
  BY DEF IInv
<1> QED BY <1>1, Invariance, PTL

(* While in failsafe the channels carry the failsafe duty. *)
THEOREM FailsafeHeld == Spec => []FailsafeInForce
<1>1. IInv => FailsafeInForce
  BY DEF IInv
<1> QED BY <1>1, Invariance, PTL

(* The hold loop re-asserts exactly the last decision. *)
THEOREM DecisionHeld == Spec => []HoldsDecision
<1>1. IInv => HoldsDecision
  BY DEF IInv
<1> QED BY <1>1, Invariance, PTL

(* No two consecutive decisions of one daemon are more than DownSlew apart  *)
(* downwards.                                                               *)
THEOREM StepDownBounded == Spec => BoundedStepDown
<1>1. ASSUME IInv, [Next]_vars
      PROVE  [Ticked /\ phase' = "running" => currentPct' >= currentPct - DownSlew]_vars
  <2> SUFFICES ASSUME Ticked, phase' = "running"
               PROVE  currentPct' >= currentPct - DownSlew \/ UNCHANGED vars
    OBVIOUS
  <2>1. currentPct \in Int /\ DownSlew \in Nat
    BY <1>1, ConfigAssumption DEF IInv, TypeOK, Ticked, ConfigAssumption
  <2>2. CASE TickStep
    BY <1>1, <2>2, DecideInvariant DEF TickStep, Ticked
  <2>3. CASE Hold
    BY <2>1, <2>3 DEF Hold, memory, modeVars
  <2>4. CASE TickRaises \/ Die \/ StopPost \/ CleanStop \/ Start
    BY <2>4 DEF TickRaises, Die, StopPost, CleanStop, Start, Ticked
  <2> QED BY <1>1, <2>2, <2>3, <2>4 DEF Next
<1> QED BY <1>1, Invariance, PTL DEF Spec, BoundedStepDown

-----------------------------------------------------------------------------
(* Seen through its mode, its duty and its count of clean ticks, every step *)
(* of the loop is a step of the abstract policy.                            *)
LEMMA TickIsPolicy ==
  ASSUME IInv, NEW reading \in Reading, NEW rpm \in Rpm, Tick(reading, rpm)
  PROVE  Policy!Next
<1>1. phase = "running" /\ phase' = "running"
  BY DEF Tick
<1>2. /\ failsafe \in BOOLEAN /\ coolTicks \in 0 .. RecoverTicks - 1
      /\ failsafe => currentPct = FailsafeDuty
      /\ RecoverTicks \in Nat /\ FailsafeDuty \in Int /\ NoDuty \notin Int
  BY <1>1, ConfigAssumption DEF ConfigAssumption, IInv, TypeOK, FailsafeInForce
<1>3. /\ coolTicks' \in 0 .. RecoverTicks - 1
      /\ currentPct' \in MinDuty .. FailsafeDuty
      /\ currentPct # NoDuty => currentPct' >= currentPct - DownSlew
  BY DecideInvariant
<1>4. CASE Trip(reading, rpm)
  <2>1. Policy!Trip
    BY <1>1, <1>4 DEF Trip, Policy!Trip, PolicyMode
  <2> QED BY <2>1 DEF Policy!Next
<1>5. CASE Linger(reading, rpm)
  <2>1. coolTicks' \in {0, coolTicks + 1} /\ coolTicks' < RecoverTicks
    BY <1>2, <1>3, <1>5 DEF Linger
  <2>2. Policy!Linger
    BY <1>1, <1>2, <1>5, <2>1 DEF Linger, Policy!Linger, PolicyMode
  <2> QED BY <2>2 DEF Policy!Next
<1>6. CASE Leave(reading, rpm)
  <2>1. coolTicks + 1 >= RecoverTicks /\ failsafe /\ ~failsafe' /\ coolTicks' = 0
    BY <1>6 DEF Leave, Recovered
  <2>2. currentPct' >= FailsafeDuty - DownSlew
    BY <1>2, <1>3, <2>1
  <2>3. Policy!Leave
    BY <1>1, <1>3, <2>1, <2>2 DEF Policy!Leave, PolicyMode
  <2> QED BY <2>3 DEF Policy!Next
<1>7. CASE Regulate(reading, rpm)
  <2>1. Policy!Regulate
    BY <1>1, <1>3, <1>7 DEF Regulate, Policy!Regulate, PolicyMode
  <2> QED BY <2>1 DEF Policy!Next
<1> QED BY <1>4, <1>5, <1>6, <1>7 DEF Tick, Decide

LEMMA NextIsPolicy ==
  ASSUME IInv, [Next]_vars
  PROVE  [Policy!Next]_<<PolicyMode, currentPct, coolTicks>>
<1>0. phase # "running" => currentPct = NoDuty /\ coolTicks = 0 /\ ~failsafe
  BY DEF IInv, QuietOutside
<1>1. CASE TickStep
  BY <1>1, TickIsPolicy DEF TickStep
<1>2. CASE Hold
  BY <1>2 DEF Hold, memory, modeVars, PolicyMode
<1>3. CASE TickRaises \/ Die \/ CleanStop
  <2>1. /\ phase = "running" /\ phase' # "running"
        /\ currentPct' = NoDuty /\ coolTicks' = 0
    BY <1>3 DEF TickRaises, Die, CleanStop, Forget
  <2>2. Policy!End
    BY <2>1 DEF Policy!End, PolicyMode
  <2> QED BY <2>2 DEF Policy!Next
<1>4. CASE StopPost
  BY <1>4 DEF StopPost, memory, modeVars, PolicyMode
<1>5. CASE Start
  <2>1. /\ phase # "running" /\ phase' = "running" /\ ~failsafe
        /\ UNCHANGED <<failsafe, currentPct, coolTicks>>
    BY <1>0, <1>5 DEF Start, memory, modeVars
  <2>2. Policy!Begin
    BY <2>1 DEF Policy!Begin, PolicyMode
  <2> QED BY <2>2 DEF Policy!Next
<1>6. CASE UNCHANGED vars
  BY <1>6 DEF vars, memory, modeVars, PolicyMode
<1> QED BY <1>1, <1>2, <1>3, <1>4, <1>5, <1>6 DEF Next

(* The control loop implements FanPolicy. *)
THEOREM LoopImplementsPolicy == Spec => ImplementsPolicy
<1>1. Init => Policy!Init
  BY DEF Init, Fresh, Policy!Init, PolicyMode
<1>2. IInv /\ [Next]_vars => [Policy!Next]_<<PolicyMode, currentPct, coolTicks>>
  BY NextIsPolicy
<1> QED BY <1>1, <1>2, Invariance, PTL
        DEF Spec, ImplementsPolicy, Policy!Spec, Policy!policyVars

-----------------------------------------------------------------------------
(* The log.  Entry is what it keeps of a tick. *)
Entry == [reading : Reading, rpm : Rpm]

LogOK == log \in Seq(Entry) /\ Len(log) <= Window

(* What Remember does to the log: new ends with entry, and keeps what old   *)
(* had, moved by one place when the window is full.                         *)
Moved(old, new) == Len(old) + 1 - Len(new)

Grown(old, new, entry) ==
  /\ old \in Seq(Entry) /\ new \in Seq(Entry) /\ entry \in Entry
  /\ Len(old) <= Window /\ Len(new) <= Window /\ 1 <= Len(new)
  /\ Moved(old, new) \in {0, 1} /\ (Moved(old, new) = 1 => Len(new) = Window)
  /\ new[Len(new)] = entry
  /\ \A i \in 1 .. Len(new) - 1 : new[i] = old[i + Moved(old, new)]

LEMMA RememberGrows ==
  ASSUME LogOK, NEW entry \in Entry
  PROVE  Grown(log, Remember(entry), entry)
<1> DEFINE long == Append(log, entry)
<1>1. /\ log \in Seq(Entry) /\ Len(log) \in Nat /\ Len(log) <= Window
      /\ Window \in Nat /\ 1 <= Window
  BY WindowAssumption, ConfigAssumption DEF WindowAssumption, ConfigAssumption, LogOK
<1>2. /\ long \in Seq(Entry) /\ Len(long) = Len(log) + 1
      /\ long[Len(log) + 1] = entry
      /\ \A i \in 1 .. Len(log) : long[i] = log[i]
  BY <1>1
<1>3. CASE Len(long) > Window
  <2>1. Remember(entry) = Tail(long)
    BY <1>3 DEF Remember
  <2>2. /\ Tail(long) \in Seq(Entry) /\ Len(Tail(long)) = Len(log)
        /\ \A i \in 1 .. Len(log) : Tail(long)[i] = long[i + 1]
    <3> HIDE DEF long
    <3> QED BY <1>1, <1>2
  <2> HIDE DEF long
  <2> QED BY <1>1, <1>2, <1>3, <2>1, <2>2 DEF Grown, Moved
<1>4. CASE ~(Len(long) > Window)
  <2>1. Remember(entry) = long
    BY <1>4 DEF Remember
  <2> HIDE DEF long
  <2> QED BY <1>1, <1>2, <1>4, <2>1 DEF Grown, Moved
<1> QED BY <1>3, <1>4

(* The last n entries are in S ... *)
LastIn(lg, n, S) ==
  n <= Len(lg) /\ \A i \in 1 .. Len(lg) : i > Len(lg) - n => lg[i] \in S

(* ... and n counts all of them, up to SourceFailLimit. *)
Counted(lg, n, S) ==
  LastIn(lg, n, S) /\ (n < SourceFailLimit /\ n < Len(lg) => lg[Len(lg) - n] \notin S)

LEMMA LastInGrows ==
  ASSUME NEW old, NEW new, NEW entry, Grown(old, new, entry),
         NEW S, NEW n \in Nat, LastIn(old, n, S), entry \in S, n + 1 <= Window
  PROVE  LastIn(new, n + 1, S)
<1>1. Len(old) \in Nat /\ Len(new) \in Nat /\ Window \in Nat
  BY WindowAssumption DEF WindowAssumption, Grown
<1>2. n + 1 <= Len(new)
  BY <1>1 DEF Grown, LastIn, Moved
<1>3. ASSUME NEW i \in 1 .. Len(new), i > Len(new) - (n + 1)
      PROVE  new[i] \in S
  <2>1. CASE i = Len(new)
    BY <2>1 DEF Grown
  <2>2. CASE i # Len(new)
    <3> DEFINE k == i + Moved(old, new)
    <3>1. i \in 1 .. Len(new) - 1 /\ k \in 1 .. Len(old) /\ k > Len(old) - n
      BY <1>1, <1>3, <2>2 DEF Grown, Moved
    <3>2. old[k] \in S
      BY <3>1 DEF LastIn
    <3>3. new[i] = old[k]
      BY <3>1 DEF Grown
    <3> QED BY <3>2, <3>3
  <2> QED BY <2>1, <2>2
<1> QED BY <1>2, <1>3 DEF LastIn

LEMMA CountedGrows ==
  ASSUME NEW old, NEW new, NEW entry, Grown(old, new, entry),
         NEW S, NEW n \in 0 .. SourceFailLimit, Counted(old, n, S)
  PROVE  Counted(new, IF entry \in S THEN CountUp(n, SourceFailLimit) ELSE 0, S)
<1>1. /\ Len(old) \in Nat /\ Len(new) \in Nat /\ Window \in Nat
      /\ SourceFailLimit \in Nat \ {0} /\ SourceFailLimit < Window
  BY WindowAssumption, ConfigAssumption DEF WindowAssumption, ConfigAssumption, Grown
<1>2. CASE entry \notin S
  BY <1>1, <1>2 DEF Counted, LastIn, Grown
<1>3. CASE entry \in S /\ n < SourceFailLimit
  <2>1. LastIn(new, n + 1, S)
    BY <1>1, <1>3, LastInGrows DEF Counted
  <2>2. ASSUME n + 1 < SourceFailLimit, n + 1 < Len(new)
        PROVE  new[Len(new) - (n + 1)] \notin S
    <3>1. /\ Len(new) - (n + 1) \in 1 .. Len(new) - 1
          /\ Len(new) - (n + 1) + Moved(old, new) = Len(old) - n
          /\ n < Len(old)
      BY <1>1, <2>2 DEF Grown, Moved
    <3>2. new[Len(new) - (n + 1)] = old[Len(old) - n]
      BY <3>1 DEF Grown
    <3> QED BY <1>3, <3>1, <3>2 DEF Counted
  <2> QED BY <1>3, <2>1, <2>2 DEF Counted, CountUp
<1>4. CASE entry \in S /\ n = SourceFailLimit
  <2>1. LastIn(old, n - 1, S) /\ n - 1 \in Nat /\ (n - 1) + 1 = n
    BY <1>1, <1>4 DEF Counted, LastIn
  <2>2. LastIn(new, n, S)
    BY <1>1, <1>4, <2>1, LastInGrows
  <2> QED BY <1>4, <2>2 DEF Counted, CountUp
<1> QED BY <1>1, <1>2, <1>3, <1>4

-----------------------------------------------------------------------------
(* What the log says and what the controller remembers agree. *)
NoReadingOf(s) == {e \in Entry : e.reading[s] = NoReading}
NoRpmOf(f)     == {e \in Entry : e.rpm[f] = "missing"}
CleanEntries   == {e \in Entry : Clean(e)}

(* Stall evidence in the log is in the strikes; and the strike of a fan     *)
(* stands in the log just before its missing readings, until those are too  *)
(* many to go back.                                                         *)
LowSince(lg, f, i) == lg[i].rpm[f] = "low" /\ \A k \in i .. Len(lg) : lg[k].rpm[f] # "healthy"

StrikesSeen(f) ==
  /\ \A i \in 1 .. Len(log) : LowSince(log, f, i) => strikes[f] >= 1
  /\ \A i, j \in 1 .. Len(log) :
       i < j /\ LowSince(log, f, i) /\ log[j].rpm[f] = "low" => strikes[f] >= 2

StrikeLogged(f) ==
  strikes[f] >= 1 /\ fanFails[f] < SourceFailLimit =>
    fanFails[f] < Len(log) /\ log[Len(log) - fanFails[f]].rpm[f] = "low"

FanRemembered(f) ==
  /\ Counted(log, fanFails[f], NoRpmOf(f)) /\ StrikesSeen(f) /\ StrikeLogged(f)
  /\ ~failsafe => fanFails[f] < SourceFailLimit /\ strikes[f] < 2

SourceRemembered(s) ==
  /\ Counted(log, failCount[s], NoReadingOf(s))
  /\ ~failsafe => failCount[s] < SourceFailLimit

HInv ==
  /\ IInv /\ LogOK /\ (phase # "running" => log = <<>>)
  /\ \A s \in Source : SourceRemembered(s)
  /\ \A f \in Fan : FanRemembered(f)
  /\ LastIn(log, coolTicks, CleanEntries)
  /\ TroubleForcesFailsafe

(* Alarm, read off the log entry of the tick. *)
LEMMA AlarmIsInEntry ==
  ASSUME NEW reading \in Reading, NEW rpm \in Rpm
  PROVE  LET entry == [reading |-> reading, rpm |-> rpm]
         IN  /\ Blind(entry) <=> \E z \in Zone : ZoneTemp(reading, z) = NoReading
             /\ Overheated(entry) <=>
                  \E z \in Zone : /\ ZoneTemp(reading, z) # NoReading
                                  /\ ZoneTemp(reading, z) >= Critical[z]
<1> DEFINE entry == [reading |-> reading, rpm |-> rpm]
<1>0. MinTemp \in Int /\ MaxTemp \in Int /\ NoReading \notin Int /\ Critical \in [Zone -> Int]
  BY ConfigAssumption DEF ConfigAssumption
<1>1. ASSUME NEW z \in Zone
      PROVE  /\ ZoneReadings(entry, z) = Valid(reading, z)
             /\ Valid(reading, z) = {} <=> ZoneTemp(reading, z) = NoReading
             /\ (\E t \in Valid(reading, z) : t >= Critical[z]) <=>
                  ZoneTemp(reading, z) # NoReading /\ ZoneTemp(reading, z) >= Critical[z]
  <2>1. ZoneReadings(entry, z) = Valid(reading, z)
    BY DEF ZoneReadings, Valid
  <2>2. Valid(reading, z) \subseteq MinTemp .. MaxTemp
    BY DEF Valid, Reading, Temp
  <2>3. CASE Valid(reading, z) = {}
    BY <2>1, <2>3 DEF ZoneTemp
  <2>4. CASE Valid(reading, z) # {}
    <3>1. /\ ZoneTemp(reading, z) \in Valid(reading, z)
          /\ \A t \in Valid(reading, z) : t <= ZoneTemp(reading, z)
      BY <1>0, <2>2, <2>4, BoundedMax DEF ZoneTemp
    <3>2. ZoneTemp(reading, z) \in Int /\ Critical[z] \in Int
      BY <1>0, <2>2, <3>1
    <3>3. \A t \in Valid(reading, z) : t \in Int
      BY <1>0, <2>2
    <3> QED BY <1>0, <2>1, <2>4, <3>1, <3>2, <3>3
  <2> QED BY <2>3, <2>4
<1>2. Blind(entry) <=> \E z \in Zone : ZoneTemp(reading, z) = NoReading
  BY <1>1 DEF Blind
<1>3. Overheated(entry) <=> \E z \in Zone : /\ ZoneTemp(reading, z) # NoReading
                                            /\ ZoneTemp(reading, z) >= Critical[z]
  <2> HIDE DEF entry
  <2> QED BY <1>1 DEF Overheated
<1> QED BY <1>2, <1>3

(* A tick's decision, in the terms the log is read in. *)
LEMMA DecisionSeen ==
  ASSUME IInv, NEW reading \in Reading, NEW rpm \in Rpm, Tick(reading, rpm)
  PROVE  LET entry == [reading |-> reading, rpm |-> rpm]
         IN  /\ Alarm(reading, rpm) <=>
                  \/ Blind(entry) \/ Overheated(entry)
                  \/ \E s \in Source : failCount'[s] >= SourceFailLimit
                  \/ \E f \in Fan : fanFails'[f] >= SourceFailLimit \/ strikes'[f] >= 2
             /\ Alarm(reading, rpm) => failsafe' /\ coolTicks' = 0
             /\ ~Alarm(reading, rpm) => ~failsafe' \/ failsafe
             /\ coolTicks' # 0 => Clean(entry) /\ coolTicks' = coolTicks + 1
             /\ failsafe /\ ~failsafe' => Clean(entry) /\ coolTicks + 1 >= RecoverTicks
<1> DEFINE entry == [reading |-> reading, rpm |-> rpm]
<1>1. failCount' = FailCountAfter(reading) /\ fanFails' = FanFailsAfter(rpm)
        /\ strikes' = StrikesAfter(rpm)
  BY DEF Tick, Sample, ReadFans
<1>2. /\ Blind(entry) <=> \E z \in Zone : ZoneTemp(reading, z) = NoReading
      /\ Overheated(entry) <=>
           \E z \in Zone : /\ ZoneTemp(reading, z) # NoReading
                           /\ ZoneTemp(reading, z) >= Critical[z]
  BY AlarmIsInEntry
<1>3. Alarm(reading, rpm) <=>
        \/ Blind(entry) \/ Overheated(entry)
        \/ \E s \in Source : failCount'[s] >= SourceFailLimit
        \/ \E f \in Fan : fanFails'[f] >= SourceFailLimit \/ strikes'[f] >= 2
  <2> HIDE DEF entry
  <2> QED BY <1>1, <1>2 DEF Alarm, ReadingAlarm, FanAlarm
<1>4. Decide(reading, rpm) /\ failsafe \in BOOLEAN /\ (~failsafe => coolTicks = 0)
  BY DEF Tick, IInv, TypeOK, QuietOutside
<1>5. ~Alarm(reading, rpm) /\ FansHealthy(rpm) => Clean(entry)
  BY <1>3 DEF Clean, FansHealthy
<1>6. Alarm(reading, rpm) => failsafe' = TRUE /\ coolTicks' = 0
  BY <1>4, Zenon DEF Decide, Trip, Linger, Leave, Regulate
<1>7. ~Alarm(reading, rpm) => failsafe' = FALSE \/ failsafe
  BY <1>4, Zenon DEF Decide, Trip, Linger, Leave, Regulate
<1>8. coolTicks' # 0 =>
        ~Alarm(reading, rpm) /\ FansHealthy(rpm) /\ coolTicks' = coolTicks + 1
  BY <1>4, Zenon DEF Decide, Trip, Linger, Leave, Regulate
<1>9. failsafe /\ ~failsafe' =>
        ~Alarm(reading, rpm) /\ FansHealthy(rpm) /\ coolTicks + 1 >= RecoverTicks
  BY <1>4, Zenon DEF Decide, Trip, Linger, Leave, Regulate, Recovered
<1> HIDE DEF entry
<1>10. /\ Alarm(reading, rpm) => failsafe' /\ coolTicks' = 0
       /\ ~Alarm(reading, rpm) => ~failsafe' \/ failsafe
       /\ coolTicks' # 0 => Clean(entry) /\ coolTicks' = coolTicks + 1
       /\ failsafe /\ ~failsafe' => Clean(entry) /\ coolTicks + 1 >= RecoverTicks
  BY <1>5, <1>6, <1>7, <1>8, <1>9, Zenon
<1> QED BY <1>3, <1>10, Zenon DEF entry

(* A tick that is remembered. *)
LoggedTick(reading, rpm) ==
  Tick(reading, rpm) /\ log' = Remember([reading |-> reading, rpm |-> rpm])

LEMMA LoggedGrows ==
  ASSUME HInv, NEW reading \in Reading, NEW rpm \in Rpm, LoggedTick(reading, rpm)
  PROVE  LET entry == [reading |-> reading, rpm |-> rpm]
         IN  /\ Grown(log, log', entry) /\ entry \in Entry /\ LogOK'
             /\ entry.reading = reading /\ entry.rpm = rpm
<1> DEFINE entry == [reading |-> reading, rpm |-> rpm]
<1>1. entry \in Entry /\ entry.reading = reading /\ entry.rpm = rpm
  BY DEF Entry
<1>2. LogOK /\ log' = Remember(entry)
  BY DEF HInv, LoggedTick
<1> HIDE DEF entry
<1>3. Grown(log, log', entry)
  BY <1>1, <1>2, RememberGrows
<1>4. LogOK'
  BY <1>3 DEF Grown, LogOK
<1> QED BY <1>1, <1>3, <1>4 DEF entry

LEMMA TickCountsSources ==
  ASSUME HInv, NEW reading \in Reading, NEW rpm \in Rpm, LoggedTick(reading, rpm),
         NEW s \in Source
  PROVE  SourceRemembered(s)'
<1> DEFINE entry == [reading |-> reading, rpm |-> rpm]
<1>1. /\ Grown(log, log', entry) /\ entry \in Entry /\ entry.reading = reading
      /\ IInv /\ Tick(reading, rpm)
  BY LoggedGrows DEF HInv, LoggedTick
<1> HIDE DEF entry
<1>2. failCount'[s] = IF entry \in NoReadingOf(s)
                      THEN CountUp(failCount[s], SourceFailLimit) ELSE 0
  BY <1>1 DEF NoReadingOf, Tick, Sample, FailCountAfter
<1>3. failCount[s] \in 0 .. SourceFailLimit /\ Counted(log, failCount[s], NoReadingOf(s))
  BY <1>1 DEF IInv, TypeOK, HInv, SourceRemembered
<1>4. Counted(log', failCount'[s], NoReadingOf(s))
  BY <1>1, <1>2, <1>3, CountedGrows
<1>5. ~failsafe' => failCount'[s] < SourceFailLimit
  <2>1. failCount'[s] >= SourceFailLimit => failsafe'
    BY <1>1, DecisionSeen
  <2>2. failCount'[s] \in Int /\ SourceFailLimit \in Int
    BY <1>1, SampleType, ConfigAssumption DEF ConfigAssumption, IInv, Tick
  <2> QED BY <2>1, <2>2
<1> QED BY <1>4, <1>5 DEF SourceRemembered, NoReadingOf

LEMMA TickCountsFans ==
  ASSUME HInv, NEW reading \in Reading, NEW rpm \in Rpm, LoggedTick(reading, rpm),
         NEW f \in Fan
  PROVE  FanRemembered(f)'
<1> DEFINE entry == [reading |-> reading, rpm |-> rpm]
<1> DEFINE d == Moved(log, log')
<1>1. /\ Grown(log, log', entry) /\ entry \in Entry /\ entry.rpm = rpm
      /\ IInv /\ Tick(reading, rpm)
  BY LoggedGrows DEF HInv, LoggedTick
<1> HIDE DEF entry
<1>2. /\ SourceFailLimit \in Nat \ {0} /\ Window \in Nat /\ SourceFailLimit < Window
      /\ Len(log) \in Nat /\ Len(log') \in Nat
  BY <1>1, WindowAssumption, ConfigAssumption DEF WindowAssumption, ConfigAssumption, Grown
<1>3. /\ fanFails[f] \in 0 .. SourceFailLimit /\ strikes[f] \in 0 .. 2
      /\ FanRemembered(f)
  BY <1>1 DEF IInv, TypeOK, HInv
<1>4. fanFails'[f] = IF entry \in NoRpmOf(f)
                     THEN CountUp(fanFails[f], SourceFailLimit) ELSE 0
  BY <1>1 DEF NoRpmOf, Tick, ReadFans, FanFailsAfter
<1>5. Counted(log', fanFails'[f], NoRpmOf(f))
  BY <1>1, <1>3, <1>4, CountedGrows DEF FanRemembered
<1>6. strikes'[f] = CASE rpm[f] = "missing" -> strikes[f]
                      [] rpm[f] = "low"     -> CountUp(strikes[f], 2)
                      [] rpm[f] = "healthy" -> 0
  BY <1>1 DEF Tick, ReadFans, StrikesAfter
<1>7. rpm[f] \in {"missing", "low", "healthy"} /\ log'[Len(log')].rpm[f] = rpm[f]
  BY <1>1 DEF Rpm, Grown
<1>8. /\ d \in {0, 1} /\ 1 <= Len(log') /\ Len(log') = Len(log) + 1 - d
      /\ d = 1 => Len(log') = Window
      /\ \A i \in 1 .. Len(log') - 1 : i + d \in 1 .. Len(log) /\ log'[i] = log[i + d]
  BY <1>1, <1>2 DEF Grown, Moved
<1> HIDE DEF d
<1>9. ASSUME NEW i \in 1 .. Len(log') - 1, LowSince(log', f, i)
      PROVE  LowSince(log, f, i + d)
  <2>1. log[i + d].rpm[f] = "low"
    BY <1>8, <1>9 DEF LowSince
  <2>2. ASSUME NEW k \in i + d .. Len(log) PROVE log[k].rpm[f] # "healthy"
    <3>1. k - d \in 1 .. Len(log') - 1 /\ k - d \in i .. Len(log') /\ (k - d) + d = k
      BY <1>2, <1>8, <1>9
    <3>2. log'[k - d] = log[k]
      BY <1>8, <3>1
    <3> QED BY <1>9, <3>1, <3>2 DEF LowSince
  <2> QED BY <2>1, <2>2 DEF LowSince
<1>10. StrikesSeen(f)'
  <2>1. ASSUME NEW i \in 1 .. Len(log'), LowSince(log', f, i)
        PROVE  strikes'[f] >= 1
    <3>1. rpm[f] # "healthy"
      BY <1>2, <1>7, <1>8, <2>1 DEF LowSince
    <3>2. CASE i = Len(log')
      BY <1>3, <1>6, <1>7, <2>1, <3>2 DEF LowSince, CountUp
    <3>3. CASE i # Len(log')
      <4>1. LowSince(log, f, i + d) /\ i + d \in 1 .. Len(log)
        BY <1>2, <1>8, <1>9, <2>1, <3>3
      <4>2. strikes[f] >= 1
        BY <1>3, <4>1 DEF FanRemembered, StrikesSeen
      <4> QED BY <1>3, <1>6, <1>7, <3>1, <4>2 DEF CountUp
    <3> QED BY <3>2, <3>3
  <2>2. ASSUME NEW i \in 1 .. Len(log'), NEW j \in 1 .. Len(log'), i < j,
               LowSince(log', f, i), log'[j].rpm[f] = "low"
        PROVE  strikes'[f] >= 2
    <3>1. rpm[f] # "healthy"
      BY <1>2, <1>7, <1>8, <2>2 DEF LowSince
    <3>2. i \in 1 .. Len(log') - 1
      BY <1>2, <2>2
    <3>3. LowSince(log, f, i + d) /\ i + d \in 1 .. Len(log)
      BY <1>8, <1>9, <2>2, <3>2
    <3>4. strikes[f] >= 1
      BY <1>3, <3>3 DEF FanRemembered, StrikesSeen
    <3>5. CASE j = Len(log')
      BY <1>3, <1>6, <1>7, <2>2, <3>4, <3>5 DEF CountUp
    <3>6. CASE j # Len(log')
      <4>1. j + d \in 1 .. Len(log) /\ log[j + d].rpm[f] = "low" /\ i + d < j + d
        <5>1. j \in 1 .. Len(log') - 1
          BY <1>2, <3>6
        <5>2. j + d \in 1 .. Len(log) /\ log'[j] = log[j + d]
          BY <1>8, <5>1
        <5>3. i \in Int /\ j \in Int /\ d \in Int /\ i < j
          BY <1>2, <1>8, <2>2
        <5> QED BY <2>2, <5>2, <5>3
      <4>2. strikes[f] >= 2
        BY <1>3, <3>3, <4>1 DEF FanRemembered, StrikesSeen
      <4> QED BY <1>3, <1>6, <1>7, <3>1, <4>2 DEF CountUp
    <3> QED BY <3>5, <3>6
  <2> QED BY <2>1, <2>2 DEF StrikesSeen
<1>11. StrikeLogged(f)'
  <2> SUFFICES ASSUME strikes'[f] >= 1, fanFails'[f] < SourceFailLimit
               PROVE  /\ fanFails'[f] < Len(log')
                      /\ log'[Len(log') - fanFails'[f]].rpm[f] = "low"
    BY DEF StrikeLogged
  <2>1. entry \in NoRpmOf(f) <=> rpm[f] = "missing"
    BY <1>1 DEF NoRpmOf
  <2>2. CASE rpm[f] = "low"
    <3>1. fanFails'[f] = 0
      BY <1>4, <2>1, <2>2
    <3> QED BY <1>2, <1>7, <1>8, <2>2, <3>1
  <2>3. CASE rpm[f] = "missing"
    <3>1. strikes[f] >= 1 /\ fanFails'[f] = fanFails[f] + 1 /\ fanFails[f] < SourceFailLimit
      BY <1>2, <1>3, <1>4, <1>6, <2>1, <2>3 DEF CountUp
    <3>2. fanFails[f] < Len(log) /\ log[Len(log) - fanFails[f]].rpm[f] = "low"
      BY <1>3, <3>1 DEF FanRemembered, StrikeLogged
    <3>3. /\ fanFails'[f] < Len(log')
          /\ Len(log') - fanFails'[f] \in 1 .. Len(log') - 1
          /\ (Len(log') - fanFails'[f]) + d = Len(log) - fanFails[f]
      <4>1. fanFails[f] \in Nat /\ fanFails[f] + 1 < SourceFailLimit
        BY <1>2, <1>3, <3>1
      <4>2. fanFails[f] + 1 < Len(log')
        <5>1. CASE d = 0
          BY <1>2, <1>8, <3>2, <4>1, <5>1
        <5>2. CASE d = 1
          BY <1>2, <1>8, <4>1, <5>2
        <5> QED BY <1>8, <5>1, <5>2
      <4>3. d \in Int /\ Len(log') = Len(log) + 1 - d
        BY <1>8
      <4> QED BY <1>2, <3>1, <4>1, <4>2, <4>3
    <3>4. log'[Len(log') - fanFails'[f]] = log[Len(log) - fanFails[f]]
      BY <1>8, <3>3
    <3> QED BY <3>2, <3>3, <3>4
  <2>4. CASE rpm[f] = "healthy"
    BY <1>6, <2>4
  <2> QED BY <1>7, <2>2, <2>3, <2>4
<1>12. ~failsafe' => fanFails'[f] < SourceFailLimit /\ strikes'[f] < 2
  <2>1. fanFails'[f] >= SourceFailLimit \/ strikes'[f] >= 2 => failsafe'
    BY <1>1, DecisionSeen
  <2>2. fanFails'[f] \in Int /\ strikes'[f] \in Int
    BY <1>1, ReadFansType DEF IInv, Tick
  <2> QED BY <1>2, <2>1, <2>2
<1> QED BY <1>5, <1>10, <1>11, <1>12 DEF FanRemembered, NoRpmOf

(* A run of SourceFailLimit entries is Silent's, and it is a full counter.  *)
LEMMA SilenceIsCounted ==
  ASSUME NEW lg \in Seq(Entry), NEW S, NEW n \in 0 .. SourceFailLimit, Counted(lg, n, S)
  PROVE  LastIn(lg, SourceFailLimit, S) <=> n >= SourceFailLimit
<1>1. Len(lg) \in Nat /\ SourceFailLimit \in Nat \ {0}
  BY ConfigAssumption DEF ConfigAssumption
<1>2. CASE n = SourceFailLimit
  BY <1>1, <1>2 DEF Counted
<1>3. CASE n < SourceFailLimit
  <2> SUFFICES ASSUME LastIn(lg, SourceFailLimit, S) PROVE FALSE
    BY <1>1, <1>3
  <2>1. n < Len(lg) /\ Len(lg) - n \in 1 .. Len(lg) /\ Len(lg) - n > Len(lg) - SourceFailLimit
    BY <1>1, <1>3 DEF LastIn
  <2> QED BY <1>3, <2>1 DEF Counted, LastIn
<1> QED BY <1>1, <1>2, <1>3

(* Silent after a step, in the terms of the counters. *)
LEMMA SilentIsCounted ==
  ASSUME LogOK', TypeOK', \A s \in Source : SourceRemembered(s)',
         \A f \in Fan : FanRemembered(f)'
  PROVE  Silent' <=> \/ \E s \in Source : failCount'[s] >= SourceFailLimit
                     \/ \E f \in Fan : fanFails'[f] >= SourceFailLimit
<1>1. /\ log' \in Seq(Entry) /\ DOMAIN log' = 1 .. Len(log') /\ Len(log') \in Nat
      /\ SourceFailLimit \in Nat
  BY ConfigAssumption DEF ConfigAssumption, LogOK
<1>2. \A i \in 1 .. Len(log') : log'[i] \in Entry
  BY <1>1
<1>3. ASSUME NEW s \in Source
      PROVE  (/\ Len(log') >= SourceFailLimit
              /\ \A e \in Latest(SourceFailLimit)' : e.reading[s] = NoReading)
               <=> failCount'[s] >= SourceFailLimit
  <2>1. LastIn(log', SourceFailLimit, NoReadingOf(s)) <=>
          /\ Len(log') >= SourceFailLimit
          /\ \A e \in Latest(SourceFailLimit)' : e.reading[s] = NoReading
    BY <1>1, <1>2 DEF LastIn, Latest, NoReadingOf
  <2>2. Counted(log', failCount'[s], NoReadingOf(s)) /\ failCount'[s] \in 0 .. SourceFailLimit
    BY DEF SourceRemembered, TypeOK, NoReadingOf
  <2> QED BY <1>1, <2>1, <2>2, SilenceIsCounted
<1>4. ASSUME NEW f \in Fan
      PROVE  (/\ Len(log') >= SourceFailLimit
              /\ \A e \in Latest(SourceFailLimit)' : e.rpm[f] = "missing")
               <=> fanFails'[f] >= SourceFailLimit
  <2>1. LastIn(log', SourceFailLimit, NoRpmOf(f)) <=>
          /\ Len(log') >= SourceFailLimit
          /\ \A e \in Latest(SourceFailLimit)' : e.rpm[f] = "missing"
    BY <1>1, <1>2 DEF LastIn, Latest, NoRpmOf
  <2>2. Counted(log', fanFails'[f], NoRpmOf(f)) /\ fanFails'[f] \in 0 .. SourceFailLimit
    BY DEF FanRemembered, TypeOK, NoRpmOf
  <2> QED BY <1>1, <2>1, <2>2, SilenceIsCounted
<1> QED BY <1>3, <1>4, Zenon DEF Silent

(* Stalled shows in the strikes. *)
LEMMA StallIsCounted ==
  ASSUME LogOK', \A f \in Fan : StrikesSeen(f)'
  PROVE  Stalled' => \E f \in Fan : strikes'[f] >= 2
<1> SUFFICES ASSUME NEW f \in Fan, NEW i \in DOMAIN log', NEW j \in DOMAIN log',
                    i < j, log'[i].rpm[f] = "low", log'[j].rpm[f] = "low",
                    \A k \in i .. Len(log') : log'[k].rpm[f] # "healthy"
             PROVE  strikes'[f] >= 2
  BY DEF Stalled
<1>1. i \in 1 .. Len(log') /\ j \in 1 .. Len(log')
  BY DEF LogOK
<1> QED BY <1>1 DEF StrikesSeen, LowSince

(* Two strikes of a fan that was not yet stalled are in the log. *)
LEMMA StrikesAreLogged ==
  ASSUME HInv, NEW reading \in Reading, NEW rpm \in Rpm, LoggedTick(reading, rpm),
         ~failsafe, NEW f \in Fan, strikes'[f] >= 2
  PROVE  Stalled'
<1> DEFINE entry == [reading |-> reading, rpm |-> rpm]
<1> DEFINE d == Moved(log, log')
<1>1. /\ Grown(log, log', entry) /\ entry.rpm = rpm
      /\ IInv /\ Tick(reading, rpm) /\ LogOK /\ LogOK'
  BY LoggedGrows DEF HInv, LoggedTick
<1> HIDE DEF entry
<1>2. /\ SourceFailLimit \in Nat \ {0} /\ Window \in Nat /\ SourceFailLimit < Window
      /\ Len(log) \in Nat /\ Len(log') \in Nat
      /\ DOMAIN log' = 1 .. Len(log')
  BY <1>1, WindowAssumption, ConfigAssumption DEF WindowAssumption, ConfigAssumption, Grown
<1>3. /\ fanFails[f] \in Nat /\ fanFails[f] < SourceFailLimit /\ strikes[f] \in 0 .. 1
      /\ FanRemembered(f)
  BY <1>1 DEF IInv, TypeOK, HInv, FanRemembered
<1>4. /\ d \in {0, 1} /\ 1 <= Len(log') /\ Len(log') = Len(log) + 1 - d
      /\ d = 1 => Len(log') = Window
      /\ \A i \in 1 .. Len(log') - 1 : log'[i] = log[i + d]
      /\ log'[Len(log')].rpm = rpm
  <2>1. log'[Len(log')] = entry
    BY <1>1 DEF Grown
  <2>2. /\ d \in {0, 1} /\ 1 <= Len(log') /\ (d = 1 => Len(log') = Window)
        /\ \A i \in 1 .. Len(log') - 1 : log'[i] = log[i + d]
    BY <1>1 DEF Grown
  <2>3. Len(log') = Len(log) + 1 - d
    BY <1>2 DEF Moved
  <2> QED BY <1>1, <2>1, <2>2, <2>3
<1> HIDE DEF d
<1>5. strikes'[f] = CASE rpm[f] = "missing" -> strikes[f]
                      [] rpm[f] = "low"     -> CountUp(strikes[f], 2)
                      [] rpm[f] = "healthy" -> 0
  BY <1>1 DEF Tick, ReadFans, StrikesAfter
<1>6. rpm[f] \in {"missing", "low", "healthy"}
  BY DEF Rpm
<1>7. rpm[f] = "low" /\ strikes[f] = 1
  BY <1>3, <1>5, <1>6 DEF CountUp
<1>8. /\ fanFails[f] < Len(log) /\ log[Len(log) - fanFails[f]].rpm[f] = "low"
      /\ \A k \in 1 .. Len(log) : k > Len(log) - fanFails[f] => log[k].rpm[f] = "missing"
  BY <1>3, <1>7 DEF FanRemembered, StrikeLogged, Counted, LastIn, NoRpmOf
<1> DEFINE i == Len(log') - 1 - fanFails[f]
<1>9. /\ i \in 1 .. Len(log') - 1 /\ i + d = Len(log) - fanFails[f]
  <2>1. fanFails[f] + 1 < Len(log')
    <3>0. /\ fanFails[f] \in Nat /\ Len(log) \in Nat /\ Len(log') \in Nat
          /\ Len(log') = Len(log) + 1 - d /\ fanFails[f] < Len(log)
      BY <1>2, <1>3, <1>4, <1>8
    <3>1. CASE d = 0
      BY <3>0, <3>1
    <3>2. CASE d = 1
      <4>1. /\ Len(log') = Window /\ fanFails[f] < SourceFailLimit
            /\ SourceFailLimit \in Nat /\ Window \in Nat /\ SourceFailLimit < Window
        BY <1>2, <1>3, <1>4, <3>2
      <4> QED BY <3>0, <4>1
    <3> QED BY <1>4, <3>1, <3>2
  <2>2. /\ d \in Int /\ fanFails[f] \in Nat /\ Len(log) \in Int /\ Len(log') \in Int
        /\ Len(log') = Len(log) + 1 - d
    BY <1>2, <1>3, <1>4
  <2>3. i \in Int /\ 1 <= i /\ i <= Len(log') - 1 /\ i + d = Len(log) - fanFails[f]
    BY <2>1, <2>2
  <2> HIDE DEF i
  <2> QED BY <2>2, <2>3
<1> HIDE DEF i
<1>10. log'[i].rpm[f] = "low"
  BY <1>4, <1>8, <1>9
<1>11. ASSUME NEW k \in i .. Len(log') PROVE log'[k].rpm[f] # "healthy"
  <2>1. CASE k = Len(log')
    BY <1>4, <1>7, <2>1
  <2>2. CASE k = i
    BY <1>10, <2>2
  <2>3. CASE k # i /\ k # Len(log')
    <3>1. k \in 1 .. Len(log') - 1 /\ k + d \in 1 .. Len(log) /\ k + d > Len(log) - fanFails[f]
      BY <1>2, <1>3, <1>4, <1>9, <2>3
    <3> QED BY <1>4, <1>8, <3>1
  <2> QED BY <2>1, <2>2, <2>3
<1>12. i \in DOMAIN log' /\ Len(log') \in DOMAIN log' /\ i < Len(log')
  BY <1>2, <1>4, <1>9
<1>13. log'[Len(log')].rpm[f] = "low"
  BY <1>4, <1>7
<1> QED BY <1>10, <1>11, <1>12, <1>13 DEF Stalled

(* Trouble in the log and the failsafe decision of a tick. *)
LEMMA TickMeetsTrouble ==
  ASSUME HInv, NEW reading \in Reading, NEW rpm \in Rpm, LoggedTick(reading, rpm)
  PROVE  /\ Trouble' => failsafe'
         /\ ~failsafe /\ failsafe' => Trouble'
<1> DEFINE entry == [reading |-> reading, rpm |-> rpm]
<1>1. /\ Grown(log, log', entry) /\ LogOK' /\ IInv /\ TypeOK' /\ Tick(reading, rpm)
  BY LoggedGrows, TickInvariant DEF HInv, LoggedTick, IInv
<1>2. /\ Alarm(reading, rpm) <=>
           \/ Blind(entry) \/ Overheated(entry)
           \/ \E s \in Source : failCount'[s] >= SourceFailLimit
           \/ \E f \in Fan : fanFails'[f] >= SourceFailLimit \/ strikes'[f] >= 2
      /\ Alarm(reading, rpm) => failsafe'
      /\ ~Alarm(reading, rpm) => ~failsafe' \/ failsafe
  BY <1>1, DecisionSeen
<1> HIDE DEF entry
<1>3. log' # <<>> /\ log'[Len(log')] = entry
  BY <1>1 DEF Grown
<1>4. Silent' <=> \/ \E s \in Source : failCount'[s] >= SourceFailLimit
                  \/ \E f \in Fan : fanFails'[f] >= SourceFailLimit
  <2>1. /\ \A s \in Source : SourceRemembered(s)'
        /\ \A f \in Fan : FanRemembered(f)'
    BY TickCountsSources, TickCountsFans
  <2> QED BY <1>1, <2>1, SilentIsCounted
<1>5. Stalled' => \E f \in Fan : strikes'[f] >= 2
  <2>1. \A f \in Fan : StrikesSeen(f)'
    BY TickCountsFans DEF FanRemembered
  <2> QED BY <1>1, <2>1, StallIsCounted
<1>6. Blind(entry)' = Blind(entry) /\ Overheated(entry)' = Overheated(entry)
  BY DEF Blind, Overheated, ZoneReadings, entry
<1>7. Trouble' <=> Blind(entry) \/ Overheated(entry) \/ Silent' \/ Stalled'
  BY <1>3, <1>6 DEF Trouble, Blind, Overheated, ZoneReadings
<1>8. ~failsafe => \A f \in Fan : strikes'[f] >= 2 => Stalled'
  BY StrikesAreLogged
<1> QED BY <1>2, <1>4, <1>5, <1>7, <1>8, Zenon

LEMMA TickKeepsClean ==
  ASSUME HInv, NEW reading \in Reading, NEW rpm \in Rpm, LoggedTick(reading, rpm)
  PROVE  /\ LastIn(log', coolTicks', CleanEntries)
         /\ failsafe /\ ~failsafe' => LastIn(log', RecoverTicks, CleanEntries)
<1> DEFINE entry == [reading |-> reading, rpm |-> rpm]
<1>1. /\ Grown(log, log', entry) /\ entry \in Entry /\ LogOK'
      /\ IInv /\ Tick(reading, rpm)
  BY LoggedGrows DEF HInv, LoggedTick
<1>2. /\ coolTicks' # 0 => Clean(entry) /\ coolTicks' = coolTicks + 1
      /\ failsafe /\ ~failsafe' => Clean(entry) /\ coolTicks + 1 >= RecoverTicks
  BY <1>1, DecisionSeen
<1> HIDE DEF entry
<1>3. /\ coolTicks \in 0 .. RecoverTicks - 1 /\ RecoverTicks \in Nat \ {0}
      /\ RecoverTicks <= Window /\ Window \in Nat
      /\ LastIn(log, coolTicks, CleanEntries)
  BY <1>1, WindowAssumption, ConfigAssumption
     DEF WindowAssumption, ConfigAssumption, IInv, TypeOK, HInv
<1>4. Clean(entry) => LastIn(log', coolTicks + 1, CleanEntries)
  <2>1. coolTicks \in Nat /\ coolTicks + 1 <= Window
    BY <1>3
  <2>2. Clean(entry) => entry \in CleanEntries
    BY <1>1 DEF CleanEntries
  <2> QED BY <1>1, <1>3, <2>1, <2>2, LastInGrows
<1>5. LastIn(log', 0, CleanEntries)
  BY <1>1 DEF LastIn, LogOK
<1>6. LastIn(log', coolTicks', CleanEntries)
  BY <1>2, <1>4, <1>5
<1>7. failsafe /\ ~failsafe' => coolTicks + 1 = RecoverTicks
  BY <1>2, <1>3
<1> QED BY <1>2, <1>4, <1>6, <1>7

LEMMA TickHInv ==
  ASSUME HInv, NEW reading \in Reading, NEW rpm \in Rpm, LoggedTick(reading, rpm)
  PROVE  HInv'
<1>1. IInv' /\ LogOK' /\ phase' = "running"
  BY TickInvariant, LoggedGrows DEF HInv, LoggedTick, Tick
<1>2. LastIn(log', coolTicks', CleanEntries)
  BY TickKeepsClean
<1>3. TroubleForcesFailsafe'
  BY TickMeetsTrouble DEF TroubleForcesFailsafe
<1>4. /\ \A s \in Source : SourceRemembered(s)'
      /\ \A f \in Fan : FanRemembered(f)'
  BY TickCountsSources, TickCountsFans
<1>5. LastIn(log, coolTicks, CleanEntries)'
  BY <1>2 DEF LastIn, CleanEntries, Clean, Blind, Overheated, ZoneReadings, Entry, Reading, Rpm, Temp
<1> QED BY <1>1, <1>3, <1>4, <1>5 DEF HInv

LEMMA InitHInv == HInit => HInv
<1> SUFFICES ASSUME HInit PROVE HInv
  OBVIOUS
<1> USE WindowAssumption, ConfigAssumption DEF WindowAssumption, ConfigAssumption
<1>1. IInv /\ log = <<>> /\ Len(log) = 0 /\ coolTicks = 0
  BY InitIInv DEF HInit, Init, Fresh
<1>2. \A s \in Source : failCount[s] = 0
  BY DEF HInit, Init, Fresh
<1>3. \A f \in Fan : fanFails[f] = 0 /\ strikes[f] = 0
  BY DEF HInit, Init, Fresh
<1>4. \A s \in Source : SourceRemembered(s)
  BY <1>1, <1>2 DEF SourceRemembered, Counted, LastIn
<1>5. \A f \in Fan : FanRemembered(f)
  BY <1>1, <1>3 DEF FanRemembered, Counted, LastIn, StrikesSeen, StrikeLogged
<1>6. LastIn(log, coolTicks, CleanEntries) /\ LogOK /\ TroubleForcesFailsafe
  BY <1>1 DEF LastIn, LogOK, TroubleForcesFailsafe, Trouble
<1> QED BY <1>1, <1>4, <1>5, <1>6 DEF HInv

(* The end of a daemon empties the log together with the memory. *)
LEMMA EndHInv ==
  ASSUME HInv, HEnd
  PROVE  HInv' /\ ~failsafe' /\ phase' # "running"
<1> USE WindowAssumption, ConfigAssumption DEF WindowAssumption, ConfigAssumption
<1>1. /\ log' = <<>> /\ Len(log') = 0 /\ Forget /\ phase' # "running"
      /\ [Next]_vars /\ IInv
  BY DEF HEnd, TickRaises, Die, CleanStop, Next, HInv
<1>2. IInv'
  BY <1>1, NextIInv
<1>3. coolTicks' = 0 /\ failsafe' = FALSE
  BY <1>1 DEF Forget
<1>4. \A s \in Source : failCount'[s] = 0
  BY <1>1 DEF Forget
<1>5. \A f \in Fan : fanFails'[f] = 0 /\ strikes'[f] = 0
  BY <1>1 DEF Forget
<1>6. \A s \in Source : SourceRemembered(s)'
  BY <1>1, <1>4 DEF SourceRemembered, Counted, LastIn
<1>7. \A f \in Fan : FanRemembered(f)'
  BY <1>1, <1>5 DEF FanRemembered, Counted, LastIn, StrikesSeen, StrikeLogged
<1>8. LastIn(log, coolTicks, CleanEntries)' /\ LogOK' /\ TroubleForcesFailsafe'
  BY <1>1, <1>3 DEF LastIn, LogOK, TroubleForcesFailsafe
<1> QED BY <1>1, <1>2, <1>3, <1>6, <1>7, <1>8 DEF HInv

(* Everything else leaves the log and the memory alone. *)
LEMMA QuietHInv ==
  ASSUME HInv, UNCHANGED <<memory, log>>, [Next]_vars,
         phase = "running" \/ log = <<>>, phase' # "running" => phase # "running"
  PROVE  HInv'
<1>1. IInv' /\ UNCHANGED <<failCount, fanFails, strikes, failsafe, coolTicks, log>>
  BY NextIInv DEF HInv, memory, zoneVars, fanVars, modeVars
<1>2. LogOK' /\ (phase' # "running" => log' = <<>>)
  BY <1>1 DEF HInv, LogOK
<1>3. \A s \in Source : SourceRemembered(s)'
  BY <1>1 DEF HInv, SourceRemembered, Counted, LastIn, NoReadingOf, Entry, Reading, Rpm, Temp
<1>4. \A f \in Fan : FanRemembered(f)'
  <2>1. ASSUME NEW f \in Fan PROVE FanRemembered(f)'
    <3>1. FanRemembered(f)
      BY DEF HInv
    <3> QED BY <1>1, <3>1
            DEF FanRemembered, Counted, LastIn, NoRpmOf, StrikesSeen, LowSince, StrikeLogged
  <2> QED BY <2>1
<1>5. LastIn(log, coolTicks, CleanEntries)'
  BY <1>1 DEF HInv, LastIn, CleanEntries, Clean, Blind, Overheated, ZoneReadings
<1>6. TroubleForcesFailsafe'
  <2>1. CASE log = <<>>
    BY <1>1, <2>1 DEF TroubleForcesFailsafe, Trouble
  <2>2. CASE phase = "running"
    <3>1. Trouble' = Trouble
      BY <1>1 DEF Trouble, Blind, Overheated, ZoneReadings, Silent, Stalled, Latest
    <3> QED BY <1>1, <2>2, <3>1, Zenon DEF HInv, TroubleForcesFailsafe
  <2> QED BY <2>1, <2>2
<1> QED BY <1>1, <1>2, <1>3, <1>4, <1>5, <1>6 DEF HInv

LEMMA NextHInv == HInv /\ [HNext]_historyVars => HInv'
<1> SUFFICES ASSUME HInv, [HNext]_historyVars PROVE HInv'
  OBVIOUS
<1>1. CASE HTick
  BY <1>1, TickHInv DEF HTick, LoggedTick
<1>2. CASE HEnd
  BY <1>2, EndHInv
<1>3. CASE HOther
  <2>1. UNCHANGED <<memory, log>> /\ [Next]_vars
    BY <1>3 DEF HOther, Hold, StopPost, Start, Next
  <2>2. /\ phase = "running" \/ log = <<>>
        /\ phase' # "running" => phase # "running"
    BY <1>3 DEF HOther, Hold, StopPost, Start, HInv
  <2> QED BY <2>1, <2>2, QuietHInv
<1>4. CASE UNCHANGED historyVars
  <2>1. UNCHANGED <<memory, log>> /\ [Next]_vars /\ phase' = phase
    BY <1>4 DEF historyVars, vars
  <2> QED BY <2>1, QuietHInv DEF HInv
<1> QED BY <1>1, <1>2, <1>3, <1>4 DEF HNext

LEMMA HInvariance == HSpec => []HInv
BY InitHInv, NextHInv, PTL DEF HSpec

(* Whenever the log shows trouble, the daemon is in failsafe: its counters  *)
(* lose nothing that the readings say, for any fans, sources and limits.    *)
THEOREM TroubleAnswered == HSpec => []TroubleForcesFailsafe
<1>1. HInv => TroubleForcesFailsafe
  BY DEF HInv
<1> QED BY <1>1, HInvariance, PTL

(* A daemon enters failsafe only for trouble that its log shows. *)
THEOREM FailsafeIsCaused == HSpec => FailsafeHasCause
<1>1. ASSUME HInv, [HNext]_historyVars
      PROVE  [~failsafe /\ failsafe' => Trouble']_historyVars
  <2> SUFFICES ASSUME ~failsafe, failsafe' PROVE Trouble' \/ UNCHANGED historyVars
    OBVIOUS
  <2>1. CASE HTick
    BY <1>1, <2>1, TickMeetsTrouble DEF HTick, LoggedTick
  <2>2. CASE HEnd
    BY <1>1, <2>2, EndHInv
  <2>3. CASE HOther
    BY <2>3 DEF HOther, Hold, StopPost, Start, memory, modeVars
  <2> QED BY <1>1, <2>1, <2>2, <2>3 DEF HNext
<1> QED BY <1>1, HInvariance, PTL DEF HSpec, FailsafeHasCause

(* A running daemon leaves failsafe only after RecoverTicks clean ticks. *)
THEOREM RecoveryIsEarned == HSpec => RecoveryEarned
<1>1. ASSUME HInv, [HNext]_historyVars
      PROVE  [failsafe /\ ~failsafe' /\ phase' = "running" =>
                /\ Len(log') >= RecoverTicks
                /\ \A e \in Latest(RecoverTicks)' : Clean(e)]_historyVars
  <2> SUFFICES ASSUME failsafe, ~failsafe', phase' = "running"
               PROVE  \/ /\ Len(log') >= RecoverTicks
                         /\ \A e \in Latest(RecoverTicks)' : Clean(e)
                      \/ UNCHANGED historyVars
    OBVIOUS
  <2>1. CASE HTick
    <3>1. LastIn(log', RecoverTicks, CleanEntries)
      BY <1>1, <2>1, TickKeepsClean DEF HTick, LoggedTick
    <3>2. LogOK'
      BY <1>1, NextHInv DEF HInv
    <3>3. Len(log') \in Nat /\ DOMAIN log' = 1 .. Len(log') /\ RecoverTicks \in Nat
      BY <3>2, ConfigAssumption DEF ConfigAssumption, LogOK
    <3> QED BY <3>1, <3>3 DEF LastIn, CleanEntries, Latest
  <2>2. CASE HEnd
    BY <1>1, <2>2, EndHInv
  <2>3. CASE HOther
    BY <2>3 DEF HOther, Hold, StopPost, Start, memory, modeVars
  <2> QED BY <1>1, <2>1, <2>2, <2>3 DEF HNext, historyVars, vars, memory, modeVars
<1> QED BY <1>1, HInvariance, PTL DEF HSpec, RecoveryEarned

-----------------------------------------------------------------------------
(* The sensors a tick feeds. *)
LEMMA InjectStepIsHistory == [INext]_ivars => [HNext]_historyVars
BY DEF INext, ivars, ITick, IEnd, IOther, BmcRefresh, HNext

LEMMA IHInvariance == ISpec => []HInv
<1>1. IInit => HInv
  BY InitHInv DEF IInit
<1>2. HInv /\ [INext]_ivars => HInv'
  BY InjectStepIsHistory, NextHInv
<1> QED BY <1>1, <1>2, PTL DEF ISpec

SInv ==
  /\ sensor \in [Sensor -> Temp \cup {NoReading}] /\ fed \subseteq Sensor
  /\ SensorsFollow

LEMMA HottestCovers ==
  ASSUME NEW reading \in Reading, \A z \in Zone : ZoneTemp(reading, z) # NoReading
  PROVE  /\ Hottest(reading) \in Temp
         /\ \A z \in Zone : ZoneTemp(reading, z) <= Hottest(reading)
         /\ \E z \in Zone : Hottest(reading) <= ZoneTemp(reading, z)
<1> DEFINE All == {reading[s] : s \in Source} \ {NoReading}
<1>0. /\ MinTemp \in Int /\ MaxTemp \in Int /\ Zone # {} /\ ZoneOf \in [Source -> Zone]
  BY ConfigAssumption DEF ConfigAssumption
<1>1. All \subseteq MinTemp .. MaxTemp
  BY DEF Reading, Temp
<1>2. ASSUME NEW z \in Zone
      PROVE  /\ ZoneTemp(reading, z) \in Valid(reading, z)
             /\ \A t \in Valid(reading, z) : t <= ZoneTemp(reading, z)
  <2>1. Valid(reading, z) # {} /\ ZoneTemp(reading, z) = Max(Valid(reading, z))
    BY <1>2 DEF ZoneTemp
  <2>2. Valid(reading, z) \subseteq MinTemp .. MaxTemp
    BY DEF Valid, Reading, Temp
  <2> QED BY <1>0, <2>1, <2>2, BoundedMax
<1>3. \A z \in Zone : Valid(reading, z) \subseteq All
  BY DEF Valid
<1>4. \A t \in All : \E z \in Zone : t \in Valid(reading, z)
  BY <1>0 DEF Valid
<1>5. All # {}
  BY <1>0, <1>2, <1>3
<1>6. Hottest(reading) = Max(All)
  BY DEF Hottest
<1> HIDE DEF All
<1>7. Hottest(reading) \in All /\ \A t \in All : t <= Hottest(reading)
  BY <1>0, <1>1, <1>5, <1>6, BoundedMax
<1> QED BY <1>1, <1>2, <1>3, <1>4, <1>7 DEF Temp

LEMMA TickFeeds ==
  ASSUME HInv, SInv, ITick
  PROVE  SInv'
<1>1. PICK reading \in Reading, rpm \in Rpm :
        LoggedTick(reading, rpm) /\ log' = Remember([reading |-> reading, rpm |-> rpm])
  BY DEF ITick, HTick, LoggedTick
<1>2. log'[Len(log')].reading = reading
  BY <1>1, LoggedGrows DEF Grown
<1>3. PICK failing \in SUBSET Sensor : Feed(FedValue(reading), failing) /\ fed' = Sensor \ failing
  BY <1>2 DEF ITick
<1>4. HInv' /\ IInv' /\ phase' = "running" /\ currentPct' # NoDuty
      /\ \A z \in Zone : lastTemp'[z] = ZoneTemp(reading, z)
  <2>1. HInv' /\ IInv' /\ Tick(reading, rpm)
    BY <1>1, TickHInv DEF HInv, LoggedTick
  <2>2. currentPct' # NoDuty
    BY <1>1, DecideInvariant, ConfigAssumption DEF HInv, LoggedTick, ConfigAssumption
  <2> QED BY <2>1, <2>2 DEF Tick, Sample
<1>5. FedValue(reading) \in Temp \cup {NoReading} /\
        IF failsafe' THEN FedValue(reading) = FailsafeInject
        ELSE \A z \in Zone : lastTemp'[z] <= FedValue(reading) /\ FedValue(reading) < FailsafeInject
  <2>1. CASE failsafe'
    BY <2>1, InjectAssumption DEF InjectAssumption, FedValue
  <2>2. CASE ~failsafe'
    <3>1. \A z \in Zone : /\ lastTemp'[z] # NoReading
                          /\ lastTemp'[z] < Critical[z]
      BY <1>4, <2>2 DEF IInv, CoversDemand, Ticked
    <3>2. /\ Hottest(reading) \in Temp
          /\ \A z \in Zone : lastTemp'[z] <= Hottest(reading)
          /\ \E z \in Zone : Hottest(reading) <= lastTemp'[z]
      BY <1>4, <3>1, HottestCovers
    <3>3. \A z \in Zone : lastTemp'[z] \in Temp /\ Critical[z] \in Int
      BY <1>4, <3>1, ZoneTempType, ConfigAssumption DEF ConfigAssumption
    <3>4. FailsafeInject \in Temp /\ \A z \in Zone : Critical[z] <= FailsafeInject
      BY InjectAssumption DEF InjectAssumption
    <3>5. Hottest(reading) < FailsafeInject
      <4>1. PICK z \in Zone : Hottest(reading) <= lastTemp'[z]
        BY <3>2
      <4>2. MinTemp \in Int /\ MaxTemp \in Int
        BY ConfigAssumption DEF ConfigAssumption
      <4> QED BY <3>1, <3>2, <3>3, <3>4, <4>1, <4>2 DEF Temp
    <3> QED BY <2>2, <3>2, <3>5 DEF FedValue
  <2> QED BY <2>1, <2>2
<1>6. /\ sensor' \in [Sensor -> Temp \cup {NoReading}]
      /\ \A n \in fed' : sensor'[n] = FedValue(reading)
      /\ fed' \subseteq Sensor
  BY <1>3, <1>5 DEF Feed, SInv
<1>7. SensorsFollow'
  BY <1>5, <1>6 DEF SensorsFollow
<1> QED BY <1>6, <1>7 DEF SInv

LEMMA NextSInv ==
  ASSUME HInv, SInv, [INext]_ivars
  PROVE  SInv'
<1>0. FailsafeInject \in Temp
  BY InjectAssumption DEF InjectAssumption
<1>1. CASE ITick
  BY <1>1, TickFeeds
<1>2. CASE IEnd
  <2>1. sensor' \in [Sensor -> Temp \cup {NoReading}] /\ fed' = {}
    BY <1>0, <1>2 DEF IEnd, Feed, SInv
  <2> QED BY <2>1 DEF SInv, SensorsFollow
<1>3. CASE IOther
  <2>1. sensor' \in [Sensor -> Temp \cup {NoReading}] /\ fed' = fed
    BY <1>0, <1>3 DEF IOther, Feed, SInv
  <2>2. UNCHANGED <<failsafe, currentPct, lastTemp>> /\ (Ticked' => Ticked /\ sensor' = sensor)
    BY <1>3 DEF IOther, HOther, Hold, StopPost, Start, Ticked, memory, zoneVars, modeVars,
                HInv, IInv, QuietOutside
  <2> QED BY <2>1, <2>2 DEF SInv, SensorsFollow
<1>4. ASSUME NEW n \in Sensor, BmcRefresh(n) PROVE SInv'
  <2>1. /\ sensor' \in [Sensor -> Temp \cup {NoReading}] /\ fed' = fed \ {n}
        /\ \A m \in fed' : sensor'[m] = sensor[m]
    BY <1>4 DEF BmcRefresh, SInv
  <2>2. UNCHANGED <<phase, failsafe, currentPct, lastTemp>>
    BY <1>4 DEF BmcRefresh, historyVars, vars, memory, zoneVars, modeVars
  <2> QED BY <2>1, <2>2 DEF SInv, SensorsFollow, Ticked
<1>5. CASE UNCHANGED ivars
  BY <1>5 DEF ivars, historyVars, vars, memory, zoneVars, modeVars, SInv, SensorsFollow, Ticked
<1> QED BY <1>1, <1>2, <1>3, <1>4, <1>5 DEF INext

(* With injection on, the log still answers for every failsafe decision. *)
THEOREM InjectionKeepsHistory == ISpec => HSpec
<1>1. IInit => HInit
  BY DEF IInit
<1> QED BY <1>1, InjectStepIsHistory, PTL DEF ISpec, HSpec

(* What a tick fed to a sensor covers every zone, and tells of failsafe. *)
THEOREM SensorsAreFed == ISpec => []SensorsFollow
<1>1. IInit => SInv
  BY DEF IInit, HInit, Init, Fresh, SInv, SensorsFollow, Ticked
<1>2. HInv /\ SInv /\ [INext]_ivars => SInv'
  BY NextSInv
<1>3. SInv => SensorsFollow
  BY DEF SInv
<1> QED BY <1>1, <1>2, <1>3, IHInvariance, PTL DEF ISpec

(* What a tick does about an echo. *)
LEMMA TickHearsEcho ==
  ASSUME HInv, SInv, ITick, NEW s \in Echo,
         SourceFailLimit <= RecoverTicks, failsafe, Echoed(s)
  PROVE  failsafe' /\ coolTicks' <= failCount'[s]
<1>1. PICK reading \in Reading, rpm \in Rpm :
        LoggedTick(reading, rpm) /\ log' = Remember([reading |-> reading, rpm |-> rpm])
  BY DEF ITick, HTick, LoggedTick
<1> DEFINE entry == [reading |-> reading, rpm |-> rpm]
<1>2. log'[Len(log')].reading = reading
  BY <1>1, LoggedGrows DEF Grown
<1>3. reading[s] = FailsafeInject \/ reading[s] = NoReading
  BY <1>2 DEF ITick, Readable, Echoed
<1>4. /\ IInv /\ Tick(reading, rpm) /\ IInv'
      /\ s \in Source /\ ZoneOf[s] \in Zone /\ FailsafeInject \in Temp
      /\ Critical[ZoneOf[s]] <= FailsafeInject
  BY <1>1, TickInvariant, InjectAssumption, ConfigAssumption
     DEF InjectAssumption, ConfigAssumption, HInv, LoggedTick
<1>5. /\ coolTicks \in Nat /\ coolTicks' \in Nat /\ failCount[s] \in Nat /\ failCount'[s] \in Nat
      /\ SourceFailLimit \in Nat \ {0} /\ RecoverTicks \in Nat
  BY <1>4, ConfigAssumption DEF ConfigAssumption, IInv, TypeOK
<1>6. /\ Blind(entry) \/ Overheated(entry) \/ failCount'[s] >= SourceFailLimit
           => Alarm(reading, rpm)
      /\ Alarm(reading, rpm) => failsafe' /\ coolTicks' = 0
      /\ coolTicks' # 0 => coolTicks' = coolTicks + 1
      /\ ~failsafe' => coolTicks + 1 >= RecoverTicks
  BY <1>4, DecisionSeen
<1>7. CASE reading[s] = FailsafeInject
  <2>1. FailsafeInject \in ZoneReadings(entry, ZoneOf[s]) /\ FailsafeInject >= Critical[ZoneOf[s]]
    BY <1>4, <1>7, ConfigAssumption DEF ConfigAssumption, ZoneReadings, Temp
  <2>2. Overheated(entry)
    BY <1>4, <2>1 DEF Overheated
  <2> QED BY <1>5, <1>6, <2>2
<1>8. CASE reading[s] = NoReading
  <2>1. failCount'[s] = CountUp(failCount[s], SourceFailLimit)
    BY <1>4, <1>8 DEF Tick, Sample, FailCountAfter
  <2>2. CASE failCount'[s] >= SourceFailLimit
    BY <1>5, <1>6, <2>2
  <2>3. CASE failCount'[s] < SourceFailLimit
    <3>1. failCount'[s] = failCount[s] + 1 /\ coolTicks <= failCount[s]
      BY <1>5, <2>1, <2>3 DEF CountUp, Echoed
    <3>2. ~(coolTicks + 1 >= RecoverTicks)
      BY <1>5, <2>3, <3>1
    <3>3. failsafe'
      BY <1>6, <3>2
    <3>4. coolTicks' <= failCount'[s]
      BY <1>5, <1>6, <3>1
    <3> QED BY <3>3, <3>4
  <2> QED BY <1>5, <2>2, <2>3
<1> QED BY <1>3, <1>7, <1>8

(* A controller that reads back its own failsafe temperature stays in       *)
(* failsafe while the echo lasts.                                           *)
THEOREM EchoIsHeard == ISpec => EchoHolds
<1> DEFINE Kept(s) ==
      SourceFailLimit <= RecoverTicks /\ failsafe /\ Echoed(s)
        /\ phase = "running" /\ phase' = "running" /\ sensor'[SensorOf[s]] = FailsafeInject
      => failsafe' /\ Echoed(s)'
<1>1. ASSUME HInv, SInv, [INext]_ivars
      PROVE  [\A s \in Echo : Kept(s)]_ivars
  <2> SUFFICES ASSUME NEW s \in Echo,
                      SourceFailLimit <= RecoverTicks, failsafe, Echoed(s),
                      phase = "running", phase' = "running",
                      sensor'[SensorOf[s]] = FailsafeInject
               PROVE  (failsafe' /\ coolTicks' <= failCount'[s]) \/ UNCHANGED ivars
    BY DEF Echoed
  <2>1. CASE ITick
    BY <1>1, <2>1, TickHearsEcho
  <2>2. CASE IEnd
    BY <2>2 DEF IEnd, HEnd, TickRaises, Die, CleanStop
  <2>3. CASE IOther
    BY <2>3 DEF IOther, HOther, Hold, StopPost, Start, Echoed, memory, zoneVars, modeVars
  <2>4. CASE \E n \in Sensor : BmcRefresh(n)
    BY <2>4 DEF BmcRefresh, historyVars, vars, memory, zoneVars, modeVars, Echoed
  <2> QED BY <1>1, <2>1, <2>2, <2>3, <2>4 DEF INext
<1>2. IInit => SInv
  BY DEF IInit, HInit, Init, Fresh, SInv, SensorsFollow, Ticked
<1>3. HInv /\ SInv /\ [INext]_ivars => SInv'
  BY NextSInv
<1> QED BY <1>1, <1>2, <1>3, IHInvariance, PTL DEF ISpec, EchoHolds
-----------------------------------------------------------------------------
(* A machine that is well, tick by tick: the part of Recovers and Converges *)
(* that needs no fairness.                                                  *)

Setpoint == Clamp(Max({heldDuty[z] : z \in Zone}))

(* A temperature read again leaves the setpoint it gave, and a regulating   *)
(* daemon is never below the setpoint.                                      *)
SetpointInv ==
  /\ \A z \in Zone : lastTemp[z] # NoReading => CurveDuty(z, lastTemp[z]) = heldDuty[z]
  /\ Ticked /\ ~failsafe => Setpoint <= currentPct

(* How far the daemon is from its setpoint. *)
Rank ==
  IF failsafe THEN FailsafeDuty + (RecoverTicks - coolTicks) ELSE currentPct - Setpoint

LEMMA SampleSettles ==
  ASSUME NEW reading, Sample(reading), NEW z \in Zone, lastTemp'[z] # NoReading
  PROVE  /\ heldDuty'[z] = CurveDuty(z, lastTemp'[z])
         /\ CurveDuty(z, lastTemp[z])' = heldDuty'[z]
<1> DEFINE temp == lastTemp'[z]
<1>1. /\ heldDuty'[z] = CurveDuty(z, temp)
      /\ heldTemp'[z] = IF KeepsSetpoint(z, temp) THEN heldTemp[z] ELSE temp
  BY DEF Sample
<1>2. CASE KeepsSetpoint(z, temp)
  <2>1. heldDuty'[z] = heldDuty[z] /\ heldTemp'[z] = heldTemp[z]
    BY <1>1, <1>2 DEF CurveDuty
  <2>2. KeepsSetpoint(z, lastTemp[z])'
    BY <1>2, <2>1 DEF KeepsSetpoint
  <2> QED BY <1>1, <2>2 DEF CurveDuty
<1>3. CASE ~KeepsSetpoint(z, temp)
  <2>1. heldDuty'[z] = RawDuty[z][temp]
    BY <1>1, <1>3 DEF CurveDuty
  <2> QED BY <1>1, <2>1 DEF CurveDuty
<1> QED BY <1>2, <1>3

LEMMA SetpointRange ==
  ASSUME \A z \in Zone : heldDuty[z] \in Duty
  PROVE  Setpoint \in MinDuty .. FailsafeDuty
<1> DEFINE D == {heldDuty[z] : z \in Zone}
<1>1. D \subseteq 0 .. FailsafeDuty /\ D # {}
  BY ConfigAssumption DEF ConfigAssumption, Duty
<1>2. 0 \in Int /\ FailsafeDuty \in Int
  BY ConfigAssumption DEF ConfigAssumption
<1>3. Max(D) \in 0 .. FailsafeDuty
  <2> HIDE DEF D
  <2> QED BY <1>1, <1>2, BoundedMax
<1> QED BY <1>3, ClampRange DEF Setpoint, Duty

(* Without an alarm every zone is read, and the setpoint is the demand. *)
LEMMA SetpointIsDemand ==
  ASSUME TypeOK, NEW reading \in Reading, Sample(reading), ~ReadingAlarm(reading)
  PROVE  /\ \A z \in Zone : lastTemp'[z] = ZoneTemp(reading, z) /\ lastTemp'[z] \in Temp
         /\ \A z \in Zone : heldDuty'[z] \in Duty /\ heldDuty'[z] # NoDuty
         /\ Setpoint' = Clamp(Demand(reading)) /\ Setpoint' \in MinDuty .. FailsafeDuty
<1>1. ASSUME NEW z \in Zone
      PROVE  /\ lastTemp'[z] = ZoneTemp(reading, z) /\ lastTemp'[z] # NoReading
             /\ lastTemp'[z] \in Temp
  BY ZoneTempType DEF Sample, ReadingAlarm
<1>2. ASSUME NEW z \in Zone PROVE heldDuty'[z] = CurveDuty(z, ZoneTemp(reading, z))
  BY <1>1, SampleSettles
<1>3. ASSUME NEW z \in Zone PROVE heldDuty'[z] \in Duty /\ heldDuty'[z] # NoDuty
  BY <1>1, <1>2, CurveDutyCovers, ConfigAssumption DEF ConfigAssumption, Duty
<1>4. {heldDuty'[z] : z \in Zone} = {CurveDuty(z, ZoneTemp(reading, z)) : z \in Zone}
  BY <1>2
<1>5. Setpoint' = Clamp(Demand(reading))
  BY <1>4 DEF Setpoint, Demand, Clamp
<1>6. Demand(reading) \in Duty
  BY <1>1, DemandCovers
<1> QED BY <1>1, <1>3, <1>5, <1>6, ClampRange

LEMMA TickSettles ==
  ASSUME IInv, NEW reading \in Reading, NEW rpm \in Rpm, Tick(reading, rpm)
  PROVE  SetpointInv'
<1>0. TypeOK /\ Sample(reading) /\ phase = "running"
      /\ currentPct \in MinDuty .. FailsafeDuty \cup {NoDuty}
  BY DEF IInv, Tick, TypeOK
<1>1. \A z \in Zone : lastTemp'[z] # NoReading => CurveDuty(z, lastTemp[z])' = heldDuty'[z]
  BY <1>0, SampleSettles
<1>2. ASSUME ~failsafe' PROVE Setpoint' <= currentPct'
  <2>1. /\ ~ReadingAlarm(reading)
        /\ \E previous \in MinDuty .. FailsafeDuty \cup {NoDuty} :
             currentPct' = Slew(previous, Clamp(Demand(reading)))
    BY <1>0, <1>2, ConfigAssumption
       DEF ConfigAssumption, Tick, Decide, Trip, Linger, Leave, Regulate, Alarm
  <2>2. Setpoint' = Clamp(Demand(reading)) /\ Setpoint' \in MinDuty .. FailsafeDuty
    BY <1>0, <2>1, SetpointIsDemand
  <2> QED BY <2>1, <2>2, SlewRange
<1> QED BY <1>1, <1>2 DEF SetpointInv

LEMMA NextSetpoint == IInv /\ SetpointInv /\ [Next]_vars => SetpointInv'
<1> SUFFICES ASSUME IInv, SetpointInv, [Next]_vars PROVE SetpointInv'
  OBVIOUS
<1>1. CASE TickStep
  BY <1>1, TickSettles DEF TickStep
<1>2. CASE UNCHANGED memory /\ (phase' = phase \/ ~Ticked')
  BY <1>2 DEF SetpointInv, memory, zoneVars, modeVars, Setpoint, CurveDuty, KeepsSetpoint, Ticked
<1>3. CASE Forget
  BY <1>3 DEF Forget, SetpointInv, Ticked
<1>4. CASE Start
  <2>1. currentPct = NoDuty /\ currentPct' = NoDuty
    BY <1>4 DEF IInv, QuietOutside, Start, memory, modeVars
  <2> QED BY <1>2, <1>4, <2>1 DEF Start, Ticked
<1>5. CASE Hold \/ StopPost \/ UNCHANGED vars
  BY <1>2, <1>5 DEF Hold, StopPost, vars, memory, zoneVars, fanVars, modeVars, Ticked
<1>6. CASE TickRaises \/ Die \/ CleanStop
  BY <1>3, <1>6 DEF TickRaises, Die, CleanStop
<1> QED BY <1>1, <1>4, <1>5, <1>6 DEF Next

LEMMA SetpointInvariance == Spec => [](IInv /\ SetpointInv)
<1>1. Init => SetpointInv
  BY DEF Init, Fresh, SetpointInv, Ticked
<1> QED BY <1>1, InitIInv, NextIInv, NextSetpoint, PTL DEF Spec

(* After a tick that leaves no trouble behind, there was none to read. *)
LEMMA CalmTickReadsWell ==
  ASSUME NEW reading \in Reading, NEW rpm \in Rpm, TypeOK, Tick(reading, rpm), Calm'
  PROVE  ~Alarm(reading, rpm) /\ FansHealthy(rpm)
<1> USE ConfigAssumption DEF ConfigAssumption
<1>0. /\ Sample(reading) /\ ReadFans(rpm) /\ SourceFailLimit > 0
      /\ \A z \in Zone : lastTemp'[z] # NoReading /\ lastTemp'[z] < Critical[z]
      /\ \A s \in Source : failCount'[s] = 0
      /\ \A f \in Fan : fanFails'[f] = 0 /\ strikes'[f] = 0
  BY DEF Tick, Calm
<1>1. \A z \in Zone : lastTemp'[z] = ZoneTemp(reading, z) /\ Critical[z] \in Int
  BY <1>0 DEF Sample
<1>2. \A z \in Zone : ZoneTemp(reading, z) \in Int
  BY <1>0, <1>1, ZoneTempType DEF Temp
<1>3. \A s \in Source : ~(FailCountAfter(reading)[s] >= SourceFailLimit)
  BY <1>0 DEF Sample
<1>4. ~ReadingAlarm(reading)
  BY <1>0, <1>1, <1>2, <1>3 DEF ReadingAlarm
<1>5. \A f \in Fan : FanFailsAfter(rpm)[f] = 0 /\ StrikesAfter(rpm)[f] = 0
  BY <1>0 DEF ReadFans
<1>6. ~FanAlarm(rpm)
  BY <1>0, <1>5 DEF FanAlarm
<1>7. ASSUME NEW f \in Fan PROVE rpm[f] = "healthy"
  <2>1. rpm[f] \in {"missing", "low", "healthy"} /\ fanFails[f] \in Nat /\ strikes[f] \in Nat
    <3>1. rpm[f] \in {"missing", "low", "healthy"}
      BY DEF Rpm
    <3>2. fanFails[f] \in 0 .. SourceFailLimit /\ strikes[f] \in 0 .. 2
      BY DEF TypeOK
    <3> QED BY <3>1, <3>2
  <2>2. rpm[f] # "missing"
    BY <1>0, <1>5, <2>1 DEF FanFailsAfter, CountUp
  <2>3. rpm[f] # "low"
    BY <1>5, <2>1 DEF StrikesAfter, CountUp
  <2> QED BY <2>1, <2>2, <2>3
<1> QED BY <1>4, <1>6, <1>7 DEF Alarm, FansHealthy

LEMMA RankRange ==
  ASSUME IInv, SetpointInv, Ticked
  PROVE  Rank \in 0 .. FailsafeDuty + RecoverTicks
<1> USE ConfigAssumption DEF ConfigAssumption
<1>1. TypeOK /\ currentPct \in MinDuty .. FailsafeDuty /\ coolTicks \in 0 .. RecoverTicks - 1
  BY DEF IInv, TypeOK, Ticked
<1>2. CASE failsafe
  BY <1>1, <1>2 DEF Rank
<1>3. CASE ~failsafe
  <2>1. ASSUME NEW z \in Zone PROVE heldDuty[z] \in Duty
    <3>1. lastTemp[z] # NoReading /\ lastTemp[z] \in Temp \cup {NoReading}
      BY <1>1, <1>3 DEF IInv, CoversDemand, TypeOK
    <3>2. heldDuty[z] = CurveDuty(z, lastTemp[z])
      BY <3>1 DEF SetpointInv
    <3> QED BY <1>1, <3>1, <3>2, CurveDutyCovers
  <2>2. Setpoint \in MinDuty .. FailsafeDuty
    BY <2>1, SetpointRange
  <2>3. Setpoint <= currentPct
    BY <1>3 DEF SetpointInv
  <2> QED BY <1>1, <1>3, <2>2, <2>3 DEF Rank
<1> QED BY <1>2, <1>3

(* One tick of a machine that is well. *)
LEMMA CalmTick ==
  ASSUME IInv, SetpointInv, NEW reading \in Reading, NEW rpm \in Rpm, Tick(reading, rpm),
         Calm', UNCHANGED lastTemp
  PROVE  \/ ~failsafe' /\ AtSetpoint'
         \/ Ticked /\ Rank' < Rank
<1> USE ConfigAssumption DEF ConfigAssumption
<1>1. /\ TypeOK /\ phase = "running" /\ Sample(reading) /\ Decide(reading, rpm)
      /\ coolTicks \in 0 .. RecoverTicks - 1
      /\ currentPct \in MinDuty .. FailsafeDuty \cup {NoDuty}
      /\ (failsafe => currentPct = FailsafeDuty)
  BY DEF IInv, Tick, TypeOK, FailsafeInForce
<1>2. ~Alarm(reading, rpm) /\ FansHealthy(rpm)
  BY <1>1, CalmTickReadsWell
<1>3. /\ \A z \in Zone : lastTemp'[z] = ZoneTemp(reading, z) /\ lastTemp'[z] \in Temp
      /\ \A z \in Zone : heldDuty'[z] # NoDuty
      /\ Setpoint' = Clamp(Demand(reading)) /\ Setpoint' \in MinDuty .. FailsafeDuty
  BY <1>1, <1>2, SetpointIsDemand DEF Alarm
<1>4. currentPct' = Setpoint' => AtSetpoint'
  BY <1>3 DEF AtSetpoint, Setpoint
<1>5. CASE Trip(reading, rpm)
  BY <1>2, <1>5 DEF Trip
<1>6. CASE Linger(reading, rpm)
  <2>1. failsafe /\ failsafe' /\ coolTicks' = coolTicks + 1
    BY <1>2, <1>6 DEF Linger
  <2>2. Rank = FailsafeDuty + (RecoverTicks - coolTicks)
        /\ Rank' = FailsafeDuty + (RecoverTicks - coolTicks')
    BY <2>1 DEF Rank
  <2> QED BY <1>1, <2>1, <2>2 DEF Ticked
<1>7. CASE Leave(reading, rpm)
  <2>1. failsafe /\ ~failsafe' /\ currentPct' = Slew(FailsafeDuty, Setpoint')
    BY <1>3, <1>7 DEF Leave
  <2>2. currentPct' \in MinDuty .. FailsafeDuty
    BY <1>3, <2>1, SlewRange
  <2>3. Rank = FailsafeDuty + (RecoverTicks - coolTicks) /\ Rank' = currentPct' - Setpoint'
    BY <2>1 DEF Rank
  <2> QED BY <1>1, <1>3, <2>1, <2>2, <2>3 DEF Ticked
<1>8. CASE Regulate(reading, rpm)
  <2>1. ~failsafe /\ ~failsafe' /\ currentPct' = Slew(currentPct, Setpoint')
    BY <1>3, <1>8 DEF Regulate
  <2>2. CASE currentPct = NoDuty
    BY <1>4, <2>1, <2>2 DEF Slew
  <2>3. CASE currentPct # NoDuty
    <3>1. ASSUME NEW z \in Zone PROVE heldDuty'[z] = heldDuty[z]
      <4>1. lastTemp[z] = lastTemp'[z] /\ lastTemp[z] # NoReading
        BY <1>3 DEF Temp
      <4>2. heldDuty'[z] = CurveDuty(z, lastTemp'[z])
        BY <1>1, <4>1, SampleSettles
      <4> QED BY <4>1, <4>2 DEF SetpointInv
    <3>2. {heldDuty'[z] : z \in Zone} = {heldDuty[z] : z \in Zone}
      BY <3>1
    <3>3. Setpoint' = Setpoint
      BY <3>2 DEF Setpoint, Clamp
    <3>4. Ticked /\ currentPct \in Int /\ Setpoint \in Int
      BY <1>1, <1>3, <2>3, <3>3 DEF Ticked
    <3>5. Rank = currentPct - Setpoint /\ Rank' = currentPct' - Setpoint
      BY <2>1, <3>3 DEF Rank
    <3>6. CASE currentPct - DownSlew > Setpoint
      <4>1. currentPct' = currentPct - DownSlew
        BY <2>1, <2>3, <3>3, <3>6 DEF Slew
      <4> QED BY <3>4, <3>5, <4>1
    <3>7. CASE ~(currentPct - DownSlew > Setpoint)
      BY <1>4, <2>1, <2>3, <3>3, <3>7 DEF Slew
    <3> QED BY <3>6, <3>7
  <2> QED BY <2>2, <2>3
<1> QED BY <1>1, <1>5, <1>6, <1>7, <1>8 DEF Decide

(* The heartbeat adds nothing to the loop: what is proved of Spec holds of    *)
(* the fair specification too.                                               *)
THEOREM HeartbeatKeepsLoop == FairSpec => Spec
<1>1. [BNext]_beatVars => [Next]_vars
  BY DEF BNext, BTick, BOther, beatVars, Next
<1> QED BY <1>1, PTL DEF FairSpec, Spec, BInit

(* Every tick on which the machine is well and reads the temperatures it read *)
(* before brings the daemon to its setpoint, out of failsafe, or nearer to it *)
(* by a measure that begins at FailsafeDuty + RecoverTicks at most and cannot *)
(* fall below 0: Controller.tick neither hunts nor stops short, and it needs  *)
(* no more ticks than that.                                                   *)
THEOREM CalmTicksSettle ==
  FairSpec => [][BTick /\ Calm' /\ UNCHANGED lastTemp =>
                   \/ ~failsafe' /\ AtSetpoint'
                   \/ /\ Rank \in 0 .. FailsafeDuty + RecoverTicks
                      /\ Rank' \in Nat /\ Rank' < Rank]_beatVars
<1> DEFINE Settles ==
      BTick /\ Calm' /\ UNCHANGED lastTemp =>
        \/ ~failsafe' /\ AtSetpoint'
        \/ /\ Rank \in 0 .. FailsafeDuty + RecoverTicks
           /\ Rank' \in Nat /\ Rank' < Rank
<1> DEFINE Placed == Ticked => Rank \in 0 .. FailsafeDuty + RecoverTicks
<1>1. IInv /\ SetpointInv => Placed
  BY RankRange
<1>2. ASSUME IInv /\ SetpointInv, Placed, Placed', [BNext]_beatVars
      PROVE  [Settles]_beatVars
  <2> SUFFICES ASSUME BTick, Calm', UNCHANGED lastTemp, ~(~failsafe' /\ AtSetpoint')
               PROVE  /\ Rank \in 0 .. FailsafeDuty + RecoverTicks
                      /\ Rank' \in Nat /\ Rank' < Rank
    OBVIOUS
  <2>1. PICK reading \in Reading, rpm \in Rpm : Tick(reading, rpm)
    BY DEF BTick, TickStep
  <2>2. Ticked /\ Rank' < Rank
    BY <1>2, <2>1, CalmTick
  <2>3. Ticked'
    <3>1. currentPct' # NoDuty
      BY <1>2, <2>1, DecideInvariant, ConfigAssumption DEF ConfigAssumption
    <3> QED BY <3>1 DEF Calm, Ticked
  <2>4. Rank' \in Nat
    <3>1. Rank' \in 0 .. FailsafeDuty + RecoverTicks
      BY <1>2, <2>3
    <3> QED BY <3>1
  <2> QED BY <1>2, <2>2, <2>4
<1>3. FairSpec => [](IInv /\ SetpointInv)
  BY HeartbeatKeepsLoop, SetpointInvariance, PTL
<1> HIDE DEF Settles, Placed
<1>4. FairSpec => [][Settles]_beatVars
  BY <1>1, <1>2, <1>3, PTL DEF FairSpec
<1> QED BY <1>4 DEF Settles
==============================================================================
