------------------------ MODULE CommissioningProofs ------------------------
(***************************************************************************)
(* Theorems about FanMapping and SourceRead, for any channels, fans and     *)
(* duties, any inputs, temperatures and counts; and that CSpec, which       *)
(* checks them beside the curves, is each of them seen by itself.           *)
(***************************************************************************)
EXTENDS MCCommissioning, WellFoundedInduction, TLAPS

(* The finally clause has put back what it has passed. *)
PuttingBack ==
  pc = "finally" => \A c \in enabled \ touched : c \in todo \/ duty[c] = baseFall[c]

RestoreInv ==
  /\ duty \in [Chan -> Nat] /\ enabled \subseteq Chan /\ baseFall \in [Chan -> Nat]
  /\ PuttingBack /\ MapRestores

LEMMA InitRestore == MapInit => RestoreInv
<1> SUFFICES ASSUME MapInit PROVE RestoreInv
  OBVIOUS
<1>1. duty \in [Chan -> Nat] /\ baseFall \in [Chan -> Nat] /\ enabled \subseteq Chan
  BY MappingAssumption DEF MapInit
<1> QED BY <1>1 DEF MapInit, RestoreInv, PuttingBack, MapRestores

LEMMA StepRestore == RestoreInv /\ [MapNext]_mapVars => RestoreInv'
<1> SUFFICES ASSUME RestoreInv, [MapNext]_mapVars PROVE RestoreInv'
  OBVIOUS
<1> USE MappingAssumption
<1>0. /\ duty \in [Chan -> Nat] /\ enabled \subseteq Chan /\ baseFall \in [Chan -> Nat]
      /\ PuttingBack /\ MapRestores
  BY DEF RestoreInv
<1>1. CASE UNCHANGED mapVars
  BY <1>0, <1>1 DEF mapVars, probing, mhistory, RestoreInv, PuttingBack, MapRestores
<1>2. ASSUME NEW mute \in SUBSET Fan, Begin(mute) PROVE RestoreInv'
  BY <1>0, <1>2 DEF Begin, Registers, RestoreInv, PuttingBack, MapRestores
<1>3. CASE Probe \/ \E mute \in SUBSET Fan : Measure(mute)
  <2>1. /\ pc' \in {"probe", "measure"} /\ duty' \in [Chan -> Nat]
        /\ enabled' = enabled /\ baseFall' = baseFall
    BY <1>0, <1>3 DEF Probe, Measure, SetFall, probing
  <2> QED BY <1>0, <2>1 DEF RestoreInv, PuttingBack, MapRestores
<1>4. CASE Finally
  BY <1>0, <1>4 DEF Finally, Registers, RestoreInv, PuttingBack, MapRestores
<1>5. CASE PutBack
  <2>1. /\ pc = "finally" /\ pc' = pc /\ enabled' = enabled /\ baseFall' = baseFall
        /\ todo' = todo \ {First} /\ touched' = touched
        /\ duty' = IF First \in enabled THEN [duty EXCEPT ![First] = baseFall[First]] ELSE duty
    BY <1>5 DEF PutBack, SetFall, Registers, mhistory
  <2>2. duty' \in [Chan -> Nat]
    BY <1>0, <2>1
  <2>3. ASSUME NEW c \in enabled \ touched PROVE c \in todo' \/ duty'[c] = baseFall[c]
    <3>1. c \in Chan /\ (c \in todo \/ duty[c] = baseFall[c])
      BY <1>0, <2>1, <2>3 DEF PuttingBack
    <3>2. CASE c = First
      BY <1>0, <2>1, <2>3, <3>1, <3>2
    <3>3. CASE c # First
      BY <1>0, <2>1, <3>1, <3>3
    <3> QED BY <3>2, <3>3
  <2> QED BY <1>0, <2>1, <2>2, <2>3 DEF RestoreInv, PuttingBack, MapRestores
<1>6. CASE PutBackEnds
  BY <1>0, <1>6 DEF PutBackEnds, Registers, probing, mhistory, RestoreInv, PuttingBack, MapRestores
<1>7. CASE Truncate
  BY <1>0, <1>7 DEF Truncate, Registers, probing, RestoreInv, PuttingBack, MapRestores
<1>8. CASE WriteMapping \/ Quit
  <2>1. pc' = "idle" /\ UNCHANGED <<duty, enabled>> /\ baseFall' = [c \in Chan |-> 0]
    BY <1>8 DEF WriteMapping, Quit, Clear, Registers
  <2> QED BY <1>0, <2>1 DEF RestoreInv, PuttingBack, MapRestores
<1>9. CASE Stop \/ \E mode \in Mode : Start(mode)
  BY <1>0, <1>9 DEF Stop, Start, Registers, probing, mhistory, RestoreInv, PuttingBack, MapRestores
<1>10. ASSUME NEW c \in Chan, BmcToggle(c) \/ \E v \in IdleDuty : BmcWrite(c, v)
       PROVE  RestoreInv'
  <2>1. /\ pc' = pc /\ baseFall' = baseFall /\ todo' = todo
        /\ touched' = IF pc = "idle" THEN {} ELSE touched \cup {c}
    BY <1>10 DEF BmcToggle, BmcWrite, Touch, probing
  <2>2. /\ duty' \in [Chan -> Nat] /\ enabled' \subseteq Chan
        /\ \A d \in Chan \ {c} : duty'[d] = duty[d] /\ (d \in enabled' <=> d \in enabled)
    BY <1>0, <1>10 DEF BmcToggle, BmcWrite
  <2>3. ASSUME pc # "idle", NEW d \in enabled' \ touched' PROVE d \in enabled \ touched /\ duty'[d] = duty[d]
    BY <2>1, <2>2, <2>3
  <2> QED BY <1>0, <2>1, <2>2, <2>3 DEF RestoreInv, PuttingBack, MapRestores
<1> QED BY <1>1, <1>2, <1>3, <1>4, <1>5, <1>6, <1>7, <1>8, <1>9, <1>10 DEF MapNext

(* However the probing of any number of channels ends, the finally clause *)
(* puts every enabled channel back that the BMC left alone (cmd_map).      *)
THEOREM MapPutsBack == MapSpec => []MapRestores
<1>1. RestoreInv => MapRestores
  BY DEF RestoreInv
<1> QED BY <1>1, InitRestore, StepRestore, PTL DEF MapSpec

-----------------------------------------------------------------------------
(* The fans the mapping names are those the channels move: the probing loop  *)
(* raises one channel at a time over what all had on entry.                  *)

LessNat == {p \in Nat \X Nat : p[1] < p[2]}

LEMMA LeastInTodo ==
  ASSUME NEW S, S \subseteq Nat, S # {}
  PROVE  Min(S) \in S
<1>1. IsWellFoundedOn(LessNat, Nat)
  BY NatLessThanWellFounded DEF OpToRel, LessNat
<1>2. PICK m \in S : \A y \in S : <<y, m>> \notin LessNat
  BY <1>1, WFMin
<1>3. ASSUME NEW y \in S PROVE m <= y
  <2>1. y \in Nat /\ m \in Nat /\ <<y, m>> \notin LessNat
    BY <1>2
  <2>2. ~ (y < m)
    BY <2>1 DEF LessNat
  <2> QED BY <2>1, <2>2
<1> QED BY <1>2, <1>3 DEF Min

LEMMA GreatestUnder ==
  ASSUME NEW n \in Nat, NEW S, S \subseteq 0 .. n, S # {}
  PROVE  Max(S) \in S /\ \A x \in S : x <= Max(S)
<1> DEFINE T == {n - x : x \in S}
<1>1. T \subseteq Nat /\ T # {}
  <2>1. ASSUME NEW x \in S PROVE n - x \in Nat
    <3>1. x \in 0 .. n
      OBVIOUS
    <3> QED BY <3>1
  <2>2. PICK x \in S : TRUE
    OBVIOUS
  <2>3. n - x \in T
    OBVIOUS
  <2> QED BY <2>1, <2>3
<1>2. IsWellFoundedOn(LessNat, Nat)
  BY NatLessThanWellFounded DEF OpToRel, LessNat
<1>3. PICK m \in T : \A y \in T : <<y, m>> \notin LessNat
  <2> HIDE DEF T
  <2> QED BY <1>1, <1>2, WFMin
<1>4. ASSUME NEW y \in T PROVE m <= y
  <2>1. y \in Nat /\ m \in Nat /\ <<y, m>> \notin LessNat
    BY <1>1, <1>3
  <2>2. ~ (y < m)
    BY <2>1 DEF LessNat
  <2> QED BY <2>1, <2>2
<1>5. PICK x \in S : m = n - x
  BY <1>3
<1>6. \A y \in S : x >= y
  BY <1>4, <1>5
<1> QED BY <1>5, <1>6 DEF Max

(* Speed of the fan f when the channels are at d. *)
Duties(d, f) == {0} \cup {d[c] : c \in {e \in Chan : f \in Moves[e]}}
SpeedAt(d, f) == Max(Duties(d, f))

(* With all channels under the probing duty, raising one speeds up the fans *)
(* it moves and no other.                                                    *)
LEMMA OneFanSet ==
  ASSUME NEW d \in [Chan -> Nat], \A c \in Chan : d[c] < ProbeDuty,
         NEW p \in Chan, NEW f \in Fan
  PROVE  /\ SpeedAt(d, f) \in Nat
         /\ SpeedAt([d EXCEPT ![p] = ProbeDuty], f) > SpeedAt(d, f) <=> f \in Moves[p]
<1> USE MappingAssumption
<1> DEFINE raised == [d EXCEPT ![p] = ProbeDuty]
<1>1. ProbeDuty \in Nat /\ ProbeDuty > 0
  BY MappingAssumption
<1>2. Duties(d, f) \subseteq 0 .. (ProbeDuty - 1) /\ Duties(d, f) # {}
  <2>1. \A c \in Chan : d[c] \in 0 .. (ProbeDuty - 1)
    BY <1>1
  <2>2. 0 \in 0 .. (ProbeDuty - 1)
    BY <1>1
  <2> QED BY <2>1, <2>2, Zenon DEF Duties
<1>3. SpeedAt(d, f) \in 0 .. (ProbeDuty - 1)
  BY <1>1, <1>2, GreatestUnder DEF SpeedAt
<1>4. CASE f \in Moves[p]
  <2>1. Duties(raised, f) \subseteq 0 .. ProbeDuty /\ ProbeDuty \in Duties(raised, f)
    BY <1>1, <1>4 DEF Duties
  <2>2. SpeedAt(raised, f) \in 0 .. ProbeDuty /\ ProbeDuty <= SpeedAt(raised, f)
    <3> HIDE DEF raised
    <3> QED BY <1>1, <2>1, GreatestUnder DEF SpeedAt
  <2> QED BY <1>1, <1>3, <1>4, <2>2
<1>5. CASE f \notin Moves[p]
  <2>1. Duties(raised, f) = Duties(d, f)
    BY <1>5 DEF Duties
  <2>2. SpeedAt(raised, f) = SpeedAt(d, f)
    BY <2>1 DEF SpeedAt
  <2> QED BY <1>3, <1>5, <2>2
<1> QED BY <1>4, <1>5

(* The fans of the channels in S, and of no other. *)
MovesOf(S) == [c \in Chan |-> IF c \in S THEN Moves[c] ELSE {}]

Undisturbed == sound /\ touched = {}

ProbesOne ==
  pc \in {"probe", "measure"} /\ Undisturbed =>
    /\ todo \subseteq asked /\ (\A c \in Chan : baseFall[c] < ProbeDuty)
    /\ baseRpm = [f \in Fan |-> SpeedAt(baseFall, f)]
    /\ pc = "probe" => duty = baseFall
    /\ pc = "measure" => todo # {} /\ duty = [baseFall EXCEPT ![First] = ProbeDuty]
    /\ result = MovesOf(asked \ todo)

ProbedAll ==
  pc \in {"finally", "done", "write"} /\ complete /\ Undisturbed => result = MovesOf(asked)

WrittenWhole == pc = "write" => complete

FileTells == fileSound => file.fans = MovesOf(fileAsked)

MapInv ==
  /\ duty \in [Chan -> Nat] /\ baseFall \in [Chan -> Nat]
  /\ todo \subseteq Chan /\ asked \subseteq Chan
  /\ ProbesOne /\ ProbedAll /\ WrittenWhole /\ FileTells /\ WatchesItsFans

LEMMA InitMap == MapInit => MapInv
<1> SUFFICES ASSUME MapInit PROVE MapInv
  OBVIOUS
<1>1. duty \in [Chan -> Nat] /\ baseFall \in [Chan -> Nat] /\ todo \subseteq Chan /\ asked \subseteq Chan
  BY MappingAssumption DEF MapInit
<1>2. pc = "idle" /\ run = "stopped" /\ fileSound = FALSE
  BY DEF MapInit
<1> QED BY <1>1, <1>2 DEF MapInv, ProbesOne, ProbedAll, WrittenWhole, FileTells, WatchesItsFans

LEMMA StepMap == MapInv /\ [MapNext]_mapVars => MapInv'
<1> SUFFICES ASSUME MapInv, [MapNext]_mapVars PROVE MapInv'
  OBVIOUS
<1> USE MappingAssumption
<1>0. /\ duty \in [Chan -> Nat] /\ baseFall \in [Chan -> Nat]
      /\ todo \subseteq Chan /\ asked \subseteq Chan
      /\ ProbesOne /\ ProbedAll /\ WrittenWhole /\ FileTells /\ WatchesItsFans
  BY DEF MapInv
<1> USE DEF MapInv
<1>1. CASE UNCHANGED mapVars
  BY <1>0, <1>1 DEF mapVars, probing, daemon, mhistory, ProbesOne, ProbedAll, WrittenWhole,
                    FileTells, WatchesItsFans, Undisturbed, First
<1>2. ASSUME NEW mute \in SUBSET Fan, Begin(mute) PROVE MapInv'
  <2>1. /\ todo' = asked' /\ asked' = Requested \cap enabled /\ pc' = "probe" /\ result' = NoFans
        /\ baseFall' = duty /\ duty' = duty /\ baseRpm' = Rpms(mute)
        /\ sound' = (mute = {} /\ \A c \in Chan : duty[c] < ProbeDuty)
        /\ UNCHANGED <<file, daemon, fileSound, fileAsked>>
    BY <1>2 DEF Begin, Registers
  <2>2. Rpms({}) = [f \in Fan |-> SpeedAt(duty, f)]
    BY DEF Rpms, Speed, SpeedAt, Duties
  <2>3. result' = MovesOf({})
    BY <2>1 DEF NoFans, MovesOf
  <2>4. todo' \subseteq Chan /\ asked' \subseteq Chan /\ asked' \ todo' = {}
    BY <2>1
  <2>5. ProbesOne'
    BY <2>1, <2>2, <2>3, <2>4 DEF ProbesOne, Undisturbed
  <2>6. FileTells' /\ WatchesItsFans'
    BY <1>0, <2>1 DEF FileTells, WatchesItsFans, daemon
  <2> QED BY <1>0, <2>1, <2>4, <2>5, <2>6 DEF ProbedAll, WrittenWhole
<1>3. CASE Probe
  <2>1. /\ pc = "probe" /\ pc' = "measure" /\ todo # {} /\ UNCHANGED <<probing, file, daemon, mhistory>>
        /\ duty' = [duty EXCEPT ![First] = ProbeDuty]
    BY <1>3 DEF Probe, SetFall
  <2>2. First' = First /\ duty' \in [Chan -> Nat]
    BY <1>0, <2>1 DEF First, probing
  <2>3. ProbesOne'
    BY <1>0, <2>1, <2>2 DEF ProbesOne, Undisturbed, probing, mhistory
  <2> QED BY <1>0, <2>1, <2>2, <2>3
      DEF probing, daemon, mhistory, ProbedAll, WrittenWhole, FileTells, WatchesItsFans
<1>4. ASSUME NEW mute \in SUBSET Fan, Measure(mute) PROVE MapInv'
  <2>1. /\ pc = "measure" /\ pc' = "probe" /\ todo' = todo \ {First}
        /\ duty' = [duty EXCEPT ![First] = baseFall[First]]
        /\ result' = [result EXCEPT ![First] = Hits(Rpms(mute))]
        /\ sound' = (sound /\ mute = {})
        /\ UNCHANGED <<asked, baseFall, baseRpm, complete, file, daemon, touched, fileSound, fileAsked>>
    BY <1>4 DEF Measure, SetFall
  <2>2. duty' \in [Chan -> Nat]
    <3>1. \A c \in Chan : [duty EXCEPT ![First] = baseFall[First]][c] \in Nat
      BY <1>0
    <3> QED BY <1>0, <2>1, <3>1
  <2>3. ASSUME Undisturbed' PROVE duty' = baseFall' /\ todo' \subseteq asked' /\ result' = MovesOf(asked' \ todo')
    <3>1. Undisturbed /\ mute = {}
      BY <2>1, <2>3 DEF Undisturbed
    <3>2. /\ todo \subseteq asked /\ (\A c \in Chan : baseFall[c] < ProbeDuty) /\ todo # {}
          /\ baseRpm = [f \in Fan |-> SpeedAt(baseFall, f)]
          /\ duty = [baseFall EXCEPT ![First] = ProbeDuty] /\ result = MovesOf(asked \ todo)
      BY <1>0, <2>1, <3>1 DEF ProbesOne
    <3>3. First \in todo /\ First \in Chan /\ First \in asked
      BY <1>0, <3>2, LeastInTodo DEF First
    <3>4. duty' = baseFall
      BY <1>0, <2>1, <3>2, <3>3
    <3>5. Rpms(mute) = [f \in Fan |-> SpeedAt(duty, f)]
      BY <3>1 DEF Rpms, Speed, SpeedAt, Duties
    <3>6. ASSUME NEW f \in Fan
          PROVE  /\ SpeedAt(baseFall, f) \in Nat
                 /\ SpeedAt(duty, f) > SpeedAt(baseFall, f) <=> f \in Moves[First]
      BY <1>0, <3>2, <3>3, OneFanSet
    <3>7. ASSUME NEW f \in Fan PROVE SpeedAt(duty, f) # Silent
      <4>1. duty \in [Chan -> 0 .. ProbeDuty]
        BY <1>0, <3>2
      <4>2. Duties(duty, f) \subseteq 0 .. ProbeDuty /\ Duties(duty, f) # {}
        BY <4>1 DEF Duties
      <4>3. SpeedAt(duty, f) \in 0 .. ProbeDuty
        BY <4>2, GreatestUnder DEF SpeedAt
      <4> QED BY <4>3
    <3>8. Hits(Rpms(mute)) = Moves[First]
      <4>1. Moves[First] \subseteq Fan
        BY <3>3
      <4>2. ASSUME NEW f \in Fan PROVE f \in Hits(Rpms(mute)) <=> f \in Moves[First]
        BY <3>2, <3>5, <3>6, <3>7 DEF Hits
      <4> QED BY <4>1, <4>2 DEF Hits
    <3>9. result' = MovesOf((asked \ todo) \cup {First})
      BY <2>1, <3>2, <3>3, <3>8 DEF MovesOf
    <3>10. (asked \ todo) \cup {First} = asked' \ todo'
      BY <2>1, <3>2, <3>3
    <3> QED BY <2>1, <3>2, <3>4, <3>9, <3>10
  <2>4. ProbesOne'
    BY <1>0, <2>1, <2>3 DEF ProbesOne, Undisturbed
  <2> QED BY <1>0, <2>1, <2>2, <2>4 DEF daemon, ProbedAll, WrittenWhole, FileTells, WatchesItsFans
<1>5. CASE Finally
  <2>1. /\ pc \in {"probe", "measure"} /\ pc' = "finally" /\ todo' = Chan
        /\ complete' = (pc = "probe" /\ todo = {})
        /\ UNCHANGED <<duty, asked, baseFall, baseRpm, result, file, daemon, mhistory>>
    BY <1>5 DEF Finally, Registers
  <2>2. complete' /\ Undisturbed' => result' = MovesOf(asked')
    <3> SUFFICES ASSUME complete', Undisturbed' PROVE result' = MovesOf(asked')
      OBVIOUS
    <3>1. todo = {} /\ Undisturbed /\ asked \ todo = asked
      BY <2>1 DEF Undisturbed, mhistory
    <3> QED BY <1>0, <2>1, <3>1 DEF ProbesOne
  <2> QED BY <1>0, <2>1, <2>2 DEF daemon, mhistory, ProbesOne, ProbedAll, WrittenWhole, FileTells, WatchesItsFans
<1>6. CASE PutBack \/ PutBackEnds
  <2>1. /\ pc = "finally" /\ pc' \in {"finally", "done"} /\ todo' \subseteq todo
        /\ UNCHANGED <<asked, baseFall, result, complete, file, daemon, mhistory>>
        /\ duty' \in {duty, [duty EXCEPT ![First] = baseFall[First]]}
    BY <1>6 DEF PutBack, PutBackEnds, SetFall, Registers, probing
  <2>2. duty' \in [Chan -> Nat]
    <3>1. \A c \in Chan : [duty EXCEPT ![First] = baseFall[First]][c] \in Nat
      BY <1>0
    <3> QED BY <1>0, <2>1, <3>1
  <2> QED BY <1>0, <2>1, <2>2
      DEF daemon, mhistory, Undisturbed, ProbesOne, ProbedAll, WrittenWhole, FileTells, WatchesItsFans
<1>7. CASE Truncate
  <2>1. /\ pc = "done" /\ pc' = "write" /\ complete /\ fileSound' = FALSE
        /\ UNCHANGED <<duty, probing, daemon, touched, sound>>
    BY <1>7 DEF Truncate, Registers
  <2> QED BY <1>0, <2>1
      DEF probing, daemon, Undisturbed, ProbesOne, ProbedAll, WrittenWhole, FileTells, WatchesItsFans
<1>8. CASE WriteMapping
  <2>1. /\ pc = "write" /\ pc' = "idle" /\ file'.fans = result /\ UNCHANGED <<duty, daemon>>
        /\ todo' = {} /\ asked' = {} /\ baseFall' = [c \in Chan |-> 0]
        /\ fileSound' => Undisturbed /\ fileAsked' = asked
    BY <1>8 DEF WriteMapping, Registers, Clear, File, Undisturbed
  <2>2. FileTells'
    BY <1>0, <2>1 DEF FileTells, ProbedAll, WrittenWhole
  <2> QED BY <1>0, <2>1, <2>2 DEF daemon, ProbesOne, ProbedAll, WrittenWhole, WatchesItsFans
<1>9. CASE Quit
  <2>1. /\ pc' = "idle" /\ UNCHANGED <<duty, file, daemon, fileSound, fileAsked>>
        /\ todo' = {} /\ asked' = {} /\ baseFall' = [c \in Chan |-> 0]
    BY <1>9 DEF Quit, Registers, Clear
  <2> QED BY <1>0, <2>1 DEF daemon, ProbesOne, ProbedAll, WrittenWhole, FileTells, WatchesItsFans
<1>10. ASSUME NEW mode \in Mode, Start(mode) PROVE MapInv'
  <2>1. /\ run' = mode /\ watched' = WatchedFans(mode)
        /\ mode = "pwm" => channels' = Writable /\ readAsked' = fileAsked
        /\ readSound' = (mode = "pwm" /\ fileSound)
        /\ UNCHANGED <<duty, pc, probing, file, mhistory>>
    BY <1>10 DEF Start, Registers
  <2>2. mode = "pwm" /\ fileSound => watched' = UNION {Moves[c] : c \in channels' \cap readAsked'}
    <3> SUFFICES ASSUME mode = "pwm", fileSound
                 PROVE  watched' = UNION {Moves[c] : c \in channels' \cap readAsked'}
      OBVIOUS
    <3>1. file.fans = MovesOf(fileAsked)
      BY <1>0 DEF FileTells
    <3>2. watched' = UNION {file.fans[c] : c \in Writable}
      BY <2>1 DEF WatchedFans
    <3>3. Writable \subseteq Chan
      BY DEF Writable
    <3>4. \A c \in Writable : file.fans[c] = IF c \in fileAsked THEN Moves[c] ELSE {}
      BY <3>1, <3>3 DEF MovesOf
    <3> QED BY <2>1, <3>2, <3>4
  <2>3. mode = "inject" => watched' # {}
    BY <2>1 DEF WatchedFans
  <2>4. WatchesItsFans'
    BY <2>1, <2>2, <2>3 DEF WatchesItsFans
  <2> QED BY <1>0, <2>1, <2>4
      DEF probing, mhistory, Undisturbed, First, ProbesOne, ProbedAll, WrittenWhole, FileTells
<1>11. CASE Stop
  <2>1. run' = "stopped" /\ UNCHANGED <<duty, pc, probing, file, mhistory>>
    BY <1>11 DEF Stop, Registers
  <2> QED BY <1>0, <2>1
      DEF probing, mhistory, Undisturbed, First, ProbesOne, ProbedAll, WrittenWhole, FileTells, WatchesItsFans
<1>12. ASSUME NEW c \in Chan, BmcToggle(c) \/ \E v \in IdleDuty : BmcWrite(c, v)
       PROVE  MapInv'
  <2>1. /\ UNCHANGED <<pc, probing, file, daemon, sound, fileSound, fileAsked>>
        /\ duty' \in [Chan -> Nat] /\ (pc = "idle" \/ touched' # {})
    BY <1>0, <1>12 DEF BmcToggle, BmcWrite, Touch
  <2> QED BY <1>0, <2>1
      DEF probing, daemon, Undisturbed, ProbesOne, ProbedAll, WrittenWhole, FileTells, WatchesItsFans
<1> QED BY <1>1, <1>2, <1>3, <1>4, <1>5, <1>6, <1>7, <1>8, <1>9, <1>10, <1>11, <1>12 DEF MapNext

(* Whatever fans the channels share, a daemon that reads the file of an      *)
(* undisturbed probing watches exactly the fans its probed channels move.    *)
THEOREM DaemonWatchesItsFans == MapSpec => []WatchesItsFans
<1>1. MapInv => WatchesItsFans
  BY DEF MapInv
<1> QED BY <1>1, InitMap, StepMap, PTL DEF MapSpec

-----------------------------------------------------------------------------
(* During a scan: what was shown covers what can be read now, and the hottest *)
(* so far is one of it that no steady input behind the scan exceeds.          *)
Scanning ==
  reader = "scan" =>
    /\ Real(Labelled) \subseteq shown
    /\ best # NoValue => best \in shown
    /\ \A i \in steady : IsDegree(node[i]) /\ (i \in paths \/ (best # NoValue /\ node[i] <= best))

SourceInv ==
  /\ node \in [Node -> NodeState] /\ bmc \in [there : BOOLEAN, count : Count]
  /\ paths \subseteq Labelled /\ steady \subseteq Labelled /\ best \in Degree \cup {NoValue}
  /\ Scanning /\ ReadingIsReal /\ SteadyInputCounts

(* An answer is decoded to nothing, or to the count of a sensor that is there. *)
LEMMA DecodedIsReal ==
  ASSUME bmc \in [there : BOOLEAN, count : Count], NEW failed \in BOOLEAN, NEW n \in 0 .. 4,
         ReadRaw(failed, Answer(n)) # NoValue
  PROVE  bmc.there /\ ReadRaw(failed, Answer(n)) = bmc.count
<1> USE SourceAssumption
<1> DEFINE bytes == IF bmc.there THEN <<bmc.count, 192, 192, 0>> ELSE <<0, 224, 0, 128>>
<1>1. bytes \in Seq(Int) /\ Len(bytes) = 4
  <2>1. bmc.count \in Int
    <3>1. bmc.count \in Count
      OBVIOUS
    <3>2. bmc.count \in 0 .. 255
      BY <3>1 DEF SourceAssumption
    <3> QED BY <3>2
  <2>2. <<bmc.count, 192, 192, 0>> \in Seq(Int) /\ Len(<<bmc.count, 192, 192, 0>>) = 4
    BY <2>1
  <2>3. <<0, 224, 0, 128>> \in Seq(Int) /\ Len(<<0, 224, 0, 128>>) = 4
    OBVIOUS
  <2>4. CASE bmc.there
    BY <2>2, <2>4
  <2>5. CASE ~bmc.there
    BY <2>3, <2>5
  <2> QED BY <2>4, <2>5
<1>2. Len(Answer(n)) >= 2 /\ ~Unavailable(Answer(n)[2]) /\ ReadRaw(failed, Answer(n)) = Answer(n)[1]
  BY DEF ReadRaw
<1>3. Len(Answer(n)) = n /\ \A i \in 1 .. n : Answer(n)[i] = bytes[i]
  BY <1>1 DEF Answer
<1>4. n >= 2 /\ Answer(n)[1] = bytes[1] /\ Answer(n)[2] = bytes[2]
  BY <1>2, <1>3
<1>5. bmc.there
  <2> SUFFICES ASSUME ~bmc.there PROVE FALSE
    OBVIOUS
  <2>1. bytes[2] = 224
    OBVIOUS
  <2> QED BY <1>2, <1>4, <2>1 DEF Unavailable
<1> QED BY <1>2, <1>4, <1>5

LEMMA InitSource == SourceInit => SourceInv
  BY SourceAssumption DEF SourceInit, SourceInv, Scanning, ReadingIsReal, SteadyInputCounts

LEMMA StepSource == SourceInv /\ [SourceNext]_sourceVars => SourceInv'
<1> SUFFICES ASSUME SourceInv, [SourceNext]_sourceVars PROVE SourceInv'
  OBVIOUS
<1> USE SourceAssumption
<1>0. /\ node \in [Node -> NodeState] /\ bmc \in [there : BOOLEAN, count : Count]
      /\ paths \subseteq Labelled /\ steady \subseteq Labelled /\ best \in Degree \cup {NoValue}
      /\ Scanning /\ ReadingIsReal /\ SteadyInputCounts
  BY DEF SourceInv
<1>1. CASE UNCHANGED sourceVars
  BY <1>0, <1>1 DEF sourceVars, SourceInv, Scanning, ReadingIsReal, SteadyInputCounts, Real
<1>2. ASSUME NEW kind, NEW v, kind \notin {"scan", "pci"}, Returns(kind, v), steady' = {},
             v # NoValue => v \in shown'
      PROVE  SourceInv'
  BY <1>0, <1>2 DEF Returns, SourceInv, Scanning, ReadingIsReal, SteadyInputCounts
<1>3. CASE ReadTemp
  <2>1. PICK failed \in BOOLEAN, n \in 0 .. 4 : Returns("ipmi", ReadRaw(failed, Answer(n)))
    BY <1>3 DEF ReadTemp
  <2>2. ReadRaw(failed, Answer(n)) # NoValue => ReadRaw(failed, Answer(n)) \in shown'
    BY <1>0, <1>3, DecodedIsReal DEF ReadTemp
  <2> QED BY <1>2, <1>3, <2>1, <2>2 DEF ReadTemp
<1>4. CASE ReadFanRpm
  <2>1. PICK failed \in BOOLEAN, n \in 0 .. 4 :
          LET raw == ReadRaw(failed, Answer(n))
          IN  Returns("fan", IF raw = NoValue THEN NoValue ELSE RpmPerCount * raw)
    BY <1>4 DEF ReadFanRpm
  <2> DEFINE raw == ReadRaw(failed, Answer(n))
             rpm == IF raw = NoValue THEN NoValue ELSE RpmPerCount * raw
  <2>2. rpm # NoValue => rpm \in shown'
    BY <1>0, <1>4, DecodedIsReal DEF ReadFanRpm
  <2>3. Returns("fan", rpm) /\ steady' = {}
    BY <1>4, <2>1 DEF ReadFanRpm
  <2> HIDE DEF rpm
  <2> QED BY <1>2, <2>2, <2>3
<1>5. CASE ReadHwmon
  BY <1>2, <1>5 DEF ReadHwmon, Real
<1>6. CASE ReadExec
  <2>1. PICK succeeded \in BOOLEAN, number \in Degree \cup {NoValue} :
          /\ Returns("exec", IF succeeded THEN number ELSE NoValue)
          /\ shown' = IF succeeded /\ number # NoValue THEN {number} ELSE {}
    BY <1>6 DEF ReadExec
  <2> QED BY <1>2, <1>6, <2>1 DEF ReadExec
<1>7. CASE List
  BY <1>0, <1>7 DEF List, SourceInv, Scanning, ReadingIsReal, SteadyInputCounts, Real, IsDegree
<1>8. ASSUME NEW i \in Node, ReadNode(i) PROVE SourceInv'
  <2>1. /\ reader = "scan" /\ reader' = "scan" /\ i \in paths /\ paths' = paths \ {i}
        /\ UNCHANGED <<node, bmc, steady, shown>>
        /\ best' = IF IsDegree(node[i]) /\ (best = NoValue \/ node[i] > best) THEN node[i] ELSE best
    BY <1>8 DEF ReadNode, Hotter
  <2>2. /\ IsDegree(node[i]) => node[i] \in Degree /\ node[i] \in shown
        /\ node[i] \in NodeState
    BY <1>0, <2>1 DEF Scanning, Real, IsDegree, NodeState
  <2>3. best' \in Degree \cup {NoValue} /\ (best' # NoValue => best' \in shown')
    BY <1>0, <2>1, <2>2 DEF Scanning
  <2>4. ASSUME NEW j \in steady'
        PROVE  IsDegree(node'[j]) /\ (j \in paths' \/ (best' # NoValue /\ node'[j] <= best'))
    <3>1. IsDegree(node[j]) /\ (j \in paths \/ (best # NoValue /\ node[j] <= best))
      BY <1>0, <2>1, <2>4 DEF Scanning
    <3>2. node[j] \in Int
      BY <1>0, <2>1, <2>4, <3>1 DEF IsDegree, NodeState
    <3>3. CASE j = i
      BY <1>0, <2>1, <2>2, <3>1, <3>2, <3>3
    <3>4. CASE j # i
      <4>1. j \in paths \/ (best \in Int /\ best # NoValue /\ node[j] <= best)
        BY <1>0, <3>1 DEF SourceAssumption
      <4>2. CASE j \in paths
        BY <2>1, <3>1, <3>4, <4>2
      <4>3. CASE best \in Int /\ best # NoValue /\ node[j] <= best
        <5>1. IsDegree(node[i]) => node[i] \in Int /\ node[i] # NoValue
          BY <2>2 DEF SourceAssumption
        <5>2. best' # NoValue /\ node[j] <= best'
          BY <2>1, <3>2, <4>3, <5>1
        <5> QED BY <2>1, <3>1, <5>2
      <4> QED BY <4>1, <4>2, <4>3
    <3> QED BY <3>3, <3>4
  <2>5. Real(Labelled)' \subseteq shown'
    BY <1>0, <2>1 DEF Scanning, Real
  <2> QED BY <1>0, <2>1, <2>3, <2>4, <2>5 DEF SourceInv, Scanning, ReadingIsReal, SteadyInputCounts
<1>9. CASE ScanEnds
  BY <1>0, <1>9 DEF ScanEnds, Returns, SourceInv, Scanning, ReadingIsReal, SteadyInputCounts
<1>10. ASSUME NEW i \in Node, NEW s \in NodeState, NodeChanges(i, s) PROVE SourceInv'
  <2>1. /\ reader = "scan" /\ reader' = "scan" /\ node' = [node EXCEPT ![i] = s]
        /\ steady' = steady \ {i} /\ UNCHANGED <<bmc, paths, best>>
        /\ shown' = IF i \in Labelled /\ IsDegree(s) THEN shown \cup {s} ELSE shown
    BY <1>10 DEF NodeChanges
  <2>2. node' \in [Node -> NodeState] /\ \A j \in Node \ {i} : node'[j] = node[j]
    BY <1>0, <2>1
  <2>3. Real(Labelled)' \subseteq shown'
    BY <1>0, <2>1, <2>2 DEF Scanning, Real
  <2>4. \A j \in steady' : IsDegree(node'[j]) /\ (j \in paths' \/ (best' # NoValue /\ node'[j] <= best'))
    BY <1>0, <2>1, <2>2 DEF Scanning
  <2> QED BY <1>0, <2>1, <2>2, <2>3, <2>4 DEF SourceInv, Scanning, ReadingIsReal, SteadyInputCounts
<1>11. CASE TimePasses
  <2>1. /\ node' \in [Node -> NodeState] /\ bmc' \in [there : BOOLEAN, count : Count]
        /\ reader' = "idle" /\ got' = NoValue /\ steady' = {} /\ paths' = paths /\ best' = best
    BY <1>11 DEF TimePasses
  <2>2. Scanning' /\ ReadingIsReal' /\ SteadyInputCounts'
    BY <2>1 DEF Scanning, ReadingIsReal, SteadyInputCounts
  <2> QED BY <1>0, <2>1, <2>2 DEF SourceInv
<1> QED BY <1>1, <1>3, <1>4, <1>5, <1>6, <1>7, <1>8, <1>9, <1>10, <1>11 DEF SourceNext

LEMMA SourceInvariant == SourceSpec => []SourceInv
  BY InitSource, StepSource, PTL DEF SourceSpec

(* No source takes a sensor that is not there, an answer cut short, a failed *)
(* command or an input that is gone for a temperature.                       *)
THEOREM ReadingsAreReal == SourceSpec => []ReadingIsReal
<1>1. SourceInv => ReadingIsReal
  BY DEF SourceInv
<1> QED BY <1>1, SourceInvariant, PTL

(* In whatever order the inputs of a card are read, and whatever comes and   *)
(* goes meanwhile, none that stays readable is hotter than the reading.      *)
THEOREM SteadyInputsCount == SourceSpec => []SteadyInputCounts
<1>1. SourceInv => SteadyInputCounts
  BY DEF SourceInv
<1> QED BY <1>1, SourceInvariant, PTL

-----------------------------------------------------------------------------
(* A step of one part leaves the variables of the others as they were. *)
LEMMA PartsStepApart ==
  [CNext]_<<configVars, mapVars, sourceVars>> =>
    [ConfigNext]_configVars /\ [MapNext]_mapVars /\ [SourceNext]_sourceVars
<1> SUFFICES ASSUME [CNext]_<<configVars, mapVars, sourceVars>>
             PROVE  [ConfigNext]_configVars /\ [MapNext]_mapVars /\ [SourceNext]_sourceVars
  OBVIOUS
<1>1. CASE ConfigNext /\ UNCHANGED <<mapVars, sourceVars>>
  BY <1>1
<1>2. CASE MapNext /\ UNCHANGED <<configVars, sourceVars>>
  BY <1>2
<1>3. CASE SourceNext /\ UNCHANGED <<configVars, mapVars>>
  BY <1>3
<1>4. CASE UNCHANGED <<configVars, mapVars, sourceVars>>
  BY <1>4
<1> QED BY <1>1, <1>2, <1>3, <1>4 DEF CNext

(* What is checked of config.toml, mapping.toml and the sources together is   *)
(* what each of them does by itself: the theorems about the parts hold of it. *)
THEOREM PartsKeepApart == CSpec => ConfigSpec /\ MapSpec /\ SourceSpec
<1>1. CInit => ConfigInit /\ MapInit /\ SourceInit
  BY DEF CInit, CurvePart
<1> QED BY <1>1, PartsStepApart, PTL DEF CSpec, ConfigSpec, MapSpec, SourceSpec
==============================================================================
