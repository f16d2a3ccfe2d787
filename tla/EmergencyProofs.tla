--------------------------- MODULE EmergencyProofs ---------------------------
(* Theorems about Emergency, for any channels, devices and processes. *)
EXTENDS Emergency, BaselineStoreProofs

(* Channels an emergency is to bring to the failsafe duty. *)
Configured == enabled \cap ChanOf(CfgDev) \cap WriteChannels

Cool(cs) == \A c \in Configured \ cs : live[c] = FailDuty

(* Until an emergency ends, what it has not yet driven is in left. *)
Cooling ==
  svc = "post" /\ job[unit] = "emergency" /\ pc[unit] \in {"replace", "drive"} =>
    Cool(touched \cup left)

AnswerInv ==
  /\ Cooling /\ EmergencyAnswers
  /\ svc # "down" => ~answered
  /\ WriteChannels \subseteq picked

-----------------------------------------------------------------------------
(* Every step of the unit, of a command and of the BMC is one of the store. *)
LEMMA UnitStepsAreStoreSteps == StoreInv /\ [ENext]_evars => [Next]_storeVars
<1> SUFFICES ASSUME StoreInv, [ENext]_evars PROVE [Next]_storeVars
  OBVIOUS
<1> USE EmergencyAssumption
<1>1. Writable \in SUBSET Chan /\ FailDuty \in DriveDuty /\ want[unit] \in SUBSET Chan
      /\ ManualJob \subseteq Job /\ {"daemon", "release", "emergency"} \subseteq Job
  BY StoreAssumption DEF StoreInv, TypeOK, Writable, Job
<1>2. CASE Start
  BY <1>1, <1>2 DEF Start, Next
<1>3. CASE Daemon
  BY <1>1, <1>3 DEF Daemon, Next, Session
<1>4. CASE DaemonKilled
  BY <1>4 DEF DaemonKilled, Next
<1>5. CASE InjectTick \/ InjectEnds \/ PostNothing \/ PostInjects \/ EditConfig
  BY <1>5 DEF InjectTick, InjectEnds, PostNothing, PostInjects, EditConfig, Next
<1>6. CASE PostRelease \/ PostEmergency
  BY <1>1, <1>6 DEF PostRelease, PostEmergency, Next
<1>7. CASE Releasing
  BY <1>7 DEF Releasing, Next, Session
<1>8. CASE Emergency
  <2>1. CASE Acquire(unit) \/ Replace(unit) \/ PersistFails(unit)
    BY <2>1 DEF Next, Session
  <2>2. CASE Choose
    <3>1. CASE Capture(unit, Writable)
      BY <1>1, <3>1 DEF Next, Session
    <3>2. ASSUME NEW gone \in SUBSET ((ChanOf(CfgDev) \cap picked) \ enabled),
                 DriveUnrecorded(unit, Writable \cup gone)
          PROVE  [Next]_storeVars
      <4>1. Writable \cup gone \in SUBSET Chan
        BY <1>1 DEF ChanOf
      <4> QED BY <3>2, <4>1 DEF Next, Session
    <3> QED BY <2>2, <3>1, <3>2 DEF Choose
  <2>3. CASE DriveFirst
    <3>1. DriveOne(unit, First(left), FailDuty) /\ First(left) \in Chan
      BY <1>1, <2>3 DEF DriveFirst, DriveOne
    <3> QED BY <1>1, <3>1 DEF Next, Session
  <2>4. CASE Cooled \/ FallBack \/ Killed
    BY <2>4 DEF Cooled, FallBack, Killed, Next, Session
  <2> QED BY <1>8, <2>1, <2>2, <2>3, <2>4 DEF Emergency
<1>9. ASSUME NEW p \in Proc, Manual(p) PROVE [Next]_storeVars
  BY <1>1, <1>9 DEF Manual, Next
<1>10. CASE BmcActs \/ Reset
  BY <1>10 DEF BmcActs, Reset, Next
<1>11. CASE UNCHANGED evars
  BY <1>11 DEF evars
<1> QED BY <1>2, <1>3, <1>4, <1>5, <1>6, <1>7, <1>8, <1>9, <1>10, <1>11 DEF ENext

LEMMA UnitKeepsStoreInv == ESpec => []StoreInv
<1>1. EInit => StoreInv
  BY InitStore DEF EInit
<1>2. StoreInv /\ [ENext]_evars => StoreInv'
  BY UnitStepsAreStoreSteps, StoreStep
<1> QED BY <1>1, <1>2, PTL DEF ESpec

(* The unit in both modes, stop_post and manual commands are sessions of the *)
(* store, so that all its theorems hold of them (p2afan/control.py).         *)
THEOREM UnitImplementsStore == ESpec => Spec
<1>1. EInit => Init
  BY DEF EInit
<1> QED BY <1>1, UnitStepsAreStoreSteps, UnitKeepsStoreInv, PTL DEF ESpec, Spec

(* The types of files, registers and sessions, under the unit. *)
THEOREM UnitTypes == ESpec => []TypeOK
BY UnitImplementsStore, StoreTypes, PTL

(* Beside the unit, too, what is on record is the BMC's. *)
THEOREM UnitRecordsTheBmcs == ESpec => []KeptIsBmcs
BY UnitImplementsStore, RecordIsTheBmcs, PTL

(* The unit's emergencies leave a takeover they cannot read alone. *)
THEOREM UnitRefusesOld == ESpec => []OldRefused
BY UnitImplementsStore, OldTakeoversRefused, PTL

(* The record the unit keeps is the one of Ownership. *)
THEOREM UnitImplementsOwnership == ESpec => ImplementsOwnership
BY UnitImplementsStore, StoreImplementsOwnership, PTL

-----------------------------------------------------------------------------
LEMMA InitAnswer == EInit => AnswerInv
BY DEF EInit, AnswerInv, Cooling, EmergencyAnswers

LEMMA EmergencyStep ==
  ASSUME StoreInv, AnswerInv, Emergency
  PROVE  AnswerInv'
<1> USE EmergencyAssumption
<1>0. /\ unit \in Proc /\ pc \in [Proc -> {"idle", "lock", "open", "replace", "drive"}]
      /\ live \in [Chan -> Duty] /\ svc = "post" /\ job[unit] = "emergency" /\ ~answered
      /\ config' = config /\ picked' = picked /\ WriteChannels \subseteq picked
      /\ job \in [Proc -> Job \cup {"none"}]
  BY DEF StoreInv, TypeOK, AnswerInv, Emergency
<1>1. CASE (Acquire(unit) \/ Replace(unit) \/ PersistFails(unit))
           /\ UNCHANGED <<svc, sensors, left, answered, touched>>
  <2>1. CASE Acquire(unit)
    <3>1. pc'[unit] = "open"
      BY <1>0, <2>1 DEF Acquire, Goto
    <3> QED BY <1>0, <1>1, <3>1 DEF AnswerInv, Cooling, EmergencyAnswers
  <2>2. CASE Replace(unit) \/ PersistFails(unit)
    <3>1. pc[unit] = "replace" /\ UNCHANGED <<live, enabled>>
      BY <2>2 DEF Replace, PersistFails, registers
    <3> QED BY <1>0, <1>1, <3>1 DEF AnswerInv, Cooling, EmergencyAnswers, Cool, Configured
  <2> QED BY <1>1, <2>1, <2>2
<1>2. CASE Choose
  <2>1. UNCHANGED <<live, enabled, svc, sensors, answered>> /\ Writable \subseteq left'
    BY <1>2 DEF Choose, Capture, DriveUnrecorded, registers
  <2> QED BY <1>0, <2>1 DEF AnswerInv, Cooling, EmergencyAnswers, Cool, Configured, Writable
<1>3. CASE DriveFirst
  <2>1. /\ pc[unit] = "drive" /\ live' = [live EXCEPT ![First(left)] = FailDuty]
        /\ left' = left \ {First(left)} /\ UNCHANGED <<enabled, svc, sensors, answered, touched>>
    BY <1>3 DEF DriveFirst, DriveOne, HostWrite
  <2>2. Cool(touched \cup left)
    BY <1>0, <2>1 DEF AnswerInv, Cooling
  <2>3. Cool(touched \cup left)'
    <3> SUFFICES ASSUME NEW c \in Configured, c \notin touched \cup (left \ {First(left)})
                 PROVE  live'[c] = FailDuty
      BY <2>1 DEF Cool, Configured
    <3>1. c \in Chan
      BY DEF Configured, ChanOf
    <3> QED BY <1>0, <2>1, <2>2, <3>1 DEF Cool
  <2> QED BY <1>0, <2>1, <2>3 DEF AnswerInv, Cooling, EmergencyAnswers
<1>4. CASE Cooled
  <2>1. /\ pc[unit] = "drive" /\ left = {} /\ UNCHANGED <<live, enabled, left, touched>>
        /\ svc' = "down"
    BY <1>4 DEF Cooled, DriveEnds, registers
  <2>2. Cool(touched)
    BY <1>0, <2>1 DEF AnswerInv, Cooling, Cool
  <2> QED BY <1>0, <2>1, <2>2 DEF AnswerInv, Cooling, EmergencyAnswers, Cool, Configured
<1>5. CASE FallBack
  <2>1. svc' = "down" /\ sensors' \in BOOLEAN /\ answered' = sensors'
    BY <1>5 DEF FallBack
  <2> QED BY <1>0, <2>1 DEF AnswerInv, Cooling, EmergencyAnswers
<1>6. CASE Killed
  BY <1>0, <1>6 DEF Killed, AnswerInv, Cooling, EmergencyAnswers
<1> QED BY <1>1, <1>2, <1>3, <1>4, <1>5, <1>6 DEF Emergency

(* What commands and the BMC change is touched from there on. *)
LEMMA OthersStep ==
  ASSUME StoreInv, AnswerInv, BmcActs \/ \E p \in Proc : Manual(p)
  PROVE  AnswerInv'
<1> USE EmergencyAssumption
<1>0. /\ unit \in Proc /\ pc \in [Proc -> {"idle", "lock", "open", "replace", "drive"}]
      /\ live \in [Chan -> Duty] /\ job \in [Proc -> Job \cup {"none"}]
  BY DEF StoreInv, TypeOK
<1>1. UNCHANGED <<config, picked, svc, clean, sensors, left, answered>>
  BY DEF BmcActs, Manual
<1>2. pc'[unit] = pc[unit] /\ job'[unit] = job[unit]
  <2>1. CASE BmcActs
    BY <2>1 DEF BmcActs, Bmc, BmcWrite, BmcToggle, procs
  <2>2. ASSUME NEW p \in Proc, Manual(p) PROVE pc'[unit] = pc[unit] /\ job'[unit] = job[unit]
    <3>1. p # unit
      BY <2>2 DEF Manual
    <3>2. \A place, j : /\ [pc EXCEPT ![p] = place][unit] = pc[unit]
                        /\ [job EXCEPT ![p] = j][unit] = job[unit]
      BY <1>0, <3>1
    <3>3. \/ \E place : pc' = [pc EXCEPT ![p] = place]
          \/ pc' = pc
      BY <2>2 DEF Manual, Session, Acquire, GiveUp, End, Goto, Capture, DriveUnrecorded, RestoreSome,
         Replace, Proceed, PersistFails, DriveOne, Heartbeat, DriveEnds, Term, Kill, Ask, procs
    <3>4. \/ \E j : job' = [job EXCEPT ![p] = j]
          \/ job' = job
      BY <2>2 DEF Manual, Session, Acquire, GiveUp, End, Goto, Capture, DriveUnrecorded, RestoreSome,
         Replace, Proceed, PersistFails, DriveOne, Heartbeat, DriveEnds, Term, Kill, Ask, procs
    <3> QED BY <3>2, <3>3, <3>4
  <2> QED BY <2>1, <2>2
<1>3. PICK cs : /\ Touch(cs)
                /\ \A c \in Chan : live'[c] # live[c] \/ c \in enabled' \ enabled => c \in cs
  <2>1. CASE BmcActs
    BY <2>1 DEF BmcActs
  <2>2. ASSUME NEW p \in Proc, Manual(p)
        PROVE  enabled' = enabled /\ Touch({c \in Chan : live'[c] # live[c]})
    BY <2>2 DEF Manual, Session, Acquire, GiveUp, Capture, DriveUnrecorded, RestoreSome, Replace,
       PersistFails, DriveOne, HostWrite, Heartbeat, DriveEnds, Term, Kill, Ask, registers
  <2> QED BY <2>1, <2>2
<1>4. ASSUME svc = "post" \/ answered, NEW s, Cool(touched \cup s)
      PROVE  Cool(touched \cup s)'
  <2> SUFFICES ASSUME NEW c \in Configured', c \notin touched' \cup s' PROVE live'[c] = FailDuty
    BY DEF Cool
  <2>1. touched' = touched \cup cs /\ c \in Chan
    BY <1>3, <1>4 DEF Touch, Configured, ChanOf
  <2> QED BY <1>3, <1>4, <2>1 DEF Cool, Configured
<1>5. Cooling'
  BY <1>1, <1>2, <1>4 DEF AnswerInv, Cooling
<1>6. EmergencyAnswers'
  BY <1>1, <1>4 DEF AnswerInv, EmergencyAnswers, Cool, Configured
<1> QED BY <1>1, <1>5, <1>6 DEF AnswerInv

LEMMA AnswerStep == StoreInv /\ AnswerInv /\ [ENext]_evars => AnswerInv'
<1> SUFFICES ASSUME StoreInv, AnswerInv, [ENext]_evars PROVE AnswerInv'
  OBVIOUS
<1> USE EmergencyAssumption
<1>0. /\ unit \in Proc /\ pc \in [Proc -> {"idle", "lock", "open", "replace", "drive"}]
      /\ job \in [Proc -> Job \cup {"none"}]
  BY DEF StoreInv, TypeOK
<1>1. CASE Start
  BY <1>1 DEF Start, AnswerInv, Cooling, EmergencyAnswers
<1>2. CASE Daemon \/ DaemonKilled \/ InjectTick \/ InjectEnds
  <2>1. svc \in {"pwm", "inject"} /\ svc' \in {svc, "stopped"} /\ UNCHANGED <<picked, answered>>
    BY <1>2 DEF Daemon, DaemonKilled, InjectTick, InjectEnds
  <2> QED BY <2>1 DEF AnswerInv, Cooling, EmergencyAnswers
<1>3. CASE PostNothing \/ PostInjects \/ Reset
  <2>1. svc' = "down" /\ UNCHANGED picked
    BY <1>3 DEF PostNothing, PostInjects, Reset
  <2>2. answered' => svc = "stopped" /\ (answered \/ sensors')
    BY <1>3 DEF PostNothing, PostInjects, Reset
  <2> QED BY <2>1, <2>2 DEF AnswerInv, Cooling, EmergencyAnswers
<1>4. CASE PostRelease \/ PostEmergency
  <2>1. pc'[unit] = "lock"
    BY <1>0, <1>4 DEF PostRelease, PostEmergency, Ask, Goto
  <2> QED BY <1>4, <2>1 DEF PostRelease, PostEmergency, AnswerInv, Cooling, EmergencyAnswers
<1>5. CASE Releasing
  <2>1. job'[unit] # "emergency" /\ UNCHANGED <<picked, answered>> /\ svc = "post"
    BY <1>0, <1>5 DEF Releasing, Acquire, GiveUp, Replace, Proceed, PersistFails, Kill, RestoreSome,
       End, Goto
  <2> QED BY <2>1 DEF AnswerInv, Cooling, EmergencyAnswers
<1>6. CASE Emergency
  BY <1>6, EmergencyStep
<1>7. CASE BmcActs \/ \E p \in Proc : Manual(p)
  BY <1>7, OthersStep
<1>8. CASE EditConfig \/ UNCHANGED evars
  BY <1>8 DEF EditConfig, evars, unitVars, storeVars, registers, procs, AnswerInv, Cooling,
     EmergencyAnswers, Cool, Configured
<1> QED BY <1>1, <1>2, <1>3, <1>4, <1>5, <1>6, <1>7, <1>8 DEF ENext

(* An emergency that returns without an exception has brought every enabled *)
(* configured channel of the device to the failsafe duty, or the sensors to *)
(* the failsafe temperature, for any number of channels (force_failsafe).   *)
THEOREM EmergencyAnswered == ESpec => []EmergencyAnswers
<1>1. EInit => AnswerInv
  BY InitAnswer
<1>2. AnswerInv => EmergencyAnswers
  BY DEF AnswerInv
<1> QED BY <1>1, <1>2, AnswerStep, UnitKeepsStoreInv, PTL DEF ESpec
==============================================================================
