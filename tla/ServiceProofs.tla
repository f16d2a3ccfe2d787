---------------------------- MODULE ServiceProofs ----------------------------
(***************************************************************************)
(* Theorems about P2ABridge, for any number of processes and windows, and  *)
(* about Service, for all timeouts, numbers of reads and commands.         *)
(***************************************************************************)
EXTENDS Service, TLAPS

(* Who is inside a session holds the lock, and nobody else does. *)
Inside == {"locked", "use", "readback", "access", "close", "unlock"}
InUse == {"use", "readback", "access", "close"}

LockInv == \A p \in Proc : pc[p] \in Inside <=> lock = p

(* The copy of the register is true where the code relies on it. *)
ViewInv ==
  \A p \in Proc :
    /\ pc[p] \in {"use", "access", "close"} => posted = None /\ window = cache[p]
    /\ pc[p] = "access" => target[p] = cache[p]
    /\ pc[p] \in InUse => orig[p] \in Base

HomeInv ==
  ~spoiled =>
    /\ ~locked
    /\ lock = Nobody => Settled = home
    /\ \A p \in Proc : /\ pc[p] \in {"locked", "unlock"} => Settled = home
                       /\ pc[p] \in InUse => orig[p] = home

BInv == BTypeOK /\ LockInv /\ ViewInv /\ HomeInv

LEMMA SettledBase == BTypeOK => Settled \in Base
BY DEF BTypeOK, Settled

LEMMA InitBInv == BInit => BInv
<1> SUFFICES ASSUME BInit PROVE BInv
  OBVIOUS
<1> USE BridgeAssumption DEF BInit
<1>1. BTypeOK
  <2>1. spoiled \in BOOLEAN
    BY Zenon
  <2> QED BY <2>1 DEF BTypeOK
<1>2. LockInv /\ ViewInv
  BY DEF LockInv, ViewInv, Inside, InUse
<1>3. HomeInv
  BY DEF HomeInv, InUse, Settled
<1> QED BY <1>1, <1>2, <1>3 DEF BInv

(* Steps that touch neither the register nor who is in a session. *)
LEMMA StepBInv == BInv /\ [BNext]_bvars => BInv'
<1> SUFFICES ASSUME BInv, [BNext]_bvars PROVE BInv'
  OBVIOUS
<1> USE BridgeAssumption DEF BInv, Goto, bridge, sessions, bhistory, bvars
<1>0. Settled \in Base
  BY SettledBase
<1>1. ASSUME NEW p \in Proc, Wait(p) \/ LockTimeout(p) PROVE BInv'
  <2>0. UNCHANGED <<lock, bridge, cache, orig, target, bhistory>> /\ pc[p] \notin Inside
        /\ \E q \in {"idle", "wait"} : pc' = [pc EXCEPT ![p] = q]
    BY <1>1 DEF Wait, LockTimeout, Inside
  <2>1. BTypeOK'
    BY <2>0 DEF BTypeOK
  <2>2. LockInv' /\ ViewInv'
    BY <2>0 DEF BTypeOK, LockInv, ViewInv, Inside, InUse
  <2>3. HomeInv'
    BY <2>0 DEF BTypeOK, HomeInv, Settled, InUse
  <2> QED BY <2>1, <2>2, <2>3
<1>2. ASSUME NEW p \in Proc, Acquire(p) PROVE BInv'
  <2>1. BTypeOK'
    BY <1>2 DEF Acquire, BTypeOK
  <2>2. LockInv' /\ ViewInv'
    BY <1>2 DEF Acquire, BTypeOK, LockInv, ViewInv, Inside, InUse
  <2>3. HomeInv'
    BY <1>2 DEF Acquire, BTypeOK, HomeInv, Settled, InUse
  <2> QED BY <2>1, <2>2, <2>3
<1>3. ASSUME NEW p \in Proc, OpenFails(p) PROVE BInv'
  <2>1. BTypeOK'
    BY <1>3 DEF OpenFails, BTypeOK
  <2>2. LockInv' /\ ViewInv'
    BY <1>3 DEF OpenFails, BTypeOK, LockInv, ViewInv, Inside, InUse
  <2>3. HomeInv'
    BY <1>3 DEF OpenFails, BTypeOK, HomeInv, Settled, InUse
  <2> QED BY <2>1, <2>2, <2>3
<1>4. ASSUME NEW p \in Proc, Open(p) PROVE BInv'
  <2>1. BTypeOK'
    BY <1>0, <1>4 DEF Open, ReadWindow, BTypeOK
  <2>2. LockInv' /\ ViewInv'
    BY <1>0, <1>4 DEF Open, ReadWindow, BTypeOK, LockInv, ViewInv, Inside, InUse
  <2>3. HomeInv'
    BY <1>0, <1>4 DEF Open, ReadWindow, BTypeOK, LockInv, HomeInv, Settled, Inside, InUse
  <2> QED BY <2>1, <2>2, <2>3
<1>5. ASSUME NEW p \in Proc, NEW b \in Base, SelectSame(p, b) PROVE BInv'
  <2>1. BTypeOK'
    BY <1>5 DEF SelectSame, BTypeOK
  <2>2. LockInv' /\ ViewInv'
    BY <1>5 DEF SelectSame, BTypeOK, LockInv, ViewInv, Inside, InUse
  <2>3. HomeInv'
    BY <1>5 DEF SelectSame, BTypeOK, HomeInv, Settled, InUse
  <2> QED BY <2>1, <2>2, <2>3
<1>6. ASSUME NEW p \in Proc, NEW b \in Base, SelectOther(p, b) PROVE BInv'
  <2>1. BTypeOK'
    BY <1>0, <1>6 DEF SelectOther, PostWindow, BTypeOK
  <2>2. LockInv' /\ ViewInv'
    BY <1>0, <1>6 DEF SelectOther, PostWindow, BTypeOK, LockInv, ViewInv, Inside, InUse
  <2>3. HomeInv'
    BY <1>0, <1>6 DEF SelectOther, PostWindow, BTypeOK, LockInv, HomeInv, Settled, Inside, InUse
  <2> QED BY <2>1, <2>2, <2>3
<1>7. ASSUME NEW p \in Proc, ReadBack(p) PROVE BInv'
  <2>1. BTypeOK'
    BY <1>0, <1>7 DEF ReadBack, ReadWindow, BTypeOK
  <2>2. LockInv' /\ ViewInv'
    BY <1>0, <1>7 DEF ReadBack, ReadWindow, BTypeOK, LockInv, ViewInv, Inside, InUse
  <2>3. HomeInv'
    BY <1>0, <1>7 DEF ReadBack, ReadWindow, BTypeOK, LockInv, HomeInv, Settled, Inside, InUse
  <2> QED BY <2>1, <2>2, <2>3
<1>8. ASSUME NEW p \in Proc, Access(p) \/ Leave(p) PROVE BInv'
  <2>1. BTypeOK'
    BY <1>8 DEF Access, Leave, BTypeOK
  <2>2. LockInv' /\ ViewInv'
    BY <1>8 DEF Access, Leave, BTypeOK, LockInv, ViewInv, Inside, InUse
  <2>3. HomeInv'
    BY <1>8 DEF Access, Leave, BTypeOK, HomeInv, Settled, InUse
  <2> QED BY <2>1, <2>2, <2>3
<1>9. ASSUME NEW p \in Proc, Close(p) PROVE BInv'
  <2>0. /\ pc[p] = "close" /\ orig[p] \in Base /\ posted = None /\ window = cache[p]
        /\ window' \in Base /\ posted' \in Base \cup {None} /\ locked' = locked
        /\ ~locked => Settled' = orig[p]
    BY <1>0, <1>9 DEF Close, PostWindow, Settled, BTypeOK, ViewInv, InUse
  <2>1. BTypeOK'
    BY <1>9, <2>0 DEF Close, BTypeOK
  <2>2. LockInv' /\ ViewInv'
    BY <1>9, <2>0 DEF Close, BTypeOK, LockInv, ViewInv, Inside, InUse
  <2>3. HomeInv'
    BY <1>9, <2>0 DEF Close, BTypeOK, LockInv, HomeInv, Inside, InUse
  <2> QED BY <2>1, <2>2, <2>3
<1>10. ASSUME NEW p \in Proc, Unlock(p) PROVE BInv'
  <2>1. BTypeOK'
    BY <1>10 DEF Unlock, Forget, BTypeOK
  <2>2. LockInv' /\ ViewInv'
    BY <1>10 DEF Unlock, Forget, BTypeOK, LockInv, ViewInv, Inside, InUse
  <2>3. HomeInv'
    BY <1>10 DEF Unlock, Forget, BTypeOK, LockInv, HomeInv, Settled, Inside, InUse
  <2> QED BY <2>1, <2>2, <2>3
<1>11. ASSUME NEW p \in Proc, Kill(p) PROVE BInv'
  <2>0. spoiled' \in BOOLEAN /\ (~spoiled' => ~spoiled /\ lock # p)
    BY <1>11 DEF Kill
  <2>1. BTypeOK'
    BY <1>11, <2>0 DEF Kill, Forget, BTypeOK
  <2>2. LockInv' /\ ViewInv'
    BY <1>11 DEF Kill, Forget, BTypeOK, LockInv, ViewInv, Inside, InUse
  <2>3. HomeInv'
    BY <1>11, <2>0 DEF Kill, Forget, BTypeOK, LockInv, HomeInv, Settled, Inside, InUse
  <2> QED BY <2>1, <2>2, <2>3
<1>12. CASE Arrive
  <2>1. BTypeOK'
    BY <1>0, <1>12 DEF Arrive, BTypeOK
  <2>2. LockInv' /\ ViewInv'
    BY <1>12 DEF Arrive, BTypeOK, LockInv, ViewInv, Inside, InUse
  <2>3. HomeInv'
    BY <1>12 DEF Arrive, BTypeOK, HomeInv, Settled, InUse
  <2> QED BY <2>1, <2>2, <2>3
<1>13. CASE BmcLocksBridge
  <2>1. BTypeOK'
    BY <1>13 DEF BmcLocksBridge, BTypeOK
  <2>2. LockInv' /\ ViewInv' /\ HomeInv'
    BY <1>13 DEF BmcLocksBridge, LockInv, ViewInv, HomeInv
  <2> QED BY <2>1, <2>2
<1>14. CASE UNCHANGED bvars
  BY <1>14 DEF BTypeOK, LockInv, ViewInv, HomeInv, Settled
<1> QED
  BY <1>1, <1>2, <1>3, <1>4, <1>5, <1>6, <1>7, <1>8, <1>9, <1>10, <1>11, <1>12, <1>13,
     <1>14 DEF BNext, Use

THEOREM BridgeInvariant == BSpec => []BInv
BY InitBInv, StepBInv, PTL DEF BSpec

(* Every access of a session goes through the window it was meant for,       *)
(* whatever kills, posted writes and other processes left there (_select,    *)
(* Ahb.__init__).                                                            *)
THEOREM AccessesLand == BSpec => []AccessLands
<1>1. BInv => AccessLands
  BY DEF BInv, AccessLands, ViewInv, LockInv, Inside
<1> QED BY <1>1, BridgeInvariant, PTL

(* Sessions that end by themselves leave the window as it was (close). *)
THEOREM WindowComesBack == BSpec => []WindowRestored
<1>1. BInv => WindowRestored
  BY DEF BInv, WindowRestored, HomeInv
<1> QED BY <1>1, BridgeInvariant, PTL

-----------------------------------------------------------------------------
(* The register of the bridge does not know of time: every step of the unit, *)
(* of systemd or of a command is a step of P2ABridge, or none of its own.    *)
LEMMA BridgeSteps == [SNext]_svars => [BNext]_bvars
<1> SUFFICES ASSUME [SNext]_svars PROVE [BNext]_bvars
  OBVIOUS
<1> USE ServiceAssumption, BridgeAssumption
<1>1. CASE Start \/ StartPost
  <2>1. Wait(unit)
    BY <1>1 DEF Start, StartPost
  <2> QED BY <2>1 DEF BNext
<1>2. CASE Opening \/ BeginWrite
  <2>1. Acquire(unit) \/ Open(unit) \/ ReadBack(unit)
          \/ SelectSame(unit, PwmBase) \/ SelectOther(unit, PwmBase)
    BY <1>2 DEF Opening, BeginWrite
  <2> QED BY <2>1 DEF BNext, Use
<1>3. CASE Raises \/ Ends \/ PostCloses \/ PostFallsBack
  <2>1. Leave(unit) \/ UNCHANGED bvars \/ LockTimeout(unit) \/ OpenFails(unit)
          \/ Close(unit) \/ Unlock(unit)
    BY <1>3 DEF Raises, Ends, PostCloses, PostFallsBack
  <2> QED BY <2>1 DEF BNext, Use
<1>4. CASE Killed \/ WatchdogKills \/ PostKilled
  <2>1. Kill(unit)
    BY <1>4 DEF Killed, WatchdogKills, PostKilled
  <2> QED BY <2>1 DEF BNext
<1>5. CASE Opened \/ Act \/ PostDrives
  <2>1. Access(unit)
    BY <1>5 DEF Opened, Act, PostDrives
  <2> QED BY <2>1 DEF BNext, Use
<1>6. CASE ReadOne \/ NextTick \/ Hang \/ PostInjects \/ Elapse
  BY <1>6 DEF ReadOne, NextTick, Hang, PostInjects, Elapse
<1>7. ASSUME NEW p \in Proc, Commands(p) PROVE [BNext]_bvars
  <2>1. Wait(p) \/ Acquire(p) \/ LockTimeout(p) \/ Use(p) \/ Kill(p)
    BY <1>7 DEF Commands
  <2> QED BY <2>1 DEF BNext
<1>8. CASE Bus
  BY <1>8 DEF Bus, BNext
<1>9. CASE UNCHANGED svars
  BY <1>9 DEF svars
<1> QED
  BY <1>1, <1>2, <1>3, <1>4, <1>5, <1>6, <1>7, <1>8, <1>9 DEF SNext

(* The unit in time uses the bridge as P2ABridge says: what holds of any     *)
(* sessions holds of the daemon's, of stop-post's and of the commands'.      *)
THEOREM ServiceUsesBridge == SSpec => BSpec
<1>1. SInit => BInit
  BY DEF SInit
<1> QED BY <1>1, BridgeSteps, PTL DEF SSpec, BSpec

(* So the unit's accesses land, and its sessions give the window back. *)
THEOREM ServiceAccessesLand == SSpec => []AccessLands
BY ServiceUsesBridge, AccessesLand, PTL

THEOREM ServiceWindowComesBack == SSpec => []WindowRestored
BY ServiceUsesBridge, WindowComesBack, PTL

-----------------------------------------------------------------------------
(* How long a daemon that is not hung can have been silent, phase by phase.  *)
Spent == (Reads - left) * ReadTimeout + spent

Silence ==
  /\ silent \in Nat /\ spent \in Nat /\ elapsed \in Nat /\ left \in 0 .. Reads
  /\ phase \in {"rest", "start", "post", "closing", "inject"} => ~ready
  /\ phase = "read" => left \in 1 .. Reads /\ spent <= ReadTimeout
  /\ ready /\ ~hung =>
       /\ phase = "read" => silent <= TickSeconds + Spent
       /\ phase = "act" => silent <= TickSeconds + Reads * ReadTimeout
       /\ phase = "sleep" => silent <= elapsed /\ silent <= TickSeconds

LEMMA OneMore ==
  \A n \in Int : /\ (Reads - (n - 1)) * ReadTimeout = (Reads - n) * ReadTimeout + ReadTimeout
                 /\ (Reads - n) * ReadTimeout \in Int
                 /\ (Reads - Reads) * ReadTimeout = 0
                 /\ (Reads - 1) * ReadTimeout + ReadTimeout = Reads * ReadTimeout
                 /\ Reads * ReadTimeout \in Nat
BY ServiceAssumption

LEMMA StepSilence == Silence /\ [SNext]_svars => Silence'
<1> SUFFICES ASSUME Silence, [SNext]_svars PROVE Silence'
  OBVIOUS
<1>0. /\ Reads \in Nat \ {0} /\ ReadTimeout \in Nat \ {0} /\ TickSeconds \in Nat \ {0}
  BY ServiceAssumption
<1> USE <1>0 DEF Silence, Phase, Timeless, clocks, Daemon
<1>1. CASE Start \/ StartPost
  BY <1>1 DEF Start, StartPost
<1>2. CASE Opening \/ BeginWrite \/ Hang \/ Bus
  BY <1>2 DEF Opening, BeginWrite, Hang, Bus, Spent
<1>3. CASE Raises \/ Ends \/ Killed \/ WatchdogKills
  BY <1>3 DEF Raises, Ends, Killed, WatchdogKills
<1>4. CASE PostDrives \/ PostCloses \/ PostFallsBack \/ PostInjects \/ PostKilled
  BY <1>4 DEF PostDrives, PostCloses, PostFallsBack, PostInjects, PostKilled
<1>5. CASE Opened
  BY <1>5 DEF Opened
<1>6. CASE ReadOne
  <2>1. CASE left = 1
    <3>1. phase' = "act" /\ silent' = silent /\ elapsed' = elapsed /\ left' = 0 /\ spent' = 0
          /\ ready' = ready /\ hung' = hung /\ ~hung
      BY <1>6, <2>1 DEF ReadOne, Running
    <3>2. ready => silent <= TickSeconds + (Reads - 1) * ReadTimeout + ReadTimeout
      <4>1. ready => silent <= TickSeconds + (Reads - 1) * ReadTimeout + spent
        BY <1>6, <2>1 DEF ReadOne, Running, Spent
      <4>2. spent <= ReadTimeout
        BY <1>6 DEF ReadOne
      <4> QED BY <4>1, <4>2, OneMore
    <3>3. ready => silent <= TickSeconds + Reads * ReadTimeout
      BY <3>2, OneMore
    <3> QED BY <3>1, <3>3
  <2>2. CASE left # 1
    <3>1. phase' = "read" /\ silent' = silent /\ elapsed' = elapsed /\ spent' = 0
          /\ left' = left - 1 /\ left' \in 1 .. Reads
          /\ ready' = ready /\ hung' = hung /\ ~hung
      BY <1>6, <2>2 DEF ReadOne, Running
    <3>2. ready => silent <= TickSeconds + ((Reads - left) * ReadTimeout + spent)
      BY <1>6 DEF ReadOne, Running, Spent
    <3>3. spent <= ReadTimeout
      BY <1>6 DEF ReadOne
    <3>4. /\ (Reads - (left - 1)) * ReadTimeout = (Reads - left) * ReadTimeout + ReadTimeout
          /\ (Reads - left) * ReadTimeout \in Int
      BY OneMore
    <3>5. ready => silent <= TickSeconds + (Reads - (left - 1)) * ReadTimeout
      BY <3>2, <3>3, <3>4
    <3>6. Spent' = (Reads - (left - 1)) * ReadTimeout + 0
      BY <3>1 DEF Spent
    <3>7. ready' => silent' <= TickSeconds + Spent'
      BY <3>1, <3>4, <3>5, <3>6
    <3> QED BY <3>1, <3>7
  <2> QED BY <2>1, <2>2
<1>7. CASE Act
  BY <1>7 DEF Act
<1>8. CASE NextTick
  <2>1. phase' = "read" /\ left' = Reads /\ spent' = 0 /\ silent' = silent /\ elapsed' = 0
        /\ ready' = ready /\ hung' = hung /\ (ready /\ ~hung => silent <= TickSeconds)
    BY <1>8 DEF NextTick
  <2>2. Spent' = 0
    BY <2>1, OneMore DEF Spent
  <2> QED BY <2>1, <2>2
<1>9. ASSUME NEW p \in Proc, Commands(p) PROVE Silence'
  BY <1>9 DEF Commands, Spent
<1>10. CASE Elapse
  <2>1. /\ UNCHANGED <<phase, ready, left, hung>>
        /\ silent' \in {silent, silent + 1} /\ elapsed' \in {elapsed, elapsed + 1}
        /\ spent' \in {spent, spent + 1}
    BY <1>10 DEF Elapse
  <2>2. CASE phase = "read" /\ ~hung
    <3>1. spent' = spent + 1 /\ spent < ReadTimeout
      BY <1>10, <2>2 DEF Elapse, Unhurried
    <3>2. Spent' = Spent + 1 /\ Spent \in Int
      BY <2>1, <2>2, <3>1, OneMore DEF Spent
    <3> QED BY <2>1, <2>2, <3>1, <3>2
  <2>3. CASE phase = "read" /\ hung
    <3>1. spent' = spent
      BY <1>10, <2>3 DEF Elapse
    <3> QED BY <2>1, <2>3, <3>1
  <2>4. CASE phase = "sleep" /\ ~hung
    <3>1. elapsed' = elapsed + 1 /\ elapsed < TickSeconds
      BY <1>10, <2>4 DEF Elapse, Unhurried
    <3> QED BY <2>1, <2>4, <3>1
  <2>5. phase # "act" \/ hung
    BY <1>10 DEF Elapse, Unhurried
  <2> QED BY <2>1, <2>2, <2>3, <2>4, <2>5
<1>11. CASE UNCHANGED svars
  BY <1>11 DEF svars, Spent
<1> QED
  BY <1>1, <1>2, <1>3, <1>4, <1>5, <1>6, <1>7, <1>8, <1>9, <1>10, <1>11 DEF SNext

LEMMA SilenceHolds == SSpec => []Silence
<1>1. SInit => Silence
  <2>1. ASSUME SInit PROVE /\ phase = "rest" /\ ~ready /\ silent = 0 /\ spent = 0
                           /\ elapsed = 0 /\ left = 0
    BY <2>1 DEF SInit
  <2> QED BY <2>1, ServiceAssumption DEF Silence
<1> QED BY <1>1, StepSilence, PTL DEF SSpec

(* Where reads and sleep fit in the watchdog's time, only a daemon that hangs *)
(* is ever silent for so long (run, tick, WatchdogSec).                       *)
THEOREM WatchdogSparesTheLiving == SSpec => []NoFalseKill
<1>1. Silence => NoFalseKill
  <2> SUFFICES ASSUME Silence, Reads * ReadTimeout + TickSeconds < WatchdogSec,
                      ready, Daemon, silent = WatchdogSec, ~hung
               PROVE  FALSE
    BY DEF NoFalseKill
  <2>0. /\ Reads \in Nat \ {0} /\ ReadTimeout \in Nat \ {0} /\ TickSeconds \in Nat \ {0}
        /\ WatchdogSec \in Nat
    BY ServiceAssumption
  <2>1. phase \in {"read", "act", "sleep"}
    BY DEF Silence, Daemon
  <2>2. CASE phase = "read"
    <3>1. left \in 1 .. Reads /\ spent <= ReadTimeout /\ spent \in Nat
          /\ silent <= TickSeconds + Spent
      BY <2>2 DEF Silence
    <3>2. (Reads - left) * ReadTimeout <= (Reads - 1) * ReadTimeout
      BY <2>0, <3>1
    <3>3. Spent <= Reads * ReadTimeout
      BY <2>0, <3>1, <3>2, OneMore DEF Spent
    <3>4. Spent \in Int
      BY <3>1, OneMore DEF Spent
    <3> QED BY <2>0, <3>1, <3>3, <3>4, OneMore
  <2>3. CASE phase # "read"
    BY <2>0, <2>1, <2>3, OneMore DEF Silence
  <2> QED BY <2>2, <2>3
<1> QED BY <1>1, SilenceHolds, PTL

-----------------------------------------------------------------------------
(* How long nobody has told the fans or the sensors anything, phase by phase. *)
Longest == IF WatchdogSec > RestartSec + StartLimit THEN WatchdogSec
           ELSE RestartSec + StartLimit

Exposure ==
  /\ silent \in Nat /\ spent \in Nat /\ exposed \in Nat /\ waited \in [Proc -> Nat]
  /\ phase \in {"rest", "start", "post", "closing", "inject"} => ~ready
  /\ phase \in {"rest", "post", "closing", "inject"} => ~hung
  /\ phase \in {"rest", "start", "read", "act", "sleep", "ending", "dead", "post", "closing",
                "inject"}
  /\ silent <= WatchdogSec + StartLimit /\ (Daemon => silent <= Limit)
  /\ phase = "post" => waited[unit] <= LockWait
  /\ phase = "rest" => spent <= RestartSec
  /\ phase = "inject" => spent <= InjectTime
  /\ ~abandoned =>
       /\ phase = "rest" => exposed <= spent
       /\ Daemon /\ ready => exposed <= silent
       /\ Daemon /\ ~ready => exposed <= RestartSec + silent
       /\ phase \in {"ending", "dead"} => exposed <= Longest
       /\ phase = "post" => exposed <= Longest + waited[unit]
       /\ phase = "inject" => exposed <= Longest + LockWait + spent
       /\ phase = "closing" => exposed = 0

LEMMA StepExposure == Exposure /\ [SNext]_svars => Exposure'
<1> SUFFICES ASSUME Exposure, [SNext]_svars PROVE Exposure'
  OBVIOUS
<1>0. /\ WatchdogSec \in Nat \ {0} /\ RestartSec \in Nat \ {0} /\ StartLimit \in Nat \ {0}
      /\ LockWait \in Nat \ {0} /\ InjectTime \in Nat \ {0} /\ unit \in Proc
  BY ServiceAssumption
<1> USE <1>0 DEF Exposure, Phase, Timeless, clocks, Daemon, Limit, Longest
<1>1. CASE Start
  BY <1>1 DEF Start
<1>2. CASE StartPost
  BY <1>2 DEF StartPost
<1>3. CASE Opening \/ BeginWrite \/ Hang \/ Bus \/ ReadOne \/ NextTick \/ Opened
  BY <1>3 DEF Opening, BeginWrite, Hang, Bus, ReadOne, NextTick, Opened, Running
<1>4. CASE Raises \/ Ends \/ Killed \/ WatchdogKills
  BY <1>4 DEF Raises, Ends, Killed, WatchdogKills, Running
<1>5. CASE PostDrives \/ PostCloses \/ PostKilled
  BY <1>5 DEF PostDrives, PostCloses, PostKilled
<1>6. CASE PostFallsBack \/ PostInjects
  BY <1>6 DEF PostFallsBack, PostInjects
<1>7. CASE Act
  BY <1>7 DEF Act
<1>8. ASSUME NEW p \in Proc, Commands(p) PROVE Exposure'
  <2>1. /\ UNCHANGED <<phase, spent, silent, ready, hung, exposed, abandoned>>
        /\ waited' \in [Proc -> Nat] /\ waited'[unit] = waited[unit]
    BY <1>8 DEF Commands
  <2> QED BY <2>1
<1>9. CASE Elapse
  <2>1. /\ UNCHANGED <<phase, ready, hung, abandoned>> /\ waited' \in [Proc -> Nat]
        /\ spent' \in {spent, spent + 1} /\ silent' \in {silent, silent + 1}
        /\ exposed' = IF abandoned THEN exposed ELSE exposed + 1
        /\ ~Daemon => silent' = silent
    BY <1>9 DEF Elapse
  <2>2. CASE Daemon
    <3>1. silent' = silent + 1 /\ silent < Limit
      BY <1>9, <2>2 DEF Elapse, Unhurried
    <3>2. Limit \in Nat /\ Limit' = Limit /\ Limit <= WatchdogSec + StartLimit
      BY <2>1
    <3>3. silent' \in Nat /\ silent' <= Limit' /\ silent' <= WatchdogSec + StartLimit
      BY <3>1, <3>2
    <3>4. spent' \in Nat /\ exposed' \in Nat
      BY <2>1
    <3>5. CASE abandoned
      BY <2>1, <2>2, <3>3, <3>4, <3>5
    <3>6. CASE ~abandoned
      <4>1. exposed' = exposed + 1
        BY <2>1, <3>6
      <4>2. ready' => exposed' <= silent'
        BY <2>1, <2>2, <3>1, <3>6, <4>1
      <4>3. ~ready' => exposed' <= RestartSec + silent'
        BY <2>1, <2>2, <3>1, <3>6, <4>1
      <4> QED BY <2>1, <2>2, <3>3, <3>4, <4>2, <4>3
    <3> QED BY <3>5, <3>6
  <2>3. CASE phase = "rest"
    <3>1. spent' = spent + 1 /\ spent < RestartSec
      BY <1>9, <2>3 DEF Elapse, Unhurried
    <3> QED BY <2>1, <2>3, <3>1
  <2>4. CASE phase = "inject"
    <3>1. spent' = spent + 1 /\ spent < InjectTime
      BY <1>9, <2>4 DEF Elapse, Unhurried
    <3> QED BY <2>1, <2>4, <3>1
  <2>5. CASE phase = "post"
    <3>1. waited'[unit] = waited[unit] + 1 /\ waited[unit] < LockWait
      BY <1>9, <2>5 DEF Elapse, Unhurried
    <3> QED BY <2>1, <2>5, <3>1
  <2>6. phase \notin {"ending", "dead", "closing"}
    BY <1>9 DEF Elapse, Unhurried
  <2> QED BY <2>2, <2>3, <2>4, <2>5, <2>6
<1>10. CASE UNCHANGED svars
  BY <1>10 DEF svars
<1> QED
  BY <1>1, <1>2, <1>3, <1>4, <1>5, <1>6, <1>7, <1>8, <1>9, <1>10 DEF SNext

LEMMA ExposureHolds == SSpec => []Exposure
<1>0. /\ WatchdogSec \in Nat /\ RestartSec \in Nat /\ StartLimit \in Nat
      /\ LockWait \in Nat /\ InjectTime \in Nat /\ unit \in Proc
  BY ServiceAssumption
<1>1. SInit => Exposure
  <2>1. ASSUME SInit PROVE /\ phase = "rest" /\ ~ready /\ ~hung /\ silent = 0
                           /\ spent = 0 /\ exposed = 0 /\ waited = [p \in Proc |-> 0]
    BY <2>1 DEF SInit
  <2> QED BY <2>1, <1>0 DEF Exposure, Daemon
<1> QED BY <1>1, StepExposure, PTL DEF SSpec

(* Whatever hangs, dies or holds the lock, the fans or the sensors hear of   *)
(* the unit again in time, unless the emergency itself is killed or reaches  *)
(* no sensor (the watchdog, ExecStopPost, DAEMON_LOCK_WAIT).                 *)
THEOREM CoolsWithinBound == SSpec => []CoolsInTime
<1>0. /\ WatchdogSec \in Nat /\ RestartSec \in Nat /\ StartLimit \in Nat
      /\ LockWait \in Nat /\ InjectTime \in Nat /\ unit \in Proc
  BY ServiceAssumption
<1>1. Exposure => CoolsInTime
  BY <1>0 DEF Exposure, CoolsInTime, ExposureBound, Daemon, Limit, Longest
<1> QED BY <1>1, ExposureHolds, PTL

-----------------------------------------------------------------------------
Flags == ready \in BOOLEAN /\ hung \in BOOLEAN /\ abandoned \in BOOLEAN

LEMMA StepFlags == Flags /\ [SNext]_svars => Flags'
<1> SUFFICES ASSUME Flags, [SNext]_svars PROVE Flags'
  OBVIOUS
<1> USE DEF Flags, Phase, Timeless, clocks
<1>1. CASE Start \/ Opening \/ Opened \/ Raises \/ Ends
  BY <1>1, Zenon DEF Start, Opening, Opened, Raises, Ends
<1>2. CASE Killed \/ ReadOne \/ BeginWrite \/ NextTick
  BY <1>2, Zenon DEF Killed, ReadOne, BeginWrite, NextTick
<1>3. CASE Act \/ Hang \/ WatchdogKills \/ StartPost
  BY <1>3, Zenon DEF Act, Hang, WatchdogKills, StartPost
<1>4. CASE PostDrives \/ PostCloses \/ PostFallsBack
  BY <1>4, Zenon DEF PostDrives, PostCloses, PostFallsBack
<1>5. CASE PostInjects \/ PostKilled \/ Bus \/ Elapse
  BY <1>5, Zenon DEF PostInjects, PostKilled, Bus, Elapse
<1>6. ASSUME NEW p \in Proc, Commands(p) PROVE Flags'
  BY <1>6, Zenon DEF Commands
<1>7. CASE UNCHANGED svars
  BY <1>7, Zenon DEF svars
<1> QED
  BY <1>1, <1>2, <1>3, <1>4, <1>5, <1>6, <1>7, Zenon DEF SNext

(* Every variable of the unit and of the bridge keeps its type. *)
THEOREM ServiceTypes == SSpec => []STypeOK
<1>1. SInit => Flags
  BY Zenon DEF SInit, Flags
<1>2. Silence /\ Exposure /\ Flags /\ BInv => STypeOK
  <2> SUFFICES ASSUME Silence, Exposure, Flags, BInv PROVE STypeOK
    OBVIOUS
  <2>1. silent \in 0 .. (WatchdogSec + StartLimit)
    BY ServiceAssumption DEF Exposure
  <2>2. BTypeOK /\ ready \in BOOLEAN /\ hung \in BOOLEAN /\ abandoned \in BOOLEAN
    BY Zenon DEF BInv, Flags
  <2>3. /\ phase \in {"rest", "start", "read", "act", "sleep", "ending", "dead", "post",
                     "closing", "inject"}
        /\ left \in 0 .. Reads /\ spent \in Nat /\ elapsed \in Nat /\ exposed \in Nat
        /\ waited \in [Proc -> Nat]
    BY DEF Silence, Exposure
  <2> QED BY <2>1, <2>2, <2>3, Zenon DEF STypeOK
<1> QED BY <1>1, <1>2, StepFlags, SilenceHolds, ExposureHolds, ServiceUsesBridge,
          BridgeInvariant, PTL DEF SSpec
==============================================================================
