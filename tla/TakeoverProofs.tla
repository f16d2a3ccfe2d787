---------------------------- MODULE TakeoverProofs ----------------------------
(***************************************************************************)
(* Proofs about Takeover, for every set of channels, devices and commands  *)
(* TakeoverAssumption admits.                                              *)
(*                                                                         *)
(* The argument: the lock admits one active process at a time, so a step   *)
(* of an active process has nobody else's loop to disturb (OnlyMover), and *)
(* only three things ever change the baseline: a capture, which adds the   *)
(* live duty of channels nobody owned, and the end of a restore, which     *)
(* removes channels the restore has visited.                               *)
(***************************************************************************)
EXTENDS Takeover, TLAPS

Active(p) == pc[p] \notin {"idle", "lock"}

(* Where a process must own what it is about to write. *)
Running == {"captured", "term"} \cup Handled

(* What the new place of a moving process asks for. *)
Ready(p) ==
  /\ pc[p] \in Writing => todo[p] \subseteq Owned
  /\ p = Unit /\ pc[p] \in Running => chans \subseteq Owned
  /\ pc[p] = "restore" => RestoreOK(p)

-----------------------------------------------------------------------------
(* The lock. *)

LEMMA Alone ==
  ASSUME Exclusive, NEW p \in Proc, NEW q \in Proc, Active(p), Active(q)
  PROVE  p = q
  BY DEF Exclusive, Active

LEMMA OnlyMover ==
  ASSUME TypeOK, Exclusive, NEW p \in Proc, Active(p), NEW w, pc' = [pc EXCEPT ![p] = w]
  PROVE  \A q \in Proc \ {p} : pc'[q] = pc[q] /\ pc'[q] \in {"idle", "lock"}
<1> SUFFICES ASSUME NEW q \in Proc \ {p}
             PROVE  pc'[q] = pc[q] /\ pc'[q] \in {"idle", "lock"}
  OBVIOUS
<1>1. pc'[q] = pc[q]
  BY DEF TypeOK
<1>2. ~Active(q)
  BY Alone
<1> QED BY <1>1, <1>2 DEF Active

(* An active process moves on, holding the lock. *)
LEMMA Advance ==
  ASSUME TypeOK, Exclusive, NEW p \in Proc, Active(p), NEW w,
         pc' = [pc EXCEPT ![p] = w], w \notin {"idle", "lock"}, lock' = lock,
         Ready(p)'
  PROVE  Exclusive' /\ PersistBeforeWrite' /\ Restoring'
<1>1. pc'[p] = w
  BY DEF TypeOK
<1>2. \A q \in Proc \ {p} : pc'[q] = pc[q] /\ pc'[q] \in {"idle", "lock"}
  BY OnlyMover
<1>3. Exclusive'
  BY <1>1, <1>2 DEF Exclusive, Active
<1>4. \A q \in Proc : Ready(q)'
  <2>1. \A q \in Proc \ {p} : Ready(q)'
    BY <1>2 DEF Ready, Writing, Running, Handled
  <2> QED BY <2>1
<1>5. Restoring'
  BY <1>4 DEF Restoring, Ready
<1>6. PersistBeforeWrite'
  <2>1. \A q \in Proc : pc'[q] \in Writing => todo'[q] \subseteq Owned'
    BY <1>4 DEF Ready
  <2>2. pc'[Unit] \in Running => chans' \subseteq Owned'
    BY <1>4 DEF Ready, Proc
  <2> QED BY <2>1, <2>2 DEF PersistBeforeWrite, DaemonRuns, Running
<1> QED BY <1>3, <1>5, <1>6

(* A process ends: nobody else is disturbed, and it gives the lock back. *)
LEMMA ExitControl ==
  ASSUME IInv, NEW p \in Proc, Goto(p, "idle"), todo' = [todo EXCEPT ![p] = {}],
         dev' = dev, p # Unit => chans' = chans,
         lock' = IF lock = p THEN Nobody ELSE lock,
         UNCHANGED <<baseline, taken>> \/ Active(p)
  PROVE  Exclusive' /\ PersistBeforeWrite' /\ Restoring'
<1>1. pc' = [pc EXCEPT ![p] = "idle"]
  BY DEF Goto
<1>2. pc'[p] = "idle" /\ \A q \in Proc \ {p} : pc'[q] = pc[q] /\ todo'[q] = todo[q]
  BY <1>1 DEF IInv, TypeOK
<1>3. Exclusive'
  <2>2. p # Nobody
    BY TakeoverAssumption DEF TakeoverAssumption
  <2>3. ASSUME NEW q \in Proc
        PROVE  lock' = q <=> pc'[q] \notin {"idle", "lock"}
    <3>1. q # Nobody
      BY TakeoverAssumption DEF TakeoverAssumption
    <3>2. lock = q <=> pc[q] \notin {"idle", "lock"}
      BY DEF IInv, Exclusive
    <3>3. CASE q = p
      BY <1>2, <2>2, <3>3
    <3>4. CASE q # p
      BY <1>2, <3>1, <3>2, <3>4
    <3> QED BY <3>3, <3>4
  <2> QED BY <2>3 DEF Exclusive
<1>4. CASE UNCHANGED <<baseline, taken>>
  <2>1. Owned' = Owned
    BY <1>4 DEF Owned
  <2>2. ASSUME NEW q \in Proc, pc'[q] \in Writing PROVE todo'[q] \subseteq Owned'
    BY <1>2, <2>1, <2>2 DEF IInv, PersistBeforeWrite, Writing
  <2>3. DaemonRuns' => chans' \subseteq Owned'
    <3>1. CASE p = Unit
      BY <1>2, <3>1 DEF DaemonRuns, Handled
    <3>2. CASE p # Unit
      <4>1. DaemonRuns' => DaemonRuns
        BY <1>2, <3>2 DEF DaemonRuns, Proc
      <4> QED BY <2>1, <3>2, <4>1 DEF IInv, PersistBeforeWrite
    <3> QED BY <3>1, <3>2
  <2>4. ASSUME NEW q \in Proc, pc'[q] = "restore" PROVE RestoreOK(q)'
    <3>1. q # p /\ RestoreOK(q)
      BY <1>2, <2>4 DEF IInv, Restoring
    <3>2. todo'[q] = todo[q] /\ dev'[q] = dev[q] /\ taken' = taken
      BY <1>1, <1>2, <1>4, <3>1
    <3>3. OwnedOn(dev[q])' = OwnedOn(dev[q])
      BY <1>1, <2>1 DEF OwnedOn, ChanOf
    <3> QED BY <3>1, <3>2, <3>3 DEF RestoreOK
  <2> QED BY <1>3, <2>2, <2>3, <2>4 DEF PersistBeforeWrite, Restoring
<1>5. CASE Active(p)
  <2>1. \A q \in Proc : pc'[q] \in {"idle", "lock"}
    BY <1>1, <1>2, <1>5, OnlyMover DEF IInv
  <2> QED BY <1>3, <2>1 DEF PersistBeforeWrite, Restoring, DaemonRuns, Handled, Writing, Proc
<1> QED BY <1>4, <1>5

-----------------------------------------------------------------------------
(* Types. *)

LEMMA ExitType ==
  ASSUME TypeOK, NEW p \in Proc, NEW r \in {"success", "failure"}, Exit(p, r),
         UNCHANGED <<registers, config>>, baseline' \in [Chan -> Duty \cup {None}],
         orig' \in [Chan -> Duty], taken' \subseteq Chan, stray' \subseteq Chan
  PROVE  TypeOK'
<1>1. 0 \in Duty /\ Nobody \in Proc \cup {Nobody}
  BY TakeoverAssumption DEF TakeoverAssumption, Duty
<1>2. /\ pc' \in [Proc -> Pc] /\ todo' \in [Proc -> SUBSET Chan] /\ val' \in [Proc -> Duty]
      /\ job' \in [Proc -> {"none", "daemon", "set", "release", "failsafe", "map"}]
  BY <1>1 DEF TypeOK, Exit, Loop, Goto, Pc
<1>3. chans' \subseteq Chan /\ saved' \in [Chan -> Duty] /\ lock' \in Proc \cup {Nobody}
  BY <1>1 DEF TypeOK, Exit
<1>4. svc' \in {"inactive", "active", "stopping", "waiting"} /\ result' \in {"success", "failure"}
  BY DEF TypeOK, Exit
<1>5. UNCHANGED <<dev, stopReq>>
  BY DEF Exit
<1> QED BY <1>2, <1>3, <1>4, <1>5 DEF TypeOK, registers

(* An ending that touches neither registers nor baseline keeps everything. *)
LEMMA ExitInvariant ==
  ASSUME IInv, NEW p \in Proc, NEW r \in {"success", "failure"}, Exit(p, r),
         UNCHANGED <<registers, baseline, config, history>>
  PROVE  IInv'
<1>1. TypeOK'
  BY ExitType DEF IInv, TypeOK, history
<1>2. Exclusive' /\ PersistBeforeWrite' /\ Restoring'
  BY ExitControl DEF Exit, Loop, history
<1>3. Recoverable'
  BY DEF IInv, Recoverable, Owned, registers, history
<1> QED BY <1>1, <1>2, <1>3 DEF IInv

-----------------------------------------------------------------------------
(* The three ways an active process moves on: without touching registers    *)
(* or baseline, after a capture, with a write to a register.                *)

LEMMA QuietAdvance ==
  ASSUME IInv, NEW p \in Proc, Active(p), NEW w \in Pc \ {"idle", "lock"},
         pc' = [pc EXCEPT ![p] = w],
         todo' \in [Proc -> SUBSET Chan], val' \in [Proc -> Duty],
         chans' \subseteq Chan, saved' \in [Chan -> Duty], stopReq' \in BOOLEAN,
         UNCHANGED <<registers, baseline, lock, job, dev, svc, result, config, history>>,
         Ready(p)'
  PROVE  IInv'
<1>1. Exclusive' /\ PersistBeforeWrite' /\ Restoring'
  BY Advance DEF IInv
<1>2. TypeOK'
  BY DEF IInv, TypeOK, registers, history
<1>3. Recoverable'
  BY DEF IInv, Recoverable, Owned, registers, history
<1> QED BY <1>1, <1>2, <1>3 DEF IInv

(* What a capture does to ownership, and that it keeps what was owned. *)
LEMMA CaptureOwns ==
  ASSUME TypeOK, NEW cs, cs \subseteq Chan, Capture(cs)
  PROVE  /\ baseline' \in [Chan -> Duty \cup {None}]
         /\ Owned' = Owned \cup cs
         /\ \A c \in Owned : baseline'[c] = baseline[c]
         /\ \A c \in cs \ Owned : baseline'[c] = duty[c]
<1>1. \A c \in Chan : duty[c] \in Duty /\ duty[c] # None
  BY TakeoverAssumption DEF TakeoverAssumption, TypeOK, Duty
<1>2. \A c \in Chan :
        baseline'[c] = IF c \in cs /\ baseline[c] = None THEN duty[c] ELSE baseline[c]
  BY DEF Capture, BaselineAfter
<1>3. baseline' \in [Chan -> Duty \cup {None}]
  BY <1>1 DEF Capture, BaselineAfter, TypeOK
<1>4. Owned' = Owned \cup cs
  BY <1>1, <1>2 DEF Owned
<1>5. \A c \in Owned : baseline'[c] = baseline[c]
  BY <1>2 DEF Owned
<1>6. \A c \in cs \ Owned : baseline'[c] = duty[c]
  BY <1>2 DEF Owned
<1> QED BY <1>3, <1>4, <1>5, <1>6

LEMMA CaptureAdvance ==
  ASSUME IInv, NEW p \in Proc, Active(p), NEW w \in Pc \ {"idle", "lock"},
         pc' = [pc EXCEPT ![p] = w],
         NEW cs, cs \subseteq Chan, Capture(cs),
         todo' \in [Proc -> SUBSET Chan], val' \in [Proc -> Duty], chans' \subseteq Chan,
         UNCHANGED <<registers, lock, job, dev, saved, unit, config, history>>,
         Ready(p)'
  PROVE  IInv'
<1>1. Exclusive' /\ PersistBeforeWrite' /\ Restoring'
  BY Advance DEF IInv
<1>2. TypeOK'
  BY CaptureOwns DEF IInv, TypeOK, registers, unit, history
<1>3. Recoverable'
  <2>1. duty' = duty /\ orig' = orig /\ stray' = stray
    BY DEF registers, history
  <2>2. \A c \in Chan : c \in Owned' <=> c \in Owned \/ c \in cs
    BY CaptureOwns DEF IInv
  <2>3. ASSUME NEW c \in Chan \ stray
        PROVE  IF c \in Owned' THEN baseline'[c] = orig[c] ELSE duty[c] = orig[c]
    BY <2>2, <2>3, CaptureOwns DEF IInv, Recoverable
  <2> QED BY <2>1, <2>3 DEF Recoverable
<1> QED BY <1>1, <1>2, <1>3 DEF IInv

LEMMA HostWriteKeeps ==
  ASSUME TypeOK, Recoverable, NEW c \in Chan, NEW v \in Duty, HostWrite(c, v),
         baseline' = baseline
  PROVE  /\ Recoverable' /\ Owned' = Owned
         /\ duty' \in [Chan -> Duty] /\ enabled' = enabled /\ orig' = orig
         /\ taken' \subseteq Chan /\ stray' \subseteq Chan
<1>1. Owned' = Owned
  BY DEF Owned
<1>2. duty' = [duty EXCEPT ![c] = v] /\ orig' = orig /\ enabled' = enabled
  BY DEF HostWrite
<1>3. ASSUME NEW e \in Chan \ stray'
      PROVE  IF e \in Owned THEN baseline[e] = orig[e] ELSE duty'[e] = orig[e]
  <2>1. CASE e # c
    BY <1>2, <1>3, <2>1 DEF HostWrite, Recoverable, TypeOK
  <2>2. CASE e = c /\ c \in Owned
    BY <1>3, <2>2 DEF HostWrite, Recoverable
  <2>3. CASE e = c /\ c \notin Owned
    <3>1. v = orig[c]
      BY <1>3, <2>3 DEF HostWrite
    <3> QED BY <1>2, <2>3, <3>1 DEF TypeOK
  <2> QED BY <2>1, <2>2, <2>3
<1>4. Recoverable'
  BY <1>1, <1>2, <1>3 DEF Recoverable
<1>5. taken' \subseteq Chan /\ stray' \subseteq Chan /\ duty' \in [Chan -> Duty]
  BY DEF HostWrite, TypeOK
<1> QED BY <1>1, <1>2, <1>4, <1>5

LEMMA HostAdvance ==
  ASSUME IInv, NEW p \in Proc, Active(p), NEW w \in Pc \ {"idle", "lock"},
         pc' = [pc EXCEPT ![p] = w],
         NEW c \in Chan, NEW v \in Duty, HostWrite(c, v),
         todo' \in [Proc -> SUBSET Chan],
         UNCHANGED <<baseline, lock, job, dev, val, chans, saved, unit, config>>,
         Ready(p)'
  PROVE  IInv'
<1>1. Exclusive' /\ PersistBeforeWrite' /\ Restoring'
  BY Advance DEF IInv
<1>2. /\ Recoverable' /\ duty' \in [Chan -> Duty] /\ enabled' = enabled /\ orig' = orig
      /\ taken' \subseteq Chan /\ stray' \subseteq Chan
  BY HostWriteKeeps DEF IInv
<1>3. TypeOK'
  BY <1>2 DEF IInv, TypeOK, unit
<1> QED BY <1>1, <1>2, <1>3 DEF IInv

-----------------------------------------------------------------------------
(* One lemma per group of actions: each keeps the inductive invariant.      *)

LEMMA Idle ==
  ASSUME TypeOK, NEW p \in Proc
  PROVE  /\ pc[p] \in Pc /\ todo[p] \subseteq Chan /\ val[p] \in Duty
         /\ 0 \in Duty /\ MaxDuty \in Duty /\ Unit \in Proc
  BY TakeoverAssumption DEF TakeoverAssumption, TypeOK, Duty, Proc

LEMMA LockSteps ==
  ASSUME IInv, NEW p \in Proc, Acquire(p) \/ LockTimeout(p) \/ OpenFails(p)
  PROVE  IInv'
<1>1. CASE Acquire(p)
  <2>1. pc' = [pc EXCEPT ![p] = "open"] /\ lock = Nobody /\ lock' = p
    BY <1>1 DEF Acquire, Goto
  <2>2. pc'[p] = "open" /\ \A q \in Proc \ {p} : pc'[q] = pc[q] /\ pc'[q] \in {"idle", "lock"}
    <3>1. \A q \in Proc : q # Nobody
      BY TakeoverAssumption DEF TakeoverAssumption
    <3> QED BY <2>1, <3>1 DEF IInv, Exclusive, TypeOK
  <2>3. Exclusive' /\ PersistBeforeWrite' /\ Restoring'
    BY <2>1, <2>2 DEF Exclusive, PersistBeforeWrite, Restoring, DaemonRuns, Writing,
                      Handled, Proc
  <2>4. TypeOK'
    BY <1>1, <2>1 DEF Acquire, IInv, TypeOK, Pc, registers, unit, history
  <2>5. Recoverable'
    BY <1>1 DEF Acquire, IInv, Recoverable, Owned, registers, history
  <2> QED BY <2>3, <2>4, <2>5 DEF IInv
<1>2. CASE LockTimeout(p) \/ OpenFails(p)
  BY <1>2, ExitInvariant DEF LockTimeout, OpenFails
<1> QED BY <1>1, <1>2

LEMMA DaemonSteps ==
  ASSUME IInv, Daemon
  PROVE  IInv'
<1>0. Unit \in Proc /\ 0 \in Duty /\ MaxDuty \in Duty
  BY Idle DEF IInv, Proc
<1>1. CASE TakeOver
  <2>1. chans' \subseteq Chan /\ Capture(chans')
    BY <1>1 DEF TakeOver, Writable, IInv, TypeOK
  <2>2. Owned' = Owned \cup chans'
    BY <2>1, CaptureOwns DEF IInv
  <2>3. pc' = [pc EXCEPT ![Unit] = "captured"] /\ pc'[Unit] = "captured" /\ Active(Unit)
    BY <1>0, <1>1 DEF TakeOver, Goto, IInv, TypeOK, Active
  <2>4. Ready(Unit)'
    BY <2>2, <2>3 DEF Ready, Writing
  <2>5. todo' \in [Proc -> SUBSET Chan] /\ val' \in [Proc -> Duty]
    BY <1>1 DEF TakeOver, IInv, TypeOK
  <2>6. UNCHANGED <<registers, lock, job, dev, saved, unit, config, history>>
    BY <1>1 DEF TakeOver
  <2> QED BY <1>0, <2>1, <2>3, <2>4, <2>5, <2>6, CaptureAdvance DEF Pc
<1>2. CASE PassFails
  BY <1>0, <1>2, ExitInvariant DEF PassFails
<1>3. CASE InstallHandler \/ BeginPass \/ TickRaises \/ PassEnds
  <2>1. PICK w \in {"ready", "tick", "hold", "panic", "sleep"} :
          /\ pc' = [pc EXCEPT ![Unit] = w]
          /\ \/ todo' = todo /\ (w \in {"ready", "sleep"})
             \/ todo' = [todo EXCEPT ![Unit] = chans]
    BY <1>3 DEF InstallHandler, BeginPass, TickRaises, PassEnds, Goto, Loop
  <2>2. /\ pc[Unit] \in {"captured", "ready", "sleep", "tick", "hold"}
        /\ Active(Unit) /\ chans' = chans /\ saved' = saved
        /\ UNCHANGED <<registers, baseline, lock, job, dev, unit, config, history>>
    BY <1>3 DEF InstallHandler, BeginPass, TickRaises, PassEnds, Active
  <2>3. val' \in [Proc -> Duty]
    <3>1. DaemonDuty \subseteq Duty /\ val[Unit] \in Duty
      BY <1>0, TakeoverAssumption DEF TakeoverAssumption, IInv, TypeOK
    <3> QED BY <1>0, <1>3, <3>1 DEF InstallHandler, BeginPass, TickRaises, PassEnds, Loop,
                                   IInv, TypeOK
  <2>4. todo' \in [Proc -> SUBSET Chan] /\ chans' \subseteq Chan
    BY <2>1, <2>2 DEF IInv, TypeOK
  <2>5. chans \subseteq Owned /\ Owned' = Owned
    BY <2>2 DEF IInv, PersistBeforeWrite, DaemonRuns, Handled, Owned
  <2>6. pc'[Unit] = w
    BY <1>0, <2>1 DEF IInv, TypeOK
  <2>7. Ready(Unit)'
    BY <1>0, <2>1, <2>2, <2>5, <2>6 DEF Ready, Writing, IInv, TypeOK
  <2>8. saved' \in [Chan -> Duty] /\ stopReq' \in BOOLEAN /\ UNCHANGED <<svc, result>>
    BY <2>2 DEF IInv, TypeOK, unit
  <2> QED BY <1>0, <2>1, <2>2, <2>3, <2>4, <2>7, <2>8, QuietAdvance DEF Pc
<1> QED BY <1>1, <1>2, <1>3 DEF Daemon

(* A write of a loop: the process stays where it is and has one channel     *)
(* less to visit.                                                           *)
LEMMA LoopWrite ==
  ASSUME IInv, NEW p \in Proc, pc[p] \in Writing \cup {"drive", "unmap"},
         NEW c \in Chan, NEW v \in Duty, HostWrite(c, v), Done(p, c),
         UNCHANGED <<baseline, lock, pc, job, dev, val, chans, saved, unit, config>>
  PROVE  IInv'
<1>1. Active(p) /\ pc[p] \in Pc \ {"idle", "lock"}
  BY DEF Active, Writing, Pc
<1>2. pc' = [pc EXCEPT ![p] = pc[p]]
  BY DEF IInv, TypeOK
<1>3. Owned' = Owned
  BY DEF Owned
<1>4. todo' \in [Proc -> SUBSET Chan] /\ todo'[p] \subseteq todo[p]
  BY DEF Done, IInv, TypeOK
<1>5. Ready(p)'
  BY <1>3, <1>4 DEF Ready, Running, Handled, Writing, DaemonRuns, IInv, PersistBeforeWrite
<1> QED BY <1>1, <1>2, <1>4, <1>5, HostAdvance

LEMMA WriteSteps ==
  ASSUME IInv, NEW p \in Proc, SetCapture(p) \/ WriteOne(p) \/ SetEnds(p)
  PROVE  IInv'
<1>1. CASE SetCapture(p)
  <2>1. PICK cs \in SUBSET ChanOf(dev[p]), v \in ManualDuty :
          Capture(cs) /\ Loop(p, "write", cs, v)
    BY <1>1 DEF SetCapture
  <2>2. cs \subseteq Chan /\ v \in Duty
    BY <2>1, TakeoverAssumption DEF TakeoverAssumption, ChanOf
  <2>3. /\ pc' = [pc EXCEPT ![p] = "write"] /\ pc'[p] = "write"
        /\ todo' \in [Proc -> SUBSET Chan] /\ todo'[p] = cs /\ val' \in [Proc -> Duty]
    BY <2>1, <2>2 DEF Loop, Goto, IInv, TypeOK
  <2>4. Active(p) /\ chans' \subseteq Chan
    BY <1>1 DEF SetCapture, Active, IInv, TypeOK
  <2>5. Ready(p)'
    BY <2>1, <2>2, <2>3, CaptureOwns DEF Ready, Running, Handled, IInv
  <2>6. UNCHANGED <<registers, lock, job, dev, saved, unit, config, history>>
    BY <1>1 DEF SetCapture
  <2> QED BY <2>1, <2>2, <2>3, <2>4, <2>5, <2>6, CaptureAdvance DEF Pc
<1>2. CASE WriteOne(p)
  <2>1. PICK c \in Next1(p) \cap enabled : HostWrite(c, val[p]) /\ Done(p, c)
    BY <1>2 DEF WriteOne
  <2>2. c \in Chan /\ val[p] \in Duty
    BY <2>1 DEF IInv, TypeOK
  <2> QED BY <1>2, <2>1, <2>2, LoopWrite DEF WriteOne
<1>3. CASE SetEnds(p)
  BY <1>3, ExitInvariant DEF SetEnds
<1> QED BY <1>1, <1>2, <1>3

LEMMA FailsafeSteps ==
  ASSUME IInv, NEW p \in Proc, Failsafe(p)
  PROVE  IInv'
<1>0. MaxDuty \in Duty
  BY Idle DEF IInv
<1>1. CASE FailsafeCapture(p)
  <2> DEFINE cs == Writable(dev[p])
  <2>1. cs \subseteq Chan /\ (Capture(cs) \/ UNCHANGED baseline) /\ Loop(p, "drive", cs, MaxDuty)
    BY <1>1 DEF FailsafeCapture, Writable, IInv, TypeOK
  <2>2. /\ pc' = [pc EXCEPT ![p] = "drive"] /\ pc'[p] = "drive"
        /\ todo' \in [Proc -> SUBSET Chan] /\ val' \in [Proc -> Duty]
    BY <1>0, <2>1 DEF Loop, Goto, IInv, TypeOK
  <2>3. Active(p) /\ Ready(p)'
    BY <1>1, <2>2 DEF FailsafeCapture, Active, Ready, Running, Handled, Writing
  <2>4. UNCHANGED <<registers, lock, job, dev, chans, saved, unit, config, history>>
    BY <1>1 DEF FailsafeCapture
  <2>5. /\ chans' \subseteq Chan /\ saved' \in [Chan -> Duty] /\ stopReq' \in BOOLEAN
        /\ UNCHANGED <<svc, result>>
    BY <2>4 DEF IInv, TypeOK, unit
  <2>6. CASE Capture(cs)
    BY <2>1, <2>2, <2>3, <2>4, <2>5, <2>6, CaptureAdvance DEF Pc
  <2>7. CASE UNCHANGED baseline
    BY <2>1, <2>2, <2>3, <2>4, <2>5, <2>7, QuietAdvance DEF Pc
  <2> QED BY <2>1, <2>6, <2>7
<1>2. CASE DriveOne(p)
  <2>1. PICK c \in Next1(p) \cap enabled : HostWrite(c, MaxDuty) /\ Done(p, c)
    BY <1>2 DEF DriveOne
  <2>2. c \in Chan
    BY <2>1 DEF IInv, TypeOK
  <2> QED BY <1>0, <1>2, <2>1, <2>2, LoopWrite DEF DriveOne
<1>3. CASE DriveEnds(p) \/ DriveFails(p)
  BY <1>3, ExitInvariant DEF DriveEnds, DriveFails
<1> QED BY <1>1, <1>2, <1>3 DEF Failsafe

LEMMA MapSteps ==
  ASSUME IInv, NEW p \in Proc, Map(p)
  PROVE  IInv'
<1>0. 0 \in Duty /\ saved \in [Chan -> Duty] /\ duty \in [Chan -> Duty] /\ val[p] \in Duty
  BY Idle DEF IInv, TypeOK
<1>1. CASE MapBegin(p) \/ MapFinally(p)
  <2>1. PICK w \in {"probe", "unmap"}, cs \in SUBSET Chan, v \in Duty : Loop(p, w, cs, v)
    BY <1>0, <1>1, TakeoverAssumption
       DEF MapBegin, MapFinally, TakeoverAssumption, IInv, TypeOK, ChanOf
  <2>2. /\ pc' = [pc EXCEPT ![p] = w] /\ pc'[p] = w
        /\ todo' \in [Proc -> SUBSET Chan] /\ val' \in [Proc -> Duty]
    BY <2>1 DEF Loop, Goto, IInv, TypeOK
  <2>3. Active(p) /\ Ready(p)'
    BY <1>1, <2>2 DEF MapBegin, MapFinally, Active, Ready, Running, Handled, Writing
  <2>4. /\ UNCHANGED <<registers, baseline, lock, job, dev, chans, unit, config, history>>
        /\ saved' \in [Chan -> Duty]
    BY <1>0, <1>1 DEF MapBegin, MapFinally
  <2>5. chans' \subseteq Chan /\ stopReq' \in BOOLEAN /\ UNCHANGED <<svc, result>>
    BY <2>4 DEF IInv, TypeOK, unit
  <2> QED BY <2>2, <2>3, <2>4, <2>5, QuietAdvance DEF Pc
<1>2. CASE Probe(p) \/ Unprobe(p)
  <2>1. PICK c \in Chan, v \in Duty, w \in {"probe", "probed"} :
          HostWrite(c, v) /\ Goto(p, w) /\ (UNCHANGED todo \/ Done(p, c))
    BY <1>0, <1>2 DEF Probe, Unprobe, IInv, TypeOK
  <2>2. pc' = [pc EXCEPT ![p] = w] /\ pc'[p] = w /\ todo' \in [Proc -> SUBSET Chan]
    BY <2>1 DEF Goto, Done, IInv, TypeOK
  <2>3. Active(p) /\ Ready(p)'
    BY <1>2, <2>2 DEF Probe, Unprobe, Active, Ready, Running, Handled, Writing
  <2>4. UNCHANGED <<baseline, lock, job, dev, val, chans, saved, unit, config>>
    BY <1>2 DEF Probe, Unprobe
  <2> QED BY <2>1, <2>2, <2>3, <2>4, HostAdvance DEF Pc
<1>3. CASE UnmapOne(p)
  <2>1. PICK c \in Next1(p) :
          /\ IF c \in enabled THEN HostWrite(c, saved[c]) ELSE UNCHANGED <<registers, history>>
          /\ Done(p, c)
    BY <1>3 DEF UnmapOne
  <2>2. c \in Chan /\ saved[c] \in Duty
    BY <1>0, <2>1 DEF Next1, IInv, TypeOK
  <2>3. UNCHANGED <<baseline, lock, pc, job, dev, val, chans, saved, unit, config>>
    BY <1>3 DEF UnmapOne
  <2>4. CASE c \in enabled
    BY <1>3, <2>1, <2>2, <2>3, <2>4, LoopWrite DEF UnmapOne
  <2>5. CASE c \notin enabled
    <3>1. pc' = [pc EXCEPT ![p] = "unmap"] /\ pc'[p] = "unmap" /\ Active(p)
      BY <1>3, <2>3 DEF UnmapOne, Active, IInv, TypeOK
    <3>2. todo' \in [Proc -> SUBSET Chan] /\ val' \in [Proc -> Duty]
      BY <2>1, <2>3 DEF Done, IInv, TypeOK
    <3>3. Ready(p)'
      BY <3>1 DEF Ready, Running, Handled, Writing
    <3>4. /\ chans' \subseteq Chan /\ saved' \in [Chan -> Duty] /\ stopReq' \in BOOLEAN
          /\ UNCHANGED <<svc, result>>
      BY <2>3 DEF IInv, TypeOK, unit
    <3>5. UNCHANGED <<registers, history>>
      BY <2>1, <2>5
    <3> QED BY <2>3, <3>1, <3>2, <3>3, <3>4, <3>5, QuietAdvance DEF Pc
  <2> QED BY <2>4, <2>5
<1>4. CASE MapEnds(p)
  BY <1>4, ExitInvariant DEF MapEnds
<1> QED BY <1>1, <1>2, <1>3, <1>4 DEF Map

(* The end of a restore: the channels it gives back carry the BMC's own     *)
(* duty, or were never the BMC's to begin with.                             *)
LEMMA ClearKeeps ==
  ASSUME IInv, NEW p \in Proc, RestoreClear(p)
  PROVE  IInv'
<1> DEFINE back == OwnedOn(dev[p])
<1>1. Active(p) /\ pc[p] = "restore" /\ todo[p] = {}
  BY DEF RestoreClear, Active
<1>2. back \cap taken = {}
  BY <1>1 DEF IInv, Restoring, RestoreOK
<1>3. /\ \A c \in Chan : baseline'[c] = IF c \in back THEN None ELSE baseline[c]
      /\ baseline' \in [Chan -> Duty \cup {None}]
  BY DEF RestoreClear, Released, IInv, TypeOK
<1>4. /\ \A c \in Chan : orig'[c] = IF c \in back \ (taken \cup stray) THEN duty[c] ELSE orig[c]
      /\ orig' \in [Chan -> Duty]
  BY DEF RestoreClear, Released, IInv, TypeOK
<1>5. Exit(p, "success") /\ UNCHANGED <<registers, config, stray>> /\ taken' \subseteq Chan
  BY DEF RestoreClear, IInv, TypeOK
<1>6. TypeOK'
  BY <1>3, <1>4, <1>5, ExitType DEF IInv, TypeOK
<1>7. Exclusive' /\ PersistBeforeWrite' /\ Restoring'
  BY <1>1, <1>5, ExitControl DEF Exit, Loop
<1>8. Recoverable'
  <2>1. duty' = duty /\ stray' = stray
    BY <1>5 DEF registers
  <2>2. ASSUME NEW c \in Chan \ stray
        PROVE  IF c \in Owned' THEN baseline'[c] = orig'[c] ELSE duty[c] = orig'[c]
    <3>1. CASE c \in back
      <4>1. c \notin Owned' /\ orig'[c] = duty[c]
        BY <1>2, <1>3, <1>4, <2>2, <3>1 DEF Owned
      <4> QED BY <4>1
    <3>2. CASE c \notin back
      <4>1. (c \in Owned' <=> c \in Owned) /\ baseline'[c] = baseline[c] /\ orig'[c] = orig[c]
        BY <1>3, <1>4, <2>2, <3>2 DEF Owned
      <4> QED BY <2>2, <4>1 DEF IInv, Recoverable
    <3> QED BY <3>1, <3>2
  <2> QED BY <2>1, <2>2 DEF Recoverable
<1> QED BY <1>6, <1>7, <1>8 DEF IInv

(* One channel of a restore. *)
LEMMA RestoreOneKeeps ==
  ASSUME IInv, NEW p \in Proc, RestoreOne(p)
  PROVE  IInv'
<1>1. PICK c \in Next1(p) \cap enabled :
        /\ duty' = [duty EXCEPT ![c] = baseline[c]]
        /\ taken' = taken \ {c}
        /\ Done(p, c)
  BY DEF RestoreOne
<1>2. /\ pc[p] = "restore" /\ Active(p)
      /\ UNCHANGED <<enabled, baseline, lock, pc, job, dev, val, chans, saved, unit, config,
                     orig, stray>>
  BY DEF RestoreOne, Active
<1>3. RestoreOK(p) /\ c \in todo[p]
  BY <1>1, <1>2 DEF IInv, Restoring, Next1
<1>4. c \in Owned /\ c \in Chan /\ baseline[c] \in Duty
  BY <1>3 DEF RestoreOK, OwnedOn, Owned, IInv, TypeOK
<1>5. Owned' = Owned /\ OwnedOn(dev[p])' = OwnedOn(dev[p])
  BY <1>2 DEF Owned, OwnedOn, ChanOf
<1>6. todo' \in [Proc -> SUBSET Chan] /\ todo'[p] = todo[p] \ {c}
  BY <1>1 DEF Done, IInv, TypeOK
<1>7. pc' = [pc EXCEPT ![p] = "restore"] /\ pc'[p] = "restore"
  BY <1>2 DEF IInv, TypeOK
<1>8. RestoreOK(p)'
  BY <1>1, <1>3, <1>5, <1>6 DEF RestoreOK
<1>9. Ready(p)'
  BY <1>7, <1>8 DEF Ready, Writing, Running, Handled
<1>10. Exclusive' /\ PersistBeforeWrite' /\ Restoring'
  BY <1>2, <1>7, <1>9, Advance DEF IInv
<1>11. TypeOK'
  BY <1>1, <1>2, <1>4, <1>6 DEF IInv, TypeOK, unit
<1>12. Recoverable'
  BY <1>1, <1>2, <1>4, <1>5 DEF IInv, Recoverable, TypeOK
<1> QED BY <1>10, <1>11, <1>12 DEF IInv

LEMMA RestoreSteps ==
  ASSUME IInv, NEW p \in Proc, Restore(p)
  PROVE  IInv'
<1>1. CASE RestoreBegin(p)
  <2>1. Loop(p, "restore", OwnedOn(dev[p]), 0) /\ Active(p)
    BY <1>1 DEF RestoreBegin, Released, Active
  <2>2. OwnedOn(dev[p]) \subseteq Chan /\ 0 \in Duty
    BY Idle DEF OwnedOn, Owned, IInv
  <2>3. /\ pc' = [pc EXCEPT ![p] = "restore"] /\ pc'[p] = "restore"
        /\ todo' \in [Proc -> SUBSET Chan] /\ todo'[p] = OwnedOn(dev[p])
        /\ val' \in [Proc -> Duty]
    BY <2>1, <2>2 DEF Loop, Goto, IInv, TypeOK
  <2>4. UNCHANGED <<registers, baseline, lock, job, dev, chans, saved, unit, config, history>>
    BY <1>1 DEF RestoreBegin
  <2>5. OwnedOn(dev[p])' = OwnedOn(dev[p])
    BY <2>4 DEF OwnedOn, Owned, ChanOf
  <2>6. Ready(p)'
    BY <2>3, <2>5 DEF Ready, RestoreOK, Writing, Running, Handled
  <2>7. /\ chans' \subseteq Chan /\ saved' \in [Chan -> Duty] /\ stopReq' \in BOOLEAN
        /\ UNCHANGED <<svc, result>>
    BY <2>4 DEF IInv, TypeOK, unit
  <2> QED BY <2>1, <2>3, <2>4, <2>6, <2>7, QuietAdvance DEF Pc
<1>2. CASE RestoreFails(p)
  BY <1>2, ExitInvariant DEF RestoreFails
<1> QED BY <1>1, <1>2, RestoreOneKeeps, ClearKeeps DEF Restore

-----------------------------------------------------------------------------
(* systemd, the operator and the BMC. *)

(* A command, the daemon or stop-post starts and queues for the lock. *)
LEMMA BeginKeeps ==
  ASSUME IInv, NEW p \in Proc, pc[p] = "idle", NEW d \in Dev,
         NEW j \in {"daemon", "set", "release", "failsafe", "map"}, Begin(p, j, d),
         svc' \in {"inactive", "active", "stopping", "waiting"},
         result' \in {"success", "failure"}, stopReq' \in BOOLEAN,
         UNCHANGED <<registers, baseline, lock, chans, saved, config, history>>
  PROVE  IInv'
<1>1. /\ pc' \in [Proc -> Pc] /\ pc'[p] = "lock" /\ (\A q \in Proc \ {p} : pc'[q] = pc[q])
      /\ todo' = todo /\ val' = val
      /\ dev' \in [Proc -> Dev] /\ (\A q \in Proc \ {p} : dev'[q] = dev[q])
      /\ job' \in [Proc -> {"none", "daemon", "set", "release", "failsafe", "map"}]
  BY DEF Begin, Goto, IInv, TypeOK, Pc
<1>2. TypeOK'
  BY <1>1 DEF IInv, TypeOK, registers, history
<1>3. Exclusive'
  BY <1>1 DEF IInv, Exclusive
<1>4. Owned' = Owned
  BY DEF Owned
<1>5. PersistBeforeWrite'
  <2>1. ASSUME NEW q \in Proc, pc'[q] \in Writing PROVE todo'[q] \subseteq Owned'
    BY <1>1, <1>4, <2>1 DEF IInv, PersistBeforeWrite, Writing
  <2>2. DaemonRuns' => DaemonRuns
    BY <1>1 DEF DaemonRuns, Handled, Proc
  <2> QED BY <1>4, <2>1, <2>2 DEF IInv, PersistBeforeWrite
<1>6. ASSUME NEW q \in Proc, pc'[q] = "restore" PROVE RestoreOK(q)'
  <2>1. q # p /\ RestoreOK(q) /\ dev'[q] = dev[q]
    BY <1>1, <1>6 DEF IInv, Restoring
  <2>2. OwnedOn(dev[q])' = OwnedOn(dev[q])
    BY <1>4, <2>1 DEF OwnedOn, ChanOf
  <2> QED BY <1>1, <2>1, <2>2 DEF RestoreOK, history
<1>7. Recoverable'
  BY <1>4 DEF IInv, Recoverable, registers, history
<1> QED BY <1>2, <1>3, <1>5, <1>6, <1>7 DEF IInv, Restoring

LEMMA StartSteps ==
  ASSUME IInv, \/ Systemd
               \/ \E p \in Proc : StartCli(p)
  PROVE  IInv'
<1>0. Unit \in Proc
  BY DEF Proc
<1>1. CASE StartDaemon
  BY <1>0, <1>1, BeginKeeps DEF StartDaemon, IInv, TypeOK
<1>2. CASE PostIdle
  BY <1>0, <1>2, ExitInvariant DEF PostIdle
<1>3. CASE StartPost
  BY <1>0, <1>3, BeginKeeps DEF StartPost, IInv, TypeOK, unit
<1>4. ASSUME NEW p \in Proc, StartCli(p) PROVE IInv'
  <2>1. PICK j \in CliJob, d \in Dev : Begin(p, j, d)
    BY <1>4 DEF StartCli
  <2>2. j \in {"daemon", "set", "release", "failsafe", "map"}
    BY TakeoverAssumption DEF TakeoverAssumption
  <2> QED BY <1>4, <2>1, <2>2, BeginKeeps DEF StartCli, IInv, TypeOK, unit
<1> QED BY <1>1, <1>2, <1>3, <1>4 DEF Systemd

LEMMA StopSteps ==
  ASSUME IInv, StopUnit
  PROVE  IInv'
<1>0. Unit \in Proc /\ 0 \in Duty
  BY Idle DEF IInv, Proc
<1>1. UNCHANGED <<registers, baseline, saved, config, history>> /\ stopReq' = TRUE
  BY DEF StopUnit
<1>2. CASE /\ pc[Unit] \in Handled /\ Loop(Unit, "term", {}, 0)
           /\ UNCHANGED <<svc, result, lock, job, dev, chans>>
  <2>1. Active(Unit) /\ chans \subseteq Owned /\ Owned' = Owned
    BY <1>1, <1>2 DEF Active, Handled, IInv, PersistBeforeWrite, DaemonRuns, Owned
  <2>2. /\ pc' = [pc EXCEPT ![Unit] = "term"] /\ pc'[Unit] = "term"
        /\ todo' \in [Proc -> SUBSET Chan] /\ val' \in [Proc -> Duty]
    BY <1>0, <1>2 DEF Loop, Goto, IInv, TypeOK
  <2>3. Ready(Unit)'
    BY <1>2, <2>1, <2>2 DEF Ready, Writing
  <2>4. chans' \subseteq Chan /\ saved' \in [Chan -> Duty]
    BY <1>1, <1>2 DEF IInv, TypeOK
  <2> QED BY <1>0, <1>1, <1>2, <2>1, <2>2, <2>3, <2>4, QuietAdvance DEF Pc
<1>3. CASE /\ svc' = "stopping" /\ result' = "success"
           /\ Loop(Unit, "idle", {}, 0)
           /\ job' = [job EXCEPT ![Unit] = "none"]
           /\ chans' = {} /\ lock' = (IF lock = Unit THEN Nobody ELSE lock)
           /\ UNCHANGED dev
  <2>1. Exclusive' /\ PersistBeforeWrite' /\ Restoring'
    BY <1>0, <1>1, <1>3, ExitControl DEF Loop, history
  <2>2. TypeOK'
    BY <1>0, <1>1, <1>3 DEF IInv, TypeOK, Loop, Goto, Pc, registers, history
  <2>3. Recoverable'
    BY <1>1 DEF IInv, Recoverable, Owned, registers, history
  <2> QED BY <2>1, <2>2, <2>3 DEF IInv
<1>4. CASE /\ svc' \in {svc, "inactive"} /\ UNCHANGED <<result, lock, procs, chans>>
  <2>1. TypeOK'
    BY <1>1, <1>4 DEF IInv, TypeOK, procs, registers, history
  <2>2. Exclusive' /\ PersistBeforeWrite' /\ Recoverable' /\ Restoring'
    BY <1>1, <1>4 DEF IInv, Exclusive, PersistBeforeWrite, Recoverable, Restoring, RestoreOK,
       DaemonRuns, Owned, OwnedOn, ChanOf, procs, registers, history
  <2> QED BY <2>1, <2>2 DEF IInv
<1> QED BY <1>2, <1>3, <1>4 DEF StopUnit

LEMMA BmcSteps ==
  ASSUME IInv, BmcWrite \/ BmcEnable \/ EditConfig
  PROVE  IInv'
<1>1. UNCHANGED <<baseline, lock, procs, chans, saved, unit>> /\ Owned' = Owned
  BY DEF BmcWrite, BmcEnable, EditConfig, Owned
<1>2. BmcDuty \subseteq Duty /\ Fragile \subseteq Chan
  BY TakeoverAssumption DEF TakeoverAssumption
<1>3. /\ duty' \in [Chan -> Duty] /\ orig' \in [Chan -> Duty] /\ stray' \subseteq Chan
      /\ taken' \subseteq taken /\ enabled' \subseteq Chan /\ config' \in Dev
  BY <1>2 DEF BmcWrite, BmcEnable, EditConfig, IInv, TypeOK, registers, history
<1>4. TypeOK'
  BY <1>1, <1>3 DEF IInv, TypeOK, procs, unit
<1>5. Exclusive' /\ PersistBeforeWrite'
  BY <1>1 DEF IInv, Exclusive, PersistBeforeWrite, DaemonRuns, procs
<1>6. Restoring'
  <2>1. \A d : OwnedOn(d)' = OwnedOn(d)
    BY <1>1 DEF OwnedOn, ChanOf
  <2> QED BY <1>1, <1>3, <2>1 DEF IInv, Restoring, RestoreOK, procs
<1>7. Recoverable'
  <2>1. CASE BmcWrite
    <3>1. PICK c \in Chan, v \in BmcDuty :
            /\ duty' = [duty EXCEPT ![c] = v]
            /\ IF c \in Owned THEN UNCHANGED <<orig, stray>>
               ELSE orig' = [orig EXCEPT ![c] = v] /\ stray' = stray \ {c}
      BY <2>1 DEF BmcWrite
    <3>2. ASSUME NEW e \in Chan \ stray'
          PROVE  IF e \in Owned THEN baseline[e] = orig'[e] ELSE duty'[e] = orig'[e]
      BY <3>1, <3>2 DEF IInv, Recoverable, TypeOK
    <3> QED BY <1>1, <3>2 DEF Recoverable
  <2>2. CASE BmcEnable \/ EditConfig
    BY <1>1, <2>2 DEF BmcEnable, EditConfig, IInv, Recoverable, registers, history
  <2> QED BY <2>1, <2>2
<1> QED BY <1>4, <1>5, <1>6, <1>7 DEF IInv

-----------------------------------------------------------------------------
(* The inductive invariant. *)

LEMMA InitIInv == Init => IInv
<1> SUFFICES ASSUME Init PROVE IInv
  OBVIOUS
<1>1. BmcDuty \subseteq Duty /\ 0 \in Duty /\ (\A p \in Proc : p # Nobody)
  BY TakeoverAssumption DEF TakeoverAssumption, Duty
<1>2. TypeOK
  BY <1>1 DEF Init, TypeOK, Pc
<1>3. Exclusive /\ PersistBeforeWrite /\ Restoring
  BY <1>1 DEF Init, Exclusive, PersistBeforeWrite, Restoring, DaemonRuns, Handled, Writing, Proc
<1>4. Recoverable
  BY DEF Init, Recoverable, Owned
<1> QED BY <1>2, <1>3, <1>4 DEF IInv

LEMMA NextIInv == IInv /\ [Next]_vars => IInv'
<1> SUFFICES ASSUME IInv, [Next]_vars PROVE IInv'
  OBVIOUS
<1>1. CASE Daemon
  BY <1>1, DaemonSteps
<1>2. CASE Systemd
  BY <1>2, StartSteps
<1>3. CASE StopUnit
  BY <1>3, StopSteps
<1>4. CASE BmcWrite \/ BmcEnable \/ EditConfig
  BY <1>4, BmcSteps
<1>5. ASSUME NEW p \in Proc, Step(p) PROVE IInv'
  BY <1>5, LockSteps, WriteSteps, RestoreSteps, FailsafeSteps, MapSteps DEF Step
<1>6. ASSUME NEW p \in Proc, Kill(p) PROVE IInv'
  BY <1>6, ExitInvariant DEF Kill
<1>7. ASSUME NEW p \in Proc, StartCli(p) PROVE IInv'
  BY <1>7, StartSteps
<1>8. CASE UNCHANGED vars
  BY <1>8 DEF vars, IInv, TypeOK, Exclusive, PersistBeforeWrite, Recoverable, Restoring,
     RestoreOK, DaemonRuns, Owned, OwnedOn, ChanOf, registers, procs, unit, history
<1> QED BY <1>1, <1>2, <1>3, <1>4, <1>5, <1>6, <1>7, <1>8 DEF Next

LEMMA Invariance == Spec => []IInv
<1> QED BY InitIInv, NextIInv, PTL DEF Spec

(* Every variable of Takeover keeps its type. *)
THEOREM TypeCorrect == Spec => []TypeOK
<1>1. IInv => TypeOK
  BY DEF IInv
<1> QED BY <1>1, Invariance, PTL

(* The lock in ahb.py: exactly its holder uses the bridge, so no two        *)
(* processes ever share the window register.                                *)
THEOREM LockExclusive == Spec => []Exclusive
<1>1. IInv => Exclusive
  BY DEF IInv
<1> QED BY <1>1, Invariance, PTL

(* capture_manual_baseline: ownership is on disk before a takeover duty is  *)
(* written, and stays as long as somebody may write one.                    *)
THEOREM OwnershipPrecedesWrites == Spec => []PersistBeforeWrite
<1>1. IInv => PersistBeforeWrite
  BY DEF IInv
<1> QED BY <1>1, Invariance, PTL

(* The duty the BMC last chose for a channel is live or persisted, however  *)
(* commands, daemon, stop-post, kills and failures interleave.              *)
THEOREM AlwaysRecoverable == Spec => []Recoverable
<1>1. IInv => Recoverable
  BY DEF IInv
<1> QED BY <1>1, Invariance, PTL

-----------------------------------------------------------------------------
(* The baseline across a step. *)

LEMMA BaselineSteps ==
  ASSUME TypeOK, Next
  PROVE  \/ baseline' = baseline
         \/ \E cs \in SUBSET Chan : Capture(cs)
         \/ \E p \in Proc : RestoreClear(p)
<1>1. CASE Daemon
  BY <1>1 DEF Daemon, TakeOver, InstallHandler, BeginPass, TickRaises, PassFails, PassEnds,
              Writable, TypeOK
<1>2. CASE Systemd \/ StopUnit \/ EditConfig \/ BmcWrite \/ BmcEnable
  BY <1>2 DEF Systemd, StartDaemon, PostIdle, StartPost, StopUnit, EditConfig, BmcWrite,
              BmcEnable
<1>3. ASSUME NEW p \in Proc, Kill(p) \/ StartCli(p)
      PROVE  baseline' = baseline
  BY <1>3 DEF Kill, StartCli
<1>4. ASSUME NEW p \in Proc, Step(p)
      PROVE  baseline' = baseline \/ (\E cs \in SUBSET Chan : Capture(cs)) \/ RestoreClear(p)
  <2>1. CASE Acquire(p) \/ LockTimeout(p) \/ OpenFails(p) \/ WriteOne(p) \/ SetEnds(p)
    BY <2>1 DEF Acquire, LockTimeout, OpenFails, WriteOne, SetEnds
  <2>2. CASE SetCapture(p)
    BY <2>2 DEF SetCapture, ChanOf
  <2>3. CASE Restore(p)
    BY <2>3 DEF Restore, RestoreBegin, RestoreOne, RestoreFails
  <2>4. CASE Failsafe(p)
    BY <2>4 DEF Failsafe, FailsafeCapture, DriveOne, DriveEnds, DriveFails, Writable, TypeOK
  <2>5. CASE Map(p)
    BY <2>5 DEF Map, MapBegin, Probe, Unprobe, MapFinally, UnmapOne, MapEnds
  <2> QED BY <1>4, <2>1, <2>2, <2>3, <2>4, <2>5 DEF Step
<1> QED BY <1>1, <1>2, <1>3, <1>4 DEF Next

(* An owned channel keeps the baseline first captured for it. *)
THEOREM BaselineRetained == Spec => TakeoverRetained
<1>1. ASSUME IInv, [Next]_vars, NEW c \in Chan, c \in Owned, c \in Owned'
      PROVE  baseline'[c] = baseline[c]
  <2>1. CASE UNCHANGED vars
    BY <2>1 DEF vars
  <2>2. CASE baseline' = baseline
    BY <2>2
  <2>3. ASSUME NEW cs \in SUBSET Chan, Capture(cs) PROVE baseline'[c] = baseline[c]
    BY <1>1, <2>3, CaptureOwns DEF IInv
  <2>4. ASSUME NEW p \in Proc, RestoreClear(p) PROVE baseline'[c] = baseline[c]
    BY <1>1, <2>4 DEF RestoreClear, Owned
  <2> QED BY <1>1, <2>1, <2>2, <2>3, <2>4, BaselineSteps DEF IInv
<1>2. IInv /\ [Next]_vars =>
        [\A c \in Chan : c \in Owned /\ c \in Owned' => baseline'[c] = baseline[c]]_vars
  BY <1>1
<1> QED BY <1>2, Invariance, PTL DEF Spec, TakeoverRetained

(* Ownership ends only for channels whose live duty is restored. *)
THEOREM OwnershipEnds == Spec => OwnershipEndsRestored
<1>1. ASSUME IInv, [Next]_vars, NEW c \in Chan, c \in Owned, c \notin Owned'
      PROVE  c \notin taken
  <2>1. CASE UNCHANGED baseline
    BY <1>1, <2>1 DEF Owned
  <2>2. ASSUME NEW cs \in SUBSET Chan, Capture(cs) PROVE c \notin taken
    BY <1>1, <2>2, CaptureOwns DEF IInv
  <2>3. ASSUME NEW p \in Proc, RestoreClear(p) PROVE c \notin taken
    <3>1. todo[p] = {} /\ RestoreOK(p)
      BY <1>1, <2>3 DEF RestoreClear, IInv, Restoring
    <3>2. c \in OwnedOn(dev[p])
      BY <1>1, <2>3 DEF RestoreClear, Released, Owned
    <3> QED BY <3>1, <3>2 DEF RestoreOK
  <2> QED BY <1>1, <2>1, <2>2, <2>3, BaselineSteps DEF IInv, vars
<1>2. IInv /\ [Next]_vars =>
        [\A c \in Chan : c \in Owned /\ c \notin Owned' => c \notin taken]_vars
  BY <1>1
<1> QED BY <1>2, Invariance, PTL DEF Spec, OwnershipEndsRestored
-----------------------------------------------------------------------------
(* The end of the unit, step by step: the part of UnitSettles and           *)
(* StopHonoured that needs no fairness.                                     *)

(* Where the unit's process may be in each state of the unit. *)
UnitInv ==
  /\ svc = "active" =>
       /\ pc[Unit] \in {"lock", "open", "captured", "term", "restore"} \cup Handled
       /\ job[Unit] = "daemon"
       /\ stopReq <=> pc[Unit] \in {"term", "restore"}
  /\ svc = "stopping" =>
       \/ pc[Unit] = "idle"
       \/ /\ pc[Unit] \in {"lock", "open", "restore", "drive"}
          /\ job[Unit] \in {"release", "failsafe"}
  /\ svc \in {"inactive", "waiting"} => pc[Unit] = "idle"
  /\ svc = "waiting" => ~stopReq

(* stop-post is due or running, or the daemon releases after a SIGTERM. *)
Ending == svc = "stopping" \/ (svc = "active" /\ stopReq)

Stage ==
  IF pc[Unit] = "idle" THEN 0
  ELSE IF pc[Unit] = "lock" THEN 1
  ELSE IF pc[Unit] \in {"open", "term"} THEN 2 ELSE 3

(* The unit comes to the state that follows, its process to a later stage,  *)
(* or the loop of the last stage to a channel less.                         *)
Advances ==
  \/ svc' = IF svc = "active" THEN "stopping" ELSE IF stopReq THEN "inactive" ELSE "waiting"
  \/ svc' = svc /\ Stage' > Stage
  \/ svc' = svc /\ Stage' = Stage /\ todo'[Unit] \subseteq todo[Unit] /\ todo'[Unit] # todo[Unit]

UnitRests == UNCHANGED <<svc, pc[Unit], job[Unit], todo[Unit]>>

(* What every step keeps of the unit. *)
UnitGoesOn ==
  /\ UnitInv'
  /\ Ending => Advances \/ UnitRests
  /\ Ending /\ stopReq => stopReq'

LEMMA UnitEnds ==
  ASSUME TypeOK, UnitInv, NEW r, Exit(Unit, r), svc \in {"active", "stopping"}
  PROVE  UnitGoesOn /\ Advances
<1>1. /\ pc'[Unit] = "idle" /\ job'[Unit] = "none" /\ stopReq' = stopReq
      /\ svc' = IF svc = "active" THEN "stopping" ELSE IF stopReq THEN "inactive" ELSE "waiting"
  BY DEF Exit, Loop, Goto, TypeOK, Proc
<1> QED BY <1>1 DEF UnitGoesOn, UnitInv, Advances

LEMMA UnitMoves ==
  ASSUME UnitInv, UNCHANGED <<svc, stopReq>>, job'[Unit] = job[Unit],
         \/ pc[Unit] = "lock" /\ pc'[Unit] = "open"
         \/ pc[Unit] = "open" /\ job[Unit] = "daemon" /\ pc'[Unit] = "captured"
         \/ pc[Unit] \in {"captured"} \cup Handled /\ pc'[Unit] \in Handled
         \/ /\ pc[Unit] = "open" /\ job[Unit] \in {"release", "failsafe"}
            /\ pc'[Unit] \in {"restore", "drive"}
         \/ pc[Unit] = "term" /\ pc'[Unit] = "restore"
         \/ /\ pc[Unit] \in {"restore", "drive"} /\ pc'[Unit] = pc[Unit]
            /\ todo'[Unit] \subseteq todo[Unit] /\ todo'[Unit] # todo[Unit]
  PROVE  UnitGoesOn /\ (Ending => Advances)
<1>1. UnitInv'
  BY DEF UnitInv, Handled
<1>2. ASSUME Ending PROVE Advances
  <2>1. \/ svc = "active" /\ pc[Unit] \in {"term", "restore"}
        \/ svc = "stopping" /\ pc[Unit] \in {"lock", "open", "restore", "drive"}
             /\ job[Unit] \in {"release", "failsafe"}
    BY <1>2 DEF Ending, UnitInv, Handled
  <2> QED BY <2>1 DEF Advances, Stage, Handled
<1> QED BY <1>1, <1>2 DEF UnitGoesOn

(* Another process, the BMC and the configuration leave the unit alone. *)
LEMMA OthersLeaveUnit ==
  ASSUME TypeOK, UnitInv,
         \/ \E p \in Cli : Step(p) \/ Kill(p) \/ StartCli(p)
         \/ EditConfig \/ BmcWrite \/ BmcEnable \/ UNCHANGED vars
  PROVE  UnitGoesOn /\ UnitRests
<1>1. UNCHANGED <<svc, stopReq, pc[Unit], job[Unit], todo[Unit]>>
  <2>1. ASSUME NEW p \in Cli, Step(p) \/ Kill(p) \/ StartCli(p)
        PROVE  UNCHANGED <<svc, stopReq, pc[Unit], job[Unit], todo[Unit]>>
    <3>0. p # Unit /\ Unit \in Proc
      BY TakeoverAssumption DEF TakeoverAssumption, Proc
    <3> USE <3>0 DEF TypeOK, Goto, Loop, Begin, Done, Exit, unit, procs
    <3>1. CASE Kill(p) \/ StartCli(p)
      BY <3>1 DEF Kill, StartCli
    <3>2. CASE Acquire(p) \/ LockTimeout(p) \/ OpenFails(p) \/ SetCapture(p) \/ WriteOne(p)
                 \/ SetEnds(p)
      BY <3>2 DEF Acquire, LockTimeout, OpenFails, SetCapture, WriteOne, SetEnds
    <3>3. CASE Restore(p)
      BY <3>3 DEF Restore, RestoreBegin, RestoreOne, RestoreFails, RestoreClear
    <3>4. CASE Failsafe(p)
      BY <3>4 DEF Failsafe, FailsafeCapture, DriveOne, DriveEnds, DriveFails
    <3>5. CASE Map(p)
      BY <3>5 DEF Map, MapBegin, Probe, Unprobe, MapFinally, UnmapOne, MapEnds
    <3> QED BY <2>1, <3>1, <3>2, <3>3, <3>4, <3>5 DEF Step
  <2>2. CASE EditConfig \/ BmcWrite \/ BmcEnable \/ UNCHANGED vars
    BY <2>2 DEF EditConfig, BmcWrite, BmcEnable, vars, unit, procs
  <2> QED BY <2>1, <2>2
<1> QED BY <1>1 DEF UnitGoesOn, UnitInv, UnitRests

LEMMA StopRequested ==
  ASSUME TypeOK, UnitInv, StopUnit
  PROVE  UnitGoesOn
<1> USE DEF UnitGoesOn, UnitInv, UnitRests, Ending, Handled
<1>0. /\ svc # "inactive" /\ ~stopReq /\ stopReq' = TRUE /\ Unit \in Proc
      /\ pc \in [Proc -> Pc] /\ job \in [Proc -> {"none", "daemon", "set", "release", "failsafe", "map"}]
  BY DEF StopUnit, Proc, TypeOK
<1>1. CASE /\ svc = "active" /\ pc[Unit] \in Handled /\ Loop(Unit, "term", {}, 0)
           /\ UNCHANGED <<svc, result, lock, job, dev, chans>>
  <2>1. pc'[Unit] = "term" /\ svc' = svc /\ job' = job
    BY <1>0, <1>1 DEF Loop, Goto
  <2> QED BY <1>0, <1>1, <2>1
<1>2. CASE /\ svc = "active" /\ svc' = "stopping" /\ Loop(Unit, "idle", {}, 0)
  <2>1. pc'[Unit] = "idle"
    BY <1>0, <1>2 DEF Loop, Goto
  <2> QED BY <1>0, <1>2, <2>1
<1>3. CASE svc = "waiting" /\ svc' = "inactive" /\ UNCHANGED procs
  BY <1>0, <1>3 DEF procs
<1>4. CASE svc = "stopping" /\ UNCHANGED <<svc, procs>>
  BY <1>0, <1>4 DEF procs
<1> QED BY <1>1, <1>2, <1>3, <1>4 DEF StopUnit

LEMMA UnitSteps ==
  ASSUME TypeOK, UnitInv, Daemon \/ Systemd \/ Step(Unit) \/ Kill(Unit)
  PROVE  UnitGoesOn /\ (Ending => Advances)
<1>0. Unit \in Proc /\ svc \in {"inactive", "active", "stopping", "waiting"}
  BY DEF Proc, TypeOK
<1>1. /\ pc[Unit] # "idle" => svc \in {"active", "stopping"}
      /\ pc[Unit] \notin {"write", "probe", "probed", "unmap"}
      /\ pc[Unit] = "open" => job[Unit] \in {"daemon", "release", "failsafe"}
  BY <1>0 DEF UnitInv, Handled
<1>2. ASSUME NEW r, Exit(Unit, r), pc[Unit] # "idle" \/ svc = "stopping"
      PROVE  UnitGoesOn /\ Advances
  BY <1>1, <1>2, UnitEnds
<1>3. CASE Daemon
  <2>1. CASE TakeOver
    <3>1. /\ UNCHANGED <<svc, stopReq>> /\ job'[Unit] = job[Unit] /\ pc[Unit] = "open"
          /\ job[Unit] = "daemon" /\ pc'[Unit] = "captured"
      BY <1>0, <2>1 DEF TakeOver, Goto, TypeOK, unit
    <3> QED BY <3>1, UnitMoves
  <2>2. CASE InstallHandler \/ BeginPass \/ TickRaises \/ PassEnds
    <3>1. /\ UNCHANGED <<svc, stopReq>> /\ job'[Unit] = job[Unit]
          /\ pc[Unit] \in {"captured"} \cup Handled /\ pc'[Unit] \in Handled
      BY <1>0, <2>2
         DEF InstallHandler, BeginPass, TickRaises, PassEnds, Loop, Goto, TypeOK, Handled, unit
    <3> QED BY <3>1, UnitMoves
  <2>3. CASE PassFails
    BY <1>2, <2>3 DEF PassFails
  <2> QED BY <1>3, <2>1, <2>2, <2>3 DEF Daemon
<1>4. CASE StartDaemon
  <2>1. /\ svc \in {"inactive", "waiting"} /\ svc' = "active" /\ stopReq' = FALSE
        /\ pc'[Unit] = "lock" /\ job'[Unit] = "daemon"
    BY <1>0, <1>4 DEF StartDaemon, Begin, Goto, TypeOK
  <2> QED BY <2>1 DEF UnitGoesOn, UnitInv, Ending
<1>5. CASE StartPost
  <2>1. /\ svc = "stopping" /\ pc[Unit] = "idle" /\ UNCHANGED <<svc, stopReq>>
        /\ pc'[Unit] = "lock" /\ job'[Unit] \in {"release", "failsafe"}
    BY <1>0, <1>5 DEF StartPost, Begin, Goto, TypeOK, unit
  <2>2. Advances
    BY <2>1 DEF Advances, Stage
  <2> QED BY <2>1, <2>2 DEF UnitGoesOn, UnitInv
<1>6. CASE PostIdle
  BY <1>2, <1>6 DEF PostIdle
<1>7. CASE Kill(Unit)
  BY <1>2, <1>7 DEF Kill
<1>8. CASE Acquire(Unit)
  <2>1. /\ UNCHANGED <<svc, stopReq>> /\ job'[Unit] = job[Unit]
        /\ pc[Unit] = "lock" /\ pc'[Unit] = "open"
    BY <1>0, <1>8 DEF Acquire, Goto, TypeOK, unit
  <2> QED BY <2>1, UnitMoves
<1>9. CASE \/ LockTimeout(Unit) \/ OpenFails(Unit) \/ SetEnds(Unit) \/ RestoreFails(Unit)
           \/ RestoreClear(Unit) \/ DriveEnds(Unit) \/ DriveFails(Unit) \/ MapEnds(Unit)
  BY <1>2, <1>9 DEF LockTimeout, OpenFails, SetEnds, RestoreFails, RestoreClear, DriveEnds,
                    DriveFails, MapEnds
<1>10. CASE RestoreBegin(Unit)
  <2>1. /\ UNCHANGED <<svc, stopReq>> /\ job'[Unit] = job[Unit] /\ pc'[Unit] = "restore"
        /\ pc[Unit] = "term" \/ (pc[Unit] = "open" /\ job[Unit] = "release")
    BY <1>0, <1>10 DEF RestoreBegin, Loop, Goto, TypeOK, unit
  <2> QED BY <2>1, UnitMoves
<1>11. CASE FailsafeCapture(Unit)
  <2>1. /\ UNCHANGED <<svc, stopReq>> /\ job'[Unit] = job[Unit] /\ pc'[Unit] = "drive"
        /\ pc[Unit] = "open" /\ job[Unit] = "failsafe"
    BY <1>0, <1>11 DEF FailsafeCapture, Loop, Goto, TypeOK, unit
  <2> QED BY <2>1, UnitMoves
<1>12. CASE RestoreOne(Unit) \/ DriveOne(Unit)
  <2>1. /\ UNCHANGED <<svc, stopReq>> /\ job'[Unit] = job[Unit]
        /\ pc[Unit] \in {"restore", "drive"} /\ pc'[Unit] = pc[Unit]
        /\ \E c \in Next1(Unit) : Done(Unit, c)
    BY <1>12 DEF RestoreOne, DriveOne, unit
  <2>2. todo'[Unit] \subseteq todo[Unit] /\ todo'[Unit] # todo[Unit]
    BY <1>0, <2>1 DEF Done, Next1, TypeOK
  <2> QED BY <2>1, <2>2, UnitMoves
<1>13. CASE WriteOne(Unit)
  <2>1. /\ UNCHANGED <<svc, stopReq>> /\ job'[Unit] = job[Unit]
        /\ pc[Unit] \in Writing /\ pc'[Unit] = pc[Unit]
    BY <1>13 DEF WriteOne, unit
  <2>2. pc[Unit] \in Handled
    BY <1>1, <2>1 DEF Writing, Handled
  <2> QED BY <2>1, <2>2, UnitMoves
<1>14. ~(SetCapture(Unit) \/ MapBegin(Unit) \/ Probe(Unit) \/ Unprobe(Unit)
           \/ MapFinally(Unit) \/ UnmapOne(Unit))
  BY <1>1 DEF SetCapture, MapBegin, Probe, Unprobe, MapFinally, UnmapOne
<1> QED
  BY <1>3, <1>4, <1>5, <1>6, <1>7, <1>8, <1>9, <1>10, <1>11, <1>12, <1>13, <1>14
  DEF Systemd, Step, Restore, Failsafe, Map

LEMMA NextUnit == TypeOK /\ UnitInv /\ [Next]_vars => UnitGoesOn
<1> SUFFICES ASSUME TypeOK, UnitInv, [Next]_vars PROVE UnitGoesOn
  OBVIOUS
<1>1. ASSUME NEW p \in Proc, Step(p) \/ Kill(p) \/ StartCli(p) PROVE UnitGoesOn
  <2>1. CASE p = Unit
    BY <1>1, <2>1, UnitSteps, TakeoverAssumption DEF TakeoverAssumption, StartCli
  <2>2. CASE p \in Cli
    BY <1>1, <2>2, OthersLeaveUnit
  <2> QED BY <2>1, <2>2 DEF Proc
<1>2. CASE Daemon \/ Systemd
  BY <1>2, UnitSteps
<1>3. CASE StopUnit
  BY <1>3, StopRequested
<1>4. CASE EditConfig \/ BmcWrite \/ BmcEnable \/ UNCHANGED vars
  BY <1>4, OthersLeaveUnit
<1> QED BY <1>1, <1>2, <1>3, <1>4 DEF Next

LEMMA UnitInvariance == Spec => [](TypeOK /\ UnitInv)
<1>1. Init => UnitInv
  BY DEF Init, UnitInv, Proc
<1>2. IInv => TypeOK
  BY DEF IInv
<1>3. TypeOK /\ UnitInv /\ [Next]_vars => UnitInv'
  BY NextUnit DEF UnitGoesOn
<1> QED BY <1>1, <1>2, <1>3, Invariance, PTL DEF Spec

(* While the unit ends, whether by SIGTERM or by stop-post after any death,  *)
(* each step of it or of systemd leads on: to its next state, to a later     *)
(* stage (waiting for the lock, opening, looping) or past one more channel,  *)
(* and nothing else that runs sets it back (stop_post, release): no lock     *)
(* holder, command, BMC write or edited configuration makes it start over.   *)
THEOREM EndingAdvances ==
  Spec => [][Ending => /\ Daemon \/ Systemd \/ Step(Unit) => Advances
                       /\ Advances \/ UNCHANGED <<svc, pc[Unit], todo[Unit]>>]_vars
<1> DEFINE Goes == Ending => /\ Daemon \/ Systemd \/ Step(Unit) => Advances
                             /\ Advances \/ UNCHANGED <<svc, pc[Unit], todo[Unit]>>
<1>1. ASSUME TypeOK /\ UnitInv, [Next]_vars PROVE [Goes]_vars
  <2>1. Daemon \/ Systemd \/ Step(Unit) => (Ending => Advances)
    BY <1>1, UnitSteps
  <2>2. Ending => Advances \/ UnitRests
    BY <1>1, NextUnit DEF UnitGoesOn
  <2> QED BY <2>1, <2>2 DEF UnitRests
<1> HIDE DEF Goes
<1>2. Spec => [][Goes]_vars
  BY <1>1, UnitInvariance, PTL DEF Spec
<1> QED BY <1>2 DEF Goes

(* A requested stop is remembered until the unit is inactive: however its   *)
(* processes end, by themselves or killed, systemd starts nothing again.    *)
THEOREM StopIsRemembered ==
  Spec => [][stopReq /\ svc # "inactive" =>
               stopReq' /\ (svc' \in {svc, "inactive"} \/ (svc = "active" /\ svc' = "stopping"))]_vars
<1> DEFINE Remembers == stopReq /\ svc # "inactive" =>
      stopReq' /\ (svc' \in {svc, "inactive"} \/ (svc = "active" /\ svc' = "stopping"))
<1>1. ASSUME TypeOK /\ UnitInv, [Next]_vars PROVE [Remembers]_vars
  <2> SUFFICES ASSUME stopReq, svc # "inactive"
               PROVE  stopReq' /\ (svc' \in {svc, "inactive"} \/ (svc = "active" /\ svc' = "stopping"))
    OBVIOUS
  <2>1. svc \in {"active", "stopping"} /\ Ending
    BY <1>1 DEF UnitInv, Ending, TypeOK
  <2>2. stopReq' /\ (Advances \/ UnitRests)
    BY <1>1, <2>1, NextUnit DEF UnitGoesOn
  <2> QED BY <2>1, <2>2 DEF Advances, UnitRests
<1> HIDE DEF Remembers
<1>2. Spec => [][Remembers]_vars
  BY <1>1, UnitInvariance, PTL DEF Spec
<1> QED BY <1>2 DEF Remembers
==============================================================================
