------------------------------- MODULE Takeover -------------------------------
(***************************************************************************)
(* Who may write the PWM duty registers, and how the BMC gets its own duty *)
(* back: the P2A lock (p2afan/ahb.py), the pre-takeover baseline kept in   *)
(* /run/p2afan/baseline.json, the daemon, its stop-post handler and        *)
(* emergency actuation (p2afan/control.py), the manual commands            *)
(* (p2afan/cli.py), and the systemd unit that starts, stops and restarts   *)
(* the daemon (systemd/p2afan.service).                                    *)
(*                                                                         *)
(* The BMC runs beside them: it may write any duty and enable or disable   *)
(* the channels in Fragile at any time.  Any process may be killed between *)
(* any two register accesses.  Channels are numbered in the order of       *)
(* pwm.ALL_CHANNELS and belong to one PCI device each.                     *)
(***************************************************************************)
EXTENDS Integers

CONSTANTS
  Chan, Dev, DevOf,     \* channels, PCI devices, the device of a channel
  Mapped,               \* channels mapping.toml attributes a fan to
  Explicit,             \* write_channels of the configuration, {} for auto
  Fragile,              \* channels the BMC may disable
  MaxDuty,              \* duties are 0 .. MaxDuty, MaxDuty is failsafe_duty
  DaemonDuty, BmcDuty,  \* duties the daemon decides on and the BMC writes
  ManualDuty,           \* duties the manual commands ask for
  Cli,                  \* manual command slots
  Unit,                 \* the process systemd runs: the daemon or stop-post
  CliJob,               \* which manual commands are used
  None, Nobody

Duty == 0 .. MaxDuty
Proc == Cli \cup {Unit}

ASSUME TakeoverAssumption ==
  /\ Chan \subseteq Nat /\ DevOf \in [Chan -> Dev]
  /\ Mapped \subseteq Chan /\ Explicit \subseteq Chan /\ Fragile \subseteq Chan
  /\ MaxDuty \in Nat \ {0}
  /\ DaemonDuty \subseteq Duty /\ BmcDuty \subseteq Duty /\ ManualDuty \subseteq Duty
  /\ Unit \notin Cli /\ Nobody \notin Proc /\ None \notin Int
  /\ CliJob \subseteq {"set", "release", "failsafe", "map"}

VARIABLES
  duty, enabled,   \* the registers
  baseline,        \* per channel, the duty baseline.json holds for it, or None
  lock,            \* the holder of p2a.lock
  pc, job, dev,    \* per process: where it is, what it does, on which device
  todo, val,       \* per process: channels left in its loop, the duty it writes
  chans,           \* Controller.channels
  saved,           \* base_fall of the map command
  svc, result, stopReq,  \* the unit, SERVICE_RESULT, a stop was requested
  config,          \* the device config.toml names
  \* History, read by no action of the code:
  orig,            \* the duty the BMC itself gave a channel
  taken,           \* owned channels whose live duty is a takeover value
  stray            \* channels written without ownership

registers == <<duty, enabled>>
procs     == <<pc, job, dev, todo, val>>
unit      == <<svc, result, stopReq>>
history   == <<orig, taken, stray>>
vars == <<registers, baseline, lock, procs, chans, saved, unit, config, history>>

Owned == {c \in Chan : baseline[c] # None}
ChanOf(d) == {c \in Chan : DevOf[c] = d}
OwnedOn(d) == Owned \cap ChanOf(d)

Init ==
  /\ duty \in [Chan -> BmcDuty] /\ enabled = Chan
  /\ baseline = [c \in Chan |-> None]
  /\ lock = Nobody
  /\ pc = [p \in Proc |-> "idle"] /\ job = [p \in Proc |-> "none"]
  /\ dev \in [Proc -> Dev] /\ (\A p, q \in Proc : dev[p] = dev[q])
  /\ todo = [p \in Proc |-> {}] /\ val = [p \in Proc |-> 0]
  /\ chans = {} /\ saved = [c \in Chan |-> 0]
  /\ svc = "inactive" /\ result = "success" /\ stopReq = FALSE
  /\ config \in Dev
  /\ orig = duty /\ taken = {} /\ stray = {}

-----------------------------------------------------------------------------
(* Parts of actions.  Operators named Buggy... are mutants: slips in the    *)
(* code that the properties below are shown to detect.                      *)

Goto(p, where) == pc' = [pc EXCEPT ![p] = where]

Loop(p, where, cs, v) ==
  /\ Goto(p, where)
  /\ todo' = [todo EXCEPT ![p] = cs]
  /\ val' = [val EXCEPT ![p] = v]

Begin(p, j, d) ==
  /\ Goto(p, "lock")
  /\ job' = [job EXCEPT ![p] = j]
  /\ dev' = [dev EXCEPT ![p] = d]
  /\ UNCHANGED <<todo, val>>

(* The loops of the code visit channels in order. *)
Next1(p) == {c \in todo[p] : \A e \in todo[p] : c <= e}

Done(p, c) == todo' = [todo EXCEPT ![p] = @ \ {c}]

(* Every way a process ends gives the lock back (Ahb.close, or the kernel). *)
(* The unit's main process is followed by stop-post; stop-post by a restart *)
(* unless a stop was requested (Restart=always).                            *)
BuggyExit(p, r) ==
  /\ Loop(p, "idle", {}, 0)
  /\ job' = [job EXCEPT ![p] = "none"]
  /\ chans' = IF p = Unit THEN {} ELSE chans
  /\ saved' = IF job[p] = "map" THEN [c \in Chan |-> 0] ELSE saved
  /\ lock' = IF lock = p THEN Nobody ELSE lock
  /\ IF p # Unit THEN UNCHANGED <<svc, result>>
     ELSE IF svc = "active" THEN svc' = "stopping" /\ result' = r
     ELSE svc' = "waiting" /\ UNCHANGED result
  /\ UNCHANGED <<dev, stopReq>>

Exit(p, r) ==
  /\ Loop(p, "idle", {}, 0)
  /\ job' = [job EXCEPT ![p] = "none"]
  /\ chans' = IF p = Unit THEN {} ELSE chans
  /\ saved' = IF job[p] = "map" THEN [c \in Chan |-> 0] ELSE saved
  /\ lock' = IF lock = p THEN Nobody ELSE lock
  /\ IF p # Unit THEN UNCHANGED <<svc, result>>
     ELSE IF svc = "active" THEN svc' = "stopping" /\ result' = r
     ELSE svc' = (IF stopReq THEN "inactive" ELSE "waiting") /\ UNCHANGED result
  /\ UNCHANGED <<dev, stopReq>>

(* Pwm.set_fall by a process of the host.  A write to a channel nobody owns *)
(* leaves it stray, unless it happens to be the BMC's own duty.             *)
HostWrite(c, v) ==
  /\ duty' = [duty EXCEPT ![c] = v]
  /\ taken' = IF c \in Owned THEN taken \cup {c} ELSE taken
  /\ stray' = IF c \in Owned THEN stray
              ELSE IF v = orig[c] THEN stray \ {c} ELSE stray \cup {c}
  /\ UNCHANGED <<enabled, orig>>

(* writable_channels *)
Writable(d) ==
  LET driven == {c \in enabled : duty[c] > 0}
  IN  (IF Explicit # {} THEN Explicit ELSE Mapped \cup driven)
        \cap enabled \cap ChanOf(d)

(* capture_manual_baseline: an active takeover's original is retained, and   *)
(* a disabled channel or a failed write of the file refuses the takeover.    *)
BuggyRelatch(cs) ==
  [c \in Chan |-> IF c \in cs THEN duty[c] ELSE baseline[c]]

BuggyReplace(cs) ==
  [c \in Chan |-> IF c \notin cs THEN None
                  ELSE IF baseline[c] = None THEN duty[c] ELSE baseline[c]]

BuggyRetainAll(cs) ==
  IF cs \cap Owned # {} THEN baseline
  ELSE [c \in Chan |-> IF c \in cs THEN duty[c] ELSE baseline[c]]

BaselineAfter(cs) ==
  [c \in Chan |-> IF c \in cs /\ baseline[c] = None THEN duty[c] ELSE baseline[c]]

Capture(cs) ==
  /\ cs # {} /\ cs \subseteq enabled
  /\ baseline' = BaselineAfter(cs)

-----------------------------------------------------------------------------
(* The lock and the bridge. *)

BuggyAcquire(p) ==
  /\ pc[p] = "lock"
  /\ lock' = p /\ Goto(p, "open")
  /\ UNCHANGED <<registers, baseline, job, dev, todo, val, chans, saved, unit, config, history>>

Acquire(p) ==
  /\ pc[p] = "lock" /\ lock = Nobody
  /\ lock' = p /\ Goto(p, "open")
  /\ UNCHANGED <<registers, baseline, job, dev, todo, val, chans, saved, unit, config, history>>

(* BridgeBusy: the emergency falls back to sensor injection, the others fail. *)
BuggyLockTimeout(p) ==
  /\ pc[p] = "lock" /\ lock # Nobody /\ p # Unit
  /\ Exit(p, "failure")
  /\ UNCHANGED <<registers, baseline, config, history>>

LockTimeout(p) ==
  /\ pc[p] = "lock" /\ lock # Nobody
  /\ Exit(p, "failure")
  /\ UNCHANGED <<registers, baseline, config, history>>

(* Ahb.__init__ or ensure_bridge raises, no channel is writable, the         *)
(* baseline cannot be captured.                                              *)
OpenFails(p) ==
  /\ pc[p] = "open"
  /\ Exit(p, "failure")
  /\ UNCHANGED <<registers, baseline, config, history>>

-----------------------------------------------------------------------------
(* The daemon. *)

(* Controller.__init__ *)
TakeOver ==
  /\ pc[Unit] = "open" /\ job[Unit] = "daemon"
  /\ chans' = Writable(dev[Unit])
  /\ Capture(chans')
  /\ Goto(Unit, "captured")
  /\ UNCHANGED <<registers, lock, job, dev, todo, val, saved, unit, config, history>>

(* run_daemon installs its SIGTERM handler. *)
InstallHandler ==
  /\ pc[Unit] = "captured" /\ Goto(Unit, "ready")
  /\ UNCHANGED <<registers, baseline, lock, job, dev, todo, val, chans, saved, unit, config, history>>

(* A tick decides on a duty and writes it to every channel; the hold loop    *)
(* writes the last one again.                                                *)
BeginPass ==
  /\ \/ /\ pc[Unit] \in {"ready", "sleep"}
        /\ \E v \in DaemonDuty : Loop(Unit, "tick", chans, v)
     \/ pc[Unit] = "sleep" /\ Loop(Unit, "hold", chans, val[Unit])
  /\ UNCHANGED <<registers, baseline, lock, job, dev, chans, saved, unit, config, history>>

(* An exception of the tick, a disabled channel among them, starts the       *)
(* emergency actuation of Controller.run.                                    *)
TickRaises ==
  /\ pc[Unit] = "tick" /\ Loop(Unit, "panic", chans, MaxDuty)
  /\ UNCHANGED <<registers, baseline, lock, job, dev, chans, saved, unit, config, history>>

(* Nothing catches an exception of the hold loop, and the emergency          *)
(* actuation's own is logged before the first is raised again.               *)
PassFails ==
  /\ \/ pc[Unit] = "hold" /\ Next1(Unit) \cap enabled = {} /\ todo[Unit] # {}
     \/ pc[Unit] = "panic" /\ Next1(Unit) \cap enabled = {}
  /\ Exit(Unit, "failure")
  /\ UNCHANGED <<registers, baseline, config, history>>

PassEnds ==
  /\ pc[Unit] \in {"tick", "hold"} /\ todo[Unit] = {}
  /\ Goto(Unit, "sleep")
  /\ UNCHANGED <<registers, baseline, lock, job, dev, todo, val, chans, saved, unit, config, history>>

-----------------------------------------------------------------------------
(* Writing loops. *)

Writing == {"tick", "hold", "panic", "write"}

WriteOne(p) ==
  /\ pc[p] \in Writing
  /\ \E c \in Next1(p) \cap enabled : HostWrite(c, val[p]) /\ Done(p, c)
  /\ UNCHANGED <<baseline, lock, pc, job, dev, val, chans, saved, unit, config>>

(* cmd_set, cmd_set_raw *)
SetCapture(p) ==
  /\ pc[p] = "open" /\ job[p] = "set"
  /\ \E cs \in SUBSET ChanOf(dev[p]), v \in ManualDuty :
       Capture(cs) /\ Loop(p, "write", cs, v)
  /\ UNCHANGED <<registers, lock, job, dev, chans, saved, unit, config, history>>

SetEnds(p) ==
  /\ pc[p] = "write" /\ Next1(p) \cap enabled = {}
  /\ Exit(p, "success")
  /\ UNCHANGED <<registers, baseline, config, history>>

(* force_failsafe: emergency cooling does not depend on the baseline file.   *)
FailsafeCapture(p) ==
  /\ pc[p] = "open" /\ job[p] = "failsafe"
  /\ LET cs == Writable(dev[p])
     IN  /\ cs # {}
         /\ Capture(cs) \/ UNCHANGED baseline
         /\ Loop(p, "drive", cs, MaxDuty)
  /\ UNCHANGED <<registers, lock, job, dev, chans, saved, unit, config, history>>

DriveOne(p) ==
  /\ pc[p] = "drive"
  /\ \E c \in Next1(p) \cap enabled : HostWrite(c, MaxDuty) /\ Done(p, c)
  /\ UNCHANGED <<baseline, lock, pc, job, dev, val, chans, saved, unit, config>>

DriveEnds(p) ==
  /\ pc[p] = "drive" /\ todo[p] = {}
  /\ Exit(p, "success")
  /\ UNCHANGED <<registers, baseline, config, history>>

(* A duty did not stick or a channel was disabled: sensor injection instead. *)
DriveFails(p) ==
  /\ pc[p] = "drive" /\ Exit(p, "failure")
  /\ UNCHANGED <<registers, baseline, config, history>>

-----------------------------------------------------------------------------
(* _restore_baseline: in release, in stop-post and on SIGTERM.               *)

Released(p) == OwnedOn(dev[p])

RestoreBegin(p) ==
  /\ pc[p] = "term" \/ (pc[p] = "open" /\ job[p] = "release")
  /\ Released(p) # {} /\ Released(p) \subseteq enabled
  /\ Loop(p, "restore", Released(p), 0)
  /\ UNCHANGED <<registers, baseline, lock, job, dev, chans, saved, unit, config, history>>

RestoreOne(p) ==
  /\ pc[p] = "restore"
  /\ \E c \in Next1(p) \cap enabled :
       /\ duty' = [duty EXCEPT ![c] = baseline[c]]
       /\ taken' = taken \ {c}
       /\ Done(p, c)
  /\ UNCHANGED <<enabled, baseline, lock, pc, job, dev, val, chans, saved, unit, config, orig, stray>>

(* A channel is disabled, a restore did not stick, the file cannot be read   *)
(* or written: ownership stays for a later attempt.                          *)
RestoreFails(p) ==
  /\ pc[p] \in {"term", "restore"} /\ Exit(p, "failure")
  /\ UNCHANGED <<registers, baseline, config, history>>

(* The whole restore stuck: ownership ends.  What the BMC wrote since its    *)
(* channel was restored counts as its own.                                   *)
BuggyRestoreClear(p) ==
  /\ pc[p] = "restore"
  /\ baseline' = [c \in Chan |-> IF c \in Released(p) THEN None ELSE baseline[c]]
  /\ orig' = [c \in Chan |->
       IF c \in Released(p) \ (taken \cup stray) THEN duty[c] ELSE orig[c]]
  /\ taken' = taken \ Released(p)
  /\ Exit(p, "success")
  /\ UNCHANGED <<registers, config, stray>>

RestoreClear(p) ==
  /\ pc[p] = "restore" /\ todo[p] = {}
  /\ baseline' = [c \in Chan |-> IF c \in Released(p) THEN None ELSE baseline[c]]
  /\ orig' = [c \in Chan |->
       IF c \in Released(p) \ (taken \cup stray) THEN duty[c] ELSE orig[c]]
  /\ taken' = taken \ Released(p)
  /\ Exit(p, "success")
  /\ UNCHANGED <<registers, config, stray>>

-----------------------------------------------------------------------------
(* cmd_map: one channel after the other is probed, with no baseline; the     *)
(* finally clause writes back what every channel had on entry.               *)

MapBegin(p) ==
  /\ pc[p] = "open" /\ job[p] = "map"
  /\ \E cs \in SUBSET (ChanOf(dev[p]) \cap enabled), v \in ManualDuty :
       Loop(p, "probe", cs, v)
  /\ saved' = duty
  /\ UNCHANGED <<registers, baseline, lock, job, dev, chans, unit, config, history>>

Probe(p) ==
  /\ pc[p] = "probe"
  /\ \E c \in Next1(p) \cap enabled : HostWrite(c, val[p])
  /\ Goto(p, "probed")
  /\ UNCHANGED <<baseline, lock, job, dev, todo, val, chans, saved, unit, config>>

Unprobe(p) ==
  /\ pc[p] = "probed"
  /\ \E c \in Next1(p) \cap enabled : HostWrite(c, saved[c]) /\ Done(p, c)
  /\ Goto(p, "probe")
  /\ UNCHANGED <<baseline, lock, job, dev, val, chans, saved, unit, config>>

(* The loop is over, raises, or is interrupted from the keyboard. *)
MapFinally(p) ==
  /\ pc[p] \in {"probe", "probed"}
  /\ Loop(p, "unmap", ChanOf(dev[p]) \cap enabled, 0)
  /\ UNCHANGED <<registers, baseline, lock, job, dev, chans, saved, unit, config, history>>

UnmapOne(p) ==
  /\ pc[p] = "unmap"
  /\ \E c \in Next1(p) :
       /\ IF c \in enabled THEN HostWrite(c, saved[c])
          ELSE UNCHANGED <<registers, history>>
       /\ Done(p, c)
  /\ UNCHANGED <<baseline, lock, pc, job, dev, val, chans, saved, unit, config>>

MapEnds(p) ==
  /\ pc[p] = "unmap" /\ todo[p] = {}
  /\ Exit(p, "success")
  /\ UNCHANGED <<registers, baseline, config, history>>

-----------------------------------------------------------------------------
(* systemd and the operator. *)

(* systemctl start, or RestartSec has passed. *)
StartDaemon ==
  /\ svc \in {"inactive", "waiting"} /\ pc[Unit] = "idle"
  /\ svc' = "active" /\ stopReq' = FALSE /\ result' = "success"
  /\ Begin(Unit, "daemon", config)
  /\ UNCHANGED <<registers, baseline, lock, chans, saved, config, history>>

(* stop_post: nothing to do, or nothing that it dares to do. *)
PostIdle ==
  /\ svc = "stopping" /\ pc[Unit] = "idle"
  /\ result = "success" /\ OwnedOn(config) = {}
  /\ Exit(Unit, "success")
  /\ UNCHANGED <<registers, baseline, config, history>>

StartPost ==
  /\ svc = "stopping" /\ pc[Unit] = "idle"
  /\ \/ result = "success" /\ OwnedOn(config) # {} /\ Begin(Unit, "release", config)
     \/ result = "failure" /\ Begin(Unit, "failsafe", config)
  /\ UNCHANGED <<registers, baseline, lock, chans, saved, unit, config, history>>

Handled == {"ready", "sleep", "tick", "hold", "panic"}

(* systemctl stop.  Before the handler is installed SIGTERM ends the daemon, *)
(* and systemd counts that as success.                                       *)
StopUnit ==
  /\ svc # "inactive" /\ ~stopReq
  /\ stopReq' = TRUE
  /\ \/ /\ svc = "active" /\ pc[Unit] \in Handled
        /\ Loop(Unit, "term", {}, 0)
        /\ UNCHANGED <<svc, result, lock, job, dev, chans>>
     \/ /\ svc = "active" /\ pc[Unit] \in {"lock", "open", "captured"}
        /\ svc' = "stopping" /\ result' = "success"
        /\ Loop(Unit, "idle", {}, 0)
        /\ job' = [job EXCEPT ![Unit] = "none"]
        /\ chans' = {} /\ lock' = (IF lock = Unit THEN Nobody ELSE lock)
        /\ UNCHANGED dev
     \/ svc = "waiting" /\ svc' = "inactive" /\ UNCHANGED <<result, lock, procs, chans>>
     \/ svc = "stopping" /\ UNCHANGED <<svc, result, lock, procs, chans>>
  /\ UNCHANGED <<registers, baseline, saved, config, history>>

(* SIGKILL, the watchdog, the OOM killer, a stop-post that systemd gives up. *)
Kill(p) ==
  /\ pc[p] # "idle" /\ Exit(p, "failure")
  /\ UNCHANGED <<registers, baseline, config, history>>

(* A manual command; release looks for a baseline before it asks for the     *)
(* lock.                                                                     *)
StartCli(p) ==
  /\ p \in Cli /\ pc[p] = "idle"
  /\ \E j \in CliJob, d \in Dev :
       /\ j = "release" => OwnedOn(d) # {}
       /\ Begin(p, j, d)
  /\ UNCHANGED <<registers, baseline, lock, chans, saved, unit, config, history>>

EditConfig ==
  /\ config' \in Dev \ {config}
  /\ UNCHANGED <<registers, baseline, lock, procs, chans, saved, unit, history>>

-----------------------------------------------------------------------------
(* The BMC. *)

BmcWrite ==
  /\ \E c \in Chan, v \in BmcDuty :
       /\ duty' = [duty EXCEPT ![c] = v]
       /\ taken' = taken \ {c}
       /\ IF c \in Owned THEN UNCHANGED <<orig, stray>>
          ELSE orig' = [orig EXCEPT ![c] = v] /\ stray' = stray \ {c}
  /\ UNCHANGED <<enabled, baseline, lock, procs, chans, saved, unit, config>>

BmcEnable ==
  /\ \E c \in Fragile : enabled' = IF c \in enabled THEN enabled \ {c} ELSE enabled \cup {c}
  /\ UNCHANGED <<duty, baseline, lock, procs, chans, saved, unit, config, history>>

-----------------------------------------------------------------------------
Daemon == TakeOver \/ InstallHandler \/ BeginPass \/ TickRaises \/ PassFails \/ PassEnds

Restore(p) == RestoreBegin(p) \/ RestoreOne(p) \/ RestoreFails(p) \/ RestoreClear(p)

Failsafe(p) == FailsafeCapture(p) \/ DriveOne(p) \/ DriveEnds(p) \/ DriveFails(p)

Map(p) == MapBegin(p) \/ Probe(p) \/ Unprobe(p) \/ MapFinally(p) \/ UnmapOne(p) \/ MapEnds(p)

Step(p) ==
  \/ Acquire(p) \/ LockTimeout(p) \/ OpenFails(p)
  \/ SetCapture(p) \/ WriteOne(p) \/ SetEnds(p)
  \/ Restore(p) \/ Failsafe(p) \/ Map(p)

Systemd == StartDaemon \/ PostIdle \/ StartPost

Next ==
  \/ Daemon \/ Systemd \/ StopUnit \/ EditConfig
  \/ \E p \in Proc : Step(p) \/ Kill(p) \/ StartCli(p)
  \/ BmcWrite \/ BmcEnable

Spec == Init /\ [][Next]_vars

(* Processes run and systemd does its work; nobody has to start a command,  *)
(* request a stop, kill a process or be the BMC.                            *)
FairSpec ==
  /\ Spec
  /\ WF_vars(Daemon \/ Systemd \/ Step(Unit))
  /\ \A p \in Cli : WF_vars(Step(p))

-----------------------------------------------------------------------------
Pc == {"idle", "lock", "open", "captured", "ready", "sleep", "tick", "hold", "panic",
       "term", "restore", "write", "drive", "probe", "probed", "unmap"}

(* Every variable keeps its type. *)
TypeOK ==
  /\ duty \in [Chan -> Duty] /\ enabled \subseteq Chan
  /\ baseline \in [Chan -> Duty \cup {None}]
  /\ lock \in Proc \cup {Nobody}
  /\ pc \in [Proc -> Pc]
  /\ job \in [Proc -> {"none", "daemon", "set", "release", "failsafe", "map"}]
  /\ dev \in [Proc -> Dev]
  /\ todo \in [Proc -> SUBSET Chan] /\ val \in [Proc -> Duty]
  /\ chans \subseteq Chan /\ saved \in [Chan -> Duty]
  /\ svc \in {"inactive", "active", "stopping", "waiting"}
  /\ result \in {"success", "failure"} /\ stopReq \in BOOLEAN
  /\ config \in Dev
  /\ orig \in [Chan -> Duty] /\ taken \subseteq Chan /\ stray \subseteq Chan

(* The lock is held exactly by the process that uses the bridge, from       *)
(* Ahb.__init__ to Ahb.close or its death: no two processes ever share the  *)
(* window register.                                                         *)
Exclusive == \A p \in Proc : lock = p <=> pc[p] \notin {"idle", "lock"}

DaemonRuns == pc[Unit] \in {"captured", "term"} \cup Handled

(* A process only ever writes takeover duties to channels whose baseline is *)
(* on disk, and nobody takes that ownership away from a running daemon:     *)
(* neither a manual command nor another device's release.                   *)
PersistBeforeWrite ==
  /\ \A p \in Proc : pc[p] \in Writing => todo[p] \subseteq Owned
  /\ DaemonRuns => chans \subseteq Owned

(* Whatever was killed, lost the lock race or failed half way: the duty the *)
(* BMC itself last chose for a channel is live or is the persisted baseline *)
(* (capture_manual_baseline, _restore_baseline).  Channels written without  *)
(* ownership are excepted.                                                  *)
Recoverable ==
  \A c \in Chan \ stray :
    IF c \in Owned THEN baseline[c] = orig[c] ELSE duty[c] = orig[c]

(* A restore in progress has the channels it still has to visit in todo,    *)
(* all of them owned, and no owned channel it has visited is driven.        *)
RestoreOK(p) ==
  /\ todo[p] \subseteq OwnedOn(dev[p])
  /\ (OwnedOn(dev[p]) \ todo[p]) \cap taken = {}

Restoring == \A p \in Proc : pc[p] = "restore" => RestoreOK(p)

(* The inductive invariant of the takeover. *)
IInv == TypeOK /\ Exclusive /\ PersistBeforeWrite /\ Recoverable /\ Restoring

(* "retaining an active takeover's original": as long as a channel is owned *)
(* its baseline is the one first captured, across restarts of the daemon,   *)
(* manual commands and emergencies.                                         *)
TakeoverRetained ==
  [][\A c \in Chan : c \in Owned /\ c \in Owned' => baseline'[c] = baseline[c]]_vars

(* Ownership of a channel ends only when its live duty is no takeover value *)
(* any more: a release that failed or was killed half way keeps all of it.  *)
OwnershipEndsRestored ==
  [][\A c \in Chan : c \in Owned /\ c \notin Owned' => c \notin taken]_vars

(* stop-post always comes to an end, whoever holds the lock, so the unit is *)
(* restarted or stopped.                                                    *)
UnitSettles == svc = "stopping" ~> svc # "stopping"

(* A requested stop ends with the unit inactive. *)
StopHonoured == stopReq ~> svc = "inactive"

(* README.md:381, "Restart after failsafe cannot latch 100 % as "factory"": *)
(* a baseline is the BMC's own duty.                                        *)
BaselineIsFactory == \A c \in Owned : baseline[c] = orig[c]

(* README.md:377, "ExecStopPost drives every owned channel to failsafe      *)
(* duty", provided the channel is enabled.                                  *)
EmergencyDrivesOwned ==
  [][pc[Unit] = "open" /\ pc'[Unit] = "drive"
       => OwnedOn(dev[Unit]) \cap enabled \subseteq todo'[Unit]]_vars
==============================================================================
