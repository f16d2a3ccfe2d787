------------------------------ MODULE Emergency ------------------------------
(***************************************************************************)
(* The unit around the files of BaselineStore: the daemon in both modes,   *)
(* stop_post after every exit, and force_failsafe with its fallbacks       *)
(* (p2afan/control.py, systemd/p2afan.service).  The configuration may be  *)
(* edited or broken at any time; other processes are manual commands.      *)
(*                                                                         *)
(* Every step of the unit or of a command is a step of BaselineStore.      *)
(***************************************************************************)
EXTENDS BaselineStore

CONSTANTS
  unit,                   \* the process of daemon and stop-post
  CfgDev,                 \* pci_bdf
  WriteChannels,          \* write_channels, or every channel
  ManualJob               \* what the other processes do

ASSUME EmergencyAssumption ==
  /\ unit \in Proc /\ CfgDev \in Dev /\ WriteChannels \subseteq Chan
  /\ ManualJob \subseteq Job \ {"daemon"}

VARIABLES
  config,      \* the mode of a valid file, or what a broken file still tells
  picked,      \* write_channels as the running process has read it
  svc,         \* the unit: down, its daemon's mode, stopped or in stop_post
  clean,       \* SERVICE_RESULT is success
  sensors,     \* the BMC's GPU sensors were last fed the failsafe temperature
  left,        \* force_failsafe: chosen channels not written yet
  answered,    \* the last emergency returned without an exception
  \* History:
  touched      \* channels changed by others since the emergency chose

unitVars == <<config, picked, svc, clean, sensors, left, answered, touched>>
evars    == <<storeVars, unitVars>>

EInit ==
  /\ Init
  /\ config \in {"pwm", "inject"} /\ picked = WriteChannels
  /\ svc = "down" /\ clean = TRUE /\ sensors = FALSE
  /\ left = {} /\ answered = FALSE /\ touched = {}

-----------------------------------------------------------------------------
(* writable_channels; every modelled duty is above 0. *)
Writable == enabled \cap ChanOf(CfgDev) \cap picked

Idle(p) == pc'[p] = "idle"

(* run_daemon loads the configuration and takes over, or serves sensors. *)
Start ==
  /\ svc = "down"
  /\ CASE config = "pwm"    -> Ask(unit, "daemon", CfgDev) /\ svc' = "pwm" /\ UNCHANGED clean
       [] config = "inject" -> svc' = "inject" /\ UNCHANGED <<storeVars, clean>>
       [] OTHER             -> svc' = "stopped" /\ clean' = FALSE /\ UNCHANGED storeVars
  /\ answered' = FALSE /\ sensors' = FALSE /\ touched' = {} /\ picked' = WriteChannels
  /\ UNCHANGED <<config, left>>

(* Any end of the daemon but a completed release is unclean; so is a kill,   *)
(* but for a SIGTERM before its handler is there, which systemd calls clean. *)
Daemon ==
  /\ svc = "pwm"
  /\ \/ Acquire(unit) \/ GiveUp(unit) \/ Capture(unit, Writable)
     \/ Replace(unit) \/ PersistFails(unit)
     \/ \E c \in Chan, v \in DriveDuty : DriveOne(unit, c, v)
     \/ Heartbeat(unit) \/ DriveEnds(unit) \/ Term(unit)
     \/ \E part \in SUBSET Chan : RestoreSome(unit, part)
  /\ IF Idle(unit)
       THEN svc' = "stopped" /\ clean' = (baselineFile' # baselineFile)
       ELSE UNCHANGED <<svc, clean>>
  /\ UNCHANGED <<config, picked, sensors, left, answered, touched>>

DaemonKilled ==
  /\ svc = "pwm" /\ Kill(unit)
  /\ svc' = "stopped"
  /\ clean' \in (IF job[unit] = "daemon" /\ pc[unit] # "drive" THEN BOOLEAN ELSE {FALSE})
  /\ UNCHANGED <<config, picked, sensors, left, answered, touched>>

(* A tick in inject mode feeds the sensors and writes the heartbeat. *)
InjectTick ==
  /\ svc = "inject" /\ InjectHeartbeat
  /\ sensors' \in BOOLEAN
  /\ UNCHANGED <<config, picked, svc, clean, left, answered, touched>>

InjectEnds ==
  /\ svc = "inject" /\ svc' = "stopped"
  /\ clean' \in BOOLEAN /\ sensors' \in BOOLEAN
  /\ UNCHANGED <<storeVars, config, picked, left, answered, touched>>

-----------------------------------------------------------------------------
(* stop_post. *)

(* After a clean stop: nothing to do, an exception, or a release. *)
PostNothing ==
  /\ svc = "stopped" /\ clean
  /\ ~(config = "pwm" /\ Known(CfgDev) /\ Book.entry[CfgDev] = "active")
  /\ svc' = "down"
  /\ UNCHANGED <<storeVars, config, picked, clean, sensors, left, answered, touched>>

PostRelease ==
  /\ svc = "stopped" /\ clean /\ config = "pwm"
  /\ Ask(unit, "release", CfgDev)
  /\ svc' = "post"
  /\ UNCHANGED <<config, picked, clean, sensors, left, answered, touched>>

Releasing ==
  /\ svc = "post" /\ job[unit] = "release"
  /\ \/ Acquire(unit) \/ GiveUp(unit) \/ Replace(unit) \/ PersistFails(unit) \/ Kill(unit)
     \/ \E part \in SUBSET Chan : RestoreSome(unit, part)
  /\ svc' = IF Idle(unit) THEN "down" ELSE svc
  /\ UNCHANGED <<config, picked, clean, sensors, left, answered, touched>>

(* force_failsafe after an unclean end: by sensors in inject mode and where *)
(* no actuator identity can be trusted; every sensor must take it.          *)
PostInjects ==
  /\ svc = "stopped" /\ ~clean /\ config \in {"inject", "broken"}
  /\ svc' = "down"
  /\ sensors' \in BOOLEAN /\ answered' \in {FALSE, sensors'}
  /\ UNCHANGED <<storeVars, config, picked, clean, left, touched>>

PostEmergency ==
  /\ svc = "stopped" /\ ~clean /\ config \in {"pwm", "brokenpwm"}
  /\ Ask(unit, "emergency", CfgDev)
  /\ svc' = "post" /\ touched' = {}
  /\ picked' = IF config = "pwm" THEN WriteChannels ELSE Chan
  /\ UNCHANGED <<config, clean, sensors, left, answered>>

(* Some of the chosen channels may be disabled by the time of the capture. *)
Choose ==
  /\ \/ Capture(unit, Writable) /\ left' = Writable
     \/ \E gone \in SUBSET ((ChanOf(CfgDev) \cap picked) \ enabled) :
          DriveUnrecorded(unit, Writable \cup gone) /\ left' = Writable \cup gone
  /\ touched' = {}
  /\ UNCHANGED <<svc, sensors, answered>>

First(cs) == CHOOSE c \in cs : \A d \in cs : c <= d

BuggyDriveFirst ==
  /\ left # {}
  /\ IF First(left) \in enabled THEN DriveOne(unit, First(left), FailDuty) /\ left' = left \ {First(left)}
                                ELSE left' = {} /\ UNCHANGED storeVars
  /\ UNCHANGED <<svc, sensors, answered, touched>>

DriveFirst ==
  /\ left # {} /\ DriveOne(unit, First(left), FailDuty)
  /\ left' = left \ {First(left)}
  /\ UNCHANGED <<svc, sensors, answered, touched>>

Cooled ==
  /\ left = {} /\ DriveEnds(unit)
  /\ svc' = "down" /\ answered' = TRUE
  /\ UNCHANGED <<sensors, left, touched>>

(* Any exception -- no lock, no bridge, no channel, one disabled, a duty that *)
(* does not stick -- falls back to the sensors; one that takes it is enough.  *)
FallBack ==
  /\ GiveUp(unit) \/ DriveEnds(unit)
  /\ svc' = "down" /\ left' = {}
  /\ sensors' \in BOOLEAN /\ answered' = sensors'
  /\ UNCHANGED touched

Killed ==
  /\ Kill(unit)
  /\ svc' = "down" /\ left' = {}
  /\ UNCHANGED <<sensors, answered, touched>>

Emergency ==
  /\ svc = "post" /\ job[unit] = "emergency"
  /\ \/ (Acquire(unit) \/ Replace(unit) \/ PersistFails(unit))
        /\ UNCHANGED <<svc, sensors, left, answered, touched>>
     \/ Choose \/ DriveFirst \/ Cooled \/ FallBack \/ Killed
  /\ UNCHANGED <<config, picked, clean>>

-----------------------------------------------------------------------------
(* What the others change is of interest from an emergency's choice on. *)
Touch(cs) == touched' = IF svc = "post" \/ answered THEN touched \cup cs ELSE {}

Manual(p) ==
  /\ p # unit
  /\ \/ Session(p) \/ Kill(p) \/ \E j \in ManualJob, d \in Dev : Ask(p, j, d)
  /\ Touch({c \in Chan : live'[c] # live[c]})
  /\ UNCHANGED <<config, picked, svc, clean, sensors, left, answered>>

BmcActs ==
  /\ Bmc
  /\ Touch({c \in Chan : live'[c] # live[c] \/ c \in enabled' \ enabled})
  /\ UNCHANGED <<config, picked, svc, clean, sensors, left, answered>>

(* The file is read at the start of the daemon and of stop_post only: *)
(* an edit at another time is one before the next of these.           *)
EditConfig ==
  /\ svc \in {"down", "stopped"}
  /\ config' \in {"pwm", "inject", "brokenpwm", "broken"} \ {config}
  /\ UNCHANGED <<storeVars, picked, svc, clean, sensors, left, answered, touched>>

Reset ==
  /\ HostReset
  /\ svc' = "down" /\ clean' = TRUE /\ left' = {}
  /\ answered' = FALSE /\ touched' = {}
  /\ UNCHANGED <<config, picked, sensors>>

ENext ==
  \/ Start \/ Daemon \/ DaemonKilled \/ InjectTick \/ InjectEnds
  \/ PostNothing \/ PostRelease \/ Releasing \/ PostInjects \/ PostEmergency \/ Emergency
  \/ \E p \in Proc : Manual(p)
  \/ BmcActs \/ EditConfig \/ Reset

ESpec == EInit /\ [][ENext]_evars

-----------------------------------------------------------------------------
(* When an emergency has returned without an exception, either every channel *)
(* that is enabled, configured and untouched since is at the failsafe duty,   *)
(* or the sensors hold the failsafe temperature: an emergency that stops at a *)
(* channel does not pass for one that drove them all (force_failsafe).        *)
EmergencyAnswers ==
  svc = "down" /\ answered =>
    \/ sensors
    \/ \A c \in (enabled \cap ChanOf(CfgDev) \cap WriteChannels) \ touched : live[c] = FailDuty
==============================================================================
