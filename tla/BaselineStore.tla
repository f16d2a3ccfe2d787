---------------------------- MODULE BaselineStore ----------------------------
(***************************************************************************)
(* The files behind the takeover (p2afan/control.py): baseline.json, which *)
(* holds per PCI device the duties the owned channels had before, and      *)
(* state.json, the daemon's heartbeat, in which version 1.0 kept them.     *)
(*                                                                         *)
(* Takeover counts register accesses and takes the record of a channel for *)
(* a variable; here the record is a file that may be missing, corrupt or   *)
(* an old version's, that is rewritten by a temporary file and a rename,   *)
(* and that a host reset takes away while the BMC's registers stay as they *)
(* are.  Sessions of several processes capture, drive and restore.         *)
(***************************************************************************)
EXTENDS Integers

CONSTANTS
  Chan, Dev, DevOf,       \* channels, PCI devices, the device of a channel
  DriveDuty, BmcDuty,     \* duties of the host and of the BMC, told apart here
  FailDuty,               \* failsafe_duty_pct
  Fragile,                \* channels that the BMC may disable
  Proc, None, Nobody

ASSUME StoreAssumption ==
  /\ DevOf \in [Chan -> Dev] /\ Dev # {}
  /\ FailDuty \in DriveDuty /\ DriveDuty \cap BmcDuty = {}
  /\ None \notin DriveDuty \cup BmcDuty /\ Nobody \notin Proc

VARIABLES
  baselineFile,    \* baseline.json
  tmp,             \* baseline.json.tmp
  stateFile,       \* state.json
  live, enabled,   \* the registers
  lock,            \* the holder of p2a.lock
  pc, job, dev,    \* per process: where it is, what it does, on which device
  want,            \* per process: the channels it captured or drives
  \* History, read by no action of the code:
  old,             \* driven channels that only an unusable file knows of
  lost             \* channels driven without a record, or recorded after that

files     == <<baselineFile, tmp, stateFile>>
registers == <<live, enabled>>
procs     == <<pc, job, dev, want>>
history   == <<old, lost>>
storeVars == <<files, registers, lock, procs, history>>

-----------------------------------------------------------------------------
Duty == DriveDuty \cup BmcDuty

(* Contents.  A book has an entry per device: absent, inactive, active with *)
(* at least one duty, or of a shape that _active_baseline refuses.          *)

EntryKind == {"absent", "inactive", "active", "invalid"}

Content ==
  [kind : {"missing", "corrupt", "unscoped", "book"},
   entry : [Dev -> EntryKind], kept : [Chan -> Duty \cup {None}]]

(* What _active_baseline takes: an active entry has duties, no other has. *)
WellFormed(b) ==
  \A d \in Dev : b.entry[d] = "active" <=> \E c \in Chan : DevOf[c] = d /\ b.kept[c] # None

NoEntry == [d \in Dev |-> "absent"]
NoDuty  == [c \in Chan |-> None]

Blank(kind) == [kind |-> kind, entry |-> NoEntry, kept |-> NoDuty]

ChanOf(d) == {c \in Chan : DevOf[c] = d}

(* _baseline_state raises, or returns the book.  Operators named Buggy...    *)
(* are mutants: slips that the properties are shown to detect.               *)
Readable ==
  \/ baselineFile.kind = "book"
  \/ baselineFile.kind = "missing" /\ stateFile \in {"missing", "plain"}

Book == IF baselineFile.kind = "book" THEN baselineFile ELSE Blank("book")

(* _active_baseline raises, or returns the duties of a device. *)
Known(d) == Readable /\ Book.entry[d] # "invalid"

Recorded(b) == {c \in Chan : b.kind = "book" /\ b.kept[c] # None}

Owned == Recorded(baselineFile)

(* Channels whose live duty is a takeover's. *)
Driven == {c \in Chan : live[c] \in DriveDuty}

(* The book capture_manual_baseline writes for channels cs. *)
BuggyCaptured(d, cs) ==
  [kind |-> "book", entry |-> [Book.entry EXCEPT ![d] = "active"],
   kept |-> [c \in Chan |-> IF c \in cs THEN live[c] ELSE Book.kept[c]]]

Captured(d, cs) ==
  [kind |-> "book", entry |-> [Book.entry EXCEPT ![d] = "active"],
   kept |-> [c \in Chan |-> IF c \in cs /\ Book.kept[c] = None THEN live[c]
                            ELSE Book.kept[c]]]

(* The book _restore_baseline writes when it is done. *)
BuggyReleased(d) == [kind |-> "book", entry |-> [Book.entry EXCEPT ![d] = "inactive"], kept |-> Book.kept]

Released(d) ==
  [kind |-> "book", entry |-> [Book.entry EXCEPT ![d] = "inactive"],
   kept |-> [c \in Chan |-> IF DevOf[c] = d THEN None ELSE Book.kept[c]]]

(* The device of a process that does nothing. *)
AnyDev == CHOOSE d \in Dev : TRUE

-----------------------------------------------------------------------------
(* What an earlier run or version left: nothing, a usable book, or takeovers *)
(* that only a file the program refuses knows of.                            *)
Unusable(c) ==
  \/ baselineFile.kind \in {"corrupt", "unscoped"}
  \/ baselineFile.kind = "missing" /\ stateFile \in {"corrupt", "owner"}
  \/ baselineFile.kind = "book" /\ baselineFile.entry[DevOf[c]] = "invalid"

Init ==
  /\ baselineFile \in
       {Blank(k) : k \in {"missing", "corrupt", "unscoped"}}
         \cup {[Blank("book") EXCEPT !.entry = [NoEntry EXCEPT ![d] = "invalid"]] : d \in Dev}
  /\ stateFile \in {"missing", "corrupt", "owner", "plain"}
  /\ tmp = Blank("missing")
  /\ live \in [Chan -> Duty]
  /\ old = Driven /\ lost = {} /\ (\A c \in old : Unusable(c))
  /\ enabled = Chan
  /\ lock = Nobody
  /\ pc = [p \in Proc |-> "idle"] /\ job = [p \in Proc |-> "none"]
  /\ dev = [p \in Proc |-> AnyDev]
  /\ want = [p \in Proc |-> {}]

-----------------------------------------------------------------------------
Goto(p, where) == pc' = [pc EXCEPT ![p] = where]

(* What is left of a temporary file is read by nobody. *)
End(p) ==
  /\ Goto(p, "idle")
  /\ tmp' = IF lock = p THEN Blank("missing") ELSE tmp
  /\ job' = [job EXCEPT ![p] = "none"]
  /\ want' = [want EXCEPT ![p] = {}]
  /\ lock' = IF lock = p THEN Nobody ELSE lock
  /\ dev' = [dev EXCEPT ![p] = AnyDev]

(* Pwm.set_fall by the host. *)
HostWrite(c, v) ==
  /\ live' = [live EXCEPT ![c] = v]
  /\ lost' = IF c \in Owned \cup old THEN lost ELSE lost \cup {c}
  /\ UNCHANGED <<enabled, old>>

-----------------------------------------------------------------------------
(* Sessions under the lock. *)

Job == {"set", "daemon", "emergency", "release"}

(* release looks for an active entry before it waits for the lock. *)
Ask(p, j, d) ==
  /\ pc[p] = "idle"
  /\ j = "release" => Known(d) /\ Book.entry[d] = "active"
  /\ Goto(p, "lock")
  /\ job' = [job EXCEPT ![p] = j]
  /\ dev' = [dev EXCEPT ![p] = d]
  /\ UNCHANGED <<files, registers, lock, want, history>>

Acquire(p) ==
  /\ pc[p] = "lock" /\ lock = Nobody
  /\ lock' = p /\ Goto(p, "open")
  /\ UNCHANGED <<files, registers, job, dev, want, history>>

(* BridgeBusy, BridgeUnavailable, a refused capture or release. *)
GiveUp(p) ==
  /\ pc[p] \in {"lock", "open"} /\ End(p)
  /\ UNCHANGED <<baselineFile, stateFile, registers, history>>

(* capture_manual_baseline up to the temporary file, written in full. *)
BuggyCaptureInPlace(p, cs) ==
  /\ pc[p] = "open" /\ job[p] # "release"
  /\ cs # {} /\ cs \subseteq enabled \cap ChanOf(dev[p])
  /\ Known(dev[p])
  /\ tmp' = Captured(dev[p], cs)
  /\ baselineFile' = Blank("corrupt")
  /\ want' = [want EXCEPT ![p] = cs]
  /\ Goto(p, "replace")
  /\ UNCHANGED <<stateFile, registers, lock, job, dev, history>>

Capture(p, cs) ==
  /\ pc[p] = "open" /\ job[p] # "release"
  /\ cs # {} /\ cs \subseteq enabled \cap ChanOf(dev[p])
  /\ Known(dev[p])
  /\ tmp' = Captured(dev[p], cs)
  /\ want' = [want EXCEPT ![p] = cs]
  /\ Goto(p, "replace")
  /\ UNCHANGED <<baselineFile, stateFile, registers, lock, job, dev, history>>

Proceed(p) ==
  /\ Goto(p, "drive") /\ tmp' = Blank("missing")
  /\ UNCHANGED <<lock, job, dev, want>>

(* os.replace. *)
Replace(p) ==
  /\ pc[p] = "replace"
  /\ baselineFile' = tmp
  /\ IF job[p] # "release" THEN Proceed(p) ELSE End(p)
  /\ UNCHANGED <<stateFile, registers, history>>

BuggyPersistFails(p) ==
  /\ pc[p] = "replace"
  /\ IF job[p] # "release" THEN Proceed(p) ELSE End(p)
  /\ UNCHANGED <<baselineFile, stateFile, registers, history>>

(* The file cannot be written.  An emergency goes on without it. *)
PersistFails(p) ==
  /\ pc[p] = "replace"
  /\ IF job[p] = "emergency" THEN Proceed(p) ELSE End(p)
  /\ UNCHANGED <<baselineFile, stateFile, registers, history>>

(* force_failsafe when the capture refuses: "Keep corrupt state intact".  A *)
(* channel disabled since it was chosen makes it refuse, too.               *)
BuggyRecordAfresh(p, cs) ==
  /\ pc[p] = "open" /\ job[p] = "emergency"
  /\ ~Known(dev[p]) /\ cs # {} /\ cs \subseteq enabled \cap ChanOf(dev[p])
  /\ tmp' = Captured(dev[p], cs)
  /\ want' = [want EXCEPT ![p] = cs]
  /\ Goto(p, "replace")
  /\ UNCHANGED <<baselineFile, stateFile, registers, lock, job, dev, history>>

DriveUnrecorded(p, cs) ==
  /\ pc[p] = "open" /\ job[p] = "emergency"
  /\ cs # {} /\ cs \subseteq ChanOf(dev[p])
  /\ ~Known(dev[p]) \/ ~(cs \subseteq enabled)
  /\ want' = [want EXCEPT ![p] = cs]
  /\ Goto(p, "drive")
  /\ UNCHANGED <<files, registers, lock, job, dev, history>>

DriveOne(p, c, v) ==
  /\ pc[p] = "drive" /\ c \in want[p] \cap enabled
  /\ job[p] = "emergency" => v = FailDuty
  /\ HostWrite(c, v)
  /\ UNCHANGED <<files, lock, procs>>

(* A daemon's heartbeat carries the baseline it took over from. *)
Heartbeat(p) ==
  /\ pc[p] = "drive" /\ job[p] = "daemon"
  /\ stateFile' = "owner"
  /\ UNCHANGED <<baselineFile, tmp, registers, lock, procs, history>>

(* An inject-mode daemon opens no session; its heartbeat carries no baseline. *)
(* Where state.json was an old version's, what it knew is gone.               *)
InjectHeartbeat ==
  /\ stateFile' = "plain"
  /\ IF baselineFile.kind = "missing" /\ stateFile \in {"corrupt", "owner"}
       THEN lost' = lost \cup old /\ old' = {}
       ELSE UNCHANGED <<old, lost>>
  /\ UNCHANGED <<baselineFile, tmp, registers, lock, procs>>

DriveEnds(p) ==
  /\ pc[p] = "drive" /\ End(p)
  /\ UNCHANGED <<baselineFile, stateFile, registers, history>>

(* SIGTERM: the daemon restores under the lock it holds. *)
Term(p) ==
  /\ pc[p] = "drive" /\ job[p] = "daemon"
  /\ Goto(p, "open") /\ job' = [job EXCEPT ![p] = "release"]
  /\ want' = [want EXCEPT ![p] = {}]
  /\ UNCHANGED <<files, registers, lock, dev, history>>

(* _restore_baseline: all owned channels of the device, or an exception that *)
(* leaves some of them restored and the file as it was.                      *)
BuggyRestoreSome(p, part) ==
  /\ pc[p] = "open" /\ job[p] = "release"
  /\ Known(dev[p]) /\ Book.entry[dev[p]] = "active"
  /\ part \subseteq Owned \cap ChanOf(dev[p])
  /\ Owned \cap ChanOf(dev[p]) \subseteq enabled
  /\ live' = [c \in Chan |-> IF c \in part THEN Book.kept[c] ELSE live[c]]
  /\ tmp' = Released(dev[p]) /\ Goto(p, "replace")
  /\ UNCHANGED <<baselineFile, stateFile, lock, job, dev, want, enabled, history>>

RestoreSome(p, part) ==
  /\ pc[p] = "open" /\ job[p] = "release"
  /\ Known(dev[p]) /\ Book.entry[dev[p]] = "active"
  /\ part \subseteq Owned \cap ChanOf(dev[p])
  /\ Owned \cap ChanOf(dev[p]) \subseteq enabled
  /\ live' = [c \in Chan |-> IF c \in part THEN Book.kept[c] ELSE live[c]]
  /\ IF part = Owned \cap ChanOf(dev[p])
       THEN tmp' = Released(dev[p]) /\ Goto(p, "replace")
            /\ UNCHANGED <<lock, job, dev, want>>
       ELSE End(p)
  /\ UNCHANGED <<baselineFile, stateFile, enabled, history>>

Kill(p) ==
  /\ pc[p] # "idle" /\ End(p)
  /\ UNCHANGED <<baselineFile, stateFile, registers, history>>

-----------------------------------------------------------------------------
(* A reset or power loss of the host: /run is empty, the BMC does not notice. *)
HostReset ==
  /\ baselineFile' = Blank("missing") /\ tmp' = Blank("missing")
  /\ stateFile' = "missing"
  /\ pc' = [p \in Proc |-> "idle"] /\ job' = [p \in Proc |-> "none"]
  /\ want' = [p \in Proc |-> {}] /\ lock' = Nobody
  /\ lost' = Driven /\ old' = {}
  /\ dev' = [p \in Proc |-> AnyDev]
  /\ UNCHANGED registers

BmcWrite(c, v) ==
  /\ live' = [live EXCEPT ![c] = v]
  /\ old' = old \ {c}
  /\ lost' = IF c \in Owned \cup Recorded(tmp) THEN lost ELSE lost \ {c}
  /\ UNCHANGED <<files, enabled, lock, procs>>

BmcToggle(c) ==
  /\ c \in Fragile
  /\ enabled' = IF c \in enabled THEN enabled \ {c} ELSE enabled \cup {c}
  /\ UNCHANGED <<files, live, lock, procs, history>>

-----------------------------------------------------------------------------
Session(p) ==
  \/ Acquire(p) \/ GiveUp(p)
  \/ \E cs \in SUBSET Chan : Capture(p, cs) \/ DriveUnrecorded(p, cs) \/ RestoreSome(p, cs)
  \/ Replace(p) \/ PersistFails(p)
  \/ \E c \in Chan, v \in DriveDuty : DriveOne(p, c, v)
  \/ Heartbeat(p) \/ DriveEnds(p) \/ Term(p)

Bmc == \E c \in Chan : BmcToggle(c) \/ \E v \in BmcDuty : BmcWrite(c, v)

Next ==
  \/ \E p \in Proc : Session(p) \/ Kill(p) \/ (\E j \in Job, d \in Dev : Ask(p, j, d))
  \/ InjectHeartbeat \/ HostReset \/ Bmc

Spec == Init /\ [][Next]_storeVars

-----------------------------------------------------------------------------
TypeOK ==
  /\ baselineFile \in Content /\ WellFormed(baselineFile)
  /\ tmp \in Content /\ WellFormed(tmp)
  /\ stateFile \in {"missing", "corrupt", "owner", "plain"}
  /\ live \in [Chan -> Duty] /\ enabled \subseteq Chan
  /\ lock \in Proc \cup {Nobody}
  /\ pc \in [Proc -> {"idle", "lock", "open", "replace", "drive"}]
  /\ job \in [Proc -> Job \cup {"none"}] /\ dev \in [Proc -> Dev]
  /\ want \in [Proc -> SUBSET Chan]
  /\ old \subseteq Chan /\ lost \subseteq Chan

(* A recorded duty is one the BMC gave, never a takeover's taken for the    *)
(* BMC's by a later capture, unless the channel had been driven without a   *)
(* record; and a driven channel with neither record nor such a past is      *)
(* known to a file the program refuses (capture_manual_baseline).           *)
KeptIsBmcs ==
  \A c \in Chan :
    /\ c \in Owned \ lost => baselineFile.kept[c] \in BmcDuty
    /\ c \in Driven \ lost => c \in Owned \cup old

(* A takeover that only a file of an old version, or a damaged one, knows   *)
(* of is not taken over again, so that its duty is not captured as the      *)
(* BMC's (_baseline_state).                                                 *)
OldRefused == \A c \in old : ~Known(DevOf[c]) /\ c \notin Owned

(* A channel leaves the book only when nothing of the takeover is left in   *)
(* its register, or with the host's reset: no kill, failure, capture or     *)
(* release of another device drops it (_restore_baseline, write_state).     *)
OwnershipEnds == [][(Owned \ Owned') \cap Driven \subseteq lost \/ HostReset]_storeVars

(* A file the program cannot use stays as it is, for a release to refuse,   *)
(* until the host is reset ("Keep corrupt state intact").                   *)
RefusedStays ==
  [][\/ HostReset
     \/ /\ baselineFile.kind \in {"corrupt", "unscoped"} => UNCHANGED baselineFile
        /\ \A d \in Dev : baselineFile.entry[d] = "invalid" => baselineFile'.entry[d] = "invalid"]_storeVars

(* Only an emergency, a reset of the host or the heartbeat of the injecting  *)
(* daemon over an old version's state.json leave a driven channel without    *)
(* its duty on record: a command or daemon that cannot persist it does not   *)
(* drive (capture_manual_baseline before the first set_fall).                *)
OnlyEmergencyUnrecorded ==
  [][lost' \subseteq lost
     \/ HostReset \/ InjectHeartbeat
     \/ \E p \in Proc : pc[p] = "drive" /\ job[p] = "emergency" /\ registers' # registers]_storeVars

(* The file is a record that kills, failed writes and refusals never tear or *)
(* change, only captures extend and only releases of a whole device shorten. *)
Journal == INSTANCE Ownership WITH kept <- baselineFile.kept
ImplementsOwnership == Journal!Spec
==============================================================================
