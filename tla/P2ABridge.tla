------------------------------ MODULE P2ABridge ------------------------------
(***************************************************************************)
(* The P2A bridge (p2afan/ahb.py): one window register that every access   *)
(* to the BMC's bus goes through, a lock file that keeps processes from    *)
(* re-pointing it under each other, and a copy of the register in each     *)
(* process that saves a write when the window is already right.            *)
(*                                                                         *)
(* Writes over PCI are posted: the register takes them later, at the       *)
(* latest before the next read.  The BMC may lock the bridge; the register *)
(* then ignores writes.                                                    *)
(***************************************************************************)
CONSTANTS
  Proc,            \* processes that use the bridge
  Base,            \* 64 KiB windows
  PwmBase,         \* the window of the PWM block
  Nobody, None

ASSUME BridgeAssumption == PwmBase \in Base /\ None \notin Base /\ Nobody \notin Proc

VARIABLES
  lock,            \* p2a.lock
  window,          \* the register at BAR1+0xf004
  posted,          \* a write to it that has not arrived
  locked,          \* the BMC has locked the bridge
  pc,
  cache, orig,     \* per process: _window and _orig_window
  target,          \* per process: the window of the access it makes
  \* History:
  home,            \* the window when no session was open
  spoiled          \* a session was killed, or the bridge locked, since

bridge    == <<window, posted, locked>>
sessions  == <<pc, cache, orig, target>>
bhistory  == <<home, spoiled>>
bvars     == <<lock, bridge, sessions, bhistory>>

BInit ==
  /\ lock = Nobody
  /\ window \in Base /\ posted = None /\ locked \in BOOLEAN
  /\ pc = [p \in Proc |-> "idle"]
  /\ cache = [p \in Proc |-> None] /\ orig = [p \in Proc |-> None]
  /\ target = [p \in Proc |-> None]
  /\ home = window /\ spoiled = locked

-----------------------------------------------------------------------------
Goto(p, where) == pc' = [pc EXCEPT ![p] = where]

(* The register once the posted write has arrived. *)
Settled == IF posted = None \/ locked THEN window ELSE posted

(* read_cfg: what is posted arrives first. *)
ReadWindow == window' = Settled /\ posted' = None /\ UNCHANGED locked

(* write_cfg. *)
PostWindow(b) == window' = Settled /\ posted' = b /\ UNCHANGED locked

Forget(p) ==
  /\ cache'  = [cache EXCEPT ![p] = None]
  /\ orig'   = [orig EXCEPT ![p] = None]
  /\ target' = [target EXCEPT ![p] = None]

-----------------------------------------------------------------------------
(* Ahb.__init__: the lock, waited for as long as the caller says, then the *)
(* file and the mapping, then the window as it is.                         *)
Wait(p) ==
  /\ pc[p] = "idle" /\ Goto(p, "wait")
  /\ UNCHANGED <<lock, bridge, cache, orig, target, bhistory>>

Acquire(p) ==
  /\ pc[p] = "wait" /\ lock = Nobody
  /\ lock' = p /\ Goto(p, "locked")
  /\ UNCHANGED <<bridge, cache, orig, target, bhistory>>

LockTimeout(p) ==
  /\ pc[p] = "wait" /\ lock # Nobody
  /\ Goto(p, "idle")
  /\ UNCHANGED <<lock, bridge, cache, orig, target, bhistory>>

OpenFails(p) ==
  /\ pc[p] = "locked"
  /\ Goto(p, "idle") /\ lock' = Nobody
  /\ UNCHANGED <<bridge, cache, orig, target, bhistory>>

Open(p) ==
  /\ pc[p] = "locked"
  /\ cache' = [cache EXCEPT ![p] = Settled]
  /\ orig' = [orig EXCEPT ![p] = Settled]
  /\ ReadWindow
  /\ Goto(p, "use")
  /\ UNCHANGED <<lock, target, bhistory>>

-----------------------------------------------------------------------------
(* _select: nothing to do, or a write and a read back. *)
SelectSame(p, b) ==
  /\ pc[p] = "use" /\ cache[p] = b
  /\ target' = [target EXCEPT ![p] = b] /\ Goto(p, "access")
  /\ UNCHANGED <<lock, bridge, cache, orig, bhistory>>

BuggySelectOther(p, b) ==
  /\ pc[p] = "use" /\ cache[p] # b
  /\ target' = [target EXCEPT ![p] = b] /\ cache' = [cache EXCEPT ![p] = b]
  /\ PostWindow(b)
  /\ Goto(p, "access")
  /\ UNCHANGED <<lock, orig, bhistory>>

SelectOther(p, b) ==
  /\ pc[p] = "use" /\ cache[p] # b
  /\ target' = [target EXCEPT ![p] = b]
  /\ PostWindow(b)
  /\ Goto(p, "readback")
  /\ UNCHANGED <<lock, cache, orig, bhistory>>

(* The window did not stick: BridgeUnavailable, and the session closes. *)
ReadBack(p) ==
  /\ pc[p] = "readback"
  /\ ReadWindow
  /\ cache' = [cache EXCEPT ![p] = Settled]
  /\ Goto(p, IF Settled = target[p] THEN "access" ELSE "close")
  /\ UNCHANGED <<lock, orig, target, bhistory>>

(* read32, write32 or one chunk of read_block through the window. *)
Access(p) ==
  /\ pc[p] = "access" /\ Goto(p, "use")
  /\ target' = [target EXCEPT ![p] = None]
  /\ UNCHANGED <<lock, bridge, cache, orig, bhistory>>

(* Done, or an exception. *)
Leave(p) ==
  /\ pc[p] = "use" /\ Goto(p, "close")
  /\ UNCHANGED <<lock, bridge, cache, orig, target, bhistory>>

(* close: the old window, not read back, and the lock. *)
BuggyClose(p) ==
  /\ pc[p] = "close" /\ Goto(p, "unlock")
  /\ UNCHANGED <<lock, bridge, cache, orig, target, bhistory>>

Close(p) ==
  /\ pc[p] = "close" /\ Goto(p, "unlock")
  /\ IF cache[p] # orig[p] THEN PostWindow(orig[p]) ELSE UNCHANGED bridge
  /\ cache' = [cache EXCEPT ![p] = orig[p]]
  /\ UNCHANGED <<lock, orig, target, bhistory>>

Unlock(p) ==
  /\ pc[p] = "unlock" /\ Goto(p, "idle") /\ lock' = Nobody
  /\ Forget(p)
  /\ UNCHANGED <<bridge, bhistory>>

(* The kernel drops the lock of a process that dies. *)
Kill(p) ==
  /\ pc[p] # "idle" /\ Goto(p, "idle")
  /\ lock' = IF lock = p THEN Nobody ELSE lock
  /\ Forget(p)
  /\ spoiled' = (spoiled \/ lock = p)
  /\ UNCHANGED <<bridge, home>>

-----------------------------------------------------------------------------
Arrive ==
  /\ posted # None
  /\ window' = Settled /\ posted' = None
  /\ UNCHANGED <<locked, lock, sessions, bhistory>>

BmcLocksBridge ==
  /\ locked' = ~locked /\ spoiled' = TRUE
  /\ UNCHANGED <<window, posted, lock, sessions, home>>

Use(p) ==
  \/ Open(p) \/ OpenFails(p)
  \/ \E b \in Base : SelectSame(p, b) \/ SelectOther(p, b)
  \/ ReadBack(p) \/ Access(p) \/ Leave(p) \/ Close(p) \/ Unlock(p)

BNext ==
  \/ \E p \in Proc : Wait(p) \/ Acquire(p) \/ LockTimeout(p) \/ Use(p) \/ Kill(p)
  \/ Arrive \/ BmcLocksBridge

BSpec == BInit /\ [][BNext]_bvars

-----------------------------------------------------------------------------
BTypeOK ==
  /\ lock \in Proc \cup {Nobody}
  /\ window \in Base /\ posted \in Base \cup {None} /\ locked \in BOOLEAN
  /\ pc \in [Proc -> {"idle", "wait", "locked", "use", "readback", "access", "close", "unlock"}]
  /\ cache \in [Proc -> Base \cup {None}] /\ orig \in [Proc -> Base \cup {None}]
  /\ target \in [Proc -> Base \cup {None}]
  /\ home \in Base /\ spoiled \in BOOLEAN

(* An access goes through the window it was meant for, whatever other        *)
(* processes, killed sessions and posted writes left in the register, and    *)
(* although the register is not read again when the copy says it is right    *)
(* ("two concurrent users would read or write each other's addresses").      *)
AccessLands ==
  \A p \in Proc : pc[p] = "access" => posted = None /\ window = target[p] /\ lock = p

(* Sessions that were not killed leave the window as they found it: the      *)
(* restoring write of close, not read back, is not lost to the next session. *)
WindowRestored == lock = Nobody /\ ~spoiled => Settled = home
==============================================================================
