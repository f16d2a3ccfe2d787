------------------------------- MODULE Service -------------------------------
(***************************************************************************)
(* The unit in time (systemd/p2afan.service, Controller.run and tick,      *)
(* force_failsafe): a daemon that opens the bridge, reads its sources one  *)
(* after the other with a timeout each, drives the channels, tells the     *)
(* watchdog and sleeps; systemd, which kills it when it is silent; and     *)
(* stop-post, which opens the bridge again.  Commands compete for the lock *)
(* and hold it for as long as they like.  Register accesses take no time.  *)
(***************************************************************************)
EXTENDS P2ABridge, Integers

CONSTANTS
  unit,            \* the process of daemon and stop-post
  Reads,           \* sources and fans read in a tick
  ReadTimeout, TickSeconds,
  WatchdogSec, RestartSec, StartLimit,   \* StartLimit: TimeoutStartSec
  LockWait, CliWait,                     \* DAEMON_LOCK_WAIT, --lock-wait
  InjectTime                             \* injecting every sensor at its timeout

ASSUME ServiceAssumption ==
  /\ unit \in Proc /\ Reads \in Nat \ {0}
  /\ {ReadTimeout, TickSeconds, WatchdogSec, RestartSec, StartLimit,
      LockWait, CliWait, InjectTime} \subseteq Nat \ {0}

VARIABLES
  phase,           \* what the unit does
  ready,           \* READY=1 was sent: the watchdog is armed
  left,            \* reads left in this tick
  spent,           \* time in the present read, wait, injection or rest
  elapsed,         \* time since the tick began
  silent,          \* time since WATCHDOG=1, or since the start
  waited,          \* per process: time waiting for the lock
  \* History:
  exposed,         \* time since the unit last told the fans or the sensors
  hung,            \* the daemon stopped making progress
  abandoned        \* an emergency was killed, or reached no sensor

clocks == <<left, spent, elapsed, silent, waited>>
svars  == <<bvars, phase, ready, clocks, exposed, hung, abandoned>>

SInit ==
  /\ BInit
  /\ phase = "rest" /\ ready = FALSE
  /\ left = 0 /\ spent = 0 /\ elapsed = 0 /\ silent = 0
  /\ waited = [p \in Proc |-> 0]
  /\ exposed = 0 /\ hung = FALSE /\ abandoned = FALSE

-----------------------------------------------------------------------------
Phase(where) == phase' = where /\ spent' = 0

Timeless == UNCHANGED <<elapsed, silent, waited, ready, left, exposed, hung, abandoned>>

(* RestartSec is over: the daemon asks for the lock. *)
Start ==
  /\ phase = "rest" /\ spent = RestartSec
  /\ Wait(unit) /\ Phase("start")
  /\ silent' = 0 /\ waited' = [waited EXCEPT ![unit] = 0]
  /\ UNCHANGED <<elapsed, ready, left, exposed, hung, abandoned>>

(* Opening the bridge, in the daemon and in stop-post. *)
Opening ==
  /\ phase \in {"start", "post"}
  /\ \/ Acquire(unit) \/ Open(unit)
     \/ SelectSame(unit, PwmBase) \/ SelectOther(unit, PwmBase)
     \/ pc[unit] = "readback" /\ ReadBack(unit)
  /\ UNCHANGED <<phase, spent>> /\ Timeless

Daemon  == phase \in {"start", "read", "act", "sleep"}
Running == Daemon /\ ~hung

(* A session that cannot be opened, or an exception in the tick: the daemon *)
(* closes the bridge and ends; or it is killed, hung or not.                *)
Raises ==
  /\ Running /\ (Leave(unit) \/ (pc[unit] = "close" /\ UNCHANGED bvars))
  /\ Phase("ending") /\ Timeless

Ends ==
  /\ \/ Running /\ pc[unit] = "wait" /\ waited[unit] = LockWait /\ LockTimeout(unit) /\ Phase("dead")
     \/ Running /\ OpenFails(unit) /\ Phase("dead")
     \/ phase = "ending" /\ Close(unit) /\ UNCHANGED <<phase, spent>>
     \/ phase = "ending" /\ Unlock(unit) /\ Phase("dead")
  /\ Timeless

Killed ==
  /\ Daemon \/ phase = "ending"
  /\ Kill(unit)
  /\ Phase("dead") /\ Timeless

(* ensure_bridge has read the PWM block: the first tick. *)
Opened ==
  /\ phase = "start" /\ Access(unit)
  /\ Phase("read") /\ left' = Reads /\ elapsed' = 0
  /\ UNCHANGED <<silent, waited, ready, exposed, hung, abandoned>>

(* A read answers, or comes to its timeout. *)
ReadOne ==
  /\ phase = "read" /\ Running
  /\ left' = left - 1
  /\ IF left = 1 THEN Phase("act") ELSE Phase("read")
  /\ UNCHANGED <<bvars, elapsed, silent, waited, ready, exposed, hung, abandoned>>

BeginWrite ==
  /\ phase = "act" /\ Running
  /\ SelectSame(unit, PwmBase) \/ SelectOther(unit, PwmBase) \/ ReadBack(unit)
  /\ UNCHANGED <<phase, spent>> /\ Timeless

(* The duty is written, the heartbeat is; READY=1 and WATCHDOG=1. *)
BuggyAct ==
  /\ phase = "act" /\ Running /\ Access(unit)
  /\ Phase("sleep") /\ exposed' = 0
  /\ ready' = TRUE /\ silent' = IF ready THEN silent ELSE 0
  /\ abandoned' = FALSE
  /\ UNCHANGED <<left, elapsed, waited, hung>>

Act ==
  /\ phase = "act" /\ Running /\ Access(unit)
  /\ Phase("sleep") /\ exposed' = 0
  /\ ready' = TRUE /\ silent' = 0
  /\ abandoned' = FALSE
  /\ UNCHANGED <<left, elapsed, waited, hung>>

(* What is left of tick_seconds is slept; a late tick follows at once. *)
NextTick ==
  /\ phase = "sleep" /\ Running /\ elapsed >= TickSeconds
  /\ Phase("read") /\ left' = Reads /\ elapsed' = 0
  /\ UNCHANGED <<bvars, silent, waited, ready, exposed, hung, abandoned>>

(* A read with no timeout (hwmon, pci) or the machine does not answer. *)
Hang ==
  /\ Running /\ pc[unit] # "wait" /\ hung' = TRUE
  /\ UNCHANGED <<bvars, phase, clocks, ready, exposed, abandoned>>

-----------------------------------------------------------------------------
(* systemd. *)
Limit == IF ready THEN WatchdogSec ELSE StartLimit

WatchdogKills ==
  /\ Daemon /\ silent = Limit
  /\ Kill(unit) /\ Phase("dead") /\ Timeless

StartPost ==
  /\ phase = "dead" /\ Wait(unit) /\ Phase("post")
  /\ ready' = FALSE /\ hung' = FALSE
  /\ silent' = 0 /\ elapsed' = 0 /\ left' = 0
  /\ waited' = [waited EXCEPT ![unit] = 0]
  /\ UNCHANGED <<exposed, abandoned>>

(* force_failsafe drives the channels and closes, *)
PostDrives ==
  /\ phase = "post" /\ Access(unit)
  /\ Phase("closing") /\ exposed' = 0 /\ abandoned' = FALSE
  /\ UNCHANGED <<elapsed, silent, waited, ready, left, hung>>

PostCloses ==
  /\ phase = "closing"
  /\ \/ (Leave(unit) \/ Close(unit)) /\ UNCHANGED <<phase, spent>>
     \/ Unlock(unit) /\ Phase("rest")
  /\ Timeless

(* or cannot open the bridge, or loses it, and injects. *)
BuggyPostFallsBack ==
  /\ phase = "post"
  /\ \/ pc[unit] = "wait" /\ waited[unit] = LockWait /\ LockTimeout(unit) /\ Phase("rest")
     \/ OpenFails(unit) /\ Phase("rest")
     \/ (Leave(unit) \/ Close(unit)) /\ UNCHANGED <<phase, spent>>
     \/ Unlock(unit) /\ Phase("rest")
  /\ Timeless

PostFallsBack ==
  /\ phase = "post"
  /\ \/ pc[unit] = "wait" /\ waited[unit] = LockWait /\ LockTimeout(unit) /\ Phase("inject")
     \/ OpenFails(unit) /\ Phase("inject")
     \/ (Leave(unit) \/ Close(unit)) /\ UNCHANGED <<phase, spent>>
     \/ Unlock(unit) /\ Phase("inject")
  /\ Timeless

PostInjects ==
  /\ phase = "inject" /\ Phase("rest")
  /\ \/ exposed' = 0 /\ abandoned' = FALSE
     \/ abandoned' = TRUE /\ UNCHANGED exposed
  /\ UNCHANGED <<bvars, elapsed, silent, waited, ready, left, hung>>

PostKilled ==
  /\ phase \in {"post", "closing"} /\ Kill(unit)
  /\ Phase("rest") /\ abandoned' = TRUE
  /\ UNCHANGED <<elapsed, silent, waited, ready, left, exposed, hung>>

-----------------------------------------------------------------------------
Commands(p) ==
  /\ p # unit
  /\ \/ Wait(p) /\ waited' = [waited EXCEPT ![p] = 0]
     \/ /\ \/ Acquire(p) \/ (waited[p] = CliWait /\ LockTimeout(p)) \/ Use(p) \/ Kill(p)
        /\ UNCHANGED waited
  /\ UNCHANGED <<phase, spent, elapsed, silent, ready, left, exposed, hung, abandoned>>

Bus ==
  /\ Arrive \/ BmcLocksBridge
  /\ UNCHANGED <<phase, spent, clocks, ready, exposed, hung, abandoned>>

(* Time goes on for everybody, but not past an instant at which somebody  *)
(* has something to do; what is hung does nothing until it is killed.     *)
Waiting(p) == pc[p] = "wait"

Unhurried ==
  /\ \A p \in Proc : Waiting(p) =>
       lock # Nobody /\ waited[p] < IF p = unit THEN LockWait ELSE CliWait
  /\ \/ Daemon /\ hung
     \/ phase \in {"start", "post"} /\ Waiting(unit)
     \/ phase = "read" /\ spent < ReadTimeout
     \/ phase = "sleep" /\ elapsed < TickSeconds
     \/ phase = "inject" /\ spent < InjectTime
     \/ phase = "rest" /\ spent < RestartSec
  /\ Daemon => silent < Limit

Elapse ==
  /\ Unhurried
  /\ spent' = IF hung \/ phase \notin {"read", "inject", "rest"} THEN spent ELSE spent + 1
  /\ elapsed' = IF phase \in {"read", "act", "sleep"} /\ ~hung THEN elapsed + 1 ELSE elapsed
  /\ silent' = IF Daemon THEN silent + 1 ELSE silent
  /\ waited' = [p \in Proc |-> IF Waiting(p) THEN waited[p] + 1 ELSE waited[p]]
  /\ exposed' = IF abandoned THEN exposed ELSE exposed + 1
  /\ UNCHANGED <<bvars, phase, ready, left, hung, abandoned>>

SNext ==
  \/ Start \/ Opening \/ Opened \/ Raises \/ Ends \/ Killed \/ ReadOne \/ BeginWrite \/ Act \/ NextTick \/ Hang
  \/ WatchdogKills \/ StartPost \/ PostDrives \/ PostCloses \/ PostFallsBack
  \/ PostInjects \/ PostKilled
  \/ \E p \in Proc : Commands(p)
  \/ Bus \/ Elapse

SSpec == SInit /\ [][SNext]_svars

-----------------------------------------------------------------------------
STypeOK ==
  /\ BTypeOK
  /\ phase \in {"rest", "start", "read", "act", "sleep", "ending", "dead", "post", "closing", "inject"}
  /\ ready \in BOOLEAN /\ hung \in BOOLEAN /\ abandoned \in BOOLEAN
  /\ left \in 0..Reads /\ spent \in Nat /\ elapsed \in Nat /\ exposed \in Nat
  /\ silent \in 0..(WatchdogSec + StartLimit)
  /\ waited \in [Proc -> Nat]

(* With sources and fans that come to their timeouts within what the watchdog *)
(* leaves beside tick_seconds, only a daemon that hangs is killed by it: the  *)
(* one WATCHDOG=1 per tick is enough whatever sleeps and reads add up to.     *)
NoFalseKill ==
  Reads * ReadTimeout + TickSeconds < WatchdogSec =>
    (ready /\ Daemon /\ silent = WatchdogSec => hung)

(* Whatever hangs, dies or holds the lock, the fans or the sensors hear of    *)
(* the unit again within the watchdog's time (or a restart and the start-up   *)
(* limit), one wait for the lock and one round of injections -- unless the    *)
(* emergency itself is killed or reaches no sensor.                           *)
ExposureBound ==
  (IF WatchdogSec > RestartSec + StartLimit THEN WatchdogSec ELSE RestartSec + StartLimit)
    + LockWait + InjectTime

CoolsInTime == ~abandoned => exposed <= ExposureBound
==============================================================================
