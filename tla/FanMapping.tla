------------------------------ MODULE FanMapping ------------------------------
(***************************************************************************)
(* Which fans belong to which PWM channel: `p2afan map` probes the         *)
(* channels one by one and writes mapping.toml (p2afan/cli.py); the daemon *)
(* reads it and watches the fans of the channels it drives (load_mapping,  *)
(* writable_channels and _watched_fans of p2afan/control.py).              *)
(*                                                                         *)
(* A fan turns as fast as the fastest channel that moves it; after the     *)
(* settling time its reading shows that, or nothing when the BMC does not  *)
(* answer.  The BMC may write any duty and disable channels meanwhile.     *)
(***************************************************************************)
EXTENDS Naturals, FiniteSetsExt

CONSTANTS
  Chan, Fan,
  Moves,           \* the fans each channel moves
  Requested,       \* the channels asked for
  IdleDuty,        \* duties of the BMC; 0 is parked
  ProbeDuty,
  Mode,            \* modes of the daemon
  Silent           \* no reading

ASSUME MappingAssumption ==
  /\ Chan \subseteq Nat /\ Fan # {} /\ Moves \in [Chan -> SUBSET Fan] /\ Requested \subseteq Chan
  /\ IdleDuty \subseteq Nat /\ ProbeDuty \in Nat /\ Silent \notin Nat
  /\ Mode \subseteq {"pwm", "inject"}

VARIABLES
  duty, enabled,   \* the registers
  pc,              \* where the map command is
  todo,            \* channels left in its loop
  asked,           \* the channels it probes
  baseFall, baseRpm,  \* duties and readings on entry
  result,          \* fans attributed to each channel
  complete,        \* the probing loop came to its end
  file,            \* mapping.toml
  run, channels, watched,  \* the daemon's mode, Controller.channels and .fans
  \* History:
  touched,         \* channels the BMC wrote or toggled during the command
  sound,           \* nothing disturbed the command
  fileSound, fileAsked, \* the same of the command that wrote the file
  readSound, readAsked  \* and of the file the daemon has read

probing  == <<todo, asked, baseFall, baseRpm, result, complete>>
daemon   == <<run, channels, watched, readSound, readAsked>>
mhistory == <<touched, sound, fileSound, fileAsked>>
mapVars  == <<duty, enabled, pc, probing, file, daemon, mhistory>>

NoFans == [c \in Chan |-> {}]

(* mapping.toml is missing, cut off by a kill, or names fans per channel. *)
File(kind, fans) == [kind |-> kind, fans |-> fans]

Clear ==
  /\ todo' = {} /\ asked' = {} /\ result' = NoFans /\ complete' = FALSE
  /\ baseFall' = [c \in Chan |-> 0] /\ baseRpm' = [f \in Fan |-> Silent]

MapInit ==
  /\ duty \in [Chan -> IdleDuty] /\ enabled = Chan
  /\ pc = "idle"
  /\ todo = {} /\ asked = {} /\ result = NoFans /\ complete = FALSE
  /\ baseFall = [c \in Chan |-> 0] /\ baseRpm = [f \in Fan |-> Silent]
  /\ file = File("missing", NoFans)
  /\ run = "stopped" /\ channels = {} /\ watched = {}
  /\ touched = {} /\ sound = FALSE /\ fileSound = FALSE /\ fileAsked = {}
  /\ readSound = FALSE /\ readAsked = {}

-----------------------------------------------------------------------------
(* ipmi.read_all_fans, with the sensors in mute not answering. *)
Speed(f) == Max({0} \cup {duty[c] : c \in {d \in Chan : f \in Moves[d]}})

Rpms(mute) == [f \in Fan |-> IF f \in mute THEN Silent ELSE Speed(f)]

First == Min(todo)

SetFall(c, v) == c \in enabled /\ duty' = [duty EXCEPT ![c] = v] /\ UNCHANGED enabled

Registers == UNCHANGED <<duty, enabled>>

(* cmd_map reads the duties and the fans, under the lock that a daemon in *)
(* PWM mode holds as long as it runs.                                     *)
Begin(mute) ==
  /\ pc = "idle" /\ run # "pwm"
  /\ asked' = Requested \cap enabled /\ todo' = asked'
  /\ baseFall' = duty /\ baseRpm' = Rpms(mute)
  /\ result' = NoFans /\ complete' = FALSE
  /\ pc' = "probe"
  /\ touched' = {} /\ sound' = (mute = {} /\ \A c \in Chan : duty[c] < ProbeDuty)
  /\ Registers /\ UNCHANGED <<file, daemon, fileSound, fileAsked>>

Probe ==
  /\ pc = "probe" /\ todo # {} /\ SetFall(First, ProbeDuty)
  /\ pc' = "measure"
  /\ UNCHANGED <<probing, file, daemon, mhistory>>

(* The fans are read, the duty is put back, the fans that sped up are hits. *)
Hits(rpms) ==
  {f \in Fan : rpms[f] # Silent /\ baseRpm[f] # Silent /\ rpms[f] > baseRpm[f]}

BuggyMeasure(mute) ==
  /\ pc = "measure" /\ SetFall(First, baseFall[First])
  /\ result' = [result EXCEPT ![First] = Hits(Rpms(mute)) \ UNION {result[c] : c \in Chan}]
  /\ todo' = todo \ {First} /\ pc' = "probe"
  /\ sound' = (sound /\ mute = {})
  /\ UNCHANGED <<asked, baseFall, baseRpm, complete, file, daemon, touched, fileSound, fileAsked>>

Measure(mute) ==
  /\ pc = "measure" /\ SetFall(First, baseFall[First])
  /\ result' = [result EXCEPT ![First] = Hits(Rpms(mute))]
  /\ todo' = todo \ {First} /\ pc' = "probe"
  /\ sound' = (sound /\ mute = {})
  /\ UNCHANGED <<asked, baseFall, baseRpm, complete, file, daemon, touched, fileSound, fileAsked>>

(* The loop ends, or a disabled channel or the keyboard interrupts it. *)
BuggyFinally ==
  /\ pc \in {"probe", "measure"}
  /\ complete' = (pc = "probe" /\ todo = {})
  /\ todo' = asked \ todo /\ pc' = "finally"
  /\ Registers /\ UNCHANGED <<asked, baseFall, baseRpm, result, file, daemon, mhistory>>

Finally ==
  /\ pc \in {"probe", "measure"}
  /\ complete' = (pc = "probe" /\ todo = {})
  /\ todo' = Chan /\ pc' = "finally"
  /\ Registers /\ UNCHANGED <<asked, baseFall, baseRpm, result, file, daemon, mhistory>>

PutBack ==
  /\ pc = "finally" /\ todo # {}
  /\ IF First \in enabled THEN SetFall(First, baseFall[First]) ELSE Registers
  /\ todo' = todo \ {First}
  /\ UNCHANGED <<pc, asked, baseFall, baseRpm, result, complete, file, daemon, mhistory>>

PutBackEnds ==
  /\ pc = "finally" /\ todo = {}
  /\ pc' = "done"
  /\ Registers /\ UNCHANGED <<probing, file, daemon, mhistory>>

(* Without the lock the file is opened, which empties it, and written. *)
Truncate ==
  /\ pc = "done" /\ complete
  /\ file' = File("torn", NoFans) /\ pc' = "write"
  /\ fileSound' = FALSE /\ fileAsked' = {}
  /\ Registers /\ UNCHANGED <<probing, daemon, touched, sound>>

WriteMapping ==
  /\ pc = "write"
  /\ file' = File("mapping", result)
  /\ fileSound' = (sound /\ touched = {}) /\ fileAsked' = IF fileSound' THEN asked ELSE {}
  /\ pc' = "idle" /\ Clear /\ touched' = {} /\ sound' = FALSE
  /\ Registers /\ UNCHANGED daemon

(* Nothing is written after an interrupt; the command may be killed at any *)
(* step.                                                                    *)
Quit ==
  /\ pc # "idle"
  /\ pc' = "idle" /\ Clear /\ touched' = {} /\ sound' = FALSE
  /\ Registers /\ UNCHANGED <<file, daemon, fileSound, fileAsked>>

-----------------------------------------------------------------------------
(* writable_channels without write_channels. *)
Writable ==
  enabled \cap ({c \in Chan : file.fans[c] # {}} \cup {c \in Chan : duty[c] > 0})

(* _watched_fans *)
WatchedFans(mode) ==
  LET named(cs) == UNION {file.fans[c] : c \in cs}
  IN  IF mode = "pwm" THEN named(Writable)
      ELSE IF named(Chan) = {} THEN Fan ELSE named(Chan)

(* load_mapping: no file is an empty mapping, one without a [channels] table *)
(* is refused.                                                               *)
Loadable == file.kind \in {"missing", "mapping"}

(* A daemon that gets no lock or finds no channel does not start. *)
Start(mode) ==
  /\ run = "stopped" /\ Loadable
  /\ mode = "pwm" => pc \in {"idle", "done", "write"} /\ Writable # {}
  /\ run' = mode /\ watched' = WatchedFans(mode)
  /\ channels' = IF mode = "pwm" THEN Writable ELSE {}
  /\ readSound' = (mode = "pwm" /\ fileSound)
  /\ readAsked' = IF mode = "pwm" THEN fileAsked ELSE {}
  /\ Registers /\ UNCHANGED <<pc, probing, file, mhistory>>

Stop ==
  /\ run # "stopped"
  /\ run' = "stopped" /\ watched' = {} /\ channels' = {}
  /\ readSound' = FALSE /\ readAsked' = {}
  /\ Registers /\ UNCHANGED <<pc, probing, file, mhistory>>

-----------------------------------------------------------------------------
Touch(c) ==
  /\ touched' = IF pc = "idle" THEN {} ELSE touched \cup {c}
  /\ UNCHANGED <<pc, probing, file, daemon, sound, fileSound, fileAsked>>

BmcWrite(c, v) ==
  /\ duty' = [duty EXCEPT ![c] = v] /\ UNCHANGED enabled
  /\ Touch(c)

BmcToggle(c) ==
  /\ enabled' = IF c \in enabled THEN enabled \ {c} ELSE enabled \cup {c}
  /\ UNCHANGED duty /\ Touch(c)

MapNext ==
  \/ \E mute \in SUBSET Fan : Begin(mute) \/ Measure(mute)
  \/ Probe \/ Finally \/ PutBack \/ PutBackEnds \/ Truncate \/ WriteMapping \/ Quit
  \/ (\E mode \in Mode : Start(mode)) \/ Stop
  \/ \E c \in Chan : BmcToggle(c) \/ \E v \in IdleDuty : BmcWrite(c, v)

MapSpec == MapInit /\ [][MapNext]_mapVars

-----------------------------------------------------------------------------
(* However the probing ends -- at its end, at a channel that was disabled,   *)
(* by the keyboard, with one duty raised -- every enabled channel that the   *)
(* BMC left alone has the duty it had before (the finally clause).           *)
MapRestores ==
  pc = "done" => \A c \in enabled \ touched : duty[c] = baseFall[c]

(* A daemon that has read an undisturbed mapping watches exactly the fans    *)
(* that the probed channels among those it drives move, also where two       *)
(* channels move one fan and one of them is disabled by now: no stall goes   *)
(* unseen, and none is laid to a channel it does not drive; when the BMC is  *)
(* the actuator it watches something whatever the mapping says.              *)
WatchesItsFans ==
  /\ run = "pwm" /\ readSound =>
       watched = UNION {Moves[c] : c \in channels \cap readAsked}
  /\ run = "inject" => watched # {}
==============================================================================
