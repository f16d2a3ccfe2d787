------------------------------ MODULE SourceRead ------------------------------
(***************************************************************************)
(* The temperature sources of p2afan/sources.py and the sensors of         *)
(* p2afan/ipmi.py: what one reading of each kind makes of what the kernel, *)
(* the BMC or a command answers.  A PCI device has several hwmon inputs,   *)
(* which are listed and then read one by one while they change, fail and   *)
(* disappear; the other kinds read once.                                   *)
(*                                                                         *)
(* Degrees are whole; what Config leaves to the sources is taken as valid. *)
(***************************************************************************)
EXTENDS Integers, Sequences

CONSTANTS
  Node,            \* the hwmon inputs of a PCI device
  Labelled,        \* those with the label asked for, or all
  HwmonPath,       \* the one that a source of kind hwmon reads
  Degree,          \* what an input may show
  Count,           \* what a sensor of the BMC may count
  Unreadable, Absent,  \* an input that cannot be read, or is not there
  NoValue          \* Python's None

ASSUME SourceAssumption ==
  /\ Labelled \subseteq Node /\ HwmonPath \in Node
  /\ Degree \subseteq Int /\ Count \subseteq 0 .. 255
  /\ {NoValue, Unreadable, Absent} \cap Int = {} /\ Unreadable # Absent

VARIABLES
  node,            \* per input: its degrees, Unreadable or Absent
  bmc,             \* the sensor of the BMC: there or not, and its count
  reader,          \* "idle", "scan" or the kind of the reading just returned
  paths, best,     \* PciHwmon.read: inputs to read, the hottest so far
  got,             \* what the reading returned
  \* History:
  steady,          \* inputs that kept one readable value since the listing
  shown            \* what labelled inputs have shown since the listing

sourceVars == <<node, bmc, reader, paths, best, got, steady, shown>>

-----------------------------------------------------------------------------
NodeState == Degree \cup {Unreadable, Absent}

IsDegree(s) == s \notin {Unreadable, Absent}

Real(cs) == {node[i] : i \in {j \in cs : IsDegree(node[j])}}

SourceInit ==
  /\ node \in [Node -> NodeState] /\ bmc \in [there : BOOLEAN, count : Count]
  /\ reader = "idle" /\ paths = {} /\ best = NoValue /\ got = NoValue
  /\ steady = {} /\ shown = {}

Idle == reader # "scan"

(* A reading that ends in one step. *)
Returns(kind, v) ==
  /\ reader' = kind /\ got' = v /\ paths' = {} /\ best' = NoValue
  /\ UNCHANGED <<node, bmc>>

-----------------------------------------------------------------------------
(* Get Sensor Reading: the bytes of the answer.  A sensor that is not there *)
(* answers 00 e0 00 80; an answer may be cut short.                         *)
Answer(length) ==
  SubSeq(IF bmc.there THEN <<bmc.count, 192, 192, 0>> ELSE <<0, 224, 0, 128>>, 1, length)

(* READING_UNAVAILABLE, bit 5 of the first status byte. *)
Unavailable(status1) == (status1 \div 32) % 2 = 1

(* read_raw: ipmitool failed or timed out, or answered. *)
BuggyReadRaw(failed, data) ==
  IF failed \/ data = <<>> THEN NoValue ELSE data[1]

ReadRaw(failed, data) ==
  IF failed \/ Len(data) < 2 THEN NoValue
  ELSE IF Unavailable(data[2]) THEN NoValue ELSE data[1]

ReadTemp ==
  /\ Idle
  /\ \E failed \in BOOLEAN, n \in 0 .. 4 : Returns("ipmi", ReadRaw(failed, Answer(n)))
  /\ steady' = {} /\ shown' = IF bmc.there THEN {bmc.count} ELSE {}

(* read_fan_rpm *)
RpmPerCount == 90

ReadFanRpm ==
  /\ Idle
  /\ \E failed \in BOOLEAN, n \in 0 .. 4 :
       LET raw == ReadRaw(failed, Answer(n))
       IN  Returns("fan", IF raw = NoValue THEN NoValue ELSE RpmPerCount * raw)
  /\ steady' = {} /\ shown' = IF bmc.there THEN {RpmPerCount * bmc.count} ELSE {}

-----------------------------------------------------------------------------
(* Hwmon.read *)
ReadHwmon ==
  /\ Idle
  /\ Returns("hwmon", IF IsDegree(node[HwmonPath]) THEN node[HwmonPath] ELSE NoValue)
  /\ steady' = {} /\ shown' = Real({HwmonPath})

(* Exec.read: the exit status, and the first number on stdout, if any.  What *)
(* the command prints before it fails is no reading.                         *)
ReadExec ==
  /\ Idle
  /\ \E succeeded \in BOOLEAN, number \in Degree \cup {NoValue} :
       /\ Returns("exec", IF succeeded THEN number ELSE NoValue)
       /\ shown' = IF succeeded /\ number # NoValue THEN {number} ELSE {}
  /\ steady' = {}

-----------------------------------------------------------------------------
(* PciHwmon._inputs: the inputs that exist, by label. *)
List ==
  /\ Idle
  /\ reader' = "scan"
  /\ paths' = {i \in Labelled : node[i] # Absent} /\ best' = NoValue
  /\ steady' = {i \in Labelled : IsDegree(node[i])} /\ shown' = Real(Labelled)
  /\ got' = NoValue
  /\ UNCHANGED <<node, bmc>>

(* PciHwmon.read: one that cannot be read is left out.  The order is that of *)
(* their paths, which says nothing about the inputs.                         *)
BuggyHotter(v) == IF IsDegree(v) THEN v ELSE best

Hotter(v) == IF IsDegree(v) /\ (best = NoValue \/ v > best) THEN v ELSE best

ReadNode(i) ==
  /\ reader = "scan" /\ i \in paths
  /\ best' = Hotter(node[i])
  /\ paths' = paths \ {i}
  /\ UNCHANGED <<node, bmc, reader, got, steady, shown>>

ScanEnds ==
  /\ reader = "scan" /\ paths = {}
  /\ Returns("pci", best)
  /\ UNCHANGED <<steady, shown>>

-----------------------------------------------------------------------------
NodeChanges(i, s) ==
  /\ reader = "scan" /\ node' = [node EXCEPT ![i] = s]
  /\ steady' = steady \ {i}
  /\ shown' = IF i \in Labelled /\ IsDegree(s) THEN shown \cup {s} ELSE shown
  /\ UNCHANGED <<bmc, reader, paths, best, got>>

(* Between two readings everything may be different. *)
TimePasses ==
  /\ Idle /\ reader # "idle"
  /\ node' \in [Node -> NodeState] /\ bmc' \in [there : BOOLEAN, count : Count]
  /\ reader' = "idle" /\ got' = NoValue /\ steady' = {} /\ shown' = {}
  /\ UNCHANGED <<paths, best>>

SourceNext ==
  \/ ReadTemp \/ ReadFanRpm \/ ReadHwmon \/ ReadExec
  \/ List \/ ScanEnds \/ TimePasses
  \/ \E i \in Node : ReadNode(i) \/ \E s \in NodeState : NodeChanges(i, s)

SourceSpec == SourceInit /\ [][SourceNext]_sourceVars

-----------------------------------------------------------------------------
(* "None never degrades to 0.0": what a source returns is what the sensor,   *)
(* the command or an input of the device showed during this reading; a       *)
(* sensor that is not there, a failed command and an input that disappears   *)
(* are never taken for a cold one.                                           *)
ReadingIsReal ==
  reader # "scan" /\ got # NoValue => got \in shown

(* The readings of a scan are not of one instant, and inputs come and go;     *)
(* still no input that could be read all the while at one temperature is      *)
(* hotter than what the source returns, and a source with such an input does  *)
(* not return None.                                                           *)
SteadyInputCounts ==
  reader = "pci" => \A i \in steady : got # NoValue /\ node[i] <= got
===============================================================================
