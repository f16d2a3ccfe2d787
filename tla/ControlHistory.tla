--------------------------- MODULE ControlHistory ---------------------------
(***************************************************************************)
(* ControlLoop beside a log of what its ticks were given.  The log is      *)
(* written by nobody in the code: it lets the failsafe rules of            *)
(* Controller.tick be stated over the readings themselves, independently   *)
(* of the counters the controller keeps (fail_counts, low_rpm_strikes,     *)
(* cool_ticks).                                                            *)
(***************************************************************************)
EXTENDS ControlLoop, Sequences

CONSTANT Window    \* how many ticks the log keeps

(* Long enough for every rule of the controller that looks back. *)
ASSUME WindowAssumption ==
  Window \in Nat /\ SourceFailLimit < Window /\ RecoverTicks <= Window

VARIABLES
  log,       \* the latest ticks of this daemon, the newest last
  lowRun     \* per fan, low readings since its last healthy one, across
             \* restarts of the daemon; counted to 2

historyVars == <<vars, log, lowRun>>

HInit == Init /\ log = <<>> /\ lowRun = [f \in Fan |-> 0]

Remember(entry) ==
  LET grown == Append(log, entry)
  IN  IF Len(grown) > Window THEN Tail(grown) ELSE grown

HTick ==
  \E reading \in Reading, rpm \in Rpm :
    /\ Tick(reading, rpm)
    /\ log' = Remember([reading |-> reading, rpm |-> rpm])
    /\ lowRun' = [f \in Fan |-> CASE rpm[f] = "healthy" -> 0
                                  [] rpm[f] = "low"     -> CountUp(lowRun[f], 2)
                                  [] rpm[f] = "missing" -> lowRun[f]]

(* The memory of a daemon, and so what it can have seen, ends with it. *)
HEnd == (TickRaises \/ Die \/ CleanStop) /\ log' = <<>> /\ UNCHANGED lowRun

HOther == (Hold \/ StopPost \/ Start) /\ UNCHANGED <<log, lowRun>>

HNext == HTick \/ HEnd \/ HOther

HSpec == HInit /\ [][HNext]_historyVars

-----------------------------------------------------------------------------
(* The last n entries of the log, when it has that many. *)
Latest(n) == {log[i] : i \in {i \in DOMAIN log : i > Len(log) - n}}

ZoneReadings(entry, z) ==
  {entry.reading[s] : s \in {s \in Source : ZoneOf[s] = z}} \ {NoReading}

Blind(entry) == \E z \in Zone : ZoneReadings(entry, z) = {}

Overheated(entry) == \E z \in Zone : \E t \in ZoneReadings(entry, z) : t >= Critical[z]

(* A source or a tach silent for SourceFailLimit ticks running. *)
Silent ==
  /\ Len(log) >= SourceFailLimit
  /\ \/ \E s \in Source : \A e \in Latest(SourceFailLimit) : e.reading[s] = NoReading
     \/ \E f \in Fan : \A e \in Latest(SourceFailLimit) : e.rpm[f] = "missing"

(* A fan read low twice with no healthy reading since the first. *)
Stalled ==
  \E f \in Fan, i, j \in DOMAIN log :
    /\ i < j /\ log[i].rpm[f] = "low" /\ log[j].rpm[f] = "low"
    /\ \A k \in i .. Len(log) : log[k].rpm[f] # "healthy"

Trouble ==
  /\ log # <<>>
  /\ LET now == log[Len(log)] IN Blind(now) \/ Overheated(now) \/ Silent \/ Stalled

Clean(entry) ==
  ~Blind(entry) /\ ~Overheated(entry) /\ \A f \in Fan : entry.rpm[f] = "healthy"

(* Whenever the readings of this daemon's ticks show trouble, it is in      *)
(* failsafe: missing tach readings do not reset stall evidence, one dead    *)
(* source among healthy ones counts, and no recovery overlooks it.          *)
TroubleForcesFailsafe == phase = "running" /\ Trouble => failsafe

(* The converse on entry: failsafe is entered only for trouble in the log,  *)
(* so a single missing or low reading never trips it.                       *)
FailsafeHasCause == [][~failsafe /\ failsafe' => Trouble']_historyVars

(* Failsafe is left by a running daemon only when its last RecoverTicks     *)
(* ticks, the present one included, were all clean.                         *)
RecoveryEarned ==
  [][failsafe /\ ~failsafe' /\ phase' = "running" =>
       /\ Len(log') >= RecoverTicks
       /\ \A e \in Latest(RecoverTicks)' : Clean(e)]_historyVars

(* The comment at control.py:490: "a stalled fan must never see a transient *)
(* downward duty step before failsafe is reasserted".  Read over the fan's  *)
(* own history, which a restart of the daemon does not erase.               *)
StalledNeverStepsDown ==
  [][\A f \in Fan :
       /\ HTick /\ duty # NoDuty
       /\ lowRun[f] = 2 /\ log'[Len(log')].rpm[f] = "low"
       => duty' >= duty]_historyVars
==============================================================================
