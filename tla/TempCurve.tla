------------------------------ MODULE TempCurve ------------------------------
(***************************************************************************)
(* One temperature curve of p2afan/curve.py: the checks of its points, the *)
(* interpolation between them and the downward hysteresis.                 *)
(*                                                                         *)
(* Temperatures and the duties of points are integers; a duty between two  *)
(* points is an exact fraction where the code has a float.  A point that   *)
(* is no pair of finite numbers is not modelled.                           *)
(***************************************************************************)
EXTENDS Integers, FiniteSets, Sequences, Functions

CONSTANTS
  PointLists,    \* the curves of a configuration, as sequences of points
  Hysteresis,    \* values of hysteresis_c
  Temp,          \* what a zone reports
  NoTemp, NoDuty \* Python's None

ASSUME CurveAssumption ==
  /\ PointLists \subseteq Seq([temp : Int, duty : Int])
  /\ Hysteresis \subseteq Nat /\ Temp \subseteq Int
  /\ NoTemp \notin Int /\ NoDuty \notin [num : Int, den : Int]

VARIABLES
  status,              \* "new", "built", "rejected": __init__ raised ValueError
  points,              \* the list handed over; once built, self.points
  hysteresis,          \* hysteresis_c
  lastTemp, lastDuty,  \* _last_temp, _last_duty
  returned,            \* what duty_pct returned last
  \* History, read by no action of the code:
  input,               \* the list as it was handed over
  peak                 \* the highest temperature since the returned duty changed

vars == <<status, points, hysteresis, lastTemp, lastDuty, returned, input, peak>>

-----------------------------------------------------------------------------
(* Fractions with a positive denominator, compared crosswise.               *)

Whole(n)   == [num |-> n, den |-> 1]
Less(a, b) == a.num * b.den < b.num * a.den
Same(a, b) == a.num * b.den = b.num * a.den

-----------------------------------------------------------------------------
(* Operators named Buggy... are mutants: slips in the code that the         *)
(* properties below are shown to detect.                                    *)

\* Tuples sort by temperature, then by duty.
Before(p, q) == p.temp < q.temp \/ (p.temp = q.temp /\ p.duty < q.duty)

Sorted(ps) ==
  LET orders == {[i \in DOMAIN ps |-> ps[p[i]]] : p \in Bijection(DOMAIN ps, DOMAIN ps)}
  IN  CHOOSE s \in orders : \A i, j \in DOMAIN ps : i < j => ~Before(s[j], s[i])

\* __init__ raises nothing.
Accepts(ps) ==
  LET pts == Sorted(ps)
  IN  /\ ps # <<>> /\ \A i \in DOMAIN ps : ps[i].duty \in 0 .. 100
      /\ Cardinality({pts[i].temp : i \in DOMAIN pts}) = Len(pts)
      /\ \A i \in 1 .. Len(pts) - 1 : pts[i].duty <= pts[i + 1].duty

\* The distance taken from the wrong end of the segment.
BuggyBetween(p, q, t) ==
  [num |-> p.duty * (q.temp - p.temp) + (q.duty - p.duty) * (q.temp - t),
   den |-> q.temp - p.temp]

\* The value at t on the segment from p to q.
Between(p, q, t) ==
  [num |-> p.duty * (q.temp - p.temp) + (q.duty - p.duty) * (t - p.temp),
   den |-> q.temp - p.temp]

\* The first of the segments that holds t, in the order of the scan.
SegmentOf(pts, t) ==
  CHOOSE i \in 1 .. Len(pts) - 1 :
    /\ pts[i].temp <= t /\ t <= pts[i + 1].temp
    /\ \A j \in 1 .. i - 1 : ~(pts[j].temp <= t /\ t <= pts[j + 1].temp)

RawDutyPct(t) ==
  LET n == Len(points)
      i == SegmentOf(points, t)
  IN  CASE t <= points[1].temp -> Whole(points[1].duty)
        [] t > points[1].temp /\ t >= points[n].temp -> Whole(points[n].duty)
        [] OTHER -> Between(points[i], points[i + 1], t)

\* The temperature fell by less than hysteresis_c.
KeepsDuty(t) ==
  /\ lastDuty # NoDuty /\ lastTemp # NoTemp
  /\ Less(RawDutyPct(t), lastDuty)
  /\ t > lastTemp - hysteresis

-----------------------------------------------------------------------------
Init ==
  /\ status = "new" /\ points \in PointLists /\ hysteresis \in Hysteresis
  /\ lastTemp = NoTemp /\ lastDuty = NoDuty /\ returned = NoDuty
  /\ input = points /\ peak = NoTemp

\* Curve.__init__
Build ==
  /\ status = "new"
  /\ IF Accepts(points)
       THEN status' = "built" /\ points' = Sorted(points)
       ELSE status' = "rejected" /\ UNCHANGED points
  /\ UNCHANGED <<hysteresis, lastTemp, lastDuty, returned, input, peak>>

\* duty_pct returns d for temperature t.
Return(t, d) ==
  /\ returned' = d
  /\ peak' = IF returned = NoDuty \/ ~Same(returned, d) \/ t > peak THEN t ELSE peak
  /\ UNCHANGED <<status, points, hysteresis, input>>

Keep(t) ==
  /\ status = "built" /\ KeepsDuty(t)
  /\ Return(t, lastDuty)
  /\ UNCHANGED <<lastTemp, lastDuty>>

\* _last_temp refreshed only when the duty rises.
BuggyFollowStale(t) ==
  /\ status = "built" /\ ~KeepsDuty(t)
  /\ Return(t, RawDutyPct(t))
  /\ lastDuty' = RawDutyPct(t)
  /\ lastTemp' = IF lastTemp = NoTemp \/ Less(lastDuty, lastDuty') THEN t ELSE lastTemp

Follow(t) ==
  /\ status = "built" /\ ~KeepsDuty(t)
  /\ Return(t, RawDutyPct(t))
  /\ lastTemp' = t /\ lastDuty' = RawDutyPct(t)

Next == Build \/ \E t \in Temp : Keep(t) \/ Follow(t)

Spec == Init /\ [][Next]_vars

-----------------------------------------------------------------------------
(* Properties.                                                              *)

\* The reference: the points as a set, each temperature between the highest
\* point at or below it and the lowest at or above it.
PointSet == {input[i] : i \in DOMAIN input}
Below(t) == {p \in PointSet : p.temp <= t}
Above(t) == {p \in PointSet : t <= p.temp}
Highest(S) == CHOOSE p \in S : \A q \in S : q.temp <= p.temp
Lowest(S)  == CHOOSE p \in S : \A q \in S : p.temp <= q.temp

OnCurve(t, d) ==
  LET p == Highest(Below(t))
      q == Lowest(Above(t))
  IN  CASE Below(t) = {} -> Same(d, Whole(q.duty))
        [] Below(t) # {} /\ (Above(t) = {} \/ p = q) -> Same(d, Whole(p.duty))
        [] OTHER ->
             d.num * (q.temp - p.temp) =
               d.den * (p.duty * (q.temp - p.temp) + (q.duty - p.duty) * (t - p.temp))

\* What ControlLoop assumes of a curve: a duty of 0 .. 100, which no higher
\* temperature lowers.
Climbs ==
  /\ \A t \in Temp : ~Less(RawDutyPct(t), Whole(0)) /\ ~Less(Whole(100), RawDutyPct(t))
  /\ \A t, u \in Temp : t <= u => ~Less(RawDutyPct(u), RawDutyPct(t))

\* A curve whose points come in any order is built exactly if no two of them
\* contradict each other, and its duty is then the reference's at every
\* temperature (the sort, checks and scan of Curve.__init__ and raw_duty_pct)
\* and climbs with it.
CurveIsReference ==
  /\ status = "built" => Climbs /\ \A t \in Temp : OnCurve(t, RawDutyPct(t))
  /\ status # "new" =>
       (status = "built" <=>
          /\ input # <<>> /\ \A p \in PointSet : p.duty \in 0 .. 100
          /\ \A i, j \in DOMAIN input : i # j =>
               /\ input[i].temp # input[j].temp
               /\ input[i].temp < input[j].temp => input[i].duty <= input[j].duty)

\* The fans do not oscillate around a knee (curve.py:16): the returned duty
\* falls only at a temperature hysteresis_c below one seen since it last
\* changed, however the readings wander in between.
NoFlutter ==
  [][returned # NoDuty /\ Less(returned', returned) =>
        \E t \in Temp : (Keep(t) \/ Follow(t)) /\ t <= peak - hysteresis]_vars
==============================================================================
