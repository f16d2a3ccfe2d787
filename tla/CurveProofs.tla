----------------------------- MODULE CurveProofs -----------------------------
(***************************************************************************)
(* Theorems about TempCurve and ConfigRules, for any number of points,      *)
(* temperatures, hysteresis and options.                                    *)
(***************************************************************************)
EXTENDS ConfigRules, FiniteSetTheorems, TLAPS

Point == [temp : Int, duty : Int]

-----------------------------------------------------------------------------
(* Every list of points can be sorted: number each position by how many     *)
(* others come before it, equal points by their place in the list.          *)

LEMMA BeforeOrders ==
  ASSUME NEW a \in Point, NEW b \in Point, NEW c \in Point
  PROVE  /\ ~Before(a, a)
         /\ Before(a, b) => ~Before(b, a)
         /\ Before(a, b) /\ ~Before(c, b) => Before(a, c)
         /\ ~Before(b, a) /\ Before(b, c) => Before(a, c)
         /\ ~Before(b, a) /\ ~Before(c, b) => ~Before(c, a)
<1>1. /\ a.temp \in Int /\ a.duty \in Int /\ b.temp \in Int /\ b.duty \in Int
      /\ c.temp \in Int /\ c.duty \in Int
  BY DEF Point
<1> QED BY <1>1 DEF Before

LEMMA Ranked ==
  ASSUME NEW n \in Nat, NEW ps \in [1 .. n -> Point]
  PROVE  \E p \in Bijection(1 .. n, 1 .. n) :
           \A i, j \in 1 .. n : i < j => ~Before(ps[p[j]], ps[p[i]])
<1> DEFINE Pos == 1 .. n
<1> DEFINE Leads(i, j) == Before(ps[i], ps[j]) \/ (~Before(ps[j], ps[i]) /\ i < j)
<1> DEFINE U(j) == {i \in Pos : Leads(i, j)}
<1> DEFINE rank == [j \in Pos |-> Cardinality(U(j)) + 1]
<1>1. IsFiniteSet(Pos) /\ Cardinality(Pos) = n
  BY FS_Interval
<1>2. ASSUME NEW i \in Pos, NEW j \in Pos, NEW k \in Pos
      PROVE  /\ ~Leads(i, i)
             /\ i # j => Leads(i, j) \/ Leads(j, i)
             /\ Leads(i, j) /\ Leads(j, k) => Leads(i, k)
  <2>1. i \in Int /\ j \in Int /\ k \in Int
    OBVIOUS
  <2>2. ps[i] \in Point /\ ps[j] \in Point /\ ps[k] \in Point
    OBVIOUS
  <2>3. ~Before(ps[i], ps[i])
    BY <2>2, BeforeOrders
  <2>4. /\ Before(ps[i], ps[j]) /\ Before(ps[j], ps[k]) => Before(ps[i], ps[k])
        /\ Before(ps[i], ps[j]) /\ ~Before(ps[k], ps[j]) => Before(ps[i], ps[k])
        /\ ~Before(ps[j], ps[i]) /\ Before(ps[j], ps[k]) => Before(ps[i], ps[k])
        /\ ~Before(ps[j], ps[i]) /\ ~Before(ps[k], ps[j]) => ~Before(ps[k], ps[i])
    <3>1. Before(ps[j], ps[k]) => ~Before(ps[k], ps[j])
      BY <2>2, BeforeOrders
    <3> QED BY <2>2, <3>1, BeforeOrders
  <2> QED BY <2>1, <2>3, <2>4
<1> HIDE DEF Leads
<1>3. ASSUME NEW j \in Pos
      PROVE  IsFiniteSet(U(j)) /\ Cardinality(U(j)) \in Nat /\ Cardinality(U(j)) + 1 \in Pos
  <2>1. IsFiniteSet(Pos \ {j}) /\ Cardinality(Pos \ {j}) = n - 1
    BY <1>1, FS_RemoveElement
  <2>2. U(j) \in SUBSET (Pos \ {j})
    BY <1>2
  <2>3. IsFiniteSet(U(j)) /\ Cardinality(U(j)) <= n - 1
    BY <2>1, <2>2, FS_Subset
  <2>4. Cardinality(U(j)) \in Nat
    BY <2>3, FS_CardinalityType
  <2> QED BY <2>3, <2>4
<1>4. ASSUME NEW i \in Pos, NEW j \in Pos, Leads(i, j)
      PROVE  Cardinality(U(i)) < Cardinality(U(j))
  <2>1. U(i) \in SUBSET U(j) /\ i \in U(j) /\ i \notin U(i)
    BY <1>2, <1>4
  <2>2. Cardinality(U(i)) <= Cardinality(U(j)) /\ Cardinality(U(i)) # Cardinality(U(j))
    <3> HIDE DEF U
    <3> QED BY <1>3, <2>1, FS_Subset
  <2> HIDE DEF U
  <2> QED BY <1>3, <2>2
<1>5. rank \in Injection(Pos, Pos)
  <2>1. rank \in [Pos -> Pos]
    BY <1>3
  <2>2. ASSUME NEW i \in Pos, NEW j \in Pos, rank[i] = rank[j] PROVE i = j
    <3>1. Cardinality(U(i)) \in Nat /\ Cardinality(U(j)) \in Nat
      BY <1>3
    <3>2. Cardinality(U(i)) = Cardinality(U(j))
      <4> HIDE DEF U
      <4> QED BY <2>2, <3>1
    <3>3. ~Leads(i, j) /\ ~Leads(j, i)
      <4> HIDE DEF U
      <4> QED BY <1>4, <3>1, <3>2
    <3> QED BY <1>2, <3>3
  <2> HIDE DEF rank
  <2> QED BY <2>1, <2>2 DEF Injection, IsInjective
<1>6. ASSUME NEW i \in Pos, NEW j \in Pos, Leads(i, j) PROVE rank[i] < rank[j]
  <2> HIDE DEF U
  <2> QED BY <1>3, <1>4, <1>6
<1> HIDE DEF rank, U
<1>7. rank \in Surjection(Pos, Pos)
  BY <1>1, <1>5, FS_Injection
<1> DEFINE p == [k \in Pos |-> CHOOSE i \in Pos : rank[i] = k]
<1>8. ASSUME NEW k \in Pos PROVE p[k] \in Pos /\ rank[p[k]] = k
  BY <1>7 DEF Surjection
<1>9. p \in [Pos -> Pos]
  BY <1>8
<1> HIDE DEF p
<1>10. p \in Bijection(Pos, Pos)
  <2>1. ASSUME NEW k \in Pos, NEW l \in Pos, p[k] = p[l] PROVE k = l
    BY <1>8, <2>1
  <2>2. p \in Injection(Pos, Pos)
    BY <1>9, <2>1 DEF Injection, IsInjective
  <2>3. p \in Surjection(Pos, Pos)
    BY <1>1, <2>2, FS_Injection
  <2> QED BY <2>2, <2>3 DEF Bijection
<1>11. ASSUME NEW i \in Pos, NEW j \in Pos, i < j PROVE ~Before(ps[p[j]], ps[p[i]])
  <2>1. p[i] \in Pos /\ p[j] \in Pos /\ rank[p[i]] = i /\ rank[p[j]] = j
    BY <1>8
  <2>2. ~Leads(p[j], p[i])
    <3>1. i \in Int /\ j \in Int /\ ~(j < i)
      BY <1>11
    <3> QED BY <1>6, <2>1, <3>1
  <2> QED BY <2>2 DEF Leads
<1> QED BY <1>10, <1>11

(* pts.sort(): the points handed over, each once, in order. *)
LEMMA SortedReorders ==
  ASSUME NEW ps \in Seq(Point)
  PROVE  /\ Sorted(ps) \in Seq(Point) /\ Len(Sorted(ps)) = Len(ps)
         /\ \A i, j \in 1 .. Len(ps) : i < j => ~Before(Sorted(ps)[j], Sorted(ps)[i])
         /\ \E p \in Bijection(1 .. Len(ps), 1 .. Len(ps)) :
              \A i \in 1 .. Len(ps) : Sorted(ps)[i] = ps[p[i]]
<1> DEFINE n == Len(ps)
<1> DEFINE orders == {[i \in DOMAIN ps |-> ps[p[i]]] : p \in Bijection(DOMAIN ps, DOMAIN ps)}
<1> DEFINE InOrder(s) == \A i, j \in DOMAIN ps : i < j => ~Before(s[j], s[i])
<1>1. n \in Nat /\ DOMAIN ps = 1 .. n /\ ps \in [1 .. n -> Point]
  OBVIOUS
<1> HIDE DEF n
<1>2. \E s \in orders : InOrder(s)
  <2>1. PICK p \in Bijection(1 .. n, 1 .. n) :
               \A i, j \in 1 .. n : i < j => ~Before(ps[p[j]], ps[p[i]])
    BY <1>1, Ranked
  <2> DEFINE s == [i \in DOMAIN ps |-> ps[p[i]]]
  <2>2. s \in orders
    BY <1>1, <2>1
  <2>3. InOrder(s)
    BY <1>1, <2>1
  <2> QED BY <2>2, <2>3
<1>3. Sorted(ps) \in orders /\ InOrder(Sorted(ps))
  BY <1>2 DEF Sorted
<1>4. PICK p \in Bijection(1 .. n, 1 .. n) : Sorted(ps) = [i \in 1 .. n |-> ps[p[i]]]
  BY <1>1, <1>3
<1>5. p \in [1 .. n -> 1 .. n]
  BY <1>4 DEF Bijection, Injection
<1>6. Sorted(ps) \in [1 .. n -> Point] /\ \A i \in 1 .. n : Sorted(ps)[i] = ps[p[i]]
  BY <1>1, <1>4, <1>5
<1>7. Sorted(ps) \in Seq(Point) /\ Len(Sorted(ps)) = n
  BY <1>1, <1>6
<1> QED BY <1>1, <1>3, <1>4, <1>6, <1>7 DEF n

-----------------------------------------------------------------------------
(* The checks of __init__. *)

Ascending(pts) ==
  \A i, j \in 1 .. Len(pts) : i < j => pts[i].temp < pts[j].temp /\ pts[i].duty <= pts[j].duty

(* No two points contradict each other. *)
Consistent(ps) ==
  /\ ps # <<>> /\ \A i \in DOMAIN ps : ps[i].duty \in 0 .. 100
  /\ \A i, j \in DOMAIN ps : i # j =>
       /\ ps[i].temp # ps[j].temp
       /\ ps[i].temp < ps[j].temp => ps[i].duty <= ps[j].duty

LessNat == {p \in Nat \X Nat : p[1] < p[2]}

LEMMA LeastNat ==
  ASSUME NEW S, S \subseteq Nat, S # {}
  PROVE  \E m \in S : \A y \in S : m <= y
<1>1. IsWellFoundedOn(LessNat, Nat)
  BY NatLessThanWellFounded DEF OpToRel, LessNat
<1>2. PICK m \in S : \A y \in S : <<y, m>> \notin LessNat
  BY <1>1, WFMin
<1>3. ASSUME NEW y \in S PROVE m <= y
  <2>1. y \in Nat /\ m \in Nat /\ <<y, m>> \notin LessNat
    BY <1>2
  <2>2. ~ (y < m)
    BY <2>1 DEF LessNat
  <2> QED BY <2>1, <2>2
<1> QED BY <1>3

(* Neighbours that do not fall make a list that does not fall. *)
LEMMA NeighboursClimb ==
  ASSUME NEW n \in Nat, NEW f \in [1 .. n -> Int],
         \A i \in 1 .. n - 1 : f[i] <= f[i + 1]
  PROVE  \A i, j \in 1 .. n : i < j => f[i] <= f[j]
<1> SUFFICES ASSUME NEW i \in 1 .. n, NEW k \in 1 .. n, i < k, ~(f[i] <= f[k])
             PROVE  FALSE
  OBVIOUS
<1> DEFINE S == {j \in 1 .. n : i < j /\ ~(f[i] <= f[j])}
<1>1. S \subseteq Nat /\ S # {}
  <2>1. k \in S /\ S \subseteq 1 .. n
    OBVIOUS
  <2> HIDE DEF S
  <2> QED BY <2>1
<1>2. PICK j \in S : \A y \in S : j <= y
  <2> HIDE DEF S
  <2> QED BY <1>1, LeastNat
<1>3. /\ j \in Int /\ i \in Int /\ 1 <= i /\ i < j /\ j <= n /\ ~(f[i] <= f[j])
  BY <1>2
<1>4. j - 1 \in 1 .. n - 1 /\ j - 1 \in 1 .. n /\ (j - 1) + 1 = j /\ ~(j <= j - 1) /\ j - 1 >= i
  BY <1>3
<1>5. f[j - 1] <= f[j]
  BY <1>4
<1>6. f[i] <= f[j - 1]
  <2>1. CASE j - 1 = i
    BY <1>3, <2>1
  <2>2. CASE j - 1 # i
    <3>1. i < j - 1
      BY <1>3, <1>4, <2>2
    <3>2. j - 1 \notin S
      BY <1>2, <1>4
    <3> QED BY <1>4, <3>1, <3>2
  <2> QED BY <2>1, <2>2
<1>7. f[i] \in Int /\ f[j] \in Int /\ f[j - 1] \in Int
  BY <1>3, <1>4
<1> QED BY <1>3, <1>5, <1>6, <1>7

(* len(set(temps)) != len(temps) *)
LEMMA CountsDistinct ==
  ASSUME NEW n \in Nat, NEW f, f = [i \in 1 .. n |-> f[i]]
  PROVE  Cardinality({f[i] : i \in 1 .. n}) = n
           <=> \A i, j \in 1 .. n : f[i] = f[j] => i = j
<1> DEFINE T == {f[i] : i \in 1 .. n}
<1>1. IsFiniteSet(1 .. n) /\ Cardinality(1 .. n) = n
  BY FS_Interval
<1>2. f \in Surjection(1 .. n, T)
  BY DEF Surjection
<1>3. Cardinality(T) = Cardinality(1 .. n) <=> f \in Injection(1 .. n, T)
  <2> HIDE DEF T
  <2> QED BY <1>1, <1>2, FS_Surjection
<1>4. f \in Injection(1 .. n, T) <=> \A i, j \in 1 .. n : f[i] = f[j] => i = j
  <2>1. f \in [1 .. n -> T] /\ DOMAIN f = 1 .. n
    BY <1>2 DEF Surjection
  <2> HIDE DEF T
  <2> QED BY <2>1 DEF Injection, IsInjective
<1> QED BY <1>1, <1>3, <1>4

LEMMA AcceptsConsistent ==
  ASSUME NEW ps \in Seq(Point)
  PROVE  /\ Accepts(ps) <=> Consistent(ps)
         /\ Accepts(ps) => /\ Ascending(Sorted(ps)) /\ Len(ps) >= 1
                           /\ \A i \in 1 .. Len(ps) : Sorted(ps)[i].duty \in 0 .. 100
<1> DEFINE n == Len(ps)
<1> DEFINE pts == Sorted(ps)
<1>1. /\ n \in Nat /\ DOMAIN ps = 1 .. n /\ pts \in Seq(Point) /\ Len(pts) = n
      /\ \A i, j \in 1 .. n : i < j => ~Before(pts[j], pts[i])
  <2>1. n \in Nat /\ DOMAIN ps = 1 .. n
    OBVIOUS
  <2>2. /\ Sorted(ps) \in Seq(Point) /\ Len(Sorted(ps)) = Len(ps)
        /\ \A i, j \in 1 .. Len(ps) : i < j => ~Before(Sorted(ps)[j], Sorted(ps)[i])
    BY SortedReorders
  <2> QED BY <2>1, <2>2
<1>2. PICK p \in Bijection(1 .. n, 1 .. n) : \A i \in 1 .. n : pts[i] = ps[p[i]]
  BY SortedReorders
<1>3. DOMAIN pts = 1 .. n
  BY <1>1
<1>4. /\ \A i \in 1 .. n : p[i] \in 1 .. n
      /\ \A i, j \in 1 .. n : p[i] = p[j] => i = j
      /\ \A k \in 1 .. n : \E i \in 1 .. n : p[i] = k
  BY DEF Bijection, Injection, Surjection, IsInjective
<1>5. ASSUME NEW i \in 1 .. n
      PROVE  /\ pts[i] \in Point /\ pts[i].temp \in Int /\ pts[i].duty \in Int
             /\ ps[i] \in Point /\ ps[i].temp \in Int /\ ps[i].duty \in Int
  <2>1. ps[i] \in Point
    OBVIOUS
  <2>2. pts[i] \in Point
    <3> HIDE DEF pts, n
    <3> QED BY <1>1
  <2> HIDE DEF pts
  <2> QED BY <2>1, <2>2 DEF Point
<1>6. ASSUME NEW i \in 1 .. n, NEW j \in 1 .. n, i < j PROVE pts[i].temp <= pts[j].temp
  <2>1. ~Before(pts[j], pts[i])
    BY <1>1, <1>6
  <2> HIDE DEF pts
  <2> QED BY <1>5, <2>1 DEF Before
<1>7. ps # <<>> <=> n >= 1
  BY <1>1
<1> DEFINE temps == [i \in 1 .. n |-> pts[i].temp]
<1>8. Cardinality({pts[i].temp : i \in DOMAIN pts}) = Len(pts)
        <=> \A i, j \in 1 .. n : pts[i].temp = pts[j].temp => i = j
  <2>1. {pts[i].temp : i \in DOMAIN pts} = {temps[i] : i \in 1 .. n}
    BY <1>3
  <2>2. Cardinality({temps[i] : i \in 1 .. n}) = n
          <=> \A i, j \in 1 .. n : temps[i] = temps[j] => i = j
    <3>1. temps = [i \in 1 .. n |-> temps[i]]
      OBVIOUS
    <3> HIDE DEF temps
    <3> QED BY <1>1, <3>1, CountsDistinct
  <2> HIDE DEF pts
  <2> QED BY <1>1, <2>1, <2>2
<1>9. Accepts(ps) <=>
        /\ n >= 1 /\ \A i \in 1 .. n : ps[i].duty \in 0 .. 100
        /\ \A i, j \in 1 .. n : pts[i].temp = pts[j].temp => i = j
        /\ \A i \in 1 .. n - 1 : pts[i].duty <= pts[i + 1].duty
  BY <1>1, <1>7, <1>8 DEF Accepts
<1> HIDE DEF pts, n, temps
<1>10. ASSUME Accepts(ps) PROVE Ascending(pts)
  <2> DEFINE f == [i \in 1 .. n |-> pts[i].duty]
  <2>1. f \in [1 .. n -> Int]
    BY <1>5
  <2>2. \A i \in 1 .. n - 1 : f[i] <= f[i + 1]
    <3> SUFFICES ASSUME NEW i \in 1 .. n - 1 PROVE f[i] <= f[i + 1]
      OBVIOUS
    <3>1. i \in 1 .. n /\ i + 1 \in 1 .. n
      BY <1>1
    <3> QED BY <1>9, <1>10, <3>1
  <2>3. \A i, j \in 1 .. n : i < j => f[i] <= f[j]
    <3> HIDE DEF f
    <3> QED BY <1>1, <2>1, <2>2, NeighboursClimb
  <2>4. ASSUME NEW i \in 1 .. n, NEW j \in 1 .. n, i < j
        PROVE  pts[i].temp < pts[j].temp /\ pts[i].duty <= pts[j].duty
    <3>1. pts[i].temp # pts[j].temp
      BY <1>9, <1>10, <2>4
    <3>2. pts[i].temp <= pts[j].temp
      BY <1>6, <2>4
    <3>3. f[i] <= f[j]
      BY <2>3, <2>4
    <3> QED BY <1>5, <3>1, <3>2, <3>3
  <2> QED BY <1>1, <2>4 DEF Ascending
<1>11. ASSUME Accepts(ps) PROVE Consistent(ps)
  <2>1. ASSUME NEW i \in 1 .. n, NEW j \in 1 .. n, i # j
        PROVE  /\ ps[i].temp # ps[j].temp
               /\ ps[i].temp < ps[j].temp => ps[i].duty <= ps[j].duty
    <3>1. PICK a \in 1 .. n, b \in 1 .. n : p[a] = i /\ p[b] = j
      BY <1>4
    <3>2. pts[a] = ps[i] /\ pts[b] = ps[j] /\ a # b
      BY <1>2, <2>1, <3>1
    <3>3. CASE a < b
      BY <1>1, <1>5, <1>10, <1>11, <3>2, <3>3 DEF Ascending
    <3>4. CASE b < a
      BY <1>1, <1>5, <1>10, <1>11, <3>2, <3>4 DEF Ascending
    <3>5. a < b \/ b < a
      BY <3>2
    <3> QED BY <3>3, <3>4, <3>5
  <2> QED BY <1>1, <1>7, <1>9, <1>11, <2>1 DEF Consistent, n
<1>12. ASSUME Consistent(ps) PROVE Accepts(ps)
  <2>0. \A i, j \in 1 .. n : i # j => /\ ps[i].temp # ps[j].temp
                                      /\ ps[i].temp < ps[j].temp => ps[i].duty <= ps[j].duty
    BY <1>1, <1>12 DEF Consistent
  <2>1. ASSUME NEW i \in 1 .. n, NEW j \in 1 .. n, pts[i].temp = pts[j].temp PROVE i = j
    <3>1. p[i] \in 1 .. n /\ p[j] \in 1 .. n /\ ps[p[i]].temp = ps[p[j]].temp
      BY <1>2, <1>4, <2>1
    <3> QED BY <1>4, <2>0, <3>1
  <2>2. ASSUME NEW i \in 1 .. n - 1 PROVE pts[i].duty <= pts[i + 1].duty
    <3>1. i \in 1 .. n /\ i + 1 \in 1 .. n /\ i < i + 1 /\ i # i + 1
      BY <1>1
    <3>2. pts[i].temp <= pts[i + 1].temp /\ pts[i].temp # pts[i + 1].temp
      BY <1>6, <2>1, <3>1
    <3>3. pts[i].temp < pts[i + 1].temp
      BY <1>5, <3>1, <3>2
    <3>4. p[i] # p[i + 1] /\ p[i] \in 1 .. n /\ p[i + 1] \in 1 .. n
      BY <1>4, <3>1
    <3> QED BY <1>2, <2>0, <3>1, <3>3, <3>4
  <2>3. n >= 1 /\ \A i \in 1 .. n : ps[i].duty \in 0 .. 100
    BY <1>1, <1>7, <1>12 DEF Consistent
  <2> QED BY <1>9, <2>1, <2>2, <2>3
<1>13. ASSUME Accepts(ps), NEW i \in 1 .. n PROVE pts[i].duty \in 0 .. 100
  <2>1. p[i] \in 1 .. n /\ pts[i] = ps[p[i]]
    BY <1>2, <1>4
  <2>2. \A k \in 1 .. n : ps[k].duty \in 0 .. 100
    BY <1>9, <1>13, Zenon
  <2> QED BY <2>1, <2>2, Zenon
<1> QED BY <1>9, <1>10, <1>11, <1>12, <1>13 DEF pts, n

-----------------------------------------------------------------------------
(* The scan and the interpolation. *)

(* What __init__ leaves in self.points. *)
IsCurve(pts) ==
  /\ pts \in Seq(Point) /\ Len(pts) >= 1 /\ Ascending(pts)
  /\ \A i \in 1 .. Len(pts) : pts[i].duty \in 0 .. 100

LEMMA CurvePoints ==
  ASSUME NEW pts, IsCurve(pts)
  PROVE  /\ Len(pts) \in Nat /\ Len(pts) >= 1 /\ 1 \in 1 .. Len(pts) /\ Len(pts) \in 1 .. Len(pts)
         /\ \A i \in 1 .. Len(pts) : /\ pts[i] \in Point /\ pts[i].temp \in Int
                                     /\ pts[i].duty \in Int
                                     /\ 0 <= pts[i].duty /\ pts[i].duty <= 100
         /\ \A i, j \in 1 .. Len(pts) :
              i < j => pts[i].temp < pts[j].temp /\ pts[i].duty <= pts[j].duty
<1>1. Len(pts) \in Nat /\ Len(pts) >= 1
  BY DEF IsCurve
<1>2. ASSUME NEW i \in 1 .. Len(pts) PROVE pts[i] \in Point
  BY DEF IsCurve
<1>3. ASSUME NEW i \in 1 .. Len(pts)
      PROVE  pts[i].temp \in Int /\ pts[i].duty \in Int /\ 0 <= pts[i].duty /\ pts[i].duty <= 100
  <2>1. pts[i].temp \in Int /\ pts[i].duty \in Int
    BY <1>2 DEF Point
  <2>2. pts[i].duty \in 0 .. 100
    BY DEF IsCurve
  <2>3. \A x \in 0 .. 100 : 0 <= x /\ x <= 100
    OBVIOUS
  <2> QED BY <2>1, <2>2, <2>3, Zenon
<1>4. \A i, j \in 1 .. Len(pts) :
        i < j => pts[i].temp < pts[j].temp /\ pts[i].duty <= pts[j].duty
  BY DEF IsCurve, Ascending
<1> QED BY <1>1, <1>2, <1>3, <1>4

(* The scan ends on a segment that holds t. *)
LEMMA SegmentHolds ==
  ASSUME NEW pts, IsCurve(pts), NEW t \in Int, pts[1].temp < t, t < pts[Len(pts)].temp
  PROVE  /\ SegmentOf(pts, t) \in 1 .. Len(pts) - 1
         /\ pts[SegmentOf(pts, t)].temp <= t /\ t <= pts[SegmentOf(pts, t) + 1].temp
<1> DEFINE n == Len(pts)
<1> DEFINE S == {j \in 1 .. n : t <= pts[j].temp}
<1>1. n \in Nat /\ 1 \in 1 .. n /\ n \in 1 .. n /\ \A i \in 1 .. n : pts[i].temp \in Int
  BY CurvePoints
<1>2. S \subseteq Nat /\ S # {}
  <2>1. n \in S /\ S \subseteq 1 .. n
    BY <1>1
  <2> HIDE DEF S
  <2> QED BY <2>1
<1>3. PICK j \in S : \A y \in S : j <= y
  <2> HIDE DEF S
  <2> QED BY <1>2, LeastNat
<1>4. j \in 1 .. n /\ t <= pts[j].temp /\ j # 1
  BY <1>1, <1>3
<1> DEFINE i == j - 1
<1> HIDE DEF n
<1>5. i \in 1 .. n - 1 /\ i \in 1 .. n /\ i + 1 = j /\ i < j
  BY <1>1, <1>4
<1>6. pts[i].temp <= t
  <2>1. i \notin S
    <3> HIDE DEF S
    <3> QED BY <1>3, <1>4, <1>5
  <2>2. ~(t <= pts[i].temp)
    BY <1>5, <2>1
  <2> QED BY <1>1, <1>5, <2>2
<1>7. ASSUME NEW k \in 1 .. i - 1 PROVE ~(t <= pts[k + 1].temp)
  <2>1. k + 1 \in 1 .. n /\ k + 1 < j
    BY <1>1, <1>4, <1>5
  <2>2. k + 1 \notin S
    <3> HIDE DEF S
    <3> QED BY <1>3, <1>4, <2>1
  <2> QED BY <2>1, <2>2
<1> HIDE DEF i, S
<1>8. \E k \in 1 .. Len(pts) - 1 :
        /\ pts[k].temp <= t /\ t <= pts[k + 1].temp
        /\ \A l \in 1 .. k - 1 : ~(pts[l].temp <= t /\ t <= pts[l + 1].temp)
  BY <1>4, <1>5, <1>6, <1>7 DEF n
<1> QED BY <1>8 DEF SegmentOf

(* Products of integers the solvers need help with. *)
LEMMA Scales ==
  ASSUME NEW a \in Int, NEW b \in Int, NEW c \in Int, a <= b, 0 <= c
  PROVE  a * c <= b * c /\ c * a <= c * b
<1>1. b - a \in Nat
  OBVIOUS
<1>2. 0 <= (b - a) * c
  BY <1>1
<1>3. (b - a) * c = b * c - a * c
  OBVIOUS
<1>4. a * c = c * a /\ b * c = c * b /\ a * c \in Int /\ b * c \in Int
  OBVIOUS
<1> QED BY <1>2, <1>3, <1>4

LEMMA ScalesUnder ==
  ASSUME NEW a \in Int, NEW b \in Int, NEW c \in Int, 0 < c, a <= b,
         NEW x \in Int
  PROVE  /\ b * c <= x => a * c <= x
         /\ x <= a * c => x <= b * c
<1>1. a * c <= b * c
  BY Scales
<1>2. a * c \in Int /\ b * c \in Int
  OBVIOUS
<1> QED BY <1>1, <1>2

(* Between stays between the duties of its ends, and meets them. *)
LEMMA BetweenEnds ==
  ASSUME NEW p \in Point, NEW q \in Point, p.temp < q.temp, p.duty <= q.duty,
         NEW t \in Int, p.temp <= t, t <= q.temp
  PROVE  /\ Between(p, q, t).den = q.temp - p.temp
         /\ Between(p, q, t).num = p.duty * (q.temp - p.temp) + (q.duty - p.duty) * (t - p.temp)
         /\ Between(p, q, t).den \in Int /\ 0 < Between(p, q, t).den
         /\ Between(p, q, t).num \in Int
         /\ p.duty * Between(p, q, t).den <= Between(p, q, t).num
         /\ Between(p, q, t).num <= q.duty * Between(p, q, t).den
         /\ t = p.temp => Between(p, q, t).num = p.duty * Between(p, q, t).den
         /\ t = q.temp => Between(p, q, t).num = q.duty * Between(p, q, t).den
<1> DEFINE a == p.duty
<1> DEFINE r == q.duty - p.duty
<1> DEFINE D == q.temp - p.temp
<1> DEFINE s == t - p.temp
<1>1. /\ a \in Int /\ q.duty \in Int /\ r \in Int /\ D \in Int /\ s \in Int
      /\ 0 <= r /\ 0 < D /\ 0 <= s /\ s <= D /\ q.duty = a + r
      /\ (t = p.temp => s = 0) /\ (t = q.temp => s = D)
  BY DEF Point
<1>2. Between(p, q, t).num = a * D + r * s /\ Between(p, q, t).den = D
  BY DEF Between
<1> HIDE DEF a, r, D, s
<1>3. r * s <= r * D /\ r * 0 <= r * s
  BY <1>1, Scales
<1>4. q.duty * D = a * D + r * D
  BY <1>1
<1>5. a * D \in Int /\ r * s \in Int /\ r * D \in Int /\ r * 0 = 0
  BY <1>1
<1>6. /\ a * D + r * s \in Int /\ a * D <= a * D + r * s
      /\ a * D + r * s <= a * D + r * D
  BY <1>3, <1>5
<1>7. /\ Between(p, q, t).den = D /\ Between(p, q, t).num = a * D + r * s
      /\ D \in Int /\ 0 < D /\ a * D + r * s \in Int
      /\ a * D <= a * D + r * s /\ a * D + r * s <= q.duty * D
  BY <1>1, <1>2, <1>4, <1>6
<1>8. t = p.temp => a * D + r * s = a * D
  BY <1>1, <1>5
<1>9. t = q.temp => a * D + r * s = q.duty * D
  BY <1>1, <1>4
<1> QED BY <1>7, <1>8, <1>9, Zenon DEF a, r, D, s

(* The three ways raw_duty_pct returns. *)
LEMMA DutyCases ==
  ASSUME IsCurve(points), NEW t \in Int
  PROVE  \/ t <= points[1].temp /\ RawDutyPct(t) = Whole(points[1].duty)
         \/ /\ points[1].temp < t /\ points[Len(points)].temp <= t
            /\ RawDutyPct(t) = Whole(points[Len(points)].duty)
         \/ /\ points[1].temp < t /\ t < points[Len(points)].temp
            /\ \E i \in 1 .. Len(points) - 1 :
                 /\ points[i].temp <= t /\ t <= points[i + 1].temp
                 /\ RawDutyPct(t) = Between(points[i], points[i + 1], t)
<1> DEFINE n == Len(points)
<1>1. points[1].temp \in Int /\ points[n].temp \in Int
  BY CurvePoints
<1>2. CASE t <= points[1].temp
  <2>1. ~(t > points[1].temp)
    BY <1>1, <1>2
  <2>2. RawDutyPct(t) = Whole(points[1].duty)
    BY <1>2, <2>1 DEF RawDutyPct
  <2> QED BY <1>2, <2>2
<1>3. CASE points[1].temp < t /\ points[n].temp <= t
  <2>1. ~(t <= points[1].temp) /\ t > points[1].temp /\ t >= points[n].temp
    BY <1>1, <1>3
  <2>2. RawDutyPct(t) = Whole(points[n].duty)
    BY <2>1 DEF RawDutyPct
  <2> QED BY <1>3, <2>2
<1>4. CASE points[1].temp < t /\ t < points[n].temp
  <2>1. ~(t <= points[1].temp) /\ ~(t >= points[n].temp)
    BY <1>1, <1>4
  <2> DEFINE i == SegmentOf(points, t)
  <2>2. RawDutyPct(t) = Between(points[i], points[i + 1], t)
    BY <2>1 DEF RawDutyPct
  <2>3. i \in 1 .. Len(points) - 1 /\ points[i].temp <= t /\ t <= points[i + 1].temp
    BY <1>4, SegmentHolds
  <2> QED BY <1>4, <2>2, <2>3
<1> QED BY <1>1, <1>2, <1>3, <1>4

(* The duty at t lies on the same side of each point's as t of its temperature. *)
LEMMA KnotBounds ==
  ASSUME IsCurve(points), NEW t \in Int, NEW i \in 1 .. Len(points)
  PROVE  /\ RawDutyPct(t).num \in Int /\ RawDutyPct(t).den \in Int /\ 0 < RawDutyPct(t).den
         /\ t <= points[i].temp => RawDutyPct(t).num <= points[i].duty * RawDutyPct(t).den
         /\ points[i].temp <= t => points[i].duty * RawDutyPct(t).den <= RawDutyPct(t).num
<1> DEFINE n == Len(points)
<1> DEFINE d == RawDutyPct(t)
<1>1. /\ n \in Nat /\ 1 \in 1 .. n /\ n \in 1 .. n
      /\ \A j \in 1 .. n : points[j] \in Point /\ points[j].temp \in Int /\ points[j].duty \in Int
      /\ \A j, k \in 1 .. n :
           j < k => points[j].temp < points[k].temp /\ points[j].duty <= points[k].duty
  BY CurvePoints
<1>2. \/ t <= points[1].temp /\ d = Whole(points[1].duty)
      \/ points[1].temp < t /\ points[n].temp <= t /\ d = Whole(points[n].duty)
      \/ \E k \in 1 .. n - 1 : /\ points[k].temp <= t /\ t <= points[k + 1].temp
                               /\ d = Between(points[k], points[k + 1], t)
  BY DutyCases
<1> HIDE DEF n, d
<1>i. i \in 1 .. n /\ points[i].temp \in Int /\ points[i].duty \in Int
  BY <1>1 DEF n
<1> SUFFICES /\ d.num \in Int /\ d.den \in Int /\ 0 < d.den
             /\ t <= points[i].temp => d.num <= points[i].duty * d.den
             /\ points[i].temp <= t => points[i].duty * d.den <= d.num
  BY DEF d
<1>3. CASE t <= points[1].temp /\ d = Whole(points[1].duty)
  <2>1. d.num = points[1].duty /\ d.den = 1 /\ points[1].duty \in Int /\ points[1].temp \in Int
    BY <1>1, <1>3 DEF Whole
  <2>2. i = 1 \/ (points[1].temp < points[i].temp /\ points[1].duty <= points[i].duty)
    BY <1>1, <1>i
  <2>3. points[i].temp <= t => i = 1
    BY <1>3, <1>i, <2>1, <2>2
  <2> QED BY <1>i, <2>1, <2>2, <2>3
<1>4. CASE points[1].temp < t /\ points[n].temp <= t /\ d = Whole(points[n].duty)
  <2>1. d.num = points[n].duty /\ d.den = 1 /\ points[n].duty \in Int /\ points[n].temp \in Int
    BY <1>1, <1>4 DEF Whole
  <2>2. i = n \/ (points[i].temp < points[n].temp /\ points[i].duty <= points[n].duty)
    BY <1>1, <1>i
  <2>3. t <= points[i].temp => i = n
    BY <1>4, <1>i, <2>1, <2>2
  <2> QED BY <1>i, <2>1, <2>2, <2>3
<1>5. ASSUME NEW k \in 1 .. n - 1, points[k].temp <= t, t <= points[k + 1].temp,
             d = Between(points[k], points[k + 1], t)
      PROVE  /\ d.num \in Int /\ d.den \in Int /\ 0 < d.den
             /\ t <= points[i].temp => d.num <= points[i].duty * d.den
             /\ points[i].temp <= t => points[i].duty * d.den <= d.num
  <2>1. k \in 1 .. n /\ k + 1 \in 1 .. n /\ k < k + 1 /\ k \in Int
    BY <1>1
  <2>2. /\ points[k] \in Point /\ points[k].temp \in Int /\ points[k].duty \in Int
        /\ points[k + 1] \in Point /\ points[k + 1].temp \in Int /\ points[k + 1].duty \in Int
        /\ points[k].temp < points[k + 1].temp /\ points[k].duty <= points[k + 1].duty
    BY <1>1, <2>1
  <2>3. /\ d.num \in Int /\ d.den \in Int /\ 0 < d.den
        /\ points[k].duty * d.den <= d.num /\ d.num <= points[k + 1].duty * d.den
        /\ t = points[k].temp => d.num = points[k].duty * d.den
        /\ t = points[k + 1].temp => d.num = points[k + 1].duty * d.den
    <3>1. t \in Int
      OBVIOUS
    <3> QED BY <1>5, <2>2, <3>1, BetweenEnds, Zenon
  <2>4. CASE i <= k
    <3>1. /\ points[i].temp <= points[k].temp /\ points[i].duty <= points[k].duty
          /\ (i = k \/ points[i].temp < points[k].temp)
      <4>1. i = k \/ i < k
        BY <1>i, <2>1, <2>4
      <4>2. i < k => points[i].temp < points[k].temp /\ points[i].duty <= points[k].duty
        BY <1>1, <1>i, <2>1, Zenon
      <4> QED BY <1>i, <2>2, <4>1, <4>2
    <3>3. points[i].duty * d.den <= d.num
      BY <1>i, <2>2, <2>3, <3>1, ScalesUnder, Zenon
    <3>4. t <= points[i].temp => i = k /\ t = points[k].temp
      BY <1>5, <1>i, <2>2, <3>1
    <3>5. t <= points[i].temp => d.num = points[i].duty * d.den
      BY <2>3, <3>4
    <3> QED BY <1>i, <2>3, <3>3, <3>5
  <2>5. CASE k < i
    <3>1. /\ points[k + 1].temp <= points[i].temp /\ points[k + 1].duty <= points[i].duty
          /\ (i = k + 1 \/ points[k + 1].temp < points[i].temp)
      <4>1. i = k + 1 \/ k + 1 < i
        BY <1>i, <2>1, <2>5
      <4>2. k + 1 < i => points[k + 1].temp < points[i].temp /\ points[k + 1].duty <= points[i].duty
        BY <1>1, <1>i, <2>1, Zenon
      <4> QED BY <1>i, <2>2, <4>1, <4>2
    <3>3. d.num <= points[i].duty * d.den
      BY <1>i, <2>2, <2>3, <3>1, ScalesUnder, Zenon
    <3>4. points[i].temp <= t => i = k + 1 /\ t = points[k + 1].temp
      BY <1>5, <1>i, <2>2, <3>1
    <3>5. points[i].temp <= t => d.num = points[i].duty * d.den
      BY <2>3, <3>4
    <3> QED BY <1>i, <2>3, <3>3, <3>5
  <2> QED BY <1>i, <2>1, <2>4, <2>5
<1> QED BY <1>2, <1>3, <1>4, <1>5

(* Fractions with positive denominators, one on each side of a whole number. *)
LEMMA Straddle ==
  ASSUME NEW a \in [num : Int, den : Int], NEW b \in [num : Int, den : Int],
         0 < a.den, 0 < b.den, NEW w \in Int, a.num <= w * a.den, w * b.den <= b.num
  PROVE  ~Less(b, a)
<1>1. a.num \in Int /\ a.den \in Int /\ b.num \in Int /\ b.den \in Int
  OBVIOUS
<1> DEFINE an == a.num
<1> DEFINE ad == a.den
<1> DEFINE bn == b.num
<1> DEFINE bd == b.den
<1>2. /\ an \in Int /\ ad \in Int /\ bn \in Int /\ bd \in Int /\ 0 < ad /\ 0 < bd
      /\ an <= w * ad /\ w * bd <= bn
  BY <1>1
<1> HIDE DEF an, ad, bn, bd
<1>3. an * bd <= (w * ad) * bd /\ (w * bd) * ad <= bn * ad
  BY <1>2, Scales
<1>4. (w * ad) * bd = (w * bd) * ad
  BY <1>2
<1>5. /\ an * bd \in Int /\ (w * ad) * bd \in Int /\ bn * ad \in Int
  BY <1>2
<1>6. ~(bn * ad < an * bd)
  BY <1>3, <1>4, <1>5
<1> QED BY <1>6, Zenon DEF Less, an, ad, bn, bd

LEMMA LessIrreflexive ==
  ASSUME NEW a \in [num : Int, den : Int]
  PROVE  ~Less(a, a) /\ Same(a, a)
<1>1. a.num * a.den \in Int
  OBVIOUS
<1> QED BY <1>1 DEF Less, Same

(* No duty is below that of the first point or above the highest. *)
LEMMA DutyRange ==
  ASSUME IsCurve(points), NEW t \in Int, NEW high \in Int,
         \A i \in 1 .. Len(points) : points[i].duty <= high
  PROVE  /\ RawDutyPct(t) \in [num : Int, den : Int] /\ 0 < RawDutyPct(t).den
         /\ 0 * RawDutyPct(t).den <= RawDutyPct(t).num
         /\ RawDutyPct(t).num <= high * RawDutyPct(t).den
<1> DEFINE n == Len(points)
<1> DEFINE d == RawDutyPct(t)
<1>1. /\ n \in Nat /\ 1 \in 1 .. n /\ n \in 1 .. n
      /\ \A j \in 1 .. n : /\ points[j].temp \in Int /\ points[j].duty \in Int
                           /\ 0 <= points[j].duty
      /\ n = 1 \/ points[1].temp < points[n].temp
  <2>1. \A j \in 1 .. n : points[j].temp \in Int /\ points[j].duty \in Int /\ 0 <= points[j].duty
    BY CurvePoints
  <2>2. n \in Nat /\ 1 \in 1 .. n /\ n \in 1 .. n
    BY CurvePoints
  <2>3. 1 < n => points[1].temp < points[n].temp
    BY <2>2, CurvePoints
  <2>4. n = 1 \/ 1 < n
    BY <2>2
  <2>5. n = 1 \/ points[1].temp < points[n].temp
    BY <2>3, <2>4
  <2> QED BY <2>1, <2>2, <2>5
<1>2. d \in [num : Int, den : Int]
  <2>1. d = [num |-> d.num, den |-> d.den]
    BY DutyCases DEF Whole, Between
  <2>2. d.num \in Int /\ d.den \in Int
    BY <1>1, KnotBounds
  <2> HIDE DEF d
  <2> QED BY <2>1, <2>2
<1>3. /\ d.num \in Int /\ d.den \in Int /\ 0 < d.den
      /\ points[1].temp <= t => points[1].duty * d.den <= d.num
      /\ t <= points[n].temp => d.num <= points[n].duty * d.den
  <2>1. /\ d.num \in Int /\ d.den \in Int /\ 0 < d.den
        /\ points[1].temp <= t => points[1].duty * d.den <= d.num
    BY <1>1, KnotBounds
  <2>2. t <= points[n].temp => d.num <= points[n].duty * d.den
    BY <1>1, KnotBounds
  <2> QED BY <2>1, <2>2
<1>4. t < points[1].temp => d = Whole(points[1].duty)
  <2>1. points[1].temp \in Int
    BY <1>1
  <2> QED BY <2>1, DutyCases
<1>5. points[n].temp < t => d = Whole(points[n].duty)
  <2>1. points[1].temp \in Int /\ points[n].temp \in Int /\ points[1].temp <= points[n].temp
    BY <1>1
  <2> HIDE DEF d
  <2>2. \/ t <= points[1].temp
        \/ d = Whole(points[n].duty)
        \/ t < points[n].temp
    BY DutyCases DEF d
  <2> QED BY <2>1, <2>2
<1>6. points[1].duty \in Int /\ 0 <= points[1].duty /\ points[n].duty \in Int
      /\ points[1].temp \in Int /\ points[n].temp \in Int /\ points[n].duty <= high
  BY <1>1
<1> HIDE DEF d, n
<1>7. 0 * d.den <= d.num
  <2>1. CASE points[1].temp <= t
    <3>1. 0 \in Int
      OBVIOUS
    <3> QED BY <1>3, <1>6, <2>1, <3>1, ScalesUnder, Zenon
  <2>2. CASE t < points[1].temp
    <3>1. d.num = points[1].duty /\ d.den = 1
      BY <1>4, <2>2 DEF Whole
    <3> QED BY <1>6, <3>1
  <2> QED BY <1>6, <2>1, <2>2
<1>8. d.num <= high * d.den
  <2>1. CASE t <= points[n].temp
    BY <1>3, <1>6, <2>1, ScalesUnder, Zenon
  <2>2. CASE points[n].temp < t
    <3>1. d.num = points[n].duty /\ d.den = 1
      BY <1>5, <2>2 DEF Whole
    <3> QED BY <1>6, <3>1
  <2> QED BY <1>6, <2>1, <2>2
<1> QED BY <1>2, <1>3, <1>7, <1>8 DEF d

(* Two temperatures on one segment. *)
LEMMA SegmentClimbs ==
  ASSUME NEW p \in Point, NEW q \in Point, p.temp < q.temp, p.duty <= q.duty,
         NEW t \in Int, NEW u \in Int, p.temp <= t, t <= u, u <= q.temp
  PROVE  ~Less(Between(p, q, u), Between(p, q, t))
<1> DEFINE a == p.duty
<1> DEFINE r == q.duty - p.duty
<1> DEFINE D == q.temp - p.temp
<1> DEFINE s == t - p.temp
<1> DEFINE v == u - p.temp
<1>1. /\ a \in Int /\ r \in Int /\ D \in Int /\ s \in Int /\ v \in Int
      /\ 0 <= r /\ 0 <= D /\ s <= v
  BY DEF Point
<1>2. /\ Between(p, q, t) = [num |-> a * D + r * s, den |-> D]
      /\ Between(p, q, u) = [num |-> a * D + r * v, den |-> D]
  BY DEF Between
<1> HIDE DEF a, r, D, s, v
<1>3. r * s <= r * v
  BY <1>1, Scales
<1> DEFINE x == a * D + r * s
<1> DEFINE y == a * D + r * v
<1>4. x \in Int /\ y \in Int /\ x <= y
  <2>1. a * D \in Int /\ r * s \in Int /\ r * v \in Int
    BY <1>1
  <2> QED BY <1>3, <2>1
<1>5. Between(p, q, t) = [num |-> x, den |-> D] /\ Between(p, q, u) = [num |-> y, den |-> D]
  BY <1>2
<1> HIDE DEF x, y
<1>6. x * D <= y * D
  BY <1>1, <1>4, Scales
<1>7. ~(y * D < x * D)
  <2>1. x * D \in Int /\ y * D \in Int
    BY <1>1, <1>4
  <2> QED BY <1>6, <2>1
<1> QED BY <1>5, <1>7 DEF Less

(* A higher temperature never asks for less: a point between the two, or one *)
(* segment that holds both.                                                  *)
LEMMA DutyClimbs ==
  ASSUME IsCurve(points), NEW t \in Int, NEW u \in Int, t <= u
  PROVE  ~Less(RawDutyPct(u), RawDutyPct(t))
<1> DEFINE n == Len(points)
<1>1. /\ n \in Nat /\ 1 \in 1 .. n /\ n \in 1 .. n
      /\ \A j \in 1 .. n : points[j] \in Point /\ points[j].temp \in Int /\ points[j].duty \in Int
      /\ \A j, k \in 1 .. n :
           j < k => points[j].temp < points[k].temp /\ points[j].duty <= points[k].duty
  BY CurvePoints
<1>0. \A w \in Int : RawDutyPct(w) \in [num : Int, den : Int] /\ 0 < RawDutyPct(w).den
  <2> SUFFICES ASSUME NEW w \in Int
               PROVE  RawDutyPct(w) \in [num : Int, den : Int] /\ 0 < RawDutyPct(w).den
    OBVIOUS
  <2>1. 100 \in Int /\ \A i \in 1 .. Len(points) : points[i].duty <= 100
    BY CurvePoints
  <2> QED BY <2>1, DutyRange
<1>2. CASE \E i \in 1 .. n : t <= points[i].temp /\ points[i].temp <= u
  <2>1. PICK i \in 1 .. n : t <= points[i].temp /\ points[i].temp <= u
    BY <1>2
  <2>2. RawDutyPct(t).num <= points[i].duty * RawDutyPct(t).den
    BY <2>1, KnotBounds
  <2>3. points[i].duty * RawDutyPct(u).den <= RawDutyPct(u).num
    BY <2>1, KnotBounds
  <2>4. points[i].duty \in Int
    BY <1>1
  <2> QED BY <1>0, <2>2, <2>3, <2>4, Straddle
<1>3. CASE ~\E i \in 1 .. n : t <= points[i].temp /\ points[i].temp <= u
  <2>0. \A i \in 1 .. n : ~(t <= points[i].temp /\ points[i].temp <= u)
    BY <1>3
  <2>1. CASE t <= points[1].temp
    <3>1. u <= points[1].temp
      BY <1>1, <2>0, <2>1
    <3>2. ~(u > points[1].temp) /\ ~(t > points[1].temp)
      BY <1>1, <2>1, <3>1
    <3>3. RawDutyPct(u) = Whole(points[1].duty) /\ RawDutyPct(t) = Whole(points[1].duty)
      BY <2>1, <3>1, <3>2 DEF RawDutyPct
    <3> QED BY <1>0, <3>3, LessIrreflexive
  <2>2. CASE points[1].temp < t /\ points[n].temp <= t
    <3>1. points[1].temp < u /\ points[n].temp <= u /\ points[1].temp \in Int
      BY <1>1, <2>2
    <3>2. /\ ~(u <= points[1].temp) /\ u > points[1].temp /\ u >= points[n].temp
          /\ ~(t <= points[1].temp) /\ t > points[1].temp /\ t >= points[n].temp
      BY <1>1, <2>2, <3>1
    <3>3. RawDutyPct(u) = RawDutyPct(t)
      BY <3>2 DEF RawDutyPct
    <3> QED BY <1>0, <3>3, LessIrreflexive
  <2>3. CASE points[1].temp < t /\ t < points[n].temp
    <3>1. PICK k \in 1 .. n - 1 : /\ points[k].temp <= t /\ t <= points[k + 1].temp
                                  /\ RawDutyPct(t) = Between(points[k], points[k + 1], t)
      <4>1. ~(t <= points[1].temp) /\ ~(points[n].temp <= t)
        BY <1>1, <2>3
      <4> QED BY <4>1, DutyCases
    <3>2. points[1].temp < u /\ u < points[n].temp
      BY <1>1, <2>0, <2>3
    <3>3. PICK m \in 1 .. n - 1 : /\ points[m].temp <= u /\ u <= points[m + 1].temp
                                  /\ RawDutyPct(u) = Between(points[m], points[m + 1], u)
      <4>1. ~(u <= points[1].temp) /\ ~(points[n].temp <= u)
        BY <1>1, <3>2
      <4> QED BY <4>1, DutyCases
    <3> HIDE DEF n
    <3>4. k \in 1 .. n /\ k + 1 \in 1 .. n /\ m \in 1 .. n /\ m + 1 \in 1 .. n /\ k < k + 1
      BY <1>1
    <3>5. u < points[k + 1].temp
      BY <1>1, <2>0, <3>1, <3>4
    <3>6. m = k
      <4>1. CASE m < k
        <5>1. m + 1 <= k /\ (m + 1 = k \/ points[m + 1].temp < points[k].temp)
          BY <1>1, <3>4, <4>1
        <5>2. u <= points[k].temp /\ points[k].temp <= u
          BY <1>1, <3>1, <3>3, <3>4, <5>1
        <5> QED BY <1>1, <2>0, <3>4, <5>2
      <4>2. CASE k < m
        <5>1. m = k + 1 \/ points[k + 1].temp < points[m].temp
          BY <1>1, <3>4, <4>2
        <5> QED BY <1>1, <3>3, <3>4, <3>5, <5>1
      <4> QED BY <3>4, <4>1, <4>2
    <3>7. /\ points[k] \in Point /\ points[k + 1] \in Point
          /\ points[k].temp < points[k + 1].temp /\ points[k].duty <= points[k + 1].duty
      BY <1>1, <3>4
    <3> QED BY <3>1, <3>3, <3>6, <3>7, SegmentClimbs
  <2> QED BY <1>1, <2>1, <2>2, <2>3
<1> QED BY <1>2, <1>3

-----------------------------------------------------------------------------
(* The reference finds the same points. *)

LEMMA HighestIs ==
  ASSUME IsCurve(points), PointSet = {points[k] : k \in 1 .. Len(points)},
         NEW t \in Int, NEW i \in 1 .. Len(points), points[i].temp <= t,
         \A j \in 1 .. Len(points) : i < j => ~(points[j].temp <= t)
  PROVE  Below(t) # {} /\ Highest(Below(t)) = points[i]
<1> DEFINE n == Len(points)
<1>1. /\ n \in Nat /\ \A j \in 1 .. n : points[j].temp \in Int
      /\ \A j, k \in 1 .. n : j < k => points[j].temp < points[k].temp
  BY CurvePoints
<1>2. points[i] \in Below(t)
  BY DEF Below
<1>3. \A q \in Below(t) : \E k \in 1 .. n : q = points[k] /\ k <= i
  <2> SUFFICES ASSUME NEW q \in Below(t) PROVE \E k \in 1 .. n : q = points[k] /\ k <= i
    OBVIOUS
  <2>1. PICK k \in 1 .. n : q = points[k] /\ points[k].temp <= t
    BY DEF Below
  <2>2. ~(i < k)
    BY <2>1
  <2>3. i \in Int /\ k \in Int
    BY <1>1
  <2> QED BY <2>1, <2>2, <2>3
<1> HIDE DEF n
<1>4. i \in 1 .. n
  BY DEF n
<1>5. \A q \in Below(t) : q.temp <= points[i].temp
  BY <1>1, <1>3, <1>4
<1>6. ASSUME NEW p \in Below(t), \A q \in Below(t) : q.temp <= p.temp PROVE p = points[i]
  <2>1. PICK k \in 1 .. n : p = points[k] /\ k <= i
    BY <1>3
  <2>2. points[i].temp <= points[k].temp
    BY <1>2, <1>6, <2>1
  <2>3. ~(k < i)
    BY <1>1, <1>4, <2>1, <2>2
  <2> QED BY <1>4, <2>1, <2>3
<1> QED BY <1>2, <1>5, <1>6 DEF Highest

LEMMA LowestIs ==
  ASSUME IsCurve(points), PointSet = {points[k] : k \in 1 .. Len(points)},
         NEW t \in Int, NEW i \in 1 .. Len(points), t <= points[i].temp,
         \A j \in 1 .. Len(points) : j < i => ~(t <= points[j].temp)
  PROVE  Above(t) # {} /\ Lowest(Above(t)) = points[i]
<1> DEFINE n == Len(points)
<1>1. /\ n \in Nat /\ \A j \in 1 .. n : points[j].temp \in Int
      /\ \A j, k \in 1 .. n : j < k => points[j].temp < points[k].temp
  BY CurvePoints
<1>2. points[i] \in Above(t)
  BY DEF Above
<1>3. \A q \in Above(t) : \E k \in 1 .. n : q = points[k] /\ i <= k
  <2> SUFFICES ASSUME NEW q \in Above(t) PROVE \E k \in 1 .. n : q = points[k] /\ i <= k
    OBVIOUS
  <2>1. PICK k \in 1 .. n : q = points[k] /\ t <= points[k].temp
    BY DEF Above
  <2>2. ~(k < i)
    BY <2>1
  <2>3. i \in Int /\ k \in Int
    BY <1>1
  <2> QED BY <2>1, <2>2, <2>3
<1> HIDE DEF n
<1>4. i \in 1 .. n
  BY DEF n
<1>5. \A q \in Above(t) : points[i].temp <= q.temp
  BY <1>1, <1>3, <1>4
<1>6. ASSUME NEW p \in Above(t), \A q \in Above(t) : p.temp <= q.temp PROVE p = points[i]
  <2>1. PICK k \in 1 .. n : p = points[k] /\ i <= k
    BY <1>3
  <2>2. points[k].temp <= points[i].temp
    BY <1>2, <1>6, <2>1
  <2>3. ~(i < k)
    BY <1>1, <1>4, <2>1, <2>2
  <2> QED BY <1>4, <2>1, <2>3
<1> QED BY <1>2, <1>5, <1>6 DEF Lowest

LEMMA OnCurveCases ==
  ASSUME NEW t, NEW d
  PROVE  /\ Below(t) = {} /\ Same(d, Whole(Lowest(Above(t)).duty)) => OnCurve(t, d)
         /\ Below(t) # {} /\ Above(t) = {} /\ Same(d, Whole(Highest(Below(t)).duty))
              => OnCurve(t, d)
         /\ Below(t) # {} /\ Highest(Below(t)) = Lowest(Above(t))
              /\ Same(d, Whole(Highest(Below(t)).duty))
              => OnCurve(t, d)
  BY DEF OnCurve

LEMMA DutyOnCurve ==
  ASSUME IsCurve(points), PointSet = {points[k] : k \in 1 .. Len(points)}, NEW t \in Int
  PROVE  OnCurve(t, RawDutyPct(t))
<1> DEFINE n == Len(points)
<1> DEFINE d == RawDutyPct(t)
<1>1. /\ n \in Nat /\ 1 \in 1 .. n /\ n \in 1 .. n
      /\ \A j \in 1 .. n : points[j] \in Point /\ points[j].temp \in Int /\ points[j].duty \in Int
      /\ \A j, k \in 1 .. n :
           j < k => points[j].temp < points[k].temp /\ points[j].duty <= points[k].duty
  BY CurvePoints
<1>w. ASSUME NEW k \in 1 .. n PROVE Same(Whole(points[k].duty), Whole(points[k].duty))
  BY <1>1 DEF Same, Whole
<1>2. ASSUME NEW k \in 1 .. n, points[k].temp <= t, \A j \in 1 .. n : k < j => ~(points[j].temp <= t)
      PROVE  Below(t) # {} /\ Highest(Below(t)) = points[k]
  BY <1>2, HighestIs
<1>3. ASSUME NEW k \in 1 .. n, t <= points[k].temp, \A j \in 1 .. n : j < k => ~(t <= points[j].temp)
      PROVE  Above(t) # {} /\ Lowest(Above(t)) = points[k]
  BY <1>3, LowestIs
<1>4. \/ t <= points[1].temp /\ d = Whole(points[1].duty)
      \/ points[1].temp < t /\ points[n].temp <= t /\ d = Whole(points[n].duty)
      \/ \E k \in 1 .. n - 1 : /\ points[k].temp <= t /\ t <= points[k + 1].temp
                               /\ d = Between(points[k], points[k + 1], t)
  BY DutyCases
<1> HIDE DEF n, d
<1> SUFFICES OnCurve(t, d)
  BY DEF d
(* On a point both neighbours are that point. *)
<1>5. ASSUME NEW k \in 1 .. n, t = points[k].temp, Same(d, Whole(points[k].duty))
      PROVE  OnCurve(t, d)
  <2>1. Below(t) # {} /\ Highest(Below(t)) = points[k]
    <3>1. \A j \in 1 .. n : k < j => ~(points[j].temp <= t)
      BY <1>1, <1>5
    <3>2. points[k].temp <= t
      BY <1>5
    <3> QED BY <1>2, <3>1, <3>2
  <2>2. Lowest(Above(t)) = points[k]
    <3>1. \A j \in 1 .. n : j < k => ~(t <= points[j].temp)
      BY <1>1, <1>5
    <3>2. t <= points[k].temp
      BY <1>5
    <3> QED BY <1>3, <3>1, <3>2
  <2> QED BY <1>5, <2>1, <2>2, OnCurveCases
<1>6. CASE t <= points[1].temp /\ d = Whole(points[1].duty)
  <2>1. CASE t = points[1].temp
    <3>1. Same(d, Whole(points[1].duty))
      BY <1>1, <1>6, <1>w
    <3> QED BY <1>1, <1>5, <2>1, <3>1
  <2>2. CASE t # points[1].temp
    <3>1. Below(t) = {}
      <4> SUFFICES ASSUME NEW k \in 1 .. n, points[k].temp <= t PROVE FALSE
        BY DEF Below, n
      <4>1. k = 1 \/ points[1].temp < points[k].temp
        BY <1>1
      <4> QED BY <1>1, <1>6, <2>2, <4>1
    <3>2. Lowest(Above(t)) = points[1]
      <4>1. \A j \in 1 .. n : j < 1 => ~(t <= points[j].temp)
        BY <1>1
      <4> QED BY <1>1, <1>3, <1>6, <4>1
    <3>3. Same(d, Whole(points[1].duty))
      BY <1>1, <1>6, <1>w
    <3> QED BY <3>1, <3>2, <3>3, OnCurveCases
  <2> QED BY <2>1, <2>2
<1>7. CASE points[1].temp < t /\ points[n].temp <= t /\ d = Whole(points[n].duty)
  <2>1. CASE t = points[n].temp
    <3>1. Same(d, Whole(points[n].duty))
      BY <1>1, <1>7, <1>w
    <3> QED BY <1>1, <1>5, <2>1, <3>1
  <2>2. CASE t # points[n].temp
    <3>1. Above(t) = {}
      <4> SUFFICES ASSUME NEW k \in 1 .. n, t <= points[k].temp PROVE FALSE
        BY DEF Above, n
      <4>1. k = n \/ points[k].temp < points[n].temp
        BY <1>1
      <4> QED BY <1>1, <1>7, <2>2, <4>1
    <3>2. Below(t) # {} /\ Highest(Below(t)) = points[n]
      <4>1. \A j \in 1 .. n : n < j => ~(points[j].temp <= t)
        BY <1>1
      <4> QED BY <1>1, <1>2, <1>7, <4>1
    <3>3. Same(d, Whole(points[n].duty))
      BY <1>1, <1>7, <1>w
    <3> QED BY <3>1, <3>2, <3>3, OnCurveCases
  <2> QED BY <2>1, <2>2
<1>8. ASSUME NEW k \in 1 .. n - 1, points[k].temp <= t, t <= points[k + 1].temp,
             d = Between(points[k], points[k + 1], t)
      PROVE  OnCurve(t, d)
  <2>1. k \in 1 .. n /\ k + 1 \in 1 .. n /\ k < k + 1 /\ k \in Int
    BY <1>1
  <2> DEFINE p == points[k]
  <2> DEFINE q == points[k + 1]
  <2>2. /\ p \in Point /\ q \in Point /\ p.temp \in Int /\ q.temp \in Int
        /\ p.duty \in Int /\ q.duty \in Int /\ p.temp < q.temp /\ p.duty <= q.duty
    BY <1>1, <2>1
  <2>3. /\ d.den = q.temp - p.temp /\ d.den \in Int /\ d.num \in Int
        /\ d.num = p.duty * (q.temp - p.temp) + (q.duty - p.duty) * (t - p.temp)
        /\ t = p.temp => d.num = p.duty * d.den
        /\ t = q.temp => d.num = q.duty * d.den
    <3>1. p.temp <= t /\ t <= q.temp /\ d = Between(p, q, t) /\ t \in Int
      BY <1>8
    <3> HIDE DEF p, q
    <3>2. /\ Between(p, q, t).den = q.temp - p.temp
          /\ Between(p, q, t).num =
               p.duty * (q.temp - p.temp) + (q.duty - p.duty) * (t - p.temp)
          /\ Between(p, q, t).den \in Int /\ Between(p, q, t).num \in Int
          /\ t = p.temp => Between(p, q, t).num = p.duty * Between(p, q, t).den
          /\ t = q.temp => Between(p, q, t).num = q.duty * Between(p, q, t).den
      BY <2>2, <3>1, BetweenEnds, Zenon
    <3> QED BY <3>1, <3>2, Zenon
  <2>4. CASE t = p.temp
    <3>1. Same(d, Whole(p.duty))
      <4>1. d.num = p.duty * d.den
        BY <2>3, <2>4, Zenon
      <4>2. d.num * 1 = d.num
        BY <2>3
      <4>3. Whole(p.duty).num = p.duty /\ Whole(p.duty).den = 1
        BY DEF Whole
      <4> HIDE DEF p, q
      <4> QED BY <4>1, <4>2, <4>3, Zenon DEF Same
    <3> QED BY <1>5, <2>1, <2>4, <3>1
  <2>5. CASE t = q.temp
    <3>1. Same(d, Whole(q.duty))
      <4>1. d.num = q.duty * d.den
        BY <2>3, <2>5, Zenon
      <4>2. d.num * 1 = d.num
        BY <2>3
      <4>3. Whole(q.duty).num = q.duty /\ Whole(q.duty).den = 1
        BY DEF Whole
      <4> HIDE DEF p, q
      <4> QED BY <4>1, <4>2, <4>3, Zenon DEF Same
    <3> QED BY <1>5, <2>1, <2>5, <3>1
  <2>6. CASE t # p.temp /\ t # q.temp
    <3>1. p.temp < t /\ t < q.temp
      BY <1>8, <2>2, <2>6
    <3>2. Below(t) # {} /\ Highest(Below(t)) = p
      <4>1. ASSUME NEW j \in 1 .. n, k < j PROVE ~(points[j].temp <= t)
        <5>1. j = k + 1 \/ q.temp < points[j].temp
          BY <1>1, <2>1, <4>1
        <5> QED BY <1>1, <2>2, <3>1, <5>1
      <4> QED BY <1>2, <1>8, <2>1, <4>1
    <3>3. Above(t) # {} /\ Lowest(Above(t)) = q
      <4>1. ASSUME NEW j \in 1 .. n, j < k + 1 PROVE ~(t <= points[j].temp)
        <5>1. j = k \/ points[j].temp < p.temp
          BY <1>1, <2>1, <4>1
        <5> QED BY <1>1, <2>2, <3>1, <5>1
      <4> QED BY <1>3, <1>8, <2>1, <4>1
    <3>4. p # q
      BY <2>2
    <3>5. d.num * (q.temp - p.temp) =
            d.den * (p.duty * (q.temp - p.temp) + (q.duty - p.duty) * (t - p.temp))
      <4>1. d.num * d.den = d.den * d.num
        BY <2>3
      <4> HIDE DEF p, q
      <4> QED BY <2>3, <4>1, Zenon
    <3> HIDE DEF p, q
    <3> QED BY <3>2, <3>3, <3>4, <3>5 DEF OnCurve
  <2> QED BY <2>4, <2>5, <2>6
<1> QED BY <1>4, <1>6, <1>7, <1>8

-----------------------------------------------------------------------------
(* One curve, from the list handed over to the duties returned. *)

ListInv ==
  /\ input \in PointLists /\ hysteresis \in Hysteresis
  /\ status \in {"new", "built", "rejected"}
  /\ status # "built" => points = input
  /\ status = "rejected" => ~Accepts(input)
  /\ status = "built" => Accepts(input) /\ points = Sorted(input)

(* What is returned is the setpoint hysteresis remembers, and the temperature *)
(* it came from is not above the highest since.                               *)
MemoryInv ==
  /\ returned = lastDuty
  /\ lastDuty # NoDuty => /\ lastDuty \in [num : Int, den : Int]
                          /\ lastTemp \in Temp /\ peak \in Temp /\ lastTemp <= peak

CurveInv == ListInv /\ MemoryInv

LEMMA BuiltIsCurve ==
  ASSUME ListInv, status = "built"
  PROVE  /\ IsCurve(points) /\ PointSet = {points[i] : i \in 1 .. Len(points)}
<1>1. input \in Seq(Point) /\ Accepts(input) /\ points = Sorted(input)
  BY CurveAssumption DEF ListInv, Point
<1>2. /\ points \in Seq(Point) /\ Len(points) = Len(input) /\ Len(input) \in Nat
      /\ DOMAIN input = 1 .. Len(input)
  <2>1. Sorted(input) \in Seq(Point) /\ Len(Sorted(input)) = Len(input)
    BY <1>1, SortedReorders, Zenon
  <2>2. Len(input) \in Nat /\ DOMAIN input = 1 .. Len(input)
    BY <1>1
  <2> QED BY <1>1, <2>1, <2>2
<1>3. IsCurve(points)
  <2>1. /\ Ascending(Sorted(input)) /\ Len(input) >= 1
        /\ \A i \in 1 .. Len(input) : Sorted(input)[i].duty \in 0 .. 100
    BY <1>1, AcceptsConsistent, Zenon
  <2> QED BY <1>1, <1>2, <2>1 DEF IsCurve
<1>4. PICK p \in Bijection(1 .. Len(input), 1 .. Len(input)) :
             \A i \in 1 .. Len(input) : points[i] = input[p[i]]
  BY <1>1, SortedReorders
<1>5. /\ \A i \in 1 .. Len(input) : p[i] \in 1 .. Len(input)
      /\ \A k \in 1 .. Len(input) : \E i \in 1 .. Len(input) : p[i] = k
  BY <1>4 DEF Bijection, Injection, Surjection
<1>6. ASSUME NEW k \in 1 .. Len(input)
      PROVE  /\ \E i \in 1 .. Len(input) : input[k] = points[i]
             /\ \E i \in 1 .. Len(input) : points[k] = input[i]
  <2>1. PICK i \in 1 .. Len(input) : p[i] = k
    BY <1>5
  <2>2. points[i] = input[k]
    BY <1>4, <2>1
  <2>3. p[k] \in 1 .. Len(input) /\ points[k] = input[p[k]]
    BY <1>4, <1>5
  <2> QED BY <2>2, <2>3
<1> DEFINE n == Len(input)
<1>7. Len(points) = n /\ DOMAIN input = 1 .. n
  BY <1>2
<1> HIDE DEF n
<1>8. {input[i] : i \in 1 .. n} = {points[i] : i \in 1 .. n}
  <2>1. \A k \in 1 .. n : /\ \E i \in 1 .. n : input[k] = points[i]
                          /\ \E i \in 1 .. n : points[k] = input[i]
    BY <1>6, Zenon DEF n
  <2>2. ASSUME NEW x \in {input[i] : i \in 1 .. n} PROVE x \in {points[i] : i \in 1 .. n}
    <3>1. PICK k \in 1 .. n : x = input[k]
      OBVIOUS
    <3>2. PICK i \in 1 .. n : input[k] = points[i]
      BY <2>1, <3>1, Zenon
    <3> QED BY <3>1, <3>2
  <2>3. ASSUME NEW x \in {points[i] : i \in 1 .. n} PROVE x \in {input[i] : i \in 1 .. n}
    <3>1. PICK k \in 1 .. n : x = points[k]
      OBVIOUS
    <3>2. PICK i \in 1 .. n : points[k] = input[i]
      BY <2>1, <3>1, Zenon
    <3> QED BY <3>1, <3>2
  <2> QED BY <2>2, <2>3, Zenon
<1> QED BY <1>3, <1>7, <1>8 DEF PointSet

LEMMA InitCurve == Init => CurveInv
<1> SUFFICES ASSUME Init PROVE CurveInv
  OBVIOUS
<1>1. ListInv
  BY DEF Init, ListInv
<1>2. MemoryInv
  BY DEF Init, MemoryInv
<1> QED BY <1>1, <1>2 DEF CurveInv

LEMMA StepCurve == CurveInv /\ [Next]_vars => CurveInv'
<1> SUFFICES ASSUME CurveInv, [Next]_vars PROVE CurveInv'
  OBVIOUS
<1>0. ListInv /\ MemoryInv
  BY DEF CurveInv
<1>1. CASE Build
  <2>1. /\ status = "new" /\ UNCHANGED <<hysteresis, lastTemp, lastDuty, returned, input, peak>>
        /\ IF Accepts(points)
             THEN status' = "built" /\ points' = Sorted(points)
             ELSE status' = "rejected" /\ UNCHANGED points
    BY <1>1 DEF Build
  <2>2. points = input
    BY <1>0, <2>1 DEF ListInv
  <2>3. Accepts(input)' <=> Accepts(input)
    BY <2>1 DEF Accepts, Sorted
  <2>4. Sorted(input)' = Sorted(input)
    BY <2>1 DEF Sorted
  <2>5. ListInv'
    <3>1. CASE Accepts(points)
      BY <1>0, <2>1, <2>2, <2>3, <2>4, <3>1 DEF ListInv
    <3>2. CASE ~Accepts(points)
      BY <1>0, <2>1, <2>2, <2>3, <3>2 DEF ListInv
    <3> QED BY <3>1, <3>2
  <2>6. MemoryInv'
    BY <1>0, <2>1 DEF MemoryInv
  <2> QED BY <2>5, <2>6 DEF CurveInv
<1>2. ASSUME NEW t \in Temp, NEW d, status = "built", Return(t, d) PROVE ListInv'
  <2>1. UNCHANGED <<status, points, hysteresis, input>>
    BY <1>2 DEF Return
  <2>2. Sorted(input)' = Sorted(input)
    BY <2>1 DEF Sorted
  <2>3. Accepts(input)' <=> Accepts(input)
    BY <2>1 DEF Accepts, Sorted
  <2> QED BY <1>0, <2>1, <2>2, <2>3 DEF ListInv
<1>3. ASSUME NEW t \in Temp, Keep(t) PROVE CurveInv'
  <2>1. /\ status = "built" /\ lastDuty # NoDuty /\ Return(t, lastDuty)
        /\ UNCHANGED <<lastTemp, lastDuty>>
    BY <1>3 DEF Keep, KeepsDuty
  <2>2. /\ lastDuty \in [num : Int, den : Int] /\ returned = lastDuty
        /\ lastTemp \in Temp /\ peak \in Temp /\ lastTemp <= peak
    BY <1>0, <2>1 DEF MemoryInv
  <2>3. Same(returned, lastDuty)
    BY <2>2, LessIrreflexive
  <2>4. returned' = lastDuty /\ peak' = IF t > peak THEN t ELSE peak
    BY <2>1, <2>2, <2>3 DEF Return
  <2>5. peak' \in Temp /\ lastTemp <= peak'
    BY <2>2, <2>4, CurveAssumption DEF CurveAssumption
  <2>6. MemoryInv'
    BY <2>1, <2>2, <2>4, <2>5 DEF MemoryInv
  <2> QED BY <1>2, <2>1, <2>6 DEF CurveInv
<1>4. ASSUME NEW t \in Temp, Follow(t) PROVE CurveInv'
  <2>1. /\ status = "built" /\ Return(t, RawDutyPct(t))
        /\ lastTemp' = t /\ lastDuty' = RawDutyPct(t)
    BY <1>4 DEF Follow
  <2>2. IsCurve(points)
    BY <1>0, <2>1, BuiltIsCurve
  <2>3. RawDutyPct(t) \in [num : Int, den : Int]
    <3>1. t \in Int /\ 100 \in Int /\ \A i \in 1 .. Len(points) : points[i].duty <= 100
      BY <2>2, CurvePoints, CurveAssumption DEF CurveAssumption
    <3> QED BY <2>2, <3>1, DutyRange
  <2>4. /\ returned' = RawDutyPct(t)
        /\ peak' = IF returned = NoDuty \/ ~Same(returned, RawDutyPct(t)) \/ t > peak
                     THEN t ELSE peak
    BY <2>1 DEF Return
  <2>5. peak' \in Temp /\ t <= peak'
    <3>1. CASE returned = NoDuty \/ ~Same(returned, RawDutyPct(t)) \/ t > peak
      BY <2>4, <3>1, CurveAssumption DEF CurveAssumption
    <3>2. CASE ~(returned = NoDuty \/ ~Same(returned, RawDutyPct(t)) \/ t > peak)
      <4>1. peak' = peak /\ ~(t > peak) /\ returned # NoDuty
        BY <2>4, <3>2
      <4>2. peak \in Temp
        BY <1>0, <4>1 DEF MemoryInv
      <4> QED BY <4>1, <4>2, CurveAssumption DEF CurveAssumption
    <3> QED BY <3>1, <3>2
  <2>6. MemoryInv'
    BY <2>1, <2>3, <2>4, <2>5 DEF MemoryInv
  <2> QED BY <1>2, <2>1, <2>6 DEF CurveInv
<1>5. CASE UNCHANGED vars
  <2>1. UNCHANGED <<status, points, hysteresis, lastTemp, lastDuty, returned, input, peak>>
    BY <1>5 DEF vars
  <2>2. Sorted(input)' = Sorted(input)
    BY <2>1 DEF Sorted
  <2>3. Accepts(input)' <=> Accepts(input)
    BY <2>1 DEF Accepts, Sorted
  <2>4. ListInv'
    BY <1>0, <2>1, <2>2, <2>3 DEF ListInv
  <2>5. MemoryInv'
    BY <1>0, <2>1 DEF MemoryInv
  <2> QED BY <2>4, <2>5 DEF CurveInv
<1> QED BY <1>1, <1>3, <1>4, <1>5 DEF Next

LEMMA CurveInvariant == Spec => []CurveInv
BY InitCurve, StepCurve, PTL DEF Spec

(* Curve.__init__ accepts exactly the lists without a contradiction, in any   *)
(* order and of any length, and raw_duty_pct is then the straight line        *)
(* between the nearest points, within 0 .. 100 and never falling.             *)
THEOREM BuiltCurveIsReference == Spec => []CurveIsReference
<1>1. CurveInv => CurveIsReference
  <2> SUFFICES ASSUME CurveInv PROVE CurveIsReference
    OBVIOUS
  <2>0. ListInv /\ Temp \subseteq Int
    BY CurveAssumption DEF CurveInv
  <2>1. ASSUME status = "built" PROVE Climbs /\ \A t \in Temp : OnCurve(t, RawDutyPct(t))
    <3>1. IsCurve(points) /\ PointSet = {points[i] : i \in 1 .. Len(points)}
      BY <2>0, <2>1, BuiltIsCurve
    <3>2. ASSUME NEW t \in Temp PROVE OnCurve(t, RawDutyPct(t))
      BY <2>0, <3>1, DutyOnCurve
    <3>3. ASSUME NEW t \in Temp
          PROVE  ~Less(RawDutyPct(t), Whole(0)) /\ ~Less(Whole(100), RawDutyPct(t))
      <4>1. t \in Int /\ 100 \in Int /\ \A i \in 1 .. Len(points) : points[i].duty <= 100
        BY <2>0, <3>1, CurvePoints
      <4>2. /\ RawDutyPct(t).num \in Int /\ RawDutyPct(t).den \in Int
            /\ 0 * RawDutyPct(t).den <= RawDutyPct(t).num
            /\ RawDutyPct(t).num <= 100 * RawDutyPct(t).den
        BY <3>1, <4>1, DutyRange
      <4>3. /\ ~(RawDutyPct(t).num * 1 < 0 * RawDutyPct(t).den)
            /\ ~(100 * RawDutyPct(t).den < RawDutyPct(t).num * 1)
        BY <4>2
      <4> QED BY <4>3 DEF Less, Whole
    <3>4. ASSUME NEW t \in Temp, NEW u \in Temp, t <= u
          PROVE  ~Less(RawDutyPct(u), RawDutyPct(t))
      BY <2>0, <3>1, <3>4, DutyClimbs
    <3> QED BY <3>2, <3>3, <3>4 DEF Climbs
  <2>2. Consistent(input) <=>
          /\ input # <<>> /\ \A p \in PointSet : p.duty \in 0 .. 100
          /\ \A i, j \in DOMAIN input : i # j =>
               /\ input[i].temp # input[j].temp
               /\ input[i].temp < input[j].temp => input[i].duty <= input[j].duty
    BY DEF Consistent, PointSet
  <2>3. Accepts(input) <=> Consistent(input)
    <3>1. input \in Seq(Point)
      BY <2>0, CurveAssumption DEF ListInv, Point
    <3> QED BY <3>1, AcceptsConsistent
  <2>4. status # "new" => (status = "built" <=> Accepts(input))
    BY <2>0 DEF ListInv
  <2> QED BY <2>1, <2>2, <2>3, <2>4 DEF CurveIsReference
<1> QED BY <1>1, CurveInvariant, PTL

(* However the readings wander, the returned duty falls only hysteresis_c     *)
(* below the highest temperature since it last changed (Curve.duty_pct).      *)
THEOREM DutyDoesNotFlutter == Spec => NoFlutter
<1>1. CurveInv /\ [Next]_vars =>
        [returned # NoDuty /\ Less(returned', returned) =>
           \E t \in Temp : (Keep(t) \/ Follow(t)) /\ t <= peak - hysteresis]_vars
  <2> SUFFICES ASSUME CurveInv, Next, returned # NoDuty, Less(returned', returned)
               PROVE  \E t \in Temp : (Keep(t) \/ Follow(t)) /\ t <= peak - hysteresis
    BY DEF vars
  <2>0. /\ returned = lastDuty /\ lastDuty # NoDuty /\ lastDuty \in [num : Int, den : Int]
        /\ lastTemp \in Temp /\ peak \in Temp /\ lastTemp <= peak /\ hysteresis \in Nat
    BY CurveAssumption DEF CurveInv, MemoryInv, ListInv
  <2>1. returned' # returned
    BY <2>0, LessIrreflexive
  <2>2. CASE Build
    BY <2>1, <2>2 DEF Build
  <2>3. ASSUME NEW t \in Temp, Keep(t) PROVE FALSE
    BY <2>0, <2>1, <2>3 DEF Keep, Return
  <2>4. ASSUME NEW t \in Temp, Follow(t) PROVE t <= peak - hysteresis
    <3>1. ~KeepsDuty(t) /\ returned' = RawDutyPct(t)
      BY <2>4 DEF Follow, Return
    <3>2. Less(RawDutyPct(t), lastDuty) /\ lastTemp # NoTemp
      BY <2>0, <3>1, CurveAssumption DEF CurveAssumption
    <3>3. ~(t > lastTemp - hysteresis)
      BY <2>0, <3>1, <3>2 DEF KeepsDuty
    <3>4. t \in Int /\ lastTemp \in Int /\ peak \in Int
      BY <2>0, CurveAssumption DEF CurveAssumption
    <3> QED BY <2>0, <3>3, <3>4
  <2> QED BY <2>2, <2>3, <2>4 DEF Next
<1> QED BY <1>1, CurveInvariant, PTL DEF Spec, NoFlutter

-----------------------------------------------------------------------------
(* The rules of Config.__init__. *)

(* Max of a finite set is its greatest element: the one that exceeds most. *)
LEMMA FiniteMax ==
  ASSUME NEW S, S \subseteq Int, S # {}, IsFiniteSet(S)
  PROVE  Max(S) \in S /\ \A x \in S : x <= Max(S)
<1> DEFINE U(x) == {y \in S : y < x}
<1> DEFINE N == Cardinality(S)
<1> DEFINE T == {N - Cardinality(U(x)) : x \in S}
<1>1. ASSUME NEW x \in S
      PROVE  IsFiniteSet(U(x)) /\ Cardinality(U(x)) \in Nat /\ N - Cardinality(U(x)) \in Nat
  <2>1. U(x) \in SUBSET S
    OBVIOUS
  <2> HIDE DEF U
  <2>2. IsFiniteSet(U(x)) /\ Cardinality(U(x)) <= N
    BY <2>1, FS_Subset
  <2>3. Cardinality(U(x)) \in Nat /\ N \in Nat
    BY <2>2, FS_CardinalityType
  <2> HIDE DEF N
  <2> QED BY <2>2, <2>3
<1>2. ASSUME NEW x \in S, NEW y \in S, x < y PROVE Cardinality(U(x)) < Cardinality(U(y))
  <2>1. U(x) \in SUBSET U(y) /\ x \in U(y) /\ x \notin U(x)
    <3>1. ASSUME NEW z \in S, z < x PROVE z < y
      BY <1>2, <3>1
    <3>2. ~(x < x)
      OBVIOUS
    <3> QED BY <1>2, <3>1, <3>2
  <2> HIDE DEF U
  <2>2. Cardinality(U(x)) <= Cardinality(U(y)) /\ Cardinality(U(x)) # Cardinality(U(y))
    BY <1>1, <2>1, FS_Subset
  <2>3. Cardinality(U(x)) \in Nat /\ Cardinality(U(y)) \in Nat
    BY <1>1
  <2> QED BY <2>2, <2>3
<1> HIDE DEF U, N
<1>3. T \subseteq Nat /\ T # {}
  BY <1>1
<1>4. PICK m \in T : \A k \in T : m <= k
  <2> HIDE DEF T
  <2> QED BY <1>3, LeastNat
<1>5. PICK x \in S : m = N - Cardinality(U(x))
  BY <1>4
<1>6. ASSUME NEW y \in S PROVE y <= x
  <2>1. N - Cardinality(U(x)) <= N - Cardinality(U(y))
    BY <1>4, <1>5
  <2>2. N \in Int /\ Cardinality(U(x)) \in Nat /\ Cardinality(U(y)) \in Nat
    <3>1. N \in Nat
      BY FS_CardinalityType DEF N
    <3> QED BY <1>1, <3>1
  <2>3. ~(Cardinality(U(x)) < Cardinality(U(y)))
    BY <2>1, <2>2
  <2>4. ~(x < y)
    BY <1>2, <2>3
  <2> QED BY <2>4
<1>7. \E z \in S : \A y \in S : z >= y
  BY <1>6
<1>8. Max(S) \in S /\ \A y \in S : Max(S) >= y
  BY <1>7 DEF Max
<1> QED BY <1>8

LEMMA TenthsSplit ==
  ASSUME NEW n \in Int
  PROVE  LET w == n \div 10
             r == n % 10
         IN  w \in Int /\ r \in Int /\ 0 <= r /\ r <= 9 /\ n = 10 * w + r
  OBVIOUS

(* Rounding to the nearest degree loses half a degree at most. *)
LEMMA FedIsNear ==
  ASSUME NEW n \in Int, 0 <= n, n <= 2550
  PROVE  Fed(n) \in Int /\ 10 * Fed(n) + 5 >= n /\ (n % 10 = 0 => 10 * Fed(n) >= n)
<1> DEFINE w == n \div 10
<1> DEFINE r == n % 10
<1> DEFINE near == IF r > 5 \/ (r = 5 /\ w % 2 = 1) THEN w + 1 ELSE w
<1>1. w \in Int /\ r \in Int /\ 0 <= r /\ r <= 9 /\ n = 10 * w + r
  BY TenthsSplit
<1>2. Fed(n) = Max({0, Min({255, near})})
  BY DEF Fed
<1>3. near = w \/ (near = w + 1 /\ r >= 5)
  <2>1. r > 5 \/ (r = 5 /\ w % 2 = 1) => r >= 5
    <3> HIDE DEF r, w
    <3> QED BY <1>1
  <2> HIDE DEF r, w
  <2> QED BY <2>1
<1>4. r > 5 => near = w + 1
  OBVIOUS
<1>5. r = 0 => near = w
  <2>1. r = 0 => ~(r > 5 \/ (r = 5 /\ w % 2 = 1))
    OBVIOUS
  <2> QED BY <2>1
<1> HIDE DEF near, r, w
<1>6. near \in Int /\ 0 <= near /\ near <= 255
  BY <1>1, <1>3
<1>7. Min({255, near}) = near
  <2>1. near \in {255, near} /\ \A y \in {255, near} : near <= y
    BY <1>6
  <2>2. ASSUME NEW x \in {255, near}, \A y \in {255, near} : x <= y PROVE x = near
    BY <1>6, <2>2
  <2> QED BY <2>1, <2>2 DEF Min
<1>8. Max({0, near}) = near
  <2>1. near \in {0, near} /\ \A y \in {0, near} : near >= y
    BY <1>6
  <2>2. ASSUME NEW x \in {0, near}, \A y \in {0, near} : x >= y PROVE x = near
    BY <1>6, <2>2
  <2> QED BY <2>1, <2>2 DEF Max
<1>9. Fed(n) = near
  BY <1>2, <1>7, <1>8
<1>10. 10 * near + 5 >= n
  <2>1. CASE near = w
    <3>1. r <= 5
      BY <1>1, <1>4, <2>1
    <3> QED BY <1>1, <2>1, <3>1
  <2>2. CASE near = w + 1
    BY <1>1, <2>2
  <2> QED BY <1>3, <2>1, <2>2
<1>11. r = 0 => 10 * near >= n
  BY <1>1, <1>5
<1> QED BY <1>6, <1>9, <1>10, <1>11 DEF r

RulesInv == opts \in Options /\ (verdict = "accepted" => Rules)

LEMMA InitRules == ConfigInit => RulesInv
BY DEF ConfigInit, RulesInv

LEMMA StepRules == RulesInv /\ ListInv /\ [ConfigNext]_configVars => RulesInv'
<1> SUFFICES ASSUME RulesInv, ListInv, [ConfigNext]_configVars PROVE RulesInv'
  OBVIOUS
<1>0. opts \in Options /\ (verdict = "accepted" => Rules)
  BY DEF RulesInv
<1>1. ASSUME UNCHANGED <<status, points, opts>> PROVE Rules' <=> Rules
  BY <1>1 DEF Rules, HighestDuty, HighestCritical, Injecting
<1>2. CASE Check
  <2>1. /\ UNCHANGED <<status, points, opts>> /\ (verdict' = "accepted" => Rules)
    BY <1>2 DEF Check, vars
  <2> QED BY <1>0, <1>1, <2>1 DEF RulesInv
<1>3. CASE Next /\ UNCHANGED <<opts, verdict>>
  <2>1. CASE Build
    <3>1. status = "new"
      BY <2>1 DEF Build
    <3>2. verdict # "accepted"
      BY <1>0, <3>1 DEF Rules
    <3> QED BY <1>0, <1>3, <3>2 DEF RulesInv
  <2>2. ASSUME NEW t \in Temp, Keep(t) \/ Follow(t) PROVE RulesInv'
    <3>1. UNCHANGED <<status, points, opts>>
      BY <1>3, <2>2 DEF Keep, Follow, Return
    <3> QED BY <1>0, <1>1, <1>3, <3>1 DEF RulesInv
  <2> QED BY <1>3, <2>1, <2>2 DEF Next
<1>4. CASE UNCHANGED configVars
  <2>1. UNCHANGED <<status, points, opts>> /\ verdict' = verdict
    BY <1>4 DEF configVars, vars
  <2> QED BY <1>0, <1>1, <2>1 DEF RulesInv
<1> QED BY <1>2, <1>3, <1>4 DEF ConfigNext

(* The configuration reads its curve as TempCurve says. *)
THEOREM ConfigReadsCurve == ConfigSpec => Spec
<1>1. ConfigInit => Init
  BY DEF ConfigInit
<1>2. [ConfigNext]_configVars => [Next]_vars
  BY DEF ConfigNext, Check, configVars
<1> QED BY <1>1, <1>2, PTL DEF ConfigSpec, Spec

LEMMA CoversFollows ==
  ASSUME ListInv, RulesInv
  PROVE  ConfigCovers
<1> SUFFICES ASSUME verdict = "accepted"
             PROVE  /\ 0 < opts.failsafe /\ opts.min <= opts.failsafe
                    /\ \A t \in Temp : ~Less(Whole(opts.failsafe), RawDutyPct(t))
                    /\ \A z \in opts.others : z.duty <= opts.failsafe
                    /\ Injecting =>
                         \A c \in {opts.critical} \cup {z.critical : z \in opts.others} :
                           /\ 10 * Fed(opts.injectC) + 5 >= c
                           /\ opts.injectC % 10 = 0 => 10 * Fed(opts.injectC) >= c
  BY DEF ConfigCovers
<1>1. Rules
  BY DEF RulesInv
<1>2. /\ opts \in OptionRecord /\ IsFiniteSet(opts.others) /\ Improper \notin Int
  BY OptionAssumption DEF RulesInv
<1>3. /\ opts.others \subseteq [duty : 0 .. 100, critical : Int]
      /\ opts.failsafe \in Int \cup {Improper} /\ opts.injectC \in Int \cup {Improper}
      /\ opts.critical \in Int \cup {Improper} /\ opts.min \in Int \cup {Improper}
  BY <1>2 DEF OptionRecord
<1>4. /\ opts.failsafe # Improper /\ opts.injectC # Improper /\ opts.critical # Improper
      /\ opts.min <= opts.failsafe /\ 0 <= opts.injectC /\ opts.injectC <= 2550
      /\ opts.failsafe > 0 /\ opts.failsafe >= HighestDuty
      /\ Injecting => opts.injectC >= HighestCritical
      /\ status = "built"
  BY <1>1 DEF Rules, Number
<1>5. opts.failsafe \in Int /\ opts.injectC \in Int /\ opts.critical \in Int
  BY <1>3, <1>4
<1>6. IsCurve(points)
  BY <1>4, BuiltIsCurve
<1> DEFINE duties == {points[i].duty : i \in DOMAIN points} \cup {z.duty : z \in opts.others}
<1>7. /\ HighestDuty \in Int /\ \A x \in duties : x <= HighestDuty
  <2>1. Len(points) >= 1 /\ DOMAIN points = 1 .. Len(points) /\ 1 \in DOMAIN points
    <3>1. points \in Seq(Point) /\ Len(points) >= 1
      BY <1>6 DEF IsCurve
    <3> QED BY <3>1
  <2>2. \A i \in DOMAIN points : points[i].duty \in 0 .. 100
    BY <1>6, <2>1 DEF IsCurve
  <2>3. \A z \in opts.others : z.duty \in 0 .. 100
    BY <1>3
  <2>4. duties \subseteq 0 .. 100 /\ duties # {}
    <3>1. {points[i].duty : i \in DOMAIN points} \subseteq 0 .. 100
      BY <2>2, Zenon
    <3>2. {z.duty : z \in opts.others} \subseteq 0 .. 100
      BY <2>3, Zenon
    <3>3. points[1].duty \in {points[i].duty : i \in DOMAIN points}
      BY <2>1, Zenon
    <3> QED BY <3>1, <3>2, <3>3, Zenon
  <2>5. IsFiniteSet(0 .. 100)
    <3>1. 0 \in Int /\ 100 \in Int
      OBVIOUS
    <3> QED BY <3>1, FS_Interval, Zenon
  <2> HIDE DEF duties
  <2>6. IsFiniteSet(duties) /\ duties \subseteq Int
    <3>1. IsFiniteSet(duties)
      BY <2>4, <2>5, FS_Subset, Zenon
    <3>2. 0 .. 100 \subseteq Int
      OBVIOUS
    <3> QED BY <2>4, <3>1, <3>2, Zenon
  <2>7. Max(duties) \in duties /\ \A x \in duties : x <= Max(duties)
    BY <2>4, <2>6, FiniteMax
  <2>8. HighestDuty = Max(duties)
    BY DEF HighestDuty, duties
  <2> QED BY <2>6, <2>7, <2>8
<1>8. ASSUME NEW t \in Temp PROVE ~Less(Whole(opts.failsafe), RawDutyPct(t))
  <2>1. t \in Int
    BY CurveAssumption DEF CurveAssumption
  <2>2. ASSUME NEW i \in 1 .. Len(points) PROVE points[i].duty <= opts.failsafe
    <3>1. i \in DOMAIN points /\ points[i].duty \in Int
      <4>1. points \in Seq(Point)
        BY <1>6 DEF IsCurve
      <4> QED BY <1>6, <4>1, CurvePoints
    <3>2. points[i].duty <= HighestDuty
      BY <1>7, <3>1
    <3> QED BY <1>4, <1>5, <1>7, <3>1, <3>2
  <2>3. /\ RawDutyPct(t).num \in Int /\ RawDutyPct(t).den \in Int
        /\ RawDutyPct(t).num <= opts.failsafe * RawDutyPct(t).den
    BY <1>5, <1>6, <2>1, <2>2, DutyRange
  <2>4. ~(opts.failsafe * RawDutyPct(t).den < RawDutyPct(t).num * 1)
    BY <1>5, <2>3
  <2> QED BY <2>4 DEF Less, Whole
<1>9. ASSUME NEW z \in opts.others PROVE z.duty <= opts.failsafe
  <2>1. z.duty \in Int /\ z.duty <= HighestDuty
    BY <1>3, <1>7
  <2> QED BY <1>4, <1>5, <1>7, <2>1
<1> DEFINE criticals == {z.critical : z \in opts.others}
<1> DEFINE C == {opts.critical} \cup criticals
<1>10. HighestCritical \in Int /\ C \subseteq Int /\ \A c \in C : c <= HighestCritical
  <2>1. C \subseteq Int /\ C # {}
    BY <1>3, <1>5
  <2>2. IsFiniteSet(C)
    <3> DEFINE g == [z \in opts.others |-> z.critical]
    <3>1. g \in Surjection(opts.others, criticals)
      BY DEF Surjection
    <3>2. IsFiniteSet(criticals)
      <4> HIDE DEF g, criticals
      <4> QED BY <1>2, <3>1, FS_Surjection
    <3>3. IsFiniteSet(criticals \cup {opts.critical})
      BY <3>2, FS_AddElement
    <3>4. C = criticals \cup {opts.critical}
      OBVIOUS
    <3> QED BY <3>3, <3>4
  <2>3. HighestCritical = Max(C)
    BY DEF HighestCritical
  <2> HIDE DEF C
  <2>4. Max(C) \in C /\ \A c \in C : c <= Max(C)
    BY <2>1, <2>2, FiniteMax
  <2> QED BY <2>1, <2>3, <2>4
<1>11. ASSUME Injecting, NEW c \in C
       PROVE  /\ 10 * Fed(opts.injectC) + 5 >= c
              /\ opts.injectC % 10 = 0 => 10 * Fed(opts.injectC) >= c
  <2>1. c \in Int /\ c <= opts.injectC
    BY <1>4, <1>5, <1>10, <1>11
  <2>2. /\ 10 * Fed(opts.injectC) + 5 >= opts.injectC
        /\ opts.injectC % 10 = 0 => 10 * Fed(opts.injectC) >= opts.injectC
    BY <1>4, <1>5, FedIsNear
  <2>3. Fed(opts.injectC) \in Int
    BY <1>4, <1>5, FedIsNear
  <2> QED BY <1>5, <2>1, <2>2, <2>3
<1> QED BY <1>4, <1>8, <1>9, <1>11

(* A configuration that is accepted, with curves of any length, any number of *)
(* zones and any options, is one the control loop is safe with: no curve asks *)
(* for more than the failsafe duty, and the value fed to the sensors is at    *)
(* least every critical_c but for the rounding (Config.__init__).             *)
THEOREM AcceptedConfigCovers == ConfigSpec => []ConfigCovers
<1>1. ListInv /\ RulesInv => ConfigCovers
  BY CoversFollows
<1>2. CurveInv => ListInv
  BY DEF CurveInv
<1>3. ConfigSpec => []CurveInv
  BY ConfigReadsCurve, CurveInvariant, PTL
<1>4. ConfigSpec => []RulesInv
  BY <1>2, <1>3, InitRules, StepRules, PTL DEF ConfigSpec
<1> QED BY <1>1, <1>2, <1>3, <1>4, PTL
==============================================================================
