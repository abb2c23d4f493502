--------------------------- MODULE SchedulerProofs ----------------------------
(***************************************************************************)
(* Theorems about the cache of the scale, the scale itself and the         *)
(* reservations of the scheduler, for any number of pods, vpods and        *)
(* disturbances, and the lemmas about sums over pods and vpods, and about  *)
(* what scheduleVPod returns, that they rest on.                           *)
(***************************************************************************)
EXTENDS SchedulerSystem, FiniteSetTheorems, TLAPS

(***************************************************************************)
(* Induction, sums that are counted out, and other facts about numbers.    *)
(***************************************************************************)

Less == {x \in Nat \X Nat : x[1] < x[2]}

\* Induction up to a bound, for the numbers of a set.
LEMMA UpTo ==
  ASSUME NEW N \in Nat, NEW T, 0 \in T, \A m \in 0..(N - 1) : m \in T => m + 1 \in T
  PROVE  0..N \subseteq T
<1> DEFINE bad == {m \in Nat : m <= N /\ m \notin T}
<1> SUFFICES ASSUME bad # {} PROVE FALSE
  OBVIOUS
<1>1. IsWellFoundedOn(Less, Nat)
  BY NatLessThanWellFounded DEF OpToRel, Less
<1>2. PICK x \in bad : \A y \in bad : ~ (<<y, x>> \in Less)
  BY <1>1, WFMin, Zenon
<1>3. x \in Nat /\ x # 0 /\ x <= N /\ x - 1 \in Nat /\ x - 1 \in 0..(N - 1)
  OBVIOUS
<1>4. <<x - 1, x>> \in Less
  BY <1>3 DEF Less
<1>5. x - 1 \in T
  BY <1>2, <1>3, <1>4
<1>6. (x - 1) + 1 \in T
  BY <1>3, <1>5
<1> QED BY <1>3, <1>6

LEMMA CountUpTo == ASSUME NEW k \in Nat PROVE IsFiniteSet(1..k) /\ Cardinality(1..k) = k
<1>1. k \in Int /\ 1 \in Int
  OBVIOUS
<1>2. IsFiniteSet(1..k) /\ Cardinality(1..k) = IF 1 > k THEN 0 ELSE k - 1 + 1
  BY <1>1, FS_Interval, Zenon
<1>3. (IF 1 > k THEN 0 ELSE k - 1 + 1) = k
  OBVIOUS
<1> QED BY <1>2, <1>3

\* What counts in a sum.
Units(n, S) == UNION {{x} \X (1..n[x]) : x \in S}

LEMMA UnitsFinite ==
  ASSUME NEW S, IsFiniteSet(S), NEW n, \A x \in S : n[x] \in Nat
  PROVE  IsFiniteSet(Units(n, S))
<1> DEFINE T == {{x} \X (1..n[x]) : x \in S}
           f == [x \in S |-> {x} \X (1..n[x])]
<1>1. f \in Surjection(S, T)
  BY Zenon DEF Surjection
<1>2. IsFiniteSet(T)
  BY <1>1, FS_Surjection
<1>3. ASSUME NEW x \in S PROVE IsFiniteSet({x} \X (1..n[x]))
  <2>1. n[x] \in Nat
    OBVIOUS
  <2>2. IsFiniteSet(1..n[x])
    BY <2>1, CountUpTo, Zenon
  <2> QED BY <2>2, FS_Singleton, FS_Product, Zenon
<1>4. \A t \in T : IsFiniteSet(t)
  BY <1>3
<1> QED BY <1>2, <1>4, FS_UNION, Zenon DEF Units

LEMMA TotalIsNumber ==
  ASSUME NEW S, IsFiniteSet(S), NEW n, \A x \in S : n[x] \in Nat
  PROVE  Total(n, S) \in Nat
<1>1. Total(n, S) = Cardinality(Units(n, S))
  BY DEF Total, Units
<1> QED BY <1>1, UnitsFinite, FS_CardinalityType

\* A sum of numbers up to b.
LEMMA TotalIsBounded ==
  ASSUME NEW S, IsFiniteSet(S), NEW b \in Nat, NEW n, \A x \in S : n[x] \in 0..b
  PROVE  Total(n, S) <= Cardinality(S) * b
<1>1. IsFiniteSet(1..b) /\ Cardinality(1..b) = b
  BY CountUpTo, Zenon
<1>2. IsFiniteSet(S \X (1..b)) /\ Cardinality(S \X (1..b)) = Cardinality(S) * b
  BY <1>1, FS_Product, Zenon
<1>3. Units(n, S) \in SUBSET (S \X (1..b))
  BY DEF Units
<1>4. Total(n, S) = Cardinality(Units(n, S))
  BY DEF Total, Units
<1> QED BY <1>2, <1>3, <1>4, FS_Subset

\* One number more in a sum.
LEMMA TotalOfOneMore ==
  ASSUME NEW S, IsFiniteSet(S), NEW x, x \notin S, NEW n, \A y \in S \union {x} : n[y] \in Nat
  PROVE  Total(n, S \union {x}) = Total(n, S) + n[x]
<1> DEFINE new == {x} \X (1..n[x])
<1>1. Units(n, S \union {x}) = Units(n, S) \union new
  BY DEF Units
<1>2. Units(n, S) \cap new = {}
  BY DEF Units
<1>3. IsFiniteSet({x}) /\ Cardinality({x}) = 1
  BY FS_Singleton, Zenon
<1>4. n[x] \in Nat
  OBVIOUS
<1>5. IsFiniteSet(1..n[x]) /\ Cardinality(1..n[x]) = n[x]
  BY <1>4, CountUpTo, Zenon
<1>6. IsFiniteSet(new) /\ Cardinality(new) = 1 * n[x]
  BY <1>3, <1>5, FS_Product
<1>7. IsFiniteSet(Units(n, S)) /\ Cardinality(Units(n, S)) \in Nat
  BY UnitsFinite, FS_CardinalityType
<1> HIDE DEF new
<1>8. Cardinality(Units(n, S) \union new) =
        Cardinality(Units(n, S)) + Cardinality(new) - Cardinality(Units(n, S) \cap new)
  BY <1>6, <1>7, FS_Union
<1>9. Cardinality(Units(n, S) \cap new) = 0
  BY <1>2, FS_EmptySet
<1>10. Total(n, S) = Cardinality(Units(n, S))
  BY DEF Total, Units
<1>11. Total(n, S \union {x}) = Cardinality(Units(n, S \union {x}))
  BY DEF Total, Units
<1>12. Total(n, S \union {x}) = Cardinality(Units(n, S) \union new)
  BY <1>1, <1>11, Zenon
<1>13. Cardinality(Units(n, S) \union new) = Cardinality(Units(n, S)) + n[x]
  BY <1>4, <1>6, <1>7, <1>8, <1>9
<1> QED BY <1>10, <1>12, <1>13, Zenon

\* A sum after one of the numbers has changed.
LEMMA TotalOfChanged ==
  ASSUME NEW S, IsFiniteSet(S), NEW x \in S, NEW n, NEW m,
         \A y \in S : n[y] \in Nat /\ m[y] \in Nat,
         \A y \in S : y # x => m[y] = n[y]
  PROVE  Total(m, S) = Total(n, S) - n[x] + m[x]
<1> DEFINE R == S \ {x}
<1>1. IsFiniteSet(R) /\ x \notin R /\ R \union {x} = S
  BY FS_RemoveElement
<1>2. Units(m, R) = Units(n, R)
  BY DEF Units
<1>3. Total(m, R) = Total(n, R)
  BY <1>2 DEF Total, Units
<1> HIDE DEF R
<1>4. Total(n, R) \in Nat
  BY <1>1, TotalIsNumber
<1>5. Total(n, R \union {x}) = Total(n, R) + n[x]
  BY <1>1, TotalOfOneMore
<1>6. Total(m, R \union {x}) = Total(m, R) + m[x]
  BY <1>1, TotalOfOneMore, Zenon
<1>7. n[x] \in Nat /\ m[x] \in Nat
  OBVIOUS
<1>8. Total(n, S) = Total(n, R) + n[x] /\ Total(m, S) = Total(n, R) + m[x]
  BY <1>1, <1>3, <1>5, <1>6, Zenon
<1> QED BY <1>4, <1>7, <1>8

LEMMA MaxOfTwo ==
  ASSUME NEW x \in Int, NEW y \in Int
  PROVE  Max({x, y}) \in {x, y} /\ Max({x, y}) \in Int /\ Max({x, y}) >= x /\ Max({x, y}) >= y
  BY DEF Max

LEMMA MinOfTwo ==
  ASSUME NEW x \in Int, NEW y \in Int
  PROVE  Min({x, y}) \in {x, y} /\ Min({x, y}) \in Int /\ Min({x, y}) <= x /\ Min({x, y}) <= y
  BY DEF Min

LEMMA OrdinalsAreFinite == IsFiniteSet(Ordinals) /\ Ordinals \subseteq Nat /\ 0 \in Ordinals
  BY SchedulerAssumption, FS_Interval DEF Ordinals

LEMMA OrdinalsTotal ==
  ASSUME NEW pl \in Placements, NEW S \in SUBSET Ordinals
  PROVE  Total(pl, S) \in Nat
<1>1. IsFiniteSet(S)
  BY OrdinalsAreFinite, FS_Subset, Zenon
<1>2. \A o \in S : pl[o] \in Nat
  BY DEF Placements
<1> QED BY <1>1, <1>2, TotalIsNumber

LEMMA ByPodIsPlacement ==
  ASSUME NEW pls \in [VPods -> Placements]
  PROVE  SumByPod(pls) \in Placements
<1> SUFFICES ASSUME NEW o \in Ordinals
             PROVE  Total([v \in VPods |-> pls[v][o]], VPods) \in Nat
  BY DEF SumByPod, Placements
<1>1. \A v \in VPods : [w \in VPods |-> pls[w][o]][v] \in Nat
  BY DEF Placements
<1> QED BY <1>1, TotalIsNumber, SchedulerAssumption

\* The reservations of a pod after those of one vpod have been replaced.
LEMMA ByPodOfChanged ==
  ASSUME NEW pls \in [VPods -> Placements], NEW v \in VPods, NEW pl \in Placements,
         NEW o \in Ordinals
  PROVE  SumByPod([pls EXCEPT ![v] = pl])[o] = SumByPod(pls)[o] - pls[v][o] + pl[o]
<1> DEFINE n == [w \in VPods |-> pls[w][o]]
           m == [w \in VPods |-> [pls EXCEPT ![v] = pl][w][o]]
<1>1. \A w \in VPods : n[w] \in Nat /\ m[w] \in Nat
  BY DEF Placements
<1>2. \A w \in VPods : w # v => m[w] = n[w]
  OBVIOUS
<1>3. n[v] = pls[v][o] /\ m[v] = pl[o]
  OBVIOUS
<1>4. SumByPod(pls)[o] = Total(n, VPods) /\ SumByPod([pls EXCEPT ![v] = pl])[o] = Total(m, VPods)
  BY DEF SumByPod
<1> HIDE DEF n, m
<1>5. Total(m, VPods) = Total(n, VPods) - n[v] + m[v]
  BY <1>1, <1>2, TotalOfChanged, SchedulerAssumption
<1> QED BY <1>3, <1>4, <1>5

\* Reservations that get no larger.
LEMMA ByPodOfLess ==
  ASSUME NEW pls \in [VPods -> Placements], NEW less \in [VPods -> Placements],
         \A v \in VPods : less[v] \in {pls[v], NoPlacement}, NEW o \in Ordinals
  PROVE  SumByPod(less)[o] <= SumByPod(pls)[o]
<1> DEFINE n == [w \in VPods |-> pls[w][o]]
           m == [w \in VPods |-> less[w][o]]
<1>1. \A w \in VPods : n[w] \in Nat /\ m[w] \in Nat
  BY DEF Placements
<1>2. \A w \in VPods : m[w] = n[w] \/ m[w] = 0
  BY DEF NoPlacement
<1>3. SumByPod(pls)[o] = Total(n, VPods) /\ SumByPod(less)[o] = Total(m, VPods)
  BY DEF SumByPod
<1> HIDE DEF n, m
<1>4. Units(m, VPods) \in SUBSET Units(n, VPods)
  <2>1. \A w \in VPods : 1..m[w] \subseteq 1..n[w]
    BY <1>1, <1>2
  <2> QED BY <2>1 DEF Units
<1>5. IsFiniteSet(Units(n, VPods))
  BY <1>1, UnitsFinite, SchedulerAssumption
<1>6. Cardinality(Units(m, VPods)) <= Cardinality(Units(n, VPods))
  BY <1>4, <1>5, FS_Subset
<1> QED BY <1>3, <1>6 DEF Total, Units

\* Without reservations every pod has room.
LEMMA NothingReserved ==
  ASSUME NEW o \in Ordinals
  PROVE  SumByPod([v \in VPods |-> NoPlacement])[o] <= Capacity
<1> DEFINE n == [w \in VPods |-> [v \in VPods |-> NoPlacement][w][o]]
<1>1. \A w \in VPods : n[w] = 0
  BY DEF NoPlacement
<1>2. SumByPod([v \in VPods |-> NoPlacement])[o] = Total(n, VPods)
  BY DEF SumByPod
<1> HIDE DEF n
<1>3. Units(n, VPods) = {}
  BY <1>1 DEF Units
<1>4. Total(n, VPods) = 0
  BY <1>3, FS_EmptySet DEF Total, Units
<1> QED BY <1>2, <1>4, SchedulerAssumption

\* The largest of some ordinals is one of them.
LEMMA MaxIsMember == ASSUME NEW S \in SUBSET Ordinals, S # {} PROVE Max(S) \in S
<1> DEFINE below == {k \in Nat : \E x \in S : k = MaxPods - x}
<1>1. MaxPods \in Nat /\ S \subseteq Nat /\ \A x \in S : MaxPods - x \in Nat
  BY SchedulerAssumption DEF Ordinals
<1>2. below \subseteq Nat /\ below # {}
  BY <1>1, Zenon
<1>3. IsWellFoundedOn(Less, Nat)
  BY NatLessThanWellFounded DEF OpToRel, Less
<1>4. PICK k \in below : \A j \in below : ~ (<<j, k>> \in Less)
  <2> HIDE DEF below
  <2> QED BY <1>2, <1>3, WFMin, Zenon
<1>5. PICK x \in S : k = MaxPods - x
  OBVIOUS
<1>6. ASSUME NEW y \in S PROVE x >= y
  <2>1. MaxPods - y \in below /\ MaxPods - y \in Nat /\ k \in Nat
    BY <1>1
  <2>2. ~ (MaxPods - y < k)
    BY <1>4, <2>1, Zenon DEF Less
  <2>3. x \in Nat /\ y \in Nat
    BY <1>1
  <2> QED BY <1>1, <1>5, <2>1, <2>2, <2>3
<1> QED BY <1>6 DEF Max

LEMMA FreeCapIsBounded ==
  ASSUME NEW named \in SUBSET Ordinals PROVE FreeCapLen(named) \in 0..MaxPods
<1>1. named # {} => Max(named) \in Ordinals
  BY MaxIsMember
<1> QED BY <1>1, SchedulerAssumption DEF FreeCapLen, Ordinals

\* Multiplication is monotonic.
LEMMA Products ==
  ASSUME NEW x \in Nat, NEW y \in Nat, NEW z \in Nat, x <= y
  PROVE  x * z \in Nat /\ y * z \in Nat /\ x * z <= y * z
<1>1. PICK d \in Nat : y = x + d
  <2>1. y - x \in Nat /\ y = x + (y - x)
    OBVIOUS
  <2> QED BY <2>1
<1>2. (x + d) * z = x * z + d * z
  OBVIOUS
<1>3. x * z \in Nat /\ d * z \in Nat
  OBVIOUS
<1> QED BY <1>1, <1>2, <1>3

LEMMA RoundedUp ==
  ASSUME NEW t \in Nat, NEW c \in Nat \ {0}, NEW m \in Nat, t <= m * c
  PROVE  (t + c - 1) \div c \in 0..m
<1> DEFINE q == (t + c - 1) \div c
<1>1. q \in Nat /\ q * c <= t + c - 1
  OBVIOUS
<1> HIDE DEF q
<1> SUFFICES ASSUME q > m PROVE FALSE
  BY <1>1 DEF q
<1>2. (m + 1) * c <= q * c
  BY <1>1, Products
<1>3. (m + 1) * c = m * c + c
  OBVIOUS
<1>4. m * c \in Nat /\ q * c \in Nat
  BY <1>1
<1> QED BY <1>1, <1>2, <1>3, <1>4

LEMMA ExpectedIsBounded ==
  ASSUME vreplicas \in [VPods -> 0..MaxVReplicas \union {Absent}]
  PROVE  TotalExpectedVReplicas \in Nat /\ TotalExpectedVReplicas <= MaxPods * Capacity
<1>1. Listed \in SUBSET VPods /\ \A v \in Listed : vreplicas[v] \in 0..MaxVReplicas
  BY DEF Listed
<1>2. IsFiniteSet(Listed) /\ Cardinality(Listed) <= Cardinality(VPods)
  BY <1>1, FS_Subset, SchedulerAssumption
<1>3. Cardinality(Listed) \in Nat /\ Cardinality(VPods) \in Nat
  BY <1>2, FS_CardinalityType, SchedulerAssumption
<1>4. MaxVReplicas \in Nat /\ \A v \in Listed : vreplicas[v] \in Nat
  BY <1>1, SchedulerAssumption
<1>5. Total(vreplicas, Listed) \in Nat
  BY <1>2, <1>4, TotalIsNumber
<1>6. Total(vreplicas, Listed) <= Cardinality(Listed) * MaxVReplicas
  BY <1>1, <1>2, <1>4, TotalIsBounded
<1>7. /\ Cardinality(Listed) * MaxVReplicas <= Cardinality(VPods) * MaxVReplicas
      /\ Cardinality(Listed) * MaxVReplicas \in Nat /\ Cardinality(VPods) * MaxVReplicas \in Nat
  BY <1>2, <1>3, <1>4, Products
<1>8. Cardinality(VPods) * MaxVReplicas <= MaxPods * Capacity /\ MaxPods * Capacity \in Nat
  BY SchedulerAssumption
<1> QED BY <1>5, <1>6, <1>7, <1>8 DEF TotalExpectedVReplicas

-----------------------------------------------------------------------------
(***************************************************************************)
(* What scheduleVPod returns.                                              *)
(***************************************************************************)

\* The allocation of one vreplica after the other.
LEMMA Allocations ==
  ASSUME NEW start, NEW c \in Seq(Ordinals),
         NEW T, start \in T,
         \A a \in T, i \in 1..Len(c) : Allocate(a, c[i]) \in T
  PROVE  AllocateInRounds(start, c) \in T
<1> DEFINE n == Len(c)
           N == Capacity * n
           o(k) == c[((k - 1) % n) + 1]
           F(f, m) == [k \in 0..m |-> IF k = 0 THEN start ELSE Allocate(f[k - 1], o(k))]
           made == {m \in Nat : \E f : f = F(f, m)}
           after == CHOOSE f : f = F(f, N)
<1>0. n \in Nat /\ N \in Nat /\ Capacity \in Nat
  BY SchedulerAssumption
<1>1. 0 \in made
  <2> DEFINE f == [k \in 0..0 |-> start]
  <2>1. f = F(f, 0)
    OBVIOUS
  <2> QED BY <2>1, Zenon
<1>2. ASSUME NEW m \in 0..(N - 1), m \in made PROVE m + 1 \in made
  <2>1. PICK f : f = F(f, m)
    BY <1>2
  <2> DEFINE g == F(f, m + 1)
  <2>2. m \in Nat
    BY <1>0
  <2>3. ASSUME NEW k \in 0..m PROVE g[k] = f[k]
    <3>1. f[k] = IF k = 0 THEN start ELSE Allocate(f[k - 1], o(k))
      BY <2>1, Zenon
    <3>2. k \in 0..(m + 1)
      BY <2>2
    <3> QED BY <3>1, <3>2, Zenon
  <2>4. ASSUME NEW k \in 0..(m + 1), k # 0 PROVE k - 1 \in 0..m
    BY <2>2, <2>4
  <2>5. g = F(g, m + 1)
    <3> HIDE DEF o
    <3>1. ASSUME NEW k \in 0..(m + 1)
          PROVE  (IF k = 0 THEN start ELSE Allocate(f[k - 1], o(k))) =
                 (IF k = 0 THEN start ELSE Allocate(g[k - 1], o(k)))
      BY <2>3, <2>4, Zenon
    <3> HIDE DEF g
    <3>2. F(f, m + 1) = F(g, m + 1)
      BY <3>1, SMT
    <3>3. g = F(f, m + 1)
      BY DEF g
    <3> QED BY <3>2, <3>3, Zenon
  <2>6. \E h : h = F(h, m + 1)
    <3> HIDE DEF F, g
    <3> WITNESS g
    <3> QED BY <2>5
  <2>7. m + 1 \in Nat
    BY <2>2
  <2> HIDE DEF F
  <2> QED BY <2>6, <2>7
<1>3. N \in made
  <2> HIDE DEF made
  <2>1. 0..N \subseteq made
    BY <1>0, <1>1, <1>2, UpTo, Zenon
  <2> QED BY <1>0, <2>1
<1>4. after = F(after, N)
  <2>1. \E f : f = F(f, N)
    BY <1>3
  <2> QED BY <2>1, Zenon
<1>5. AllocateInRounds(start, c) = after[N]
  BY Zenon DEF AllocateInRounds
<1> HIDE DEF after
<1> DEFINE good == {m \in Nat : after[m] \in T}
<1>6. 0 \in good
  <2>1. after[0] = start
    BY <1>0, <1>4
  <2> QED BY <2>1
<1>7. ASSUME NEW m \in 0..(N - 1), m \in good PROVE m + 1 \in good
  <2>1. m \in Nat /\ m + 1 \in 0..N /\ m + 1 # 0 /\ (m + 1) - 1 = m
    BY <1>0
  <2>2. after[m + 1] = Allocate(after[m], o(m + 1))
    <3> HIDE DEF o
    <3> QED BY <1>4, <2>1, Zenon
  <2>3. (m % n) + 1 \in 1..n
    BY <1>0, <2>1
  <2>4. o(m + 1) = c[(m % n) + 1]
    BY <2>1
  <2>5. after[m] \in T
    BY <1>7
  <2>6. after[m + 1] \in T
    BY <2>2, <2>3, <2>4, <2>5, Zenon
  <2> QED BY <2>1, <2>6
<1>8. 0..N \subseteq good
  <2> HIDE DEF good
  <2> QED BY <1>0, <1>6, <1>7, UpTo, Zenon
<1> QED BY <1>0, <1>5, <1>8

\* removeReplicas leaves numbers, and adds none.
LEMMA Removed ==
  ASSUME NEW diff \in Int, NEW pl \in Placements
  PROVE  /\ removeReplicas(diff, pl) \in Placements
         /\ \A o \in Ordinals : removeReplicas(diff, pl)[o] <= pl[o]
<1>1. ASSUME NEW o \in Ordinals
      PROVE  LET less == Min({pl[o], Max({0, diff - Total(pl, {p \in Ordinals : p > o})})})
             IN pl[o] - less \in Nat /\ pl[o] - less <= pl[o]
  <2>1. Total(pl, {p \in Ordinals : p > o}) \in Nat
    BY OrdinalsTotal
  <2> DEFINE above == Total(pl, {p \in Ordinals : p > o})
             most == Max({0, diff - above})
             less == Min({pl[o], most})
  <2>2. pl[o] \in Nat
    BY DEF Placements
  <2> HIDE DEF above
  <2>3. above \in Nat
    BY <2>1 DEF above
  <2>4. most \in Int /\ most >= 0
    <3>1. 0 \in Int /\ diff - above \in Int
      BY <2>3
    <3> QED BY <3>1, MaxOfTwo, Zenon
  <2> HIDE DEF most
  <2>5. less \in {pl[o], most} /\ less <= pl[o]
    <3>1. pl[o] \in Int
      BY <2>2
    <3> QED BY <2>4, <3>1, MinOfTwo, Zenon
  <2> HIDE DEF less
  <2>6. pl[o] - less \in Nat /\ pl[o] - less <= pl[o]
    BY <2>2, <2>4, <2>5
  <2> QED BY <2>6 DEF less, most, above
<1> QED BY <1>1, Zenon DEF removeReplicas, Placements

\* What the loop of addReplicas does to pl and byPod: it adds to candidates, and
\* no more than they have space for.
Grown(pl, byPod, c) ==
  {a \in [pl : Placements, byPod : Placements, left : Nat] :
     \A o \in Ordinals :
       /\ a.pl[o] >= pl[o]
       /\ a.byPod[o] - a.pl[o] = byPod[o] - pl[o]
       /\ a.byPod[o] <= byPod[o] \/ a.byPod[o] <= Capacity
       /\ a.pl[o] > pl[o] => \E i \in 1..Len(c) : c[i] = o}

LEMMA Added ==
  ASSUME NEW n, NEW diff \in Nat, NEW pl \in Placements, NEW byPod \in Placements,
         NEW c \in Seq(Ordinals)
  PROVE  addReplicas(n, diff, pl, byPod, c) \in Grown(pl, byPod, c)
<1> DEFINE start == [pl |-> pl, byPod |-> byPod, left |-> diff]
<1>0. \A o \in Ordinals : pl[o] \in Nat /\ byPod[o] \in Nat
  BY DEF Placements
<1>1. start \in Grown(pl, byPod, c)
  BY <1>0 DEF Grown
<1>2. ASSUME NEW a \in Grown(pl, byPod, c), NEW i \in 1..Len(c)
      PROVE  Allocate(a, c[i]) \in Grown(pl, byPod, c)
  <2> DEFINE x == c[i]
             b == [a EXCEPT !.pl[x] = @ + 1, !.byPod[x] = @ + 1, !.left = @ - 1]
  <2>1. x \in Ordinals
    OBVIOUS
  <2>2. a.pl \in [Ordinals -> Nat] /\ a.byPod \in [Ordinals -> Nat] /\ a.left \in Nat
    BY Zenon DEF Grown, Placements
  <2>3. CASE a.left > 0 /\ Capacity - a.byPod[x] > 0
    <3>1. Allocate(a, x) = b
      BY <2>3, Zenon DEF Allocate
    <3>2. /\ b.pl = [a.pl EXCEPT ![x] = a.pl[x] + 1]
          /\ b.byPod = [a.byPod EXCEPT ![x] = a.byPod[x] + 1]
          /\ b.left = a.left - 1
          /\ b \in [pl : {b.pl}, byPod : {b.byPod}, left : {b.left}]
      <4>1. a \in [pl : Placements, byPod : Placements, left : Nat]
        BY DEF Grown
      <4> HIDE DEF x
      <4> QED BY <4>1, Zenon
    <3>3. b \in [pl : Placements, byPod : Placements, left : Nat]
      <4> HIDE DEF b, x
      <4>1. b.pl \in Placements
        <5>1. a.pl[x] + 1 \in Nat
          BY <2>1, <2>2
        <5>2. [a.pl EXCEPT ![x] = a.pl[x] + 1] \in [Ordinals -> Nat]
          BY <2>2, <5>1, Zenon
        <5> QED BY <3>2, <5>2, Zenon DEF Placements
      <4>2. b.byPod \in Placements
        <5>1. a.byPod[x] + 1 \in Nat
          BY <2>1, <2>2
        <5>2. [a.byPod EXCEPT ![x] = a.byPod[x] + 1] \in [Ordinals -> Nat]
          BY <2>2, <5>1, Zenon
        <5> QED BY <3>2, <5>2, Zenon DEF Placements
      <4>3. b.left \in Nat
        BY <2>2, <2>3, <3>2, SMTT(30)
      <4> QED BY <3>2, <4>1, <4>2, <4>3, Zenon
    <3> HIDE DEF b, x
    <3>4. ASSUME NEW o \in Ordinals
          PROVE  /\ b.pl[o] >= pl[o]
                 /\ b.byPod[o] - b.pl[o] = byPod[o] - pl[o]
                 /\ b.byPod[o] <= byPod[o] \/ b.byPod[o] <= Capacity
                 /\ b.pl[o] > pl[o] => \E j \in 1..Len(c) : c[j] = o
      <4>1. /\ a.pl[o] \in Nat /\ a.byPod[o] \in Nat /\ pl[o] \in Nat /\ byPod[o] \in Nat
            /\ Capacity \in Nat
        <5>1. a.pl[o] \in Nat /\ a.byPod[o] \in Nat
          BY <2>2
        <5> QED BY <1>0, <5>1, SchedulerAssumption
      <4>2. /\ a.pl[o] >= pl[o]
            /\ a.byPod[o] - a.pl[o] = byPod[o] - pl[o]
            /\ a.byPod[o] <= byPod[o] \/ a.byPod[o] <= Capacity
            /\ a.pl[o] > pl[o] => \E j \in 1..Len(c) : c[j] = o
        BY DEF Grown
      <4>3. CASE o # x
        <5>1. b.pl[o] = a.pl[o] /\ b.byPod[o] = a.byPod[o]
          BY <2>1, <2>2, <3>2, <4>3, SMTT(30)
        <5> QED BY <4>2, <5>1
      <4>4. CASE o = x
        <5>1. b.pl[o] = a.pl[o] + 1 /\ b.byPod[o] = a.byPod[o] + 1
          BY <2>1, <2>2, <3>2, <4>4, SMTT(30)
        <5>2. \E j \in 1..Len(c) : c[j] = o
          BY <4>4 DEF x
        <5>3. a.byPod[o] + 1 <= Capacity
          BY <2>3, <4>1, <4>4
        <5>4. /\ a.pl[o] + 1 >= pl[o]
              /\ (a.byPod[o] + 1) - (a.pl[o] + 1) = byPod[o] - pl[o]
          <6>1. \A p, q, t, u \in Nat : p >= q /\ t - p = u - q =>
                                           p + 1 >= q /\ (t + 1) - (p + 1) = u - q
            OBVIOUS
          <6>2. a.pl[o] >= pl[o] /\ a.byPod[o] - a.pl[o] = byPod[o] - pl[o]
            BY <4>2
          <6> QED BY <4>1, <6>1, <6>2, SMTT(30)
        <5> QED BY <5>1, <5>2, <5>3, <5>4, Zenon
      <4> QED BY <4>3, <4>4
    <3>5. b \in Grown(pl, byPod, c)
      BY <3>3, <3>4 DEF Grown
    <3> QED BY <3>1, <3>5 DEF x
  <2>4. CASE ~ (a.left > 0 /\ Capacity - a.byPod[x] > 0)
    BY <2>4 DEF Allocate
  <2> QED BY <2>3, <2>4
<1> HIDE DEF start
<1>3. AllocateInRounds(start, c) \in Grown(pl, byPod, c)
  BY <1>1, <1>2, Allocations
<1> QED BY <1>1, <1>3 DEF addReplicas, start

LEMMA Joined ==
  ASSUME NEW X, NEW p \in Seq(X), NEW q \in Seq(X), NEW r \in Seq(X), NEW s \in Seq(X)
  PROVE  p \o q \o r \o s \in Seq(X)
  OBVIOUS

LEMMA ListIsSequence ==
  ASSUME NEW X, IsFiniteSet(X), NEW Y, X \subseteq Y, NEW s \in Lists(X)
  PROVE  s \in Seq(Y)
<1>1. Cardinality(X) \in Nat
  BY FS_CardinalityType
<1>2. s \in [1..Cardinality(X) -> X]
  BY DEF Lists
<1> QED BY <1>1, <1>2

\* The candidates are pods, and schedulable ones while s.replicas is up to date.
LEMMA CandidatesArePods ==
  ASSUME NEW S \in SUBSET Ordinals, NEW own, NEW pl, NEW c \in candidatesOrdered(own, pl, S)
  PROVE  /\ c \in Seq(Ordinals)
         /\ (\A o \in S : o < schedReplicas) => c \in Seq(S)
<1> DEFINE placed == {o \in S : pl[o] > 0}
           onlyReserved == {o \in S \ placed : own[o] > 0}
           others == {o \in S \ (placed \union onlyReserved) : o < schedReplicas}
           written == placed \union onlyReserved \union others
           unwritten == Cardinality(S) - Cardinality(written)
           pad == Unwritten(unwritten)
<1>0. c \in Slices(onlyReserved, unwritten, others, placed)
  BY Zenon DEF candidatesOrdered
<1>1. PICK s1 \in Lists(onlyReserved), s2 \in Ascending(others), s3 \in Ascending(placed) :
        c = s1 \o pad \o s2 \o s3
  <2> HIDE DEF unwritten, placed, onlyReserved, others
  <2> QED BY <1>0 DEF Slices
<1>2. IsFiniteSet(S) /\ Cardinality(S) \in Nat
  BY OrdinalsAreFinite, FS_Subset, FS_CardinalityType, Zenon
<1>3. /\ IsFiniteSet(placed) /\ IsFiniteSet(onlyReserved) /\ IsFiniteSet(others)
      /\ placed \subseteq S /\ onlyReserved \subseteq S /\ others \subseteq S
  BY <1>2, FS_Subset
<1>4. written \in SUBSET S
  OBVIOUS
<1>5. IsFiniteSet(written) /\ Cardinality(written) <= Cardinality(S)
  BY <1>2, <1>4, FS_Subset
<1>6. unwritten \in Nat
  <2>1. Cardinality(written) \in Nat
    BY <1>5, FS_CardinalityType
  <2> HIDE DEF written
  <2> QED BY <1>2, <1>5, <2>1
<1>7. s1 \in Seq(S) /\ s2 \in Seq(S) /\ s3 \in Seq(S)
  <2> HIDE DEF placed, onlyReserved, others
  <2>1. s2 \in Lists(others) /\ s3 \in Lists(placed)
    BY DEF Ascending
  <2> QED BY <1>3, <2>1, ListIsSequence
<1>8. pad \in Seq(Ordinals)
  <2> HIDE DEF unwritten
  <2>1. pad \in [1..unwritten -> Ordinals]
    BY OrdinalsAreFinite DEF Unwritten
  <2> HIDE DEF pad
  <2> QED BY <1>6, <2>1
<1>9. ASSUME \A o \in S : o < schedReplicas PROVE pad \in Seq(S)
  <2>1. written = S
    BY <1>9
  <2>2. unwritten = 0
    <3> HIDE DEF written
    <3> QED BY <1>2, <2>1
  <2> HIDE DEF unwritten
  <2> QED BY <2>2 DEF Unwritten
<1>10. s1 \in Seq(Ordinals) /\ s2 \in Seq(Ordinals) /\ s3 \in Seq(Ordinals)
  <2> HIDE DEF placed, onlyReserved, others
  <2>1. s2 \in Lists(others) /\ s3 \in Lists(placed)
    BY DEF Ascending
  <2>2. placed \subseteq Ordinals /\ onlyReserved \subseteq Ordinals /\ others \subseteq Ordinals
    BY <1>3
  <2> QED BY <1>3, <2>1, <2>2, ListIsSequence
<1> HIDE DEF pad
<1>11. c \in Seq(Ordinals)
  BY <1>1, <1>8, <1>10, Joined
<1>12. ASSUME \A o \in S : o < schedReplicas PROVE c \in Seq(S)
  BY <1>1, <1>7, <1>9, <1>12, Joined
<1> QED BY <1>11, <1>12

\* What is cut off a placement of n on a pod with r reserved.
LEMMA CutIsPart ==
  ASSUME NEW n \in Nat, NEW r \in Nat
  PROVE  /\ Overcommit(n, r) \in Nat /\ Overcommit(n, r) <= n /\ Overcommit(n, r) <= r
         /\ r <= Capacity => Overcommit(n, r) = 0
<1> DEFINE most == Max({0, r - Capacity})
<1>1. Capacity \in Nat
  BY SchedulerAssumption
<1>2. 0 \in Int /\ r - Capacity \in Int /\ n \in Int
  BY <1>1
<1>3. most \in {0, r - Capacity} /\ most \in Int /\ most >= 0 /\ most >= r - Capacity
  BY <1>2, MaxOfTwo, Zenon
<1> HIDE DEF most
<1>4. Min({n, most}) \in {n, most} /\ Min({n, most}) <= n /\ Min({n, most}) <= most
  BY <1>2, <1>3, MinOfTwo, Zenon
<1>5. Overcommit(n, r) = Min({n, most})
  BY DEF Overcommit, most
<1> QED BY <1>1, <1>3, <1>4, <1>5

LEMMA KeptIsPart ==
  ASSUME NEW own \in Placements, NEW byPod \in Placements, NEW S
  PROVE  /\ Kept(own, byPod, S) \in Placements
         /\ ByPodAfterCut(own, byPod, S) \in Placements
         /\ \A o \in Ordinals : Kept(own, byPod, S)[o] <= own[o]
         /\ \A o \in Ordinals : byPod[o] <= Capacity =>
              /\ o \in S => Kept(own, byPod, S)[o] = own[o]
              /\ ByPodAfterCut(own, byPod, S)[o] = byPod[o]
<1>1. ASSUME NEW o \in Ordinals
      PROVE  /\ own[o] \in Nat /\ byPod[o] \in Nat
             /\ Overcommit(own[o], byPod[o]) \in Nat
             /\ Overcommit(own[o], byPod[o]) <= own[o]
             /\ Overcommit(own[o], byPod[o]) <= byPod[o]
             /\ byPod[o] <= Capacity => Overcommit(own[o], byPod[o]) = 0
  <2>1. own[o] \in Nat /\ byPod[o] \in Nat
    BY DEF Placements
  <2> QED BY <2>1, CutIsPart, Zenon
<1> DEFINE K(o) == IF o \in S THEN own[o] - Overcommit(own[o], byPod[o]) ELSE 0
           B(o) == IF o \in S THEN byPod[o] - Overcommit(own[o], byPod[o]) ELSE byPod[o]
<1>2. ASSUME NEW o \in Ordinals
      PROVE  /\ K(o) \in Nat /\ B(o) \in Nat /\ K(o) <= own[o]
             /\ byPod[o] <= Capacity => (o \in S => K(o) = own[o]) /\ B(o) = byPod[o]
  BY <1>1
<1>3. Kept(own, byPod, S) = [o \in Ordinals |-> K(o)]
  BY DEF Kept
<1>4. ByPodAfterCut(own, byPod, S) = [o \in Ordinals |-> B(o)]
  BY DEF ByPodAfterCut
<1> HIDE DEF K, B
<1> QED BY <1>2, <1>3, <1>4 DEF Placements

\* What scheduleVPod returns for v, whose reservations are own and those of all
\* vpods byPod.
Outcome(own, byPod, S, r) ==
  /\ r.pl \in Placements
  /\ r.left \in Nat
  /\ (\A o \in Ordinals : byPod[o] <= Capacity) =>
       /\ \A o \in Ordinals : byPod[o] - own[o] + r.pl[o] <= Capacity
       /\ \/ \A o \in Ordinals : r.pl[o] <= own[o]
          \/ \A o \in S : r.pl[o] >= own[o]
       /\ (\A o \in S : o < schedReplicas) =>
            \A o \in Ordinals : r.pl[o] > own[o] => o \in S

LEMMA Outcomes ==
  ASSUME reserved \in [VPods -> Placements],
         NEW v \in VPods, NEW m \in Nat, NEW n, NEW r \in scheduleVPod(v, m, n)
  PROVE  Outcome(reserved[v], SumByPod(reserved), SchedulablePods(n), r)
<1> DEFINE S == SchedulablePods(n)
           own == reserved[v]
           byPod == SumByPod(reserved)
           kept == Kept(own, byPod, S)
           cut == ByPodAfterCut(own, byPod, S)
           tr == GetTotalVReplicas(kept)
           target == TargetVReplicas(m, S)
<1>1. S \in SUBSET Ordinals /\ own \in Placements
  BY DEF SchedulablePods
<1>2. byPod \in Placements
  BY ByPodIsPlacement
<1>3. /\ kept \in Placements /\ cut \in Placements
      /\ \A o \in Ordinals : kept[o] <= own[o]
      /\ \A o \in Ordinals : byPod[o] <= Capacity =>
           (o \in S => kept[o] = own[o]) /\ cut[o] = byPod[o]
  <2> HIDE DEF byPod, own, S
  <2> QED BY <1>1, <1>2, KeptIsPart
<1>4. tr \in Nat
  <2> HIDE DEF kept
  <2> QED BY <1>3, OrdinalsTotal DEF GetTotalVReplicas
<1>5. target \in Int
  <2> HIDE DEF S
  <2>0. IsFiniteSet(S)
    BY <1>1, OrdinalsAreFinite, FS_Subset, Zenon
  <2>1. Cardinality(S) \in Int
    BY <2>0, FS_CardinalityType
  <2>2. MinReplicas \in Int
    BY SchedulerAssumption
  <2>3. Min({MinReplicas, Cardinality(S)}) \in Int
    BY <2>1, <2>2, MinOfTwo, Zenon
  <2>4. m \in Int
    OBVIOUS
  <2>5. Max({m, Min({MinReplicas, Cardinality(S)})}) \in Int
    BY <2>3, <2>4, MaxOfTwo, Zenon
  <2> QED BY <2>4, <2>5 DEF TargetVReplicas
<1>6. scheduleVPod(v, m, n) =
        IF tr >= target
        THEN {[pl |-> removeReplicas(tr - target, kept), left |-> 0]}
        ELSE {addReplicas(n, target - tr, kept, cut, c) : c \in candidatesOrdered(own, kept, S)}
  BY DEF scheduleVPod
<1>7. \A o \in Ordinals : own[o] \in Nat /\ byPod[o] \in Nat /\ kept[o] \in Nat /\ cut[o] \in Nat
  <2> HIDE DEF own, byPod, kept, cut
  <2> QED BY <1>1, <1>2, <1>3 DEF Placements
<1> HIDE DEF S, own, byPod, kept, cut, tr, target
<1>8. CASE tr >= target
  <2> DEFINE less == removeReplicas(tr - target, kept)
  <2>1. r.pl = less /\ r.left = 0
    BY <1>6, <1>8
  <2>2. less \in Placements /\ \A o \in Ordinals : less[o] <= kept[o]
    <3>1. tr - target \in Int
      BY <1>4, <1>5
    <3> QED BY <1>3, <3>1, Removed, Zenon
  <2> HIDE DEF less
  <2>3. \A o \in Ordinals : r.pl[o] \in Nat /\ r.pl[o] <= kept[o]
    BY <2>1, <2>2 DEF Placements
  <2>4. \A o \in Ordinals : r.pl[o] <= own[o]
    BY <1>3, <1>7, <2>3, SMTT(30)
  <2>5. ASSUME \A o \in Ordinals : byPod[o] <= Capacity
        PROVE  \A o \in Ordinals : byPod[o] - own[o] + r.pl[o] <= Capacity
    BY <1>7, <2>3, <2>4, <2>5, SchedulerAssumption, SMTT(30)
  <2>6. \A o \in Ordinals : ~ (r.pl[o] > own[o])
    BY <1>7, <2>3, <2>4, SMTT(30)
  <2>7. Outcome(own, byPod, S, r)
    BY <2>1, <2>2, <2>4, <2>5, <2>6 DEF Outcome
  <2> QED BY <2>7 DEF own, byPod, S
<1>9. CASE ~ (tr >= target)
  <2>1. PICK c \in candidatesOrdered(own, kept, S) : r = addReplicas(n, target - tr, kept, cut, c)
    BY <1>6, <1>9
  <2>2. c \in Seq(Ordinals) /\ ((\A o \in S : o < schedReplicas) => c \in Seq(S))
    BY <1>1, CandidatesArePods, Zenon
  <2>3. target - tr \in Nat
    BY <1>4, <1>5, <1>9
  <2>4. r \in Grown(kept, cut, c)
    BY <1>3, <2>1, <2>2, <2>3, Added
  <2>5. r.pl \in Placements /\ r.byPod \in Placements /\ r.left \in Nat
    BY <2>4, SMTT(30) DEF Grown
  <2>6. ASSUME NEW o \in Ordinals
        PROVE  /\ r.pl[o] \in Nat /\ r.byPod[o] \in Nat
               /\ r.pl[o] >= kept[o]
               /\ r.byPod[o] - r.pl[o] = cut[o] - kept[o]
               /\ r.byPod[o] <= cut[o] \/ r.byPod[o] <= Capacity
               /\ r.pl[o] > kept[o] => \E i \in 1..Len(c) : c[i] = o
    BY <2>4, <2>5, SMTT(30) DEF Grown, Placements
  <2>7. ASSUME \A o \in Ordinals : byPod[o] <= Capacity, NEW o \in Ordinals
        PROVE  byPod[o] - own[o] + r.pl[o] <= Capacity
    <3>1. cut[o] = byPod[o] /\ kept[o] <= own[o] /\ byPod[o] <= Capacity
      BY <1>3, <2>7, SMTT(30)
    <3>2. /\ own[o] \in Nat /\ byPod[o] \in Nat /\ kept[o] \in Nat /\ r.pl[o] \in Nat
          /\ r.byPod[o] \in Nat /\ Capacity \in Nat
      BY <1>7, <2>6, SchedulerAssumption, SMTT(30)
    <3>3. r.byPod[o] - r.pl[o] = byPod[o] - kept[o] /\ r.byPod[o] <= Capacity
      <4>1. /\ r.byPod[o] - r.pl[o] = cut[o] - kept[o]
            /\ r.byPod[o] <= cut[o] \/ r.byPod[o] <= Capacity
        BY <2>6
      <4> QED BY <3>1, <3>2, <4>1, SMTT(30)
    <3> QED BY <3>1, <3>2, <3>3
  <2>8. ASSUME \A o \in Ordinals : byPod[o] <= Capacity, NEW o \in S
        PROVE  r.pl[o] >= own[o]
    <3>1. kept[o] = own[o] /\ r.pl[o] >= kept[o]
      BY <1>1, <1>3, <2>6, <2>8
    <3> QED BY <3>1, SMTT(30)
  <2>9. ASSUME \A o \in S : o < schedReplicas, NEW o \in Ordinals, r.pl[o] > own[o]
        PROVE  o \in S
    <3>1. own[o] \in Nat /\ kept[o] \in Nat /\ kept[o] <= own[o] /\ r.pl[o] \in Nat
      BY <1>3, <1>7, <2>6
    <3>2. r.pl[o] > kept[o]
      BY <2>9, <3>1
    <3>3. PICK i \in 1..Len(c) : c[i] = o
      BY <2>6, <3>2
    <3>4. c \in Seq(S)
      BY <2>2, <2>9
    <3> QED BY <3>3, <3>4, SMTT(30)
  <2>10. Outcome(own, byPod, S, r)
    BY <2>5, <2>7, <2>8, <2>9 DEF Outcome
  <2> QED BY <2>10 DEF own, byPod, S
<1> QED BY <1>8, <1>9

-----------------------------------------------------------------------------
(***************************************************************************)
(* The types.                                                              *)
(***************************************************************************)

\* The types, with the bound on the total that keeps the scale within MaxPods.
TypeInv == TypeOK /\ seen.total <= MaxPods * Capacity

LEMMA ScaleIsNumber ==
  ASSUME ClusterTypeOK, NEW c \in Callers PROVE GetScale(c) \in 0..MaxPods \union {Absent}
  BY DEF ClusterTypeOK, GetScale

\* What a call of the cache does to it.
CallStep(c) ==
  /\ \/ (GetScaleAsks(c) \/ GetScaleReturns(c)) /\ UNCHANGED <<replicas, scales>>
     \/ /\ scaleCall' = [scaleCall EXCEPT ![c] = Absent]
        /\ UNCHANGED <<replicas, scaleEntry, scales>>
     \/ \E n \in 0..MaxPods : ScaleIsWritten(c, n)

LEMMA CallType ==
  ASSUME ClusterTypeOK, NEW c \in Callers, CallStep(c), UNCHANGED <<vreplicas, placements, pods>>
  PROVE  ClusterTypeOK'
<1>1. scaleCall \in [Callers -> 0..MaxPods \union {Absent}] /\ scaleEntry \in 0..MaxPods \union {Absent}
      /\ replicas \in 0..MaxPods /\ scales \subseteq 0..MaxPods
  BY DEF ClusterTypeOK
<1>2. GetScale(c) \in 0..MaxPods \union {Absent}
  BY ScaleIsNumber
<1>3. /\ replicas' \in 0..MaxPods /\ scales' \subseteq 0..MaxPods
      /\ scaleEntry' \in 0..MaxPods \union {Absent}
      /\ scaleCall' \in [Callers -> 0..MaxPods \union {Absent}]
  <2> SUFFICES /\ replicas' \in 0..MaxPods /\ scales' \subseteq 0..MaxPods
               /\ scaleEntry' \in 0..MaxPods \union {Absent}
               /\ \E x \in 0..MaxPods \union {Absent} : scaleCall' = [scaleCall EXCEPT ![c] = x]
    BY <1>1
  <2>1. CASE GetScaleAsks(c) /\ UNCHANGED <<replicas, scales>>
    BY <1>1, <2>1, Zenon DEF GetScaleAsks
  <2>2. CASE GetScaleReturns(c) /\ UNCHANGED <<replicas, scales>>
    BY <1>1, <1>2, <2>2, Zenon DEF GetScaleReturns
  <2>3. CASE scaleCall' = [scaleCall EXCEPT ![c] = Absent] /\ UNCHANGED <<replicas, scaleEntry, scales>>
    BY <1>1, <2>3, Zenon
  <2>4. CASE \E n \in 0..MaxPods : ScaleIsWritten(c, n)
    BY <1>1, <2>4, Zenon DEF ScaleIsWritten
  <2> QED BY <2>1, <2>2, <2>3, <2>4 DEF CallStep
<1> QED BY <1>3 DEF ClusterTypeOK

LEMMA NothingSeenType == NothingSeen \in Seen /\ NothingSeen.total <= MaxPods * Capacity
  BY SchedulerAssumption DEF NothingSeen, Seen

\* A call of Schedule has a number of vreplicas to place.
LEMMA AskedIsNumber ==
  ASSUME ClusterTypeOK, SchedulerTypeOK, NEW v \in VPods, NEW m \in Asked(v)
  PROVE  m \in Nat
<1>1. CASE scheduling = {}
  BY <1>1, SchedulerAssumption DEF Asked, Listed, ClusterTypeOK
<1>2. CASE scheduling # {}
  BY <1>2, SchedulerAssumption DEF Asked, SchedulerTypeOK
<1> QED BY <1>1, <1>2

LEMMA NoPlacementType == NoPlacement \in Placements
  BY DEF NoPlacement, Placements

LEMMA NeededIsBounded ==
  ASSUME NEW total \in Nat, total <= MaxPods * Capacity
  PROVE  NeededReplicas(total) \in 0..MaxPods
<1>1. (total + Capacity - 1) \div Capacity \in 0..MaxPods
  BY RoundedUp, SchedulerAssumption
<1> DEFINE q == (total + Capacity - 1) \div Capacity
<1>2. q \in 0..MaxPods /\ MinReplicas \in 0..MaxPods /\ q \in Int /\ MinReplicas \in Int
  BY <1>1, SchedulerAssumption
<1> HIDE DEF q
<1>3. Max({q, MinReplicas}) \in {q, MinReplicas}
  BY <1>2, MaxOfTwo, Zenon
<1>4. NeededReplicas(total) = Max({q, MinReplicas})
  BY DEF NeededReplicas, q
<1> QED BY <1>2, <1>3, <1>4

\* The end of a round.
LEMMA RoundEndType ==
  ASSUME TypeInv, NEW failed \in BOOLEAN, RoundEnds(failed),
         UNCHANGED <<schedulerVars, trigger, autoLeader, promotion, otherRound>>,
         ClusterTypeOK', disturbed' \in 0..MaxDisturbed
  PROVE  TypeInv'
<1>1. seen' \in Seen /\ seen'.total <= MaxPods * Capacity
  BY NothingSeenType DEF RoundEnds
<1>2. /\ retrying' \in BOOLEAN /\ attemptScaleDown' \in BOOLEAN /\ phase' \in Phases
      /\ version' \in {"none", "current", "old"}
  BY Zenon DEF RoundEnds, TypeInv, TypeOK, AutoscalerTypeOK, Phases
<1>3. SchedulerTypeOK'
  BY SMTT(30) DEF schedulerVars, TypeInv, TypeOK, SchedulerTypeOK
<1> QED BY <1>1, <1>2, <1>3 DEF TypeInv, TypeOK, AutoscalerTypeOK

LEMMA TypeStep == ASSUME TypeInv, [Next]_vars PROVE TypeInv'
<1> USE DEF TypeInv, TypeOK
<1>1. ASSUME ClusterTypeOK', UNCHANGED <<schedulerVars, autoscalerVars>>,
             disturbed' \in 0..MaxDisturbed
      PROVE  TypeInv'
  BY <1>1 DEF schedulerVars, autoscalerVars, SchedulerTypeOK, AutoscalerTypeOK
<1>2. ASSUME SchedulerTypeOK', UNCHANGED <<clusterVars, autoscalerVars>>,
             disturbed' \in 0..MaxDisturbed
      PROVE  TypeInv'
  BY <1>2 DEF clusterVars, cacheVars, autoscalerVars, ClusterTypeOK, AutoscalerTypeOK
<1>3. ASSUME UNCHANGED clusterVars PROVE ClusterTypeOK'
  BY <1>3 DEF clusterVars, cacheVars, ClusterTypeOK
<1>4. ASSUME UNCHANGED schedulerVars PROVE SchedulerTypeOK'
  BY <1>4 DEF schedulerVars, SchedulerTypeOK
<1>5. ASSUME NEW kind, Disturb(kind) PROVE disturbed' \in 0..MaxDisturbed
  BY <1>5, DisturbanceAssumption DEF Disturb
<1>6. \A c \in Callers : GetScale(c) \in 0..MaxPods \union {Absent}
  BY ScaleIsNumber
<1>7. ASSUME NEW v \in VPods, ScheduleVPod(v) PROVE TypeInv'
  <2>0. UNCHANGED <<phase, attemptScaleDown, seen, version, retrying, autoLeader, promotion,
                    otherRound, disturbed>>
    BY <1>7, Zenon DEF ScheduleVPod
  <2>1. CASE ScheduleWaits(v) /\ UNCHANGED trigger
    <3>1. ClusterTypeOK'
      BY <2>1, CallType, Zenon DEF ScheduleWaits, CallStep, Callers
    <3>2. scheduling' \subseteq VPods \X (0..MaxVReplicas) /\ \A x, y \in scheduling' : x = y
      BY <2>1 DEF ScheduleWaits, Listed, ClusterTypeOK
    <3>3. SchedulerTypeOK'
      BY <2>1, <3>2 DEF ScheduleWaits, SchedulerTypeOK
    <3>4. AutoscalerTypeOK' /\ seen' = seen
      BY <2>0, <2>1 DEF AutoscalerTypeOK
    <3> QED BY <2>0, <3>1, <3>3, <3>4, SMTT(30)
  <2>2. ASSUME NEW m \in Asked(v), NEW r \in scheduleVPod(v, m, GetScale("scheduler")),
               Schedule(v, r), trigger' = (trigger \/ r.left > 0)
        PROVE  TypeInv'
    <3>1. r.pl \in Placements
      BY AskedIsNumber, Outcomes DEF Outcome, SchedulerTypeOK
    <3>2. ClusterTypeOK'
      BY <2>2, CallType, Zenon DEF Schedule, CallStep, Callers
    <3>3. reserved' \in [VPods -> Placements]
      BY <2>2, <3>1 DEF Schedule, SchedulerTypeOK
    <3>4. offered' \in [VPods -> Placements \union {NoOffer}]
      BY <2>2, <3>1, SMTT(30) DEF Schedule, SchedulerTypeOK
    <3>5. SchedulerTypeOK'
      BY <2>2, <3>3, <3>4 DEF Schedule, SchedulerTypeOK
    <3>6. AutoscalerTypeOK' /\ seen' = seen
      BY <2>0, <2>2 DEF AutoscalerTypeOK
    <3> QED BY <2>0, <3>2, <3>5, <3>6, SMTT(30)
  <2> QED BY <1>7, <2>1, <2>2, Zenon DEF ScheduleVPod
<1>8. CASE CommitVPod
  <2>1. PICK v \in VPods : Commit(v)
    BY <1>8 DEF CommitVPod
  <2>2. offered[v] \in Placements
    BY <2>1 DEF Commit, SchedulerTypeOK
  <2>3. ClusterTypeOK'
    BY <2>1, <2>2 DEF Commit, cacheVars, ClusterTypeOK
  <2>4. SchedulerTypeOK'
    BY <2>1 DEF Commit, SchedulerTypeOK
  <2> QED BY <1>8, <2>3, <2>4 DEF CommitVPod, autoscalerVars, AutoscalerTypeOK
<1>9. CASE ResyncReserved
  <2>1. CASE ResyncList
    <3>1. Listed \in SUBSET VPods
      BY DEF Listed
    <3>2. SchedulerTypeOK'
      BY <2>1, <3>1 DEF ResyncList, SchedulerTypeOK
    <3> QED BY <1>2, <1>9, <2>1, <3>2 DEF ResyncReserved, ResyncList
  <2>2. CASE ResyncDelete
    <3>1. reserved' \in [VPods -> Placements]
      BY <2>2, NoPlacementType DEF ResyncDelete, SchedulerTypeOK
    <3>2. SchedulerTypeOK'
      BY <2>2, <3>1, SMTT(30) DEF ResyncDelete, SchedulerTypeOK
    <3> QED BY <1>2, <1>9, <2>2, <3>2 DEF ResyncReserved, ResyncDelete
  <2> QED BY <1>9, <2>1, <2>2 DEF ResyncReserved
<1>10. CASE AutoscalerStep
  <2>0. UNCHANGED <<schedulerVars, disturbed>>
    BY <1>10 DEF AutoscalerStep
  <2>1. ASSUME NEW down \in BOOLEAN, Wake(down) PROVE TypeInv'
    <3>1. AutoscalerTypeOK' /\ seen' = seen
      BY <2>1 DEF Wake, AutoscalerTypeOK, Phases
    <3> QED BY <1>3, <1>4, <2>0, <2>1, <3>1, SMTT(30) DEF Wake
  <2>2. CASE ReadState
    <3> DEFINE listing == IF scaleCall["autoscaler"] = Absent THEN Listing ELSE seen
               n == GetScale("autoscaler")
    <3>1. TotalExpectedVReplicas \in Nat /\ TotalExpectedVReplicas <= MaxPods * Capacity
      BY ExpectedIsBounded, SMTT(30) DEF ClusterTypeOK
    <3>2. FreeCapLen(PlacedOn) \in 0..MaxPods /\ FreeCapLen(SchedulablePods(n)) \in 0..MaxPods
      BY FreeCapIsBounded DEF PlacedOn, SchedulablePods
    <3>3. seen \in Seen /\ seen.total <= MaxPods * Capacity
      BY DEF AutoscalerTypeOK
    <3>4. listing \in Seen /\ listing.total <= MaxPods * Capacity
      <4>1. Listing \in Seen /\ Listing.total = TotalExpectedVReplicas
        BY <3>1, <3>2, <3>3, Zenon DEF Listing, Seen
      <4> QED BY <3>1, <3>3, <4>1, Zenon
    <3> HIDE DEF listing
    <3>5. ASSUME n >= 0
          PROVE  StateOf(listing, n) \in Seen /\ StateOf(listing, n).total = listing.total
      <4>1. n \in 0..MaxPods
        BY <1>6, <3>5 DEF Callers, Absent
      <4>2. listing.freeCap \in 0..MaxPods
        BY <3>4 DEF Seen
      <4> DEFINE f == FreeCapLen(SchedulablePods(n))
                 k == Max({listing.freeCap, f})
      <4> HIDE DEF f
      <4>3. f \in 0..MaxPods /\ f \in Int /\ listing.freeCap \in Int
        BY <3>2, <4>2 DEF f
      <4>4. k \in {listing.freeCap, f}
        BY <4>3, MaxOfTwo, Zenon
      <4>5. k \in 0..MaxPods
        BY <4>2, <4>3, <4>4, Zenon
      <4>6. StateOf(listing, n) = [listing EXCEPT !.scale = n, !.freeCap = k]
        BY DEF StateOf, f
      <4> HIDE DEF k, n
      <4> QED BY <3>4, <4>1, <4>5, <4>6, Zenon DEF Seen
    <3>6. seen' \in {listing, StateOf(listing, n)} /\ (seen' # listing => n >= 0)
      BY <2>2, Zenon DEF ReadState, GetScaleReturns, listing
    <3>7. seen' \in Seen /\ seen'.total <= MaxPods * Capacity
      BY <3>4, <3>5, <3>6, Zenon
    <3>8. phase' \in Phases
      BY <2>2, Zenon DEF ReadState, AutoscalerTypeOK, Phases
    <3>9. AutoscalerTypeOK'
      BY <2>2, <3>7, <3>8, Zenon DEF ReadState, AutoscalerTypeOK
    <3>10. ClusterTypeOK'
      BY <2>2, CallType, Zenon DEF ReadState, CallStep, Callers
    <3> QED BY <1>4, <2>0, <3>7, <3>9, <3>10, SMTT(30)
  <2>3. CASE DecideScale
    <3> DEFINE current == GetScale("autoscaler")
               wanted == WantedReplicas(current)
    <3>1. ClusterTypeOK'
      BY <2>3, CallType, Zenon DEF DecideScale, CallStep, Callers
    <3>2. ASSUME seen' = seen, phase' = phase, UNCHANGED <<attemptScaleDown, retrying>>,
                 version' = "current"
          PROVE  TypeInv'
      <4>1. AutoscalerTypeOK'
        BY <2>3, <3>2, Zenon DEF DecideScale, AutoscalerTypeOK
      <4> QED BY <1>4, <2>0, <3>1, <3>2, <4>1, SMTT(30)
    <3>3. ASSUME current >= 0, phase' = "updating", UNCHANGED <<attemptScaleDown, retrying, version>>,
                 seen' = [NothingSeen EXCEPT !.wanted = wanted, !.early = seen.early]
          PROVE  TypeInv'
      <4>1. current \in 0..MaxPods /\ current \in Int
        BY <1>6, <3>3 DEF Callers, Absent
      <4>2. NeededReplicas(seen.total) \in 0..MaxPods /\ NeededReplicas(seen.total) \in Int
        BY NeededIsBounded DEF AutoscalerTypeOK, Seen
      <4>3. Max({NeededReplicas(seen.total), current}) \in {NeededReplicas(seen.total), current}
        BY <4>1, <4>2, MaxOfTwo, Zenon
      <4>4. wanted \in 0..MaxPods
        BY <4>1, <4>2, <4>3, Zenon DEF WantedReplicas
      <4> HIDE DEF wanted
      <4>5. seen.early \in BOOLEAN
        BY DEF AutoscalerTypeOK, Seen
      <4>6. seen' \in Seen /\ seen'.total = NothingSeen.total
        BY <3>3, <4>4, <4>5, NothingSeenType, Zenon DEF Seen
      <4>7. AutoscalerTypeOK'
        BY <2>3, <3>3, <4>6, Zenon DEF DecideScale, AutoscalerTypeOK, Phases
      <4> QED BY <1>4, <2>0, <3>1, <4>6, <4>7, NothingSeenType, SMTT(30)
    <3>4. ASSUME NEW pairs \in {{}, Evictable}, seen' = [NothingSeen EXCEPT !.evict = pairs],
                 phase' = "compacting", version' = "none", UNCHANGED <<attemptScaleDown, retrying>>
          PROVE  TypeInv'
      <4>1. pairs \in SUBSET (VPods \X Ordinals)
        BY DEF Evictable, Listed
      <4>2. seen' \in Seen /\ seen'.total = NothingSeen.total
        BY <3>4, <4>1, NothingSeenType DEF Seen
      <4>3. AutoscalerTypeOK'
        BY <2>3, <3>4, <4>2, Zenon DEF DecideScale, AutoscalerTypeOK, Phases
      <4> QED BY <1>4, <2>0, <3>1, <4>2, <4>3, NothingSeenType, SMTT(30)
    <3>5. CASE RoundEnds(FALSE)
      BY <2>0, <2>3, <3>1, <3>5, RoundEndType, Zenon DEF DecideScale
    <3> QED BY <2>3, <3>2, <3>3, <3>4, <3>5, Zenon DEF DecideScale, GetScaleReturns
  <2>6. CASE UpdateScale
    <3>1. CASE RoundEnds(TRUE) /\ UNCHANGED <<replicas, cacheVars, scales>>
      <4>1. ClusterTypeOK'
        BY <1>3, <2>6, <3>1, Zenon DEF UpdateScale, clusterVars
      <4> QED BY <2>0, <2>6, <3>1, <4>1, RoundEndType, Zenon DEF UpdateScale
    <3>2. CASE /\ ScaleIsWritten("autoscaler", seen.wanted)
               /\ UNCHANGED <<phase, attemptScaleDown, seen, retrying, version>>
      <4>1. seen.wanted \in 0..MaxPods
        BY DEF AutoscalerTypeOK, Seen
      <4>2. ClusterTypeOK'
        BY <2>6, <3>2, <4>1, CallType, Zenon DEF UpdateScale, CallStep, Callers
      <4>3. AutoscalerTypeOK'
        BY <2>6, <3>2, Zenon DEF UpdateScale, AutoscalerTypeOK
      <4> QED BY <1>4, <2>0, <3>2, <4>2, <4>3, SMTT(30)
    <3> QED BY <2>6, <3>1, <3>2, Zenon DEF UpdateScale
  <2>7. CASE UpdateReturns
    <3>1. ClusterTypeOK'
      BY <2>7, CallType, Zenon DEF UpdateReturns, CallStep, Callers
    <3> QED BY <2>0, <2>7, <3>1, RoundEndType, Zenon DEF UpdateReturns
  <2>4. CASE CompactEnds
    BY <1>3, <2>0, <2>4, RoundEndType, Zenon DEF CompactEnds
  <2>5. ASSUME NEW v \in VPods, NEW o \in Ordinals, Evict(v, o) PROVE TypeInv'
    <3>1. placements' \in [VPods -> Placements]
      BY <2>5 DEF Evict, ClusterTypeOK, Placements
    <3>2. seen' \in Seen /\ seen'.total = seen.total
      BY <2>5 DEF Evict, AutoscalerTypeOK, Seen
    <3>3. ClusterTypeOK'
      BY <2>5, <3>1 DEF Evict, cacheVars, ClusterTypeOK
    <3>4. AutoscalerTypeOK'
      BY <2>5, <3>2 DEF Evict, AutoscalerTypeOK
    <3> QED BY <1>4, <2>0, <3>2, <3>3, <3>4
  <2> QED BY <1>10, <2>1, <2>2, <2>3, <2>4, <2>5, <2>6, <2>7, SMTT(30) DEF AutoscalerStep
<1>11. CASE RetryAutoscale
  <2>1. AutoscalerTypeOK' /\ seen' = seen
    BY <1>11, Zenon DEF RetryAutoscale, Retry, AutoscalerTypeOK
  <2> QED BY <1>3, <1>4, <1>11, <2>1 DEF RetryAutoscale, Retry
<1>12. CASE Promote
  <2>1. CASE AutoscalerPromote /\ UNCHANGED schedulerVars
    <3>1. AutoscalerTypeOK' /\ seen' = seen
      BY <2>1 DEF AutoscalerPromote, AutoscalerTypeOK
    <3> QED BY <1>3, <1>4, <1>12, <2>1, <3>1 DEF Promote, AutoscalerPromote
  <2>2. CASE ResetCache /\ UNCHANGED schedulerVars
    <3>1. seen' \in Seen /\ seen'.total = seen.total
      BY <2>2, Zenon DEF ResetCache, RoundIsEarly, AutoscalerTypeOK, Seen
    <3>3. AutoscalerTypeOK'
      BY <2>2, <3>1 DEF ResetCache, AutoscalerTypeOK
    <3>2. ClusterTypeOK'
      BY <2>2 DEF ResetCache, Reset, ClusterTypeOK
    <3> QED BY <1>4, <1>12, <2>2, <3>1, <3>2, <3>3 DEF Promote
  <2>3. CASE /\ promotion' = "none" /\ SchedulerPromote
             /\ UNCHANGED <<clusterVars, phase, attemptScaleDown, seen, version, trigger,
                            retrying, autoLeader, otherRound>>
    <3>1. AutoscalerTypeOK' /\ seen' = seen
      BY <2>3 DEF AutoscalerTypeOK
    <3>2. reserved' \in [VPods -> Placements]
      BY <2>3, NoPlacementType, SMTT(30)
      DEF SchedulerPromote, initReserved, SchedulerTypeOK, ClusterTypeOK
    <3>3. SchedulerTypeOK'
      BY <2>3, <3>2 DEF SchedulerPromote, SchedulerTypeOK
    <3> QED BY <1>3, <1>12, <2>3, <3>1, <3>3, SMTT(30) DEF Promote
  <2> QED BY <1>12, <2>1, <2>2, <2>3 DEF Promote
<1>13. CASE Demote
  <2>1. AutoscalerTypeOK' /\ seen' = seen
    BY <1>13, Zenon DEF Demote, AutoscalerDemote, AutoscalerTypeOK
  <2>2. SchedulerTypeOK'
    BY <1>13, Zenon DEF Demote, SchedulerTypeOK
  <2> QED BY <1>3, <1>5, <1>13, <2>1, <2>2 DEF Demote, AutoscalerDemote
<1>14. CASE OtherLeader
  <2>0. UNCHANGED schedulerVars
    BY <1>14 DEF OtherLeader
  <2>1. CASE Disturb("leader") /\ OtherRoundBegins
    <3>1. NeededReplicas(TotalExpectedVReplicas) \in 0..MaxPods
      BY ExpectedIsBounded, NeededIsBounded, SMTT(30) DEF ClusterTypeOK
    <3>2. AutoscalerTypeOK' /\ seen' = seen
      BY <2>1, <3>1 DEF OtherRoundBegins, AutoscalerTypeOK
    <3> QED BY <1>3, <1>4, <1>5, <2>0, <2>1, <3>2 DEF OtherRoundBegins
  <2>2. CASE OtherRoundScales /\ UNCHANGED disturbed
    <3>1. otherRound \in 0..MaxPods
      BY <2>2 DEF OtherRoundScales, AutoscalerTypeOK
    <3>2. ClusterTypeOK'
      BY <2>2, <3>1 DEF OtherRoundScales, cacheVars, ClusterTypeOK
    <3>3. AutoscalerTypeOK' /\ seen' = seen
      BY <2>2 DEF OtherRoundScales, AutoscalerTypeOK
    <3> QED BY <1>4, <2>0, <2>2, <3>2, <3>3
  <2> QED BY <1>14, <2>1, <2>2 DEF OtherLeader
<1>15. CASE ClusterStep
  <2>1. CASE updateStatefulset
    <3>1. SchedulerTypeOK'
      BY <2>1 DEF updateStatefulset, SchedulerTypeOK, ClusterTypeOK
    <3> QED BY <1>2, <1>15, <2>1, <3>1 DEF ClusterStep, updateStatefulset
  <2>2. ASSUME NEW o \in Ordinals, PodProgress(o), UNCHANGED schedulerVars PROVE TypeInv'
    <3>1. pods' \in [Ordinals -> PodStates]
      BY <2>2 DEF PodProgress, ClusterTypeOK, PodStates
    <3>2. ClusterTypeOK'
      BY <2>2, <3>1 DEF PodProgress, cacheVars, ClusterTypeOK
    <3> QED BY <1>1, <1>15, <2>2, <3>2 DEF ClusterStep
  <2> QED BY <1>15, <2>1, <2>2 DEF ClusterStep
<1>16. CASE EntryIsOld
  <2>1. ClusterTypeOK'
    BY <1>16 DEF EntryIsOld, EntryExpires, ClusterTypeOK
  <2> QED BY <1>1, <1>5, <1>16, <2>1, SMTT(30) DEF EntryIsOld
<1>17. CASE VPodChanges
  <2>1. disturbed' \in 0..MaxDisturbed
    BY <1>5, <1>17 DEF VPodChanges
  <2>2. AutoscalerTypeOK' /\ seen' = seen
    BY <1>17 DEF VPodChanges, autoscalerVars, AutoscalerTypeOK
  <2>3. ASSUME NEW v \in VPods, NEW n \in MinVReplicas..MaxVReplicas, SetVReplicas(v, n),
               UNCHANGED offered
        PROVE  TypeInv'
    <3>0. n \in 0..MaxVReplicas
      BY SchedulerAssumption
    <3>1. ClusterTypeOK'
      BY <2>3, <3>0 DEF SetVReplicas, cacheVars, ClusterTypeOK
    <3>2. SchedulerTypeOK'
      BY <1>17, <2>3 DEF VPodChanges, SchedulerTypeOK
    <3> QED BY <2>1, <2>2, <3>1, <3>2, SMTT(30)
  <2>4. ASSUME NEW v \in VPods, DeleteVPod(v), offered' = [offered EXCEPT ![v] = NoOffer]
        PROVE  TypeInv'
    <3>1. ClusterTypeOK'
      BY <2>4, NoPlacementType DEF DeleteVPod, cacheVars, ClusterTypeOK
    <3>2. SchedulerTypeOK'
      BY <1>17, <2>4 DEF VPodChanges, SchedulerTypeOK
    <3> QED BY <2>1, <2>2, <3>1, <3>2, SMTT(30)
  <2> QED BY <1>17, <2>3, <2>4 DEF VPodChanges
<1>18. CASE PodIsMarked
  <2>1. ClusterTypeOK'
    BY <1>18 DEF PodIsMarked, MarkUnschedulable, cacheVars, ClusterTypeOK, PodStates
  <2> QED BY <1>1, <1>5, <1>18, <2>1, SMTT(30) DEF PodIsMarked
<1>19. CASE ScheduleError
  <2>1. SchedulerTypeOK'
    BY <1>19, NoPlacementType DEF ScheduleError, ScheduleFails, SchedulerTypeOK
  <2>2. ClusterTypeOK'
    BY <1>19, CallType, Zenon DEF ScheduleError, ScheduleFails, CallStep, Callers
  <2>3. AutoscalerTypeOK' /\ seen' = seen
    BY <1>19 DEF ScheduleError, autoscalerVars, AutoscalerTypeOK
  <2> QED BY <1>5, <1>19, <2>1, <2>2, <2>3, SMTT(30) DEF ScheduleError
<1>20. CASE AutoscalerError
  <2>0. disturbed' \in 0..MaxDisturbed /\ UNCHANGED schedulerVars
    BY <1>5, <1>20 DEF AutoscalerError
  <2>1. CASE CallFails
    <3>1. ClusterTypeOK'
      BY <2>1, CallType, Zenon DEF CallFails, CallStep, Callers
    <3> QED BY <2>0, <2>1, <3>1, RoundEndType, Zenon DEF CallFails
  <2>2. ASSUME NEW v \in VPods, NEW o \in Ordinals, EvictFails(v, o) PROVE TypeInv'
    <3>1. CASE RoundEnds(TRUE)
      BY <1>3, <2>0, <2>2, <3>1, RoundEndType, Zenon DEF EvictFails
    <3>2. CASE phase' = "panicked" /\ UNCHANGED <<retrying, attemptScaleDown, seen, version>>
      <4>1. AutoscalerTypeOK'
        BY <2>2, <3>2 DEF EvictFails, AutoscalerTypeOK, Phases
      <4> QED BY <1>3, <1>4, <2>0, <2>2, <3>2, <4>1, SMTT(30) DEF EvictFails
    <3> QED BY <2>2, <3>1, <3>2, Zenon DEF EvictFails
  <2> QED BY <1>20, <2>1, <2>2 DEF AutoscalerError
<1>21. CASE Restart
  <2>1. AutoscalerTypeOK' /\ seen' = NothingSeen
    BY <1>21, NothingSeenType, Zenon DEF Restart, AutoscalerTypeOK, Phases
  <2>2. SchedulerTypeOK'
    BY <1>21, NoPlacementType, Zenon DEF Restart, SchedulerRestart, SchedulerTypeOK, ClusterTypeOK
  <2>3. ClusterTypeOK'
    BY <1>21 DEF Restart, ClusterTypeOK, NoCalls
  <2> QED BY <1>5, <1>21, <2>1, <2>2, <2>3, NothingSeenType DEF Restart
<1>22. CASE UNCHANGED vars
  BY <1>1, <1>3, <1>22 DEF vars
<1> QED BY <1>7, <1>8, <1>9, <1>10, <1>11, <1>12, <1>13, <1>14, <1>15, <1>16, <1>17, <1>18, <1>19,
           <1>20, <1>21, <1>22, SMTT(30) DEF Next

LEMMA TypeInit == Init => TypeInv
<1> SUFFICES ASSUME Init PROVE TypeInv
  OBVIOUS
<1>1. ClusterTypeOK
  BY SchedulerAssumption, NoPlacementType DEF Init, ClusterTypeOK, PodStates, NoCalls
<1>2. SchedulerTypeOK
  BY <1>1, NoPlacementType, Zenon DEF Init, SchedulerInit, SchedulerTypeOK, ClusterTypeOK
<1>3. AutoscalerTypeOK /\ seen = NothingSeen
  BY NothingSeenType, Zenon DEF Init, AutoscalerInit, AutoscalerTypeOK, Phases
<1> QED BY <1>1, <1>2, <1>3, NothingSeenType, DisturbanceAssumption DEF Init, TypeInv, TypeOK

\* Placements, reservations, scale and state of the autoscaler are what the code
\* takes them for, whatever interleaves: no count gets negative, no pod outside the
\* statefulset is named, and the scale stays within the pods that the vpods need
\* (autoscaler.go, doautoscale; scheduler.go, scheduleVPod).
THEOREM SchedulerTypeCorrect == Spec => []TypeOK
<1>1. TypeInv /\ [Next]_vars => TypeInv'
  BY TypeStep
<1>2. TypeInv => TypeOK
  BY DEF TypeInv
<1> QED BY <1>1, <1>2, TypeInit, PTL DEF Spec

-----------------------------------------------------------------------------

(***************************************************************************)
(* The scale and its cache.  What a call stores when it returns, it got or *)
(* wrote earlier: the answers that are still to be stored are part of the  *)
(* inductive invariant, and Reset, which waits for them, is the only step  *)
(* that makes an answer too old to be stored.                              *)
(***************************************************************************)

\* The entry, and every answer that is to be stored, is a scale there was.
CacheInv ==
  /\ replicas \in scales
  /\ scaleEntry \in scales \union {Absent}
  /\ \A c \in Callers : scaleCall[c] \in scales \union {Absent}

\* The round has decided on an update, which is not made yet.
UpdateIsDue ==
  phase = "updating" /\ scaleCall["autoscaler"] = Absent /\ ~ attemptScaleDown /\ ~ seen.early

\* An update that may not scale down asks for more than the scale it goes by.
UpdateInv == UpdateIsDue => \E n \in scales : n < seen.wanted

LEMMA CallKeepsCache ==
  ASSUME ClusterTypeOK, CacheInv, NEW c \in Callers, CallStep(c)
  PROVE  CacheInv'
<1>1. scaleCall \in [Callers -> 0..MaxPods \union {Absent}]
  BY DEF ClusterTypeOK
<1>2. GetScale(c) \in scales \union {Absent}
  BY DEF CacheInv, GetScale
<1>3. CASE GetScaleAsks(c) /\ UNCHANGED <<replicas, scales>>
  BY <1>1, <1>3 DEF GetScaleAsks, CacheInv
<1>4. CASE GetScaleReturns(c) /\ UNCHANGED <<replicas, scales>>
  BY <1>1, <1>2, <1>4 DEF GetScaleReturns, CacheInv
<1>5. CASE scaleCall' = [scaleCall EXCEPT ![c] = Absent] /\ UNCHANGED <<replicas, scaleEntry, scales>>
  BY <1>1, <1>5 DEF CacheInv
<1>6. CASE \E n \in 0..MaxPods : ScaleIsWritten(c, n)
  BY <1>1, <1>6 DEF ScaleIsWritten, CacheInv
<1> QED BY <1>3, <1>4, <1>5, <1>6 DEF CallStep

LEMMA CacheStep == ASSUME TypeInv, CacheInv, [Next]_vars PROVE CacheInv'
<1>0. ClusterTypeOK
  BY DEF TypeInv, TypeOK
<1>1. ASSUME UNCHANGED <<replicas, cacheVars, scales>> PROVE CacheInv'
  BY <1>1 DEF CacheInv, cacheVars
<1>2. ASSUME NEW v \in VPods, ScheduleVPod(v) PROVE CacheInv'
  BY <1>0, <1>2, CallKeepsCache, Zenon
  DEF ScheduleVPod, ScheduleWaits, Schedule, CallStep, Callers
<1>3. CASE CommitVPod
  BY <1>1, <1>3 DEF CommitVPod, Commit
<1>4. CASE ResyncReserved
  BY <1>1, <1>4 DEF ResyncReserved, ResyncList, ResyncDelete, clusterVars
<1>5. CASE AutoscalerStep
  <2>1. ASSUME NEW down \in BOOLEAN, Wake(down) PROVE CacheInv'
    BY <1>1, <2>1 DEF Wake, clusterVars
  <2>2. CASE ReadState
    BY <1>0, <2>2, CallKeepsCache, Zenon DEF ReadState, CallStep, Callers
  <2>3. CASE DecideScale
    BY <1>0, <2>3, CallKeepsCache, Zenon DEF DecideScale, CallStep, Callers
  <2>4. CASE UpdateScale
    <3>1. seen.wanted \in 0..MaxPods
      BY DEF TypeInv, TypeOK, AutoscalerTypeOK, Seen
    <3> QED BY <1>0, <1>1, <2>4, <3>1, CallKeepsCache, Zenon DEF UpdateScale, CallStep, Callers
  <2>5. CASE UpdateReturns
    BY <1>0, <2>5, CallKeepsCache, Zenon DEF UpdateReturns, CallStep, Callers
  <2>6. CASE CompactEnds
    BY <1>1, <2>6 DEF CompactEnds, clusterVars
  <2>7. ASSUME NEW v \in VPods, NEW o \in Ordinals, Evict(v, o) PROVE CacheInv'
    BY <1>1, <2>7 DEF Evict
  <2> QED BY <1>5, <2>1, <2>2, <2>3, <2>4, <2>5, <2>6, <2>7, SMTT(30) DEF AutoscalerStep
<1>6. CASE RetryAutoscale
  BY <1>1, <1>6 DEF RetryAutoscale, Retry, clusterVars
<1>7. CASE Promote
  <2>1. CASE ResetCache
    BY <2>1 DEF ResetCache, Reset, CacheInv, NoCalls
  <2>2. CASE AutoscalerPromote \/ UNCHANGED clusterVars
    BY <1>1, <2>2 DEF AutoscalerPromote, clusterVars
  <2> QED BY <1>7, <2>1, <2>2 DEF Promote
<1>8. CASE Demote
  BY <1>1, <1>8 DEF Demote, AutoscalerDemote, clusterVars
<1>9. CASE OtherLeader
  <2>1. CASE OtherRoundBegins
    BY <1>1, <2>1 DEF OtherRoundBegins, clusterVars
  <2>2. CASE OtherRoundScales
    BY <2>2 DEF OtherRoundScales, cacheVars, CacheInv
  <2> QED BY <1>9, <2>1, <2>2 DEF OtherLeader
<1>10. CASE ClusterStep
  BY <1>1, <1>10 DEF ClusterStep, updateStatefulset, PodProgress, clusterVars
<1>11. CASE EntryIsOld
  BY <1>11 DEF EntryIsOld, EntryExpires, CacheInv
<1>12. CASE VPodChanges
  BY <1>1, <1>12 DEF VPodChanges, SetVReplicas, DeleteVPod
<1>13. CASE PodIsMarked
  BY <1>1, <1>13 DEF PodIsMarked, MarkUnschedulable
<1>14. CASE ScheduleError
  BY <1>0, <1>14, CallKeepsCache, Zenon DEF ScheduleError, ScheduleFails, CallStep, Callers
<1>15. CASE AutoscalerError
  <2>1. CASE CallFails
    BY <1>0, <2>1, CallKeepsCache, Zenon DEF CallFails, CallStep, Callers
  <2>2. ASSUME NEW v \in VPods, NEW o \in Ordinals, EvictFails(v, o) PROVE CacheInv'
    BY <1>1, <2>2, Zenon DEF EvictFails, clusterVars
  <2> QED BY <1>15, <2>1, <2>2 DEF AutoscalerError
<1>16. CASE Restart
  BY <1>16 DEF Restart, CacheInv, NoCalls
<1>17. CASE UNCHANGED vars
  BY <1>1, <1>17 DEF vars, clusterVars
<1> QED BY <1>2, <1>3, <1>4, <1>5, <1>6, <1>7, <1>8, <1>9, <1>10, <1>11, <1>12, <1>13, <1>14,
           <1>15, <1>16, <1>17, SMTT(30) DEF Next

LEMMA CacheInit == Init => CacheInv
  BY DEF Init, CacheInv, NoCalls

\* What the cache has is a scale there was after Promote last emptied it, whichever
\* calls of Schedule and of the autoscaler were between an answer of the API server
\* and the moment they store it (scheduler.go, ScaleCache.GetScale, UpdateScale and
\* Reset; autoscaler.go, Promote).
THEOREM EntriesAreSincePromotion == Spec => []EntryIsSincePromotion
<1>1. TypeInv /\ CacheInv /\ [Next]_vars => CacheInv'
  BY CacheStep
<1>2. TypeInv /\ [Next]_vars => TypeInv'
  BY TypeStep
<1>3. CacheInv => EntryIsSincePromotion
  BY DEF CacheInv, EntryIsSincePromotion
<1> QED BY <1>1, <1>2, <1>3, TypeInit, CacheInit, PTL DEF Spec

\* The replicas of a round that may not scale down.
LEMMA WantsMore ==
  ASSUME TypeInv, ~ attemptScaleDown, NEW current \in Int, WantedReplicas(current) # current
  PROVE  current < WantedReplicas(current)
<1> DEFINE needed == NeededReplicas(seen.total)
           wanted == Max({needed, current})
<1>1. needed \in Int
  BY NeededIsBounded DEF TypeInv, TypeOK, AutoscalerTypeOK, Seen
<1>2. WantedReplicas(current) = wanted
  BY DEF WantedReplicas
<1> HIDE DEF needed
<1>3. wanted \in {needed, current} /\ wanted >= current
  BY <1>1, MaxOfTwo, Zenon
<1> HIDE DEF wanted
<1> QED BY <1>1, <1>2, <1>3

LEMMA UpdateStep == ASSUME TypeInv, CacheInv, UpdateInv, [Next]_vars PROVE UpdateInv'
<1>0. /\ ClusterTypeOK /\ seen \in Seen
      /\ scaleCall \in [Callers -> 0..MaxPods \union {Absent}]
  BY DEF TypeInv, TypeOK, AutoscalerTypeOK, ClusterTypeOK
<1>1. ASSUME UNCHANGED <<phase, attemptScaleDown, seen>>, scales \subseteq scales',
             scaleCall'["autoscaler"] = scaleCall["autoscaler"]
      PROVE  UpdateInv'
  BY <1>1 DEF UpdateInv, UpdateIsDue
<1>2. ASSUME phase' # "updating" PROVE UpdateInv'
  BY <1>2 DEF UpdateInv, UpdateIsDue
<1>3. ASSUME UNCHANGED <<phase, attemptScaleDown, seen, cacheVars, scales>> PROVE UpdateInv'
  BY <1>1, <1>3 DEF cacheVars
<1>4. ASSUME NEW v \in VPods, ScheduleVPod(v) PROVE UpdateInv'
  <2>1. UNCHANGED <<phase, attemptScaleDown, seen, scales>>
    BY <1>4, Zenon DEF ScheduleVPod, ScheduleWaits, Schedule
  <2>2. GetScaleAsks("scheduler") \/ GetScaleReturns("scheduler")
    BY <1>4, Zenon DEF ScheduleVPod, ScheduleWaits, Schedule
  <2>3. scaleCall'["autoscaler"] = scaleCall["autoscaler"]
    BY <1>0, <2>2 DEF GetScaleAsks, GetScaleReturns, Callers
  <2> QED BY <1>1, <2>1, <2>3
<1>5. CASE CommitVPod
  BY <1>3, <1>5 DEF CommitVPod, Commit, autoscalerVars
<1>6. CASE ResyncReserved
  BY <1>3, <1>6 DEF ResyncReserved, ResyncList, ResyncDelete, clusterVars, autoscalerVars
<1>7. CASE AutoscalerStep
  <2>1. ASSUME NEW down \in BOOLEAN, Wake(down) PROVE UpdateInv'
    BY <1>2, <2>1 DEF Wake
  <2>2. CASE ReadState
    BY <1>2, <2>2, Zenon DEF ReadState
  <2>3. CASE DecideScale
    <3> DEFINE current == GetScale("autoscaler")
               wanted == WantedReplicas(current)
    <3>1. ASSUME UNCHANGED phase PROVE UpdateInv'
      BY <1>2, <2>3, <3>1, Zenon DEF DecideScale
    <3>2. ASSUME GetScaleReturns("autoscaler"), wanted # current, UNCHANGED <<attemptScaleDown, scales>>,
                 seen' = [NothingSeen EXCEPT !.wanted = wanted, !.early = seen.early],
                 ~ attemptScaleDown
          PROVE  UpdateInv'
      <4>1. current >= 0 /\ current \in scales /\ current \in Int
        BY <1>0, <3>2, ScaleIsNumber DEF GetScaleReturns, GetScale, CacheInv, Callers, Absent
      <4>2. current < wanted
        BY <3>2, <4>1, WantsMore
      <4>3. seen'.wanted = wanted
        BY <3>2 DEF NothingSeen
      <4> HIDE DEF wanted, current
      <4> QED BY <3>2, <4>1, <4>2, <4>3 DEF UpdateInv
    <3>3. ASSUME attemptScaleDown, UNCHANGED attemptScaleDown PROVE UpdateInv'
      BY <3>3 DEF UpdateInv, UpdateIsDue
    <3>4. CASE phase' = "compacting" \/ RoundEnds(FALSE)
      BY <1>2, <3>4 DEF RoundEnds
    <3>5. UNCHANGED scales
      BY <2>3, Zenon DEF DecideScale
    <3>6. \/ UNCHANGED phase
          \/ /\ GetScaleReturns("autoscaler") /\ wanted # current
             /\ seen' = [NothingSeen EXCEPT !.wanted = wanted, !.early = seen.early]
             /\ UNCHANGED attemptScaleDown
          \/ phase' = "compacting"
          \/ RoundEnds(FALSE)
      BY <2>3, Zenon DEF DecideScale
    <3> HIDE DEF current, wanted
    <3> QED BY <3>1, <3>2, <3>3, <3>4, <3>5, <3>6, Zenon
  <2>4. CASE UpdateScale
    <3>1. CASE RoundEnds(TRUE)
      BY <1>2, <3>1 DEF RoundEnds
    <3>2. CASE ScaleIsWritten("autoscaler", seen.wanted)
      <4>1. seen.wanted # Absent
        BY <1>0 DEF Seen, Absent
      <4>2. scaleCall'["autoscaler"] # Absent
        BY <1>0, <3>2, <4>1 DEF ScaleIsWritten, Callers
      <4> QED BY <4>2 DEF UpdateInv, UpdateIsDue
    <3> QED BY <2>4, <3>1, <3>2, Zenon DEF UpdateScale
  <2>5. CASE UpdateReturns \/ CompactEnds
    BY <1>2, <2>5, Zenon DEF UpdateReturns, CompactEnds, RoundEnds
  <2>6. ASSUME NEW v \in VPods, NEW o \in Ordinals, Evict(v, o) PROVE UpdateInv'
    BY <1>2, <2>6 DEF Evict
  <2> QED BY <1>7, <2>1, <2>2, <2>3, <2>4, <2>5, <2>6, SMTT(30) DEF AutoscalerStep
<1>8. CASE RetryAutoscale
  BY <1>3, <1>8 DEF RetryAutoscale, Retry, clusterVars
<1>9. CASE Promote
  <2>1. CASE ResetCache
    <3>1. seen'.early = (phase \notin {"waiting", "panicked"}) /\ phase' = phase
      BY <1>0, <2>1 DEF ResetCache, RoundIsEarly, Seen
    <3> QED BY <3>1, Zenon DEF UpdateInv, UpdateIsDue
  <2>2. CASE AutoscalerPromote \/ UNCHANGED <<clusterVars, phase, attemptScaleDown, seen>>
    BY <1>3, <2>2 DEF AutoscalerPromote, clusterVars
  <2> QED BY <1>9, <2>1, <2>2 DEF Promote
<1>10. CASE Demote
  BY <1>3, <1>10 DEF Demote, AutoscalerDemote, clusterVars
<1>11. CASE OtherLeader
  <2>1. CASE OtherRoundBegins
    BY <1>3, <2>1 DEF OtherRoundBegins, clusterVars
  <2>2. CASE OtherRoundScales
    BY <1>1, <2>2 DEF OtherRoundScales, cacheVars
  <2> QED BY <1>11, <2>1, <2>2 DEF OtherLeader
<1>12. CASE ClusterStep
  BY <1>3, <1>12 DEF ClusterStep, updateStatefulset, PodProgress, clusterVars, autoscalerVars
<1>13. CASE EntryIsOld
  BY <1>1, <1>13 DEF EntryIsOld, EntryExpires, autoscalerVars
<1>14. CASE VPodChanges
  BY <1>3, <1>14 DEF VPodChanges, SetVReplicas, DeleteVPod, autoscalerVars
<1>15. CASE PodIsMarked
  BY <1>3, <1>15 DEF PodIsMarked, MarkUnschedulable, autoscalerVars
<1>16. CASE ScheduleError
  BY <1>0, <1>1, <1>16 DEF ScheduleError, ScheduleFails, autoscalerVars, Callers
<1>17. CASE AutoscalerError
  BY <1>2, <1>17, Zenon DEF AutoscalerError, CallFails, EvictFails, RoundEnds
<1>18. CASE Restart
  BY <1>2, <1>18 DEF Restart
<1>19. CASE UNCHANGED vars
  BY <1>3, <1>19 DEF vars, clusterVars, autoscalerVars
<1> QED BY <1>4, <1>5, <1>6, <1>7, <1>8, <1>9, <1>10, <1>11, <1>12, <1>13, <1>14, <1>15, <1>16,
           <1>17, <1>18, <1>19, SMTT(30) DEF Next

\* A step of the autoscaler that takes pods away from the statefulset.
LEMMA ScalesDown ==
  ASSUME TypeInv, UpdateInv, AutoscalerStep, replicas' < replicas, ~ attemptScaleDown, ~ seen.early
  PROVE  \E n \in scales : n < replicas'
<1>1. replicas' # replicas
  BY DEF TypeInv, TypeOK, ClusterTypeOK
<1>2. UpdateScale
  BY <1>1, Zenon DEF AutoscalerStep, Wake, ReadState, DecideScale, UpdateReturns, CompactEnds, Evict,
                     clusterVars
<1>3. /\ phase = "updating" /\ scaleCall["autoscaler"] = Absent
      /\ replicas' = seen.wanted
  BY <1>1, <1>2, Zenon DEF UpdateScale, ScaleIsWritten
<1> QED BY <1>3 DEF UpdateInv, UpdateIsDue

\* "Only scale down if permitted" (autoscaler.go, doautoscale): a round that was
\* triggered for vreplicas that wait asks for more replicas than the scale it got,
\* so the pods it takes away were added after that, by another instance or under an
\* entry that a call of Schedule had stored late; it leaves more than there have been
\* since Promote emptied the cache, if the round began after that.
THEOREM ScalesDownIfPermitted == Spec => OnlyScaleDownIfPermitted
<1>1. Init => UpdateInv
  BY DEF Init, AutoscalerInit, UpdateInv, UpdateIsDue
<1>2. TypeInv /\ [Next]_vars => TypeInv'
  BY TypeStep
<1>3. TypeInv /\ CacheInv /\ [Next]_vars => CacheInv'
  BY CacheStep
<1>4. TypeInv /\ CacheInv /\ UpdateInv /\ [Next]_vars => UpdateInv'
  BY UpdateStep
<1>5. TypeInv /\ UpdateInv /\ [Next]_vars =>
        [replicas' < replicas /\ AutoscalerStep /\ ~ attemptScaleDown /\ ~ seen.early
           => \E n \in scales : n < replicas']_vars
  BY ScalesDown
<1> QED BY <1>1, <1>2, <1>3, <1>4, <1>5, TypeInit, CacheInit, PTL DEF Spec, OnlyScaleDownIfPermitted

-----------------------------------------------------------------------------
(***************************************************************************)
(* Reservations and placements.                                            *)
(***************************************************************************)

\* One step of any kind keeps the reservations within the capacity.
LEMMA FitsStep ==
  ASSUME AutoscalerIsLeaderAware, TypeInv, ReservedFits, [Next]_vars
  PROVE  ReservedFits'
<1>0. reserved \in [VPods -> Placements] /\ reserved' \in [VPods -> Placements]
  BY TypeStep, SMTT(30) DEF TypeInv, TypeOK, SchedulerTypeOK
<1>a. (\A o \in Ordinals : SumByPod(reserved')[o] <= Capacity) => ReservedFits'
  BY DEF ReservedFits, SumByPod
<1>1. ASSUME UNCHANGED reserved PROVE ReservedFits'
  BY <1>1 DEF ReservedFits, SumByPod
<1>2. ASSUME \A v \in VPods : reserved'[v] \in {reserved[v], NoPlacement} PROVE ReservedFits'
  <2> SUFFICES ASSUME NEW o \in Ordinals PROVE SumByPod(reserved')[o] <= Capacity
    BY <1>a
  <2>1. SumByPod(reserved')[o] <= SumByPod(reserved)[o]
    BY <1>0, <1>2, ByPodOfLess
  <2>2. SumByPod(reserved)[o] <= Capacity
    BY DEF ReservedFits
  <2>3. SumByPod(reserved')[o] \in Nat /\ SumByPod(reserved)[o] \in Nat /\ Capacity \in Nat
    BY <1>0, ByPodIsPlacement, SchedulerAssumption, SMTT(30) DEF Placements
  <2> QED BY <2>1, <2>2, <2>3
<1>3. ASSUME NEW v \in VPods, ScheduleVPod(v), reserved' # reserved PROVE ReservedFits'
  <2> DEFINE n == GetScale("scheduler")
  <2>1. PICK m \in Asked(v) : \E r \in scheduleVPod(v, m, n) : reserved' = [reserved EXCEPT ![v] = r.pl]
    BY <1>3, Zenon DEF ScheduleVPod, ScheduleWaits, Schedule
  <2>a. PICK r \in scheduleVPod(v, m, n) : reserved' = [reserved EXCEPT ![v] = r.pl]
    BY <2>1, Zenon
  <2>2. Outcome(reserved[v], SumByPod(reserved), SchedulablePods(n), r)
    <3>1. m \in Nat
      BY AskedIsNumber DEF TypeInv, TypeOK
    <3> QED BY <1>0, <3>1, Outcomes, Zenon
  <2>3. /\ r.pl \in Placements
        /\ \A o \in Ordinals : SumByPod(reserved)[o] - reserved[v][o] + r.pl[o] <= Capacity
    BY <2>2, Zenon DEF Outcome, ReservedFits
  <2> SUFFICES ASSUME NEW o \in Ordinals PROVE SumByPod(reserved')[o] <= Capacity
    BY <1>a
  <2>4. SumByPod(reserved')[o] = SumByPod(reserved)[o] - reserved[v][o] + r.pl[o]
    <3>1. SumByPod([reserved EXCEPT ![v] = r.pl])[o] =
            SumByPod(reserved)[o] - reserved[v][o] + r.pl[o]
      BY <1>0, <2>3, ByPodOfChanged, Zenon
    <3> QED BY <2>a, <3>1, Zenon
  <2> QED BY <2>3, <2>4
<1>4. CASE ResyncReserved
  BY <1>0, <1>1, <1>2, <1>4, SMTT(30) DEF ResyncReserved, ResyncList, ResyncDelete
<1>5. CASE Promote
  BY <1>1, <1>5 DEF Promote, SchedulerPromote, schedulerVars
<1>6. CASE ScheduleError
  BY <1>0, <1>2, <1>6 DEF ScheduleError, ScheduleFails
<1>7. CASE Restart
  BY <1>0, <1>2, <1>7 DEF Restart, SchedulerRestart
<1>8. CASE CommitVPod
  BY <1>1, <1>8, SMTT(30) DEF CommitVPod, Commit
<1>9. CASE \/ AutoscalerStep \/ RetryAutoscale \/ OtherLeader \/ EntryIsOld
           \/ PodIsMarked \/ AutoscalerError
  BY <1>1, <1>9, SMTT(30)
  DEF AutoscalerStep, RetryAutoscale, OtherLeader, EntryIsOld, PodIsMarked, AutoscalerError,
      schedulerVars
<1>10. CASE ClusterStep \/ Demote \/ VPodChanges
  BY <1>1, <1>10 DEF ClusterStep, updateStatefulset, Demote, VPodChanges, schedulerVars
<1>11. CASE UNCHANGED vars
  BY <1>1, <1>11 DEF vars, schedulerVars
<1> QED BY <1>1, <1>3, <1>4, <1>5, <1>6, <1>7, <1>8, <1>9, <1>10, <1>11, SMTT(30) DEF Next

\* The reservations of the vpods never exceed the capacity of a pod, whatever
\* callers, listers, cluster and leader election do between the calls of Schedule
\* (scheduler.go, scheduleVPod, addReplicas).  The hypothesis is what New builds:
\* with an autoscaler that is not told of the promotion itself, Promote would take
\* over the committed placements, which may exceed it.
THEOREM ReservationsFit ==
  ASSUME AutoscalerIsLeaderAware PROVE Spec => []ReservedFits
<1>1. Init => ReservedFits
  BY NothingReserved DEF Init, SchedulerInit, ReservedFits
<1>2. TypeInv /\ ReservedFits /\ [Next]_vars => ReservedFits'
  BY FitsStep
<1>3. TypeInv /\ [Next]_vars => TypeInv'
  BY TypeStep
<1> QED BY <1>1, <1>2, <1>3, TypeInit, PTL DEF Spec

\* The outcome of scheduleVPod with reservations that fit.
LEMMA PlacesStep ==
  ASSUME TypeInv, ReservedFits, NEW v \in VPods, ScheduleVPod(v), reserved'[v] # reserved[v]
  PROVE  NoNeedlessMove(v) /\ AddedToSchedulable(v)
<1> DEFINE n == GetScale("scheduler")
           S == SchedulablePods(n)
<1>1. PICK m \in Asked(v) : \E r \in scheduleVPod(v, m, n) : reserved' = [reserved EXCEPT ![v] = r.pl]
  BY Zenon DEF ScheduleVPod, ScheduleWaits, Schedule
<1>a. PICK r \in scheduleVPod(v, m, n) : reserved' = [reserved EXCEPT ![v] = r.pl]
  BY <1>1, Zenon
<1>2. reserved \in [VPods -> Placements]
  BY SMTT(30) DEF TypeInv, TypeOK, SchedulerTypeOK
<1>3. Outcome(reserved[v], SumByPod(reserved), S, r)
  <2>1. m \in Nat
    BY AskedIsNumber DEF TypeInv, TypeOK
  <2> QED BY <1>2, <2>1, Outcomes, Zenon
<1>4. reserved'[v] = r.pl
  BY <1>a, <1>2, SMTT(30)
<1>5. S \subseteq Ordinals /\ \A o \in S : o < n /\ pods[o] = "ready"
  BY SMTT(30) DEF SchedulablePods, isPodUnschedulable, TypeInv, TypeOK, ClusterTypeOK, PodStates
<1> HIDE DEF n, S
<1>6. /\ r.pl \in Placements
      /\ \/ \A o \in Ordinals : r.pl[o] <= reserved[v][o]
         \/ \A o \in S : r.pl[o] >= reserved[v][o]
      /\ (\A o \in S : o < schedReplicas) =>
            \A o \in Ordinals : r.pl[o] > reserved[v][o] => o \in S
  BY <1>3, Zenon DEF Outcome, ReservedFits
<1>7. \A o \in Ordinals : r.pl[o] \in Nat /\ reserved[v][o] \in Nat
  BY <1>2, <1>6, Zenon DEF Placements
<1>8. NoNeedlessMove(v)
  <2>1. ~ /\ \E o \in S : reserved'[v][o] < reserved[v][o]
          /\ \E o \in Ordinals : reserved'[v][o] > reserved[v][o]
    BY <1>4, <1>5, <1>6, <1>7, SMTT(30)
  <2> QED BY <2>1, Zenon DEF NoNeedlessMove, S, n
<1>9. AddedToSchedulable(v)
  <2>1. schedReplicas = n =>
          \A o \in Ordinals : reserved'[v][o] > reserved[v][o] => o < schedReplicas /\ pods[o] = "ready"
    BY <1>4, <1>5, <1>6
  <2> QED BY <2>1 DEF AddedToSchedulable, n
<1> QED BY <1>8, <1>9

\* A call of Schedule never moves a vreplica between pods, and adds vreplicas to
\* ready pods within the scale only, while s.replicas is up to date (scheduler.go,
\* scheduleVPod, removeReplicas, addReplicas, candidatesOrdered; state.go,
\* isPodUnschedulable).
THEOREM SchedulePlacesInOrder ==
  ASSUME AutoscalerIsLeaderAware PROVE Spec => PlacesInOrder
<1>1. TypeInv /\ ReservedFits /\ [Next]_vars =>
        [\A v \in VPods : reserved'[v] # reserved[v] /\ ScheduleVPod(v) =>
            NoNeedlessMove(v) /\ AddedToSchedulable(v)]_vars
  BY PlacesStep
<1>2. TypeInv /\ [Next]_vars => TypeInv'
  BY TypeStep
<1> QED BY <1>1, <1>2, TypeInit, ReservationsFit, PTL DEF Spec, PlacesInOrder

===============================================================================
