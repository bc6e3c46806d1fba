-------------------------- MODULE BenchmarkProofs ---------------------------
(***************************************************************************)
(* Proofs about Benchmark, for any datasets, plans that share them,        *)
(* adapters and crashes: a split by input is never refused and shows every *)
(* class in every part; a score is one of the plan's own frozen test rows; *)
(* left alone, a plan finds what it froze.                                 *)
(***************************************************************************)
EXTENDS Benchmark, FiniteSetTheorems, WellFoundedInduction, TLAPS

-----------------------------------------------------------------------------
(* Shares.                                                                 *)

\* Of a set of naturals that is not empty, one is the least.
LEMMA LeastIsThere ==
    ASSUME NEW S \in SUBSET Nat, S # {} PROVE \E x \in S : \A y \in S : x <= y
<1>0. S \subseteq Nat /\ S # {}
  OBVIOUS
<1>1. PICK x \in S : \A y \in S : ~(<<y, x>> \in OpToRel(<, Nat))
  BY <1>0, NatLessThanWellFounded, WFMin
<1>2. \A y \in S : ~(y < x)
  BY <1>1 DEF OpToRel
<1>3. \A y \in S : x <= y
  BY <1>0, <1>2
<1>4. QED
  BY <1>3

\* A share of at most everything is at most everything.
LEMMA ShareFits ==
    ASSUME NEW total \in Nat, total >= 3, NEW percent \in 0..100
    PROVE  AtLeastOne(RoundedShare(total, percent)) \in 1..total
<1> DEFINE product == total * percent
<1>1. product \in Nat /\ product <= total * 100
  OBVIOUS
<1>2. RoundedShare(total, percent) = (2 * product + 100) \div 200
  BY DEF RoundedShare
<1> HIDE DEF product
<1>3. (2 * product + 100) \div 200 \in 0..total
  BY <1>1
<1>4. QED
  BY <1>2, <1>3 DEF AtLeastOne

\* The loop that leaves a unit for training.
Round(f, total, v, t) ==
    IF v + t < total THEN [train |-> total - v - t, validation |-> v]
    ELSE IF v >= t /\ v > 1 THEN f[<<v - 1, t>>]
    ELSE IF t > 1 THEN f[<<v, t - 1>>]
    ELSE [train |-> 0, validation |-> v]
Loop(f, total, shares) == Round(f, total, shares[1], shares[2])

\* The loop's function exists on all shares.
LEMMA LoopEnds ==
    ASSUME NEW total \in Nat
    PROVE  \E f : f = [shares \in (0..total) \X (0..total) |-> Loop(f, total, shares)]
<1> DEFINE D == (0..total) \X (0..total)
           Below(n) == {x \in D : x[1] + x[2] < n}
           Solves(f, n) == f = [x \in Below(n) |-> Loop(f, total, x)]
           failing == {n \in Nat : ~ \E f : Solves(f, n)}
<1>1. \A x \in D : x[1] \in 0..total /\ x[2] \in 0..total /\ x = <<x[1], x[2]>>
  OBVIOUS
<1> HIDE DEF failing
<1>2. failing = {}
  <2>1. SUFFICES ASSUME failing # {} PROVE FALSE
    OBVIOUS
  <2>2. PICK n \in failing : \A m \in failing : n <= m
    <3>1. failing \in SUBSET Nat
      BY DEF failing
    <3>2. QED
      BY <2>1, <3>1, LeastIsThere
  <2>3. Below(0) = {}
    BY <1>1
  <2>4. n # 0
    <3>1. \E f : Solves(f, 0)
      <4>1. Solves([x \in {} |-> 0], 0)
        BY <2>3
      <4>2. QED
        BY <4>1
    <3>2. QED
      BY <3>1, <2>2 DEF failing
  <2>5. n \in Nat
    BY <2>2 DEF failing
  <2>6. n \in Nat /\ n - 1 \in Nat /\ n - 1 \notin failing
    BY <2>2, <2>4, <2>5
  <2>7. PICK f : Solves(f, n - 1)
    BY <2>6 DEF failing
  <2> DEFINE g == [x \in Below(n) |-> IF x \in Below(n - 1) THEN f[x] ELSE Loop(f, total, x)]
  <2>8. ASSUME NEW x \in Below(n) PROVE g[x] = Loop(g, total, x)
    <3>1. g[x] = Loop(f, total, x)
      BY <2>7
    <3>2. x \in D /\ x[1] \in 0..total /\ x[2] \in 0..total /\ x[1] + x[2] < n
      BY <1>1
    <3>3. \A y \in Below(n - 1) : y \in Below(n) /\ g[y] = f[y]
      BY <1>1, <2>6
    <3>4. ASSUME x[1] > 1 PROVE g[<<x[1] - 1, x[2]>>] = f[<<x[1] - 1, x[2]>>]
      <4>1. <<x[1] - 1, x[2]>> \in Below(n - 1)
        BY <2>6, <3>2, <3>4
      <4>2. QED
        BY <3>3, <4>1
    <3>5. ASSUME x[2] > 1 PROVE g[<<x[1], x[2] - 1>>] = f[<<x[1], x[2] - 1>>]
      <4>1. <<x[1], x[2] - 1>> \in Below(n - 1)
        BY <2>6, <3>2, <3>5
      <4>2. QED
        BY <3>3, <4>1
    <3> HIDE DEF g
    <3>6. Loop(f, total, x) = Loop(g, total, x)
      BY <3>4, <3>5 DEF Loop, Round
    <3>7. QED
      BY <3>1, <3>6
  <2>9. Solves(g, n)
    BY <2>8
  <2> HIDE DEF g
  <2>10. \E f1 : Solves(f1, n)
    BY <2>9
  <2>11. QED
    BY <2>2, <2>10 DEF failing
<1>3. 2 * total + 1 \in Nat
  OBVIOUS
<1>4. PICK f : Solves(f, 2 * total + 1)
  BY <1>2, <1>3 DEF failing
<1>5. Below(2 * total + 1) = D
  BY <1>1
<1>6. QED
  BY <1>4, <1>5

\* The three parts get a unit each, as soon as there are three.
LEMMA SharesAreFair ==
    ASSUME NEW total \in Nat, NEW ratios, {ratios.validation, ratios.test} \subseteq 0..100
    PROVE  LET counts == ThreeWayCounts(total, ratios)
           IN  /\ counts.train \in Nat /\ counts.validation \in Nat
               /\ total > 0 => counts.train > 0
               /\ total >= 3 => counts.validation > 0 /\ counts.train + counts.validation < total
<1>1. CASE total < 3
  <2>1. ThreeWayCounts(total, ratios) = [train |-> total, validation |-> 0]
    BY <1>1 DEF ThreeWayCounts
  <2>2. QED
    BY <1>1, <2>1
<1>2. CASE total >= 3
  <2> DEFINE D == (0..total) \X (0..total)
             cut == CHOOSE cut : cut = [shares \in D |-> Loop(cut, total, shares)]
             v0 == AtLeastOne(RoundedShare(total, ratios.validation))
             t0 == AtLeastOne(RoundedShare(total, ratios.test))
  <2>1. ThreeWayCounts(total, ratios) = cut[<<v0, t0>>]
    BY <1>2 DEF ThreeWayCounts, Loop, Round
  <2>2. cut = [shares \in D |-> Loop(cut, total, shares)]
    <3>1. \E f : f = [shares \in D |-> Loop(f, total, shares)]
      BY LoopEnds
    <3>2. QED
      BY <3>1
  <2>3. v0 \in 1..total /\ t0 \in 1..total
    BY <1>2, ShareFits
  <2> HIDE DEF cut, v0, t0
  <2> DEFINE Fair(c) == /\ c.train \in Nat /\ c.validation \in Nat /\ c.train > 0
                        /\ c.validation > 0 /\ c.train + c.validation < total
             unfair == {n \in Nat : \E v, t \in 1..total : v + t = n /\ ~Fair(cut[<<v, t>>])}
  <2>4. \A v, t \in 1..total : cut[<<v, t>>] = Loop(cut, total, <<v, t>>)
    BY <2>2
  <2>5. ASSUME NEW v \in 1..total, NEW t \in 1..total
        PROVE  cut[<<v, t>>] =
                   IF v + t < total THEN [train |-> total - v - t, validation |-> v]
                   ELSE IF v >= t /\ v > 1 THEN cut[<<v - 1, t>>]
                   ELSE IF t > 1 THEN cut[<<v, t - 1>>]
                   ELSE [train |-> 0, validation |-> v]
    <3>1. cut[<<v, t>>] = Loop(cut, total, <<v, t>>)
      BY <2>4
    <3>2. Loop(cut, total, <<v, t>>) = Round(cut, total, v, t)
      BY DEF Loop
    <3>3. QED
      BY <3>1, <3>2 DEF Round
  <2> HIDE DEF unfair, Fair
  <2>6. unfair = {}
    <3>1. SUFFICES ASSUME unfair # {} PROVE FALSE
      OBVIOUS
    <3>2. unfair \in SUBSET Nat
      BY DEF unfair
    <3>3. PICK n \in unfair : \A m \in unfair : n <= m
      BY <3>1, <3>2, LeastIsThere
    <3>4. PICK v \in 1..total, t \in 1..total : v + t = n /\ ~Fair(cut[<<v, t>>])
      BY <3>3 DEF unfair
    <3>5. \A a, b \in 1..total : a + b < n => Fair(cut[<<a, b>>])
      <4>1. SUFFICES ASSUME NEW a \in 1..total, NEW b \in 1..total, a + b < n,
                            ~Fair(cut[<<a, b>>])
                     PROVE  FALSE
        OBVIOUS
      <4>2. a + b \in unfair
        BY <4>1 DEF unfair
      <4>3. n \in Nat
        BY <3>2, <3>3
      <4>4. QED
        BY <3>3, <4>1, <4>2, <4>3
    <3>6. ASSUME v >= t, v > 1 PROVE Fair(cut[<<v - 1, t>>])
      BY <3>4, <3>5, <3>6
    <3>7. ASSUME t > 1 PROVE Fair(cut[<<v, t - 1>>])
      BY <3>4, <3>5, <3>7
    <3>8. CASE v + t < total
      <4>1. cut[<<v, t>>] = [train |-> total - v - t, validation |-> v]
        BY <2>5, <3>4, <3>8
      <4>2. QED
        BY <3>4, <3>8, <4>1 DEF Fair
    <3>9. CASE ~(v + t < total) /\ v >= t /\ v > 1
      BY <2>5, <3>4, <3>6, <3>9
    <3>10. CASE ~(v + t < total) /\ ~(v >= t /\ v > 1) /\ t > 1
      BY <2>5, <3>4, <3>7, <3>10
    <3>11. QED
      BY <1>2, <3>4, <3>8, <3>9, <3>10
  <2>7. Fair(cut[<<v0, t0>>])
    <3>1. v0 + t0 \in Nat /\ v0 + t0 \notin unfair
      BY <2>3, <2>6
    <3>2. QED
      BY <2>3, <3>1 DEF unfair
  <2>8. QED
    BY <1>2, <2>1, <2>7 DEF Fair
<1>3. QED
  BY <1>1, <1>2

\* The elements of S that come before u.
Before(S, hash, u) == {v \in S : hash[v] < hash[u]}

\* In a set that is sorted by its hashes there is an element at each place.
LEMMA EveryPlaceIsTaken ==
    ASSUME NEW S, IsFiniteSet(S), NEW hash, \A u \in S : hash[u] \in Nat,
           \A u, v \in S : hash[u] = hash[v] => u = v,
           NEW place \in Nat, place < Cardinality(S)
    PROVE  \E u \in S : Cardinality(Before(S, hash, u)) = place
<1> DEFINE n == Cardinality(S)
           rank == [u \in S |-> Cardinality(Before(S, hash, u))]
<1>1. n \in Nat
  BY FS_CardinalityType
<1>2. ASSUME NEW u \in S PROVE IsFiniteSet(Before(S, hash, u)) /\ rank[u] \in 0..n - 1
  <2>1. Before(S, hash, u) \in SUBSET (S \ {u})
    BY DEF Before
  <2>2. IsFiniteSet(S \ {u}) /\ Cardinality(S \ {u}) = n - 1
    BY FS_RemoveElement
  <2>3. /\ IsFiniteSet(Before(S, hash, u))
        /\ Cardinality(Before(S, hash, u)) <= n - 1
    BY <2>1, <2>2, FS_Subset
  <2>4. Cardinality(Before(S, hash, u)) \in Nat
    BY <2>3, FS_CardinalityType
  <2>5. QED
    BY <1>1, <2>3, <2>4
<1>3. ASSUME NEW u \in S, NEW v \in S, hash[u] < hash[v] PROVE rank[u] # rank[v]
  <2>1. Before(S, hash, u) \in SUBSET Before(S, hash, v)
    BY <1>3 DEF Before
  <2>2. u \in Before(S, hash, v) /\ u \notin Before(S, hash, u)
    BY <1>3 DEF Before
  <2>3. IsFiniteSet(Before(S, hash, v))
    BY <1>2
  <2>4. Cardinality(Before(S, hash, u)) = Cardinality(Before(S, hash, v))
            => Before(S, hash, v) = Before(S, hash, u)
    BY <2>1, <2>3, FS_Subset
  <2>5. QED
    BY <2>2, <2>4
<1>4. rank \in Injection(S, 0..n - 1)
  <2>1. rank \in [S -> 0..n - 1]
    BY <1>2
  <2>2. ASSUME NEW u \in S, NEW v \in S, rank[u] = rank[v] PROVE u = v
    <3>1. ~(hash[u] < hash[v]) /\ ~(hash[v] < hash[u])
      BY <1>3, <2>2
    <3>2. hash[u] = hash[v]
      BY <3>1
    <3>3. QED
      BY <3>2
  <2>3. QED
    BY <2>1, <2>2 DEF Injection, IsInjective
<1>5. IsFiniteSet(0..n - 1) /\ Cardinality(0..n - 1) = n
  <2> HIDE DEF n
  <2>1. QED
    BY <1>1, FS_Interval
<1>6. rank \in Surjection(S, 0..n - 1)
  BY <1>4, <1>5, FS_Injection
<1>7. place \in 0..n - 1
  BY <1>1
<1>8. PICK u \in S : rank[u] = place
  BY <1>6, <1>7 DEF Surjection
<1>9. QED
  BY <1>8

\* The last of them all.
LEMMA OneIsLast ==
    ASSUME NEW S, IsFiniteSet(S), S # {}, NEW hash, \A u \in S : hash[u] \in Nat,
           \A u, v \in S : hash[u] = hash[v] => u = v
    PROVE  \E u \in S : \A v \in S : hash[v] <= hash[u]
<1>1. Cardinality(S) \in Nat /\ Cardinality(S) # 0
  BY FS_CardinalityType, FS_EmptySet
<1> DEFINE last == Cardinality(S) - 1
<1>2. last \in Nat /\ last < Cardinality(S)
  BY <1>1
<1>3. PICK u \in S : Cardinality(Before(S, hash, u)) = last
  <2> HIDE DEF last
  <2>1. QED
    BY <1>2, EveryPlaceIsTaken
<1>4. IsFiniteSet(S \ {u}) /\ Cardinality(S \ {u}) = Cardinality(S) - 1
  BY FS_RemoveElement
<1>5. Before(S, hash, u) \in SUBSET (S \ {u})
  BY DEF Before
<1>6. Before(S, hash, u) = S \ {u}
  BY <1>3, <1>4, <1>5, FS_Subset
<1>7. QED
  BY <1>6 DEF Before

\* Three of them can be told apart.
LEMMA ThreeAreThere ==
    ASSUME NEW S, IsFiniteSet(S), Cardinality(S) >= 3
    PROVE  \E u, v, w \in S : u # v /\ u # w /\ v # w
<1>1. Cardinality(S) \in Nat
  BY FS_CardinalityType
<1>2. PICK f : f \in Bijection(1..Cardinality(S), S)
  BY FS_CardinalityType DEF ExistsBijection
<1>3. /\ f \in [1..Cardinality(S) -> S]
      /\ \A a, b \in 1..Cardinality(S) : f[a] = f[b] => a = b
  BY <1>2 DEF Bijection, Injection, IsInjective
<1>4. 1 \in 1..Cardinality(S) /\ 2 \in 1..Cardinality(S) /\ 3 \in 1..Cardinality(S)
  BY <1>1
<1>5. QED
  BY <1>3, <1>4

-----------------------------------------------------------------------------
(* Where the units go.                                                     *)

\* Each place has a part; the first trains, and of three places each part has one.
LEMMA PartsOfPlaces ==
    ASSUME NEW total \in Nat, NEW ratios, {ratios.validation, ratios.test} \subseteq 0..100
    PROVE  /\ \A place \in Nat : PartAt(place, total, ratios) \in Parts
           /\ total > 0 => PartAt(0, total, ratios) = "train"
           /\ total >= 3 => \A name \in Parts : \E place \in Nat :
                                place < total /\ PartAt(place, total, ratios) = name
<1> DEFINE counts == ThreeWayCounts(total, ratios)
<1>1. /\ counts.train \in Nat /\ counts.validation \in Nat
      /\ total > 0 => counts.train > 0
      /\ total >= 3 => counts.validation > 0 /\ counts.train + counts.validation < total
  BY SharesAreFair
<1>2. \A place : PartAt(place, total, ratios) =
                     CASE place < counts.train -> "train"
                       [] place >= counts.train /\ place < counts.train + counts.validation
                             -> "validation"
                       [] OTHER -> "test"
  BY DEF PartAt
<1> HIDE DEF counts
<1>3. \A place \in Nat : PartAt(place, total, ratios) \in Parts
  BY <1>2 DEF Parts
<1>4. total > 0 => PartAt(0, total, ratios) = "train"
  BY <1>1, <1>2
<1>5. ASSUME total >= 3 PROVE PartAt(counts.train, total, ratios) = "validation"
  BY <1>1, <1>2, <1>5
<1>6. ASSUME total >= 3
      PROVE  PartAt(counts.train + counts.validation, total, ratios) = "test"
  BY <1>1, <1>2, <1>6
<1>7. QED
  BY <1>1, <1>3, <1>4, <1>5, <1>6 DEF Parts

\* The stratum of a unit, and the part it is given before the rebalancing.
Stratum(d, strata, u) == {v \in Units(d) : strata[v] = strata[u]}
Assigned(d, strata) ==
    [u \in Units(d) |-> PartAt(Cardinality(Before(Stratum(d, strata, u), d.hash, u)),
                               Cardinality(Stratum(d, strata, u)), d.ratios)]

LEMMA AssignmentIsRebalanced ==
    ASSUME NEW d, NEW strata, Method(d) # "chronological"
    PROVE  Assign(d, strata) = Rebalance(d, Assigned(d, strata))
  BY DEF Assign, Assigned, Stratum, Before

\* A stratum trains, and one of three units is in every part.
LEMMA StrataAreDivided ==
    ASSUME NEW d, IsDataset(d), IsFiniteSet(Units(d)), NEW strata, NEW w \in Units(d)
    PROVE  /\ Assigned(d, strata) \in [Units(d) -> Parts]
           /\ \E u \in Stratum(d, strata, w) : Assigned(d, strata)[u] = "train"
           /\ Cardinality(Stratum(d, strata, w)) >= 3 =>
                 \A name \in Parts :
                     \E u \in Stratum(d, strata, w) : Assigned(d, strata)[u] = name
<1>1. {d.ratios.validation, d.ratios.test} \subseteq 0..100
  BY DEF IsDataset
<1>2. ASSUME NEW u \in Units(d)
      PROVE  /\ IsFiniteSet(Stratum(d, strata, u)) /\ Cardinality(Stratum(d, strata, u)) \in Nat
             /\ Cardinality(Before(Stratum(d, strata, u), d.hash, u)) \in Nat
  BY FS_Subset, FS_CardinalityType DEF Stratum, Before
<1>3. Assigned(d, strata) \in [Units(d) -> Parts]
  BY <1>1, <1>2, PartsOfPlaces DEF Assigned
<1> DEFINE S == Stratum(d, strata, w)
           total == Cardinality(S)
<1>4. \A u \in S : u \in Units(d) /\ Stratum(d, strata, u) = S
  BY DEF Stratum
<1>5. /\ \A u \in S : d.hash[u] \in Nat
      /\ \A u, v \in S : d.hash[u] = d.hash[v] => u = v
  BY <1>4 DEF IsDataset
<1>6. total \in Nat /\ total > 0
  <2>1. w \in S
    BY DEF Stratum
  <2>2. QED
    BY <1>2, <2>1, FS_EmptySet
<1>7. ASSUME NEW place \in Nat, place < total
      PROVE  \E u \in S : Assigned(d, strata)[u] = PartAt(place, total, d.ratios)
  <2>1. PICK u \in S : Cardinality(Before(S, d.hash, u)) = place
    <3>1. IsFiniteSet(S)
      BY <1>2
    <3> HIDE DEF S
    <3>2. QED
      BY <1>5, <1>7, <3>1, EveryPlaceIsTaken
  <2>2. QED
    BY <1>4, <2>1 DEF Assigned
<1> HIDE DEF S
<1> HIDE DEF total
<1>8. \E u \in S : Assigned(d, strata)[u] = "train"
  <2>1. PartAt(0, total, d.ratios) = "train"
    BY <1>1, <1>6, PartsOfPlaces
  <2>2. QED
    BY <1>6, <1>7, <2>1
<1>9. ASSUME total >= 3, NEW name \in Parts
      PROVE  \E u \in S : Assigned(d, strata)[u] = name
  <2>1. PICK place \in Nat : place < total /\ PartAt(place, total, d.ratios) = name
    BY <1>1, <1>6, <1>9, PartsOfPlaces
  <2>2. QED
    BY <1>7, <2>1
<1>10. QED
  BY <1>3, <1>8, <1>9 DEF S, total

\* An empty part takes a unit from one that has several; no part becomes empty.
LEMMA FillsOne ==
    ASSUME NEW d, IsDataset(d), IsFiniteSet(Units(d)), Cardinality(Units(d)) >= 3,
           NEW part \in [Units(d) -> Parts], NEW missing \in Parts
    PROVE  /\ Fill(d, part, missing) \in [Units(d) -> Parts]
           /\ InPart(Fill(d, part, missing), missing) # {}
           /\ \A name \in Parts : InPart(part, name) # {}
                                   => InPart(Fill(d, part, missing), name) # {}
<1>1. CASE InPart(part, missing) # {}
  BY <1>1 DEF Fill
<1>2. CASE InPart(part, missing) = {}
  <2> DEFINE spare == {u \in DOMAIN part : Cardinality(InPart(part, part[u])) > 1}
             last == CHOOSE u \in spare : \A v \in spare : d.hash[v] <= d.hash[u]
  <2>1. \A u \in DOMAIN part : IsFiniteSet(InPart(part, part[u]))
    BY FS_Subset DEF InPart
  <2>2. ASSUME NEW u \in Units(d), NEW v \in Units(d), u # v, part[u] = part[v]
        PROVE  u \in spare
    <3>1. {u, v} \subseteq InPart(part, part[u])
      BY <2>2 DEF InPart
    <3>2. IsFiniteSet(InPart(part, part[u])) /\ Cardinality(InPart(part, part[u])) \in Nat
      BY <2>1, FS_CardinalityType
    <3>3. IsFiniteSet(InPart(part, part[u]) \ {u}) /\
          Cardinality(InPart(part, part[u]) \ {u}) = Cardinality(InPart(part, part[u])) - 1
      BY <3>1, <3>2, FS_RemoveElement
    <3>4. InPart(part, part[u]) \ {u} # {}
      BY <2>2, <3>1
    <3>5. Cardinality(InPart(part, part[u]) \ {u}) # 0
      BY <3>3, <3>4, FS_EmptySet
    <3>6. Cardinality(InPart(part, part[u])) > 1
      BY <3>2, <3>3, <3>5, FS_CardinalityType
    <3>7. QED
      BY <3>6
  <2>3. spare # {}
    <3>1. PICK u \in Units(d), v \in Units(d), w \in Units(d) : u # v /\ u # w /\ v # w
      BY ThreeAreThere
    <3>2. {part[u], part[v], part[w]} \subseteq Parts \ {missing}
      BY <1>2 DEF InPart
    <3>3. part[u] = part[v] \/ part[u] = part[w] \/ part[v] = part[w]
      BY <3>2 DEF Parts
    <3>4. QED
      BY <2>2, <3>1, <3>3
  <2>4. spare \subseteq Units(d) /\ IsFiniteSet(spare)
    BY FS_Subset
  <2>5. last \in spare
    <3>1. /\ \A u \in spare : d.hash[u] \in Nat
          /\ \A u, v \in spare : d.hash[u] = d.hash[v] => u = v
      BY <2>4 DEF IsDataset
    <3> HIDE DEF spare
    <3>2. \E u \in spare : \A v \in spare : d.hash[v] <= d.hash[u]
      BY <2>3, <2>4, <3>1, OneIsLast
    <3>3. QED
      BY <3>2
  <2>6. Fill(d, part, missing) = [part EXCEPT ![last] = missing]
    BY <1>2, <2>3 DEF Fill
  <2>7. Cardinality(InPart(part, part[last])) > 1 /\ last \in Units(d)
    BY <2>5
  <2> HIDE DEF last
  <2>8. \E v \in InPart(part, part[last]) : v # last
    <3>1. last \in InPart(part, part[last])
      BY <2>7 DEF InPart
    <3>2. InPart(part, part[last]) # {last}
      BY <2>7, FS_Singleton
    <3>3. QED
      BY <3>1, <3>2
  <2>9. Fill(d, part, missing) \in [Units(d) -> Parts]
    BY <2>6
  <2>10. last \in InPart(Fill(d, part, missing), missing)
    BY <2>6, <2>7 DEF InPart
  <2>11. ASSUME NEW name \in Parts, InPart(part, name) # {}
         PROVE  InPart(Fill(d, part, missing), name) # {}
    <3>1. PICK v \in InPart(part, name) : v # last
      BY <2>8, <2>11 DEF InPart
    <3>2. v \in InPart(Fill(d, part, missing), name)
      BY <2>6, <3>1 DEF InPart
    <3>3. QED
      BY <3>2
  <2>12. QED
    BY <2>9, <2>10, <2>11
<1>3. QED
  BY <1>1, <1>2

\* After the rebalancing there is a unit in every part.
LEMMA EveryPartIsFilled ==
    ASSUME NEW d, IsDataset(d), IsFiniteSet(Units(d)), Cardinality(Units(d)) >= 3,
           NEW strata, Method(d) # "chronological"
    PROVE  /\ Assign(d, strata) \in [Units(d) -> Parts]
           /\ \A name \in Parts : \E u \in Units(d) : Assign(d, strata)[u] = name
<1> DEFINE first == Assigned(d, strata)
           second == Fill(d, first, "validation")
           third == Fill(d, second, "test")
<1>1. Assign(d, strata) = third
  BY AssignmentIsRebalanced DEF Rebalance
<1>2. PICK w : w \in Units(d)
  BY ThreeAreThere
<1>3. first \in [Units(d) -> Parts] /\ InPart(first, "train") # {}
  <2>1. Stratum(d, strata, w) \subseteq Units(d)
    BY DEF Stratum
  <2>2. QED
    BY <1>2, <2>1, StrataAreDivided DEF InPart
<1>4. "train" \in Parts /\ "validation" \in Parts /\ "test" \in Parts
  BY DEF Parts
<1> HIDE DEF first
<1>5. /\ second \in [Units(d) -> Parts]
      /\ InPart(second, "validation") # {} /\ InPart(second, "train") # {}
  BY <1>3, <1>4, FillsOne
<1> HIDE DEF second
<1>6. /\ third \in [Units(d) -> Parts] /\ InPart(third, "test") # {}
      /\ InPart(third, "validation") # {} /\ InPart(third, "train") # {}
  BY <1>4, <1>5, FillsOne
<1> HIDE DEF third
<1>7. \A name \in Parts : InPart(third, name) # {}
  BY <1>6 DEF Parts
<1>8. QED
  BY <1>1, <1>6, <1>7 DEF InPart

-----------------------------------------------------------------------------
(* Divisions.                                                              *)

\* Units by input are the inputs.
LEMMA UnitsOfInputs ==
    ASSUME NEW d, ~d.grouped, ~d.timed
    PROVE  /\ Method(d) # "chronological" /\ Method(d) # "group_hash"
           /\ \A i : UnitKey(d, i) = <<"input", d.rows[i].input>>
<1>1. Method(d) \in {"stratified_hash", "quantile_stratified_hash", "deterministic_hash"}
  BY DEF Method
<1>2. QED
  BY <1>1 DEF UnitKey

\* There are finitely many units, and at least three where the split is not refused.
LEMMA UnitsAreFinite ==
    ASSUME NEW d, IsDataset(d)
    PROVE  /\ IsFiniteSet(Eligible(d)) /\ IsFiniteSet(Units(d))
           /\ ~Unsplittable(d) => Cardinality(Units(d)) >= 3
<1>1. IsFiniteSet(Eligible(d))
  <2>1. Eligible(d) \subseteq DOMAIN d.rows
    BY DEF Eligible
  <2>2. QED
    BY <2>1, FS_Subset DEF IsDataset
<1> DEFINE unit == [i \in Eligible(d) |-> UnitKey(d, i)]
<1>2. unit \in Surjection(Eligible(d), Units(d))
  BY DEF Surjection, Units
<1>3. IsFiniteSet(Units(d))
  BY <1>1, <1>2, FS_Surjection
<1>4. Cardinality(Units(d)) \in Nat
  BY <1>3, FS_CardinalityType
<1>5. ~Unsplittable(d) => Cardinality(Units(d)) >= 3
  BY <1>4 DEF Unsplittable, MinUnits
<1>6. QED
  BY <1>1, <1>3, <1>5

\* A division gives each row the part of its unit.
LEMMA RowsFollowUnits ==
    ASSUME NEW d, NEW part \in Divisions(d)
    PROVE  \E strata \in Stratifications(d) :
               /\ DOMAIN part = Eligible(d)
               /\ \A i \in Eligible(d) : part[i] = Assign(d, strata)[UnitKey(d, i)]
  BY DEF Divisions

\* The guard accepts every split by input.
LEMMA InputDivisionsPass ==
    ASSUME NEW d, IsDataset(d), ~d.grouped, ~d.timed, ~Unsplittable(d), NEW part \in Divisions(d)
    PROVE  Accepted(d, part)
<1>1. PICK strata \in Stratifications(d) :
          /\ DOMAIN part = Eligible(d)
          /\ \A i \in Eligible(d) : part[i] = Assign(d, strata)[UnitKey(d, i)]
  BY RowsFollowUnits
<1>2. /\ Assign(d, strata) \in [Units(d) -> Parts]
      /\ \A name \in Parts : \E u \in Units(d) : Assign(d, strata)[u] = name
  BY UnitsOfInputs, UnitsAreFinite, EveryPartIsFilled
<1>3. \A i \in Eligible(d) : part[i] \in Parts
  BY <1>1, <1>2 DEF Units
<1>4. \A name \in Parts : \E i \in Eligible(d) : part[i] = name
  BY <1>1, <1>2 DEF Units
<1>5. Range(part) = Parts
  BY <1>1, <1>3, <1>4 DEF Range
<1>6. \A i, j \in Eligible(d) : d.rows[i].input = d.rows[j].input => part[i] = part[j]
  BY <1>1, UnitsOfInputs
<1>7. ~Leaks(d, part)
  BY <1>1, <1>6, UnitsOfInputs DEF Leaks
<1>8. QED
  BY <1>5, <1>7 DEF Accepted

\* The rows of a classified input have one label, and it is the unit's.
LEMMA LabelsOfUnits ==
    ASSUME NEW d, IsDataset(d), Method(d) = "stratified_hash", ~Unsplittable(d),
           NEW i \in Eligible(d)
    PROVE  /\ ~d.grouped /\ ~d.timed /\ d.task = "classification"
           /\ MajorityLabel(d, UnitKey(d, i)) = d.rows[i].target
<1>1. ~d.grouped /\ ~d.timed /\ d.task = "classification"
  BY DEF Method
<1> DEFINE unit == UnitKey(d, i)
           target == d.rows[i].target
           labels == {d.rows[j].target : j \in RowsOf(d, unit)}
           Count(l) == Cardinality({j \in RowsOf(d, unit) : d.rows[j].target = l})
           most == {l \in labels : \A m \in labels : Count(l) >= Count(m)}
<1>2. i \in RowsOf(d, unit) /\ RowsOf(d, unit) \subseteq Eligible(d)
  BY DEF RowsOf
<1>3. ASSUME NEW j \in RowsOf(d, unit) PROVE d.rows[j].target = target
  <2>1. d.rows[j].input = d.rows[i].input /\ j \in Eligible(d)
    BY <1>1, <1>3, UnitsOfInputs DEF RowsOf
  <2>2. QED
    BY <2>1 DEF Unsplittable, PreparationFails
<1>4. labels = {target}
  BY <1>2, <1>3
<1>5. Count(target) \in Nat
  <2>1. {j \in RowsOf(d, unit) : d.rows[j].target = target} \subseteq Eligible(d)
    BY <1>2
  <2>2. QED
    BY <2>1, UnitsAreFinite, FS_Subset, FS_CardinalityType
<1>6. target \in Nat
  <2>1. target # None /\ i \in DOMAIN d.rows
    BY <1>1 DEF Eligible, RequiresTarget
  <2>2. QED
    BY <2>1 DEF IsDataset
<1>7. MajorityLabel(d, unit) = Min(most)
  BY DEF MajorityLabel
<1> HIDE DEF Count, unit, target
<1>8. most = {target}
  BY <1>4, <1>5
<1> HIDE DEF most
<1>9. Min(most) = target
  BY <1>6, <1>8 DEF Min
<1>10. QED
  BY <1>1, <1>7, <1>9 DEF unit, target

\* A class that has three inputs is in every part.
Spread(d, part, label) ==
    LET rows == {i \in DOMAIN part : d.rows[i].target = label}
    IN  Cardinality({d.rows[i].input : i \in rows}) >= 3 => {part[i] : i \in rows} = Parts

LEMMA ClassesAreSpread ==
    ASSUME NEW d, IsDataset(d), Method(d) = "stratified_hash", ~Unsplittable(d),
           NEW part \in Divisions(d), NEW label
    PROVE  Spread(d, part, label)
<1> DEFINE rows == {i \in DOMAIN part : d.rows[i].target = label}
           inputs == {d.rows[i].input : i \in rows}
<1> SUFFICES ASSUME Cardinality(inputs) >= 3 PROVE {part[i] : i \in rows} = Parts
  BY DEF Spread
<1>1. PICK strata \in Stratifications(d) :
          /\ DOMAIN part = Eligible(d)
          /\ \A i \in Eligible(d) : part[i] = Assign(d, strata)[UnitKey(d, i)]
  BY RowsFollowUnits
<1>2. rows \subseteq Eligible(d) /\ IsFiniteSet(Eligible(d)) /\ IsFiniteSet(Units(d))
  BY <1>1, UnitsAreFinite
<1>3. PICK w \in rows : TRUE
  <2>1. rows = {} => inputs = {}
    OBVIOUS
  <2>2. Cardinality({}) = 0
    BY FS_EmptySet
  <2>3. rows # {}
    BY <2>1, <2>2
  <2>4. QED
    BY <2>3
<1>4. ~d.grouped /\ ~d.timed /\ d.task = "classification"
  BY <1>2, <1>3, LabelsOfUnits
<1>5. strata = [u \in Units(d) |-> MajorityLabel(d, u)]
  BY <1>4 DEF Stratifications
<1>6. \A i \in Eligible(d) : UnitKey(d, i) \in Units(d) /\ strata[UnitKey(d, i)] = d.rows[i].target
  BY <1>5, LabelsOfUnits DEF Units
<1> DEFINE S == Stratum(d, strata, UnitKey(d, w))
           unit == [x \in inputs |-> <<"input", x>>]
<1>7. \A i \in Eligible(d) : UnitKey(d, i) \in S <=> i \in rows
  BY <1>1, <1>2, <1>3, <1>6 DEF Stratum
<1>8. unit \in Injection(inputs, S)
  <2>1. \A x \in inputs : <<"input", x>> \in S
    BY <1>2, <1>4, <1>7, UnitsOfInputs
  <2> HIDE DEF S, inputs
  <2>2. QED
    BY <2>1 DEF Injection, IsInjective
<1>9. IsFiniteSet(S)
  BY <1>2, FS_Subset DEF Stratum
<1>10. Cardinality(S) >= 3
  <2> HIDE DEF S, inputs, unit
  <2>1. IsFiniteSet(inputs) /\ Cardinality(inputs) <= Cardinality(S)
    BY <1>8, <1>9, FS_Injection
  <2>2. Cardinality(inputs) \in Nat /\ Cardinality(S) \in Nat
    BY <1>9, <2>1, FS_CardinalityType
  <2>3. QED
    BY <2>1, <2>2 DEF inputs
<1>11. /\ Assigned(d, strata) \in [Units(d) -> Parts]
       /\ \A name \in Parts : \E u \in S : Assigned(d, strata)[u] = name
  BY <1>2, <1>3, <1>6, <1>10, StrataAreDivided
<1>12. Assign(d, strata) = Assigned(d, strata)
  <2>1. /\ InPart(Assigned(d, strata), "validation") # {}
        /\ InPart(Assigned(d, strata), "test") # {}
    BY <1>11 DEF Parts, InPart, Stratum
  <2>2. Method(d) # "chronological"
    OBVIOUS
  <2>3. QED
    BY <2>1, <2>2, AssignmentIsRebalanced DEF Rebalance, Fill
<1>13. \A i \in rows : part[i] \in Parts
  BY <1>1, <1>2, <1>6, <1>11, <1>12
<1>14. ASSUME NEW name \in Parts PROVE \E i \in rows : part[i] = name
  <2>1. PICK u \in S : Assigned(d, strata)[u] = name
    BY <1>11
  <2>2. PICK i \in Eligible(d) : u = UnitKey(d, i)
    BY DEF Stratum, Units
  <2>3. QED
    BY <1>1, <1>7, <1>12, <2>1, <2>2
<1>15. QED
  BY <1>13, <1>14

\* What the table holds.
LEMMA TableOfDivisions ==
    ASSUME NEW x \in DivisionTable
    PROVE  /\ x.dataset \in DOMAIN Dataset /\ IsDataset(Dataset[x.dataset])
           /\ ~Unsplittable(Dataset[x.dataset]) /\ x.part \in Divisions(Dataset[x.dataset])
           /\ x.accepted = Accepted(Dataset[x.dataset], x.part)
<1>1. PICK name \in DOMAIN Dataset :
          /\ ~Unsplittable(Dataset[name])
          /\ \E part \in Divisions(Dataset[name]) :
                x = [dataset |-> name, part |-> part, accepted |-> Accepted(Dataset[name], part)]
  BY DEF DivisionTable
<1>2. QED
  BY <1>1, DataAssumption

\* A division is one of finitely many rows, and its test rows are there.
LEMMA DivisionsAreFinite ==
    ASSUME NEW x \in DivisionTable
    PROVE  IsFiniteSet(DOMAIN x.part) /\ TestRows(x.part) # None
<1>1. IsDataset(Dataset[x.dataset]) /\ DOMAIN x.part = Eligible(Dataset[x.dataset])
  BY TableOfDivisions, RowsFollowUnits
<1>2. TestRows(x.part) \subseteq DOMAIN Dataset[x.dataset].rows
  BY <1>1 DEF TestRows, Eligible
<1>3. QED
  BY <1>1, <1>2, UnitsAreFinite DEF IsDataset

-----------------------------------------------------------------------------
(* The invariant.                                                          *)

Splitting == {"audit", "split"}
Frozen == {"generate", "preflight", "execute", "validate", "report"}

\* A part is one a dataset may be divided into.
IsDivision(name, part) == \E x \in DivisionTable : x.dataset = name /\ x.part = part

\* Where the agent of a plan is.
PlaceOK(p) ==
    /\ stage[p] \in Splitting \cup {"freeze"} \cup Frozen
    /\ pc[p] \in {"reset", "write", "hash"} =>
           stage[p] = "split" /\ IsDivision(data[p].dataset, draft[p].part)
    /\ pc[p] \in {"labeled", "unlabeled", "repaired"} => stage[p] = "preflight"
    /\ pc[p] \in {"public", "hidden"} => stage[p] = "execute"
    /\ pc[p] = "join" => stage[p] = "validate"

\* What is frozen stays, and predictions are made only afterwards.
FrozenOK(p) ==
    /\ stage[p] \notin Frozen => orphan[p] = "none" /\ workspace[p].predictions = None
    /\ stage[p] \in Splitting => artifacts[p].manifest = None
    /\ stage[p] \notin Splitting => IsDivision(data[p].dataset, artifacts[p].manifest.part)
    /\ stage[p] \in Frozen => artifacts[p].contract = artifacts[p].manifest
    /\ stage[p] # "report" => artifacts[p].report = None
    /\ \/ workspace[p].predictions = None
       \/ workspace[p].predictions = {}
       \/ workspace[p].predictions = TestRows(artifacts[p].manifest.part)

\* The score of one plan.
ScoreOK(p) ==
    artifacts[p].report # None /\ RequiresTarget(Of(p).task) =>
        /\ artifacts[p].report.rows = TestRows(artifacts[p].contract.part)
        /\ artifacts[p].report.labels = artifacts[p].report.rows

PlanOK(p) == PlaceOK(p) /\ FrozenOK(p) /\ ScoreOK(p)

\* No other plan is about the same data.
Alone(p) == \A q \in Active \ {p} : PrivateId(q) # PrivateId(p)

\* Left alone, a plan finds in its private directory what it put there.
KeptOK(p) ==
    RequiresTarget(Of(p).task) /\ Alone(p) =>
        /\ pc[p] = "hash" => private[PrivateId(p)].labels = TestRows(draft[p].part)
        /\ stage[p] \notin Splitting =>
              /\ artifacts[p].manifest.labels = TestRows(artifacts[p].manifest.part)
              /\ private[PrivateId(p)].labels = TestRows(artifacts[p].manifest.part)
        /\ stage[p] \in Frozen => private[PrivateId(p)].evaluator

\* Only what running the repository touches is not as it was written.
TouchedOK(p) ==
    /\ pc[p] = "hash" \/ stage[p] \notin Splitting =>
          workspace[p].changed \cap Parts \subseteq data[p].touches
    /\ stage[p] \in Frozen => workspace[p].changed \subseteq data[p].touches

\* Without an orphan the predictions and their manifest are those of the run that passed.
PredictedOK(p) ==
    orphan[p] = "none" /\ stage[p] \in {"validate", "report"} =>
        /\ workspace[p].predictions = TestRows(artifacts[p].manifest.part)
        /\ artifacts[p].sound

\* What may keep a plan from finding what was frozen.
Excused(p) ==
    \/ ~Alone(p)
    \/ orphan[p] # "none"
    \/ workspace[p].changed \cap data[p].touches # {}

\* What may keep a plan from being measured.
Lacking(p) == orphan[p] # "none" \/ ~artifacts[p].primary \/ ~Measurable(p)

\* Why a task failed.
CauseOK(p) ==
    /\ pc[p] # "failed" => cause[p] = "none"
    /\ pc[p] = "join" => RequiresTarget(Of(p).task)
    /\ cause[p] = "guard" => \E x \in DivisionTable : x.dataset = data[p].dataset /\ ~x.accepted
    /\ cause[p] \in {"labels", "frozen", "join"} => Excused(p)
    /\ cause[p] = "metrics" => Lacking(p)

RefusalOK(p) == KeptOK(p) /\ TouchedOK(p) /\ PredictedOK(p) /\ CauseOK(p)

\* Hidden labels are those of finitely many rows.
PrivateOK ==
    \A d \in DOMAIN private : private[d].labels = None \/ IsFiniteSet(private[d].labels)

Shaped ==
    /\ Active \subseteq Plan
    /\ DOMAIN stage = Active /\ DOMAIN pc = Active /\ DOMAIN cause = Active
    /\ DOMAIN artifacts = Active /\ DOMAIN workspace = Active
    /\ DOMAIN draft = Active /\ DOMAIN orphan = Active
    /\ \A p \in Active : PrivateId(p) \in DOMAIN private
    /\ \A p \in Active :
          /\ DOMAIN artifacts[p] = {"manifest", "contract", "code", "validated",
                                    "primary", "sound", "report"}
          /\ DOMAIN workspace[p] = {"adapter", "original", "changed", "predictions", "numeric"}
          /\ workspace[p].changed \subseteq Protected
          /\ DOMAIN draft[p] = {"part", "code", "attempt"}
    /\ \A d \in DOMAIN private : DOMAIN private[d] = {"labels", "evaluator"}

ScoresInv == Shaped /\ PrivateOK /\ \A p \in Active : PlanOK(p) /\ RefusalOK(p)

-----------------------------------------------------------------------------
(* The stages and joins.                                                   *)

LEMMA StageOrder ==
    /\ StageAfter("audit") = "split" /\ StageAfter("split") = "freeze"
    /\ StageAfter("freeze") = "generate" /\ StageAfter("generate") = "preflight"
    /\ StageAfter("preflight") = "execute" /\ StageAfter("execute") = "validate"
    /\ StageAfter("validate") = "report"
<1> DEFINE at(s) == CHOOSE i \in DOMAIN Stages : Stages[i] = s
<1>1. DOMAIN Stages = 1..8
  BY DEF Stages
<1>2. /\ Stages[1] = "audit" /\ Stages[2] = "split" /\ Stages[3] = "freeze"
      /\ Stages[4] = "generate" /\ Stages[5] = "preflight" /\ Stages[6] = "execute"
      /\ Stages[7] = "validate" /\ Stages[8] = "report"
  BY DEF Stages
<1>3. \A n \in 1..8 : at(Stages[n]) = n
  BY <1>1, <1>2
<1>4. \A s : StageAfter(s) = Stages[at(s) + 1]
  BY DEF StageAfter
<1> HIDE DEF at
<1>5. /\ at("audit") = 1 /\ at("split") = 2 /\ at("freeze") = 3 /\ at("generate") = 4
      /\ at("preflight") = 5 /\ at("execute") = 6 /\ at("validate") = 7
  BY <1>2, <1>3
<1>6. QED
  BY <1>2, <1>4, <1>5

\* Predictions that join finitely many labels are all of them.
LEMMA JoinIsExact ==
    ASSUME NEW predictions, NEW labels, NEW count, IsFiniteSet(labels),
           Joins(predictions, labels, count)
    PROVE  predictions = labels
<1>1. /\ predictions \subseteq labels /\ Cardinality(predictions) = Cardinality(labels)
  BY DEF Joins
<1>2. IsFiniteSet(predictions)
  BY <1>1, FS_Subset
<1>3. QED
  BY <1>1, <1>2, FS_Subset

\* Nothing joins with no predictions but a plan without test rows.
LEMMA EmptyJoin ==
    ASSUME NEW predictions, NEW labels, NEW rows, predictions = {}, IsFiniteSet(labels),
           IsFiniteSet(rows), Joins(predictions, labels, Cardinality(rows))
    PROVE  rows = {}
<1>1. Cardinality(rows) = 0
  BY FS_EmptySet DEF Joins
<1>2. QED
  BY <1>1, FS_EmptySet

-----------------------------------------------------------------------------
(* Who an action leaves alone.                                             *)

Same(q) ==
    /\ stage'[q] = stage[q] /\ pc'[q] = pc[q] /\ cause'[q] = cause[q]
    /\ artifacts'[q] = artifacts[q] /\ workspace'[q] = workspace[q]
    /\ draft'[q] = draft[q] /\ orphan'[q] = orphan[q]

LEMMA SameStays ==
    ASSUME NEW q, PlanOK(q), Same(q), data' = data PROVE PlanOK(q)'
  BY DEF PlanOK, PlaceOK, FrozenOK, ScoreOK, Same, Of

LEMMA RefusalStays ==
    ASSUME NEW q, RefusalOK(q), Same(q), data' = data,
           Alone(q) => private'[PrivateId(q)] = private[PrivateId(q)]
    PROVE  RefusalOK(q)'
<1>1. Alone(q)' = Alone(q) /\ PrivateId(q)' = PrivateId(q) /\ Of(q)' = Of(q)
  BY DEF Alone, Active, PrivateId, Of
<1>2. KeptOK(q)'
  BY <1>1 DEF RefusalOK, KeptOK, Same
<1>3. TouchedOK(q)' /\ PredictedOK(q)'
  BY DEF RefusalOK, TouchedOK, PredictedOK, Same
<1>4. CauseOK(q)'
  BY <1>1 DEF RefusalOK, CauseOK, Excused, Lacking, Measurable, Same
<1>5. QED
  BY <1>2, <1>3, <1>4 DEF RefusalOK

\* The state of the others follows from an action's own plan.
LEMMA OthersStay ==
    ASSUME ScoresInv, data' = data, NEW p \in Active, PlanOK(p)', RefusalOK(p)',
           \A q \in Active \ {p} : Same(q),
           \A d \in DOMAIN private \ {PrivateId(p)} : private'[d] = private[d]
    PROVE  \A q \in Active : PlanOK(q)' /\ RefusalOK(q)'
<1>1. ASSUME NEW q \in Active \ {p} PROVE PlanOK(q)' /\ RefusalOK(q)'
  <2>1. Alone(q) => private'[PrivateId(q)] = private[PrivateId(q)]
    BY <1>1 DEF Alone, ScoresInv, Shaped
  <2>2. QED
    BY <1>1, <2>1, SameStays, RefusalStays DEF ScoresInv
<1>2. QED
  BY <1>1

\* What an action of its own plan must show of the refusals.
LEMMA OwnRefusals ==
    ASSUME NEW p, data' = data,
           RequiresTarget(Of(p).task) /\ Alone(p) =>
              /\ pc'[p] = "hash" => private'[PrivateId(p)].labels = TestRows(draft'[p].part)
              /\ stage'[p] \notin Splitting =>
                    /\ artifacts'[p].manifest.labels = TestRows(artifacts'[p].manifest.part)
                    /\ private'[PrivateId(p)].labels = TestRows(artifacts'[p].manifest.part)
              /\ stage'[p] \in Frozen => private'[PrivateId(p)].evaluator,
           pc'[p] = "hash" \/ stage'[p] \notin Splitting =>
              workspace'[p].changed \cap Parts \subseteq data[p].touches,
           stage'[p] \in Frozen => workspace'[p].changed \subseteq data[p].touches,
           orphan'[p] = "none" /\ stage'[p] \in {"validate", "report"} =>
              /\ workspace'[p].predictions = TestRows(artifacts'[p].manifest.part)
              /\ artifacts'[p].sound,
           pc'[p] # "failed" => cause'[p] = "none",
           pc'[p] = "join" => RequiresTarget(Of(p).task),
           cause'[p] = "guard" =>
              \E x \in DivisionTable : x.dataset = data[p].dataset /\ ~x.accepted,
           cause'[p] \in {"labels", "frozen", "join"} =>
              \/ ~Alone(p) \/ orphan'[p] # "none"
              \/ workspace'[p].changed \cap data[p].touches # {},
           cause'[p] = "metrics" =>
              orphan'[p] # "none" \/ ~artifacts'[p].primary \/ ~Measurable(p)'
    PROVE  RefusalOK(p)'
<1>1. Alone(p)' = Alone(p) /\ PrivateId(p)' = PrivateId(p) /\ Of(p)' = Of(p)
  BY DEF Alone, Active, PrivateId, Of
<1>2. KeptOK(p)'
  BY <1>1 DEF KeptOK
<1>3. TouchedOK(p)' /\ PredictedOK(p)'
  BY DEF TouchedOK, PredictedOK
<1>4. CauseOK(p)'
  BY <1>1 DEF CauseOK, Excused, Lacking
<1>5. QED
  BY <1>2, <1>3, <1>4 DEF RefusalOK

\* The audit.
LEMMA AuditKeeps ==
    ASSUME ScoresInv, NEW p, Audit(p) PROVE ScoresInv'
<1>1. p \in Active /\ PlanOK(p) /\ data' = data /\ orphan' = orphan
  BY DEF Audit, At, Elsewhere, ScoresInv
<1>2. Shaped'
  BY <1>1 DEF Audit, Completes, Fails, Elsewhere, ScoresInv, Shaped, Active, PrivateId
<1>3. PrivateOK'
  BY DEF Audit, ScoresInv, PrivateOK
<1>4. \A q \in Active \ {p} : Same(q)
  BY DEF Audit, Completes, Fails, Same, Elsewhere, ScoresInv, Shaped
<1>5. PlanOK(p)'
  <2>1. /\ stage[p] = "audit" /\ stage'[p] \in Splitting /\ pc'[p] \in {"idle", "failed"}
        /\ artifacts'[p] = artifacts[p] /\ workspace'[p] = workspace[p]
    BY <1>1, StageOrder DEF Audit, At, Completes, Fails, ScoresInv, Shaped, Splitting
  <2>2. QED
    BY <1>1, <2>1 DEF PlanOK, PlaceOK, FrozenOK, ScoreOK, Of, Splitting, Frozen
<1>6. RefusalOK(p)'
  <2>1. RefusalOK(p)
    BY <1>1 DEF ScoresInv
  <2>2. /\ stage'[p] \in Splitting /\ pc[p] = "idle"
        /\ \/ pc'[p] = "idle" /\ cause'[p] = cause[p]
           \/ pc'[p] = "failed" /\ cause'[p] = "data"
    BY <1>1, StageOrder DEF Audit, At, Completes, Fails, ScoresInv, Shaped, Splitting
  <2>3. QED
    BY <1>1, <2>1, <2>2, OwnRefusals
       DEF RefusalOK, KeptOK, TouchedOK, PredictedOK, CauseOK, Splitting, Frozen
<1>7. \A d \in DOMAIN private \ {PrivateId(p)} : private'[d] = private[d]
  BY DEF Audit
<1>8. QED
  BY <1>1, <1>2, <1>3, <1>4, <1>5, <1>6, <1>7, OthersStay DEF ScoresInv, Active

\* The division.
LEMMA DivideKeeps ==
    ASSUME ScoresInv, NEW p, Divide(p) PROVE ScoresInv'
<1>1. p \in Active /\ PlanOK(p) /\ data' = data /\ orphan' = orphan
  BY DEF Divide, At, Elsewhere, ScoresInv
<1>2. Shaped'
  BY <1>1 DEF Divide, Fails, Reaches, Elsewhere, ScoresInv, Shaped, Active, PrivateId, Protected
<1>3. PrivateOK'
  BY DEF Divide, ScoresInv, PrivateOK
<1>4. \A q \in Active \ {p} : Same(q)
  BY DEF Divide, Fails, Reaches, Same, Elsewhere, ScoresInv, Shaped
<1>5. PlanOK(p)'
  <2>1. /\ stage[p] = "split" /\ stage'[p] = "split" /\ artifacts'[p] = artifacts[p]
        /\ workspace'[p].predictions = workspace[p].predictions
        /\ \/ pc'[p] = "failed"
           \/ pc'[p] = "reset" /\ IsDivision(data[p].dataset, draft'[p].part)
    <3>1. /\ stage[p] = "split" /\ stage'[p] = "split" /\ artifacts'[p] = artifacts[p]
      BY <1>1 DEF Divide, At, Fails, Reaches
    <3>2. workspace'[p].predictions = workspace[p].predictions
      BY <1>1 DEF Divide, ScoresInv, Shaped
    <3>3. \/ pc'[p] = "failed"
          \/ pc'[p] = "reset" /\ IsDivision(data[p].dataset, draft'[p].part)
      BY <1>1 DEF Divide, Fails, Reaches, ScoresInv, Shaped, IsDivision
    <3>4. QED
      BY <3>1, <3>2, <3>3
  <2>2. QED
    BY <1>1, <2>1 DEF PlanOK, PlaceOK, FrozenOK, ScoreOK, Of, Splitting, Frozen
<1>6. RefusalOK(p)'
  <2>1. RefusalOK(p)
    BY <1>1 DEF ScoresInv
  <2>2. /\ stage'[p] = "split" /\ pc[p] = "idle"
        /\ \/ pc'[p] = "failed" /\ cause'[p] = "data"
           \/ /\ pc'[p] = "failed" /\ cause'[p] = "guard"
              /\ \E x \in DivisionTable : x.dataset = data[p].dataset /\ ~x.accepted
           \/ pc'[p] = "reset" /\ cause'[p] = cause[p]
    BY <1>1 DEF Divide, At, Fails, Reaches, ScoresInv, Shaped
  <2>3. QED
    BY <1>1, <2>1, <2>2, OwnRefusals
       DEF RefusalOK, KeptOK, TouchedOK, PredictedOK, CauseOK, Splitting, Frozen
<1>7. \A d \in DOMAIN private \ {PrivateId(p)} : private'[d] = private[d]
  BY DEF Divide
<1>8. QED
  BY <1>1, <1>2, <1>3, <1>4, <1>5, <1>6, <1>7, OthersStay DEF ScoresInv, Active

\* The private directory is emptied.
LEMMA ResetPrivateKeeps ==
    ASSUME ScoresInv, NEW p, ResetPrivate(p) PROVE ScoresInv'
<1>1. p \in Active /\ PlanOK(p) /\ data' = data /\ orphan' = orphan
  BY DEF ResetPrivate, At, Elsewhere, ScoresInv
<1>2. Shaped'
  BY <1>1 DEF ResetPrivate, Reaches, Elsewhere, ScoresInv, Shaped, Active, PrivateId, EmptyDirectory
<1>3. PrivateOK'
  BY <1>1 DEF ResetPrivate, ScoresInv, PrivateOK, EmptyDirectory
<1>4. \A q \in Active \ {p} : Same(q)
  BY DEF ResetPrivate, Reaches, Same, Elsewhere, ScoresInv, Shaped
<1>5. PlanOK(p)'
  <2>1. /\ stage[p] = "split" /\ stage'[p] = "split" /\ pc[p] = "reset" /\ pc'[p] = "write"
        /\ artifacts'[p] = artifacts[p] /\ workspace'[p] = workspace[p] /\ draft'[p] = draft[p]
    BY <1>1 DEF ResetPrivate, At, Reaches, ScoresInv, Shaped
  <2>2. QED
    BY <1>1, <2>1 DEF PlanOK, PlaceOK, FrozenOK, ScoreOK, Of, Splitting, Frozen
<1>6. RefusalOK(p)'
  <2>1. RefusalOK(p)
    BY <1>1 DEF ScoresInv
  <2>2. /\ stage'[p] = "split" /\ pc[p] = "reset" /\ pc'[p] = "write"
        /\ cause'[p] = cause[p]
    BY <1>1 DEF ResetPrivate, At, Reaches, ScoresInv, Shaped
  <2>3. QED
    BY <1>1, <2>1, <2>2, OwnRefusals
       DEF RefusalOK, KeptOK, TouchedOK, PredictedOK, CauseOK, Splitting, Frozen
<1>7. \A d \in DOMAIN private \ {PrivateId(p)} : private'[d] = private[d]
  BY DEF ResetPrivate, ScoresInv, Shaped
<1>8. QED
  BY <1>1, <1>2, <1>3, <1>4, <1>5, <1>6, <1>7, OthersStay DEF ScoresInv, Active

\* The splits and the labels are written.
LEMMA WriteSplitsKeeps ==
    ASSUME ScoresInv, NEW p, WriteSplits(p) PROVE ScoresInv'
<1>1. p \in Active /\ PlanOK(p) /\ data' = data /\ orphan' = orphan
  BY DEF WriteSplits, At, Elsewhere, ScoresInv
<1>2. Shaped'
  BY <1>1 DEF WriteSplits, Reaches, Elsewhere, ScoresInv, Shaped, Active, PrivateId
<1>3. PrivateOK'
  <2>1. IsFiniteSet(TestRows(draft[p].part))
    <3>1. IsFiniteSet(DOMAIN draft[p].part)
      BY <1>1, DivisionsAreFinite DEF WriteSplits, At, PlanOK, PlaceOK, IsDivision
    <3>2. QED
      BY <3>1, FS_Subset DEF TestRows
  <2>2. ASSUME NEW d \in DOMAIN private'
        PROVE  private'[d].labels = None \/ IsFiniteSet(private'[d].labels)
    <3>1. d \in DOMAIN private /\ "labels" \in DOMAIN private[d]
      BY DEF WriteSplits, ScoresInv, Shaped
    <3>2. private'[d].labels = private[d].labels \/ private'[d].labels = TestRows(draft[p].part)
      BY <3>1 DEF WriteSplits
    <3>3. QED
      BY <2>1, <3>1, <3>2 DEF ScoresInv, PrivateOK
  <2>3. QED
    BY <2>2 DEF PrivateOK
<1>4. \A q \in Active \ {p} : Same(q)
  BY DEF WriteSplits, Reaches, Same, Elsewhere, ScoresInv, Shaped
<1>5. PlanOK(p)'
  <2>1. /\ stage[p] = "split" /\ stage'[p] = "split" /\ pc[p] = "write" /\ pc'[p] = "hash"
        /\ artifacts'[p] = artifacts[p] /\ draft'[p] = draft[p]
        /\ workspace'[p].predictions = workspace[p].predictions
    BY <1>1 DEF WriteSplits, At, Reaches, ScoresInv, Shaped
  <2>2. QED
    BY <1>1, <2>1 DEF PlanOK, PlaceOK, FrozenOK, ScoreOK, Of, Splitting, Frozen
<1>6. RefusalOK(p)'
  <2>1. RefusalOK(p)
    BY <1>1 DEF ScoresInv
  <2>2. /\ stage'[p] = "split" /\ pc[p] = "write" /\ pc'[p] = "hash"
        /\ cause'[p] = cause[p] /\ draft'[p] = draft[p]
        /\ workspace'[p].changed \cap Parts = {}
        /\ RequiresTarget(Of(p).task) => private'[PrivateId(p)].labels = TestRows(draft[p].part)
    BY <1>1 DEF WriteSplits, At, Reaches, ScoresInv, Shaped
  <2>3. QED
    BY <1>1, <2>1, <2>2, OwnRefusals
       DEF RefusalOK, KeptOK, TouchedOK, PredictedOK, CauseOK, Splitting, Frozen
<1>7. \A d \in DOMAIN private \ {PrivateId(p)} : private'[d] = private[d]
  BY DEF WriteSplits, ScoresInv, Shaped
<1>8. QED
  BY <1>1, <1>2, <1>3, <1>4, <1>5, <1>6, <1>7, OthersStay DEF ScoresInv, Active

\* The manifest is completed.
LEMMA HashLabelsKeeps ==
    ASSUME ScoresInv, NEW p, HashLabels(p) PROVE ScoresInv'
<1>1. p \in Active /\ PlanOK(p) /\ data' = data /\ orphan' = orphan
  BY DEF HashLabels, At, Elsewhere, ScoresInv
<1>2. Shaped'
  <2>1. /\ DOMAIN stage' = Active /\ DOMAIN pc' = Active /\ DOMAIN artifacts' = Active
        /\ DOMAIN draft' = Active /\ DOMAIN cause' = Active
        /\ workspace' = workspace /\ private' = private
    BY <1>1 DEF HashLabels, Fails, Completes, ScoresInv, Shaped
  <2>2. \A q \in Active : DOMAIN artifacts'[q] = DOMAIN artifacts[q]
    BY <1>1 DEF HashLabels, ScoresInv, Shaped
  <2>3. \A q \in Active : DOMAIN draft'[q] = {"part", "code", "attempt"}
    BY <1>1 DEF HashLabels, ScoresInv, Shaped, NoDraft
  <2>4. QED
    BY <1>1, <2>1, <2>2, <2>3 DEF ScoresInv, Shaped, Active, PrivateId
<1>3. PrivateOK'
  BY DEF HashLabels, ScoresInv, PrivateOK
<1>4. \A q \in Active \ {p} : Same(q)
  BY DEF HashLabels, Fails, Completes, Same, Elsewhere, ScoresInv, Shaped
<1>5. PlanOK(p)'
  <2>1. /\ stage[p] = "split" /\ pc[p] = "hash" /\ workspace'[p] = workspace[p]
    BY <1>1 DEF HashLabels, At
  <2>2. \/ stage'[p] = "split" /\ pc'[p] = "failed" /\ artifacts'[p] = artifacts[p]
        \/ /\ stage'[p] = "freeze" /\ pc'[p] = "idle"
           /\ artifacts'[p].report = artifacts[p].report
           /\ artifacts'[p].manifest.part = draft[p].part
    BY <1>1, <2>1, StageOrder DEF HashLabels, At, Fails, Completes, ScoresInv, Shaped
  <2>3. QED
    BY <1>1, <2>1, <2>2 DEF PlanOK, PlaceOK, FrozenOK, ScoreOK, Of, Splitting, Frozen
<1>6. RefusalOK(p)'
  <2>1. RefusalOK(p) /\ PlaceOK(p) /\ stage[p] = "split" /\ pc[p] = "hash"
        /\ private' = private /\ workspace' = workspace
    BY <1>1 DEF ScoresInv, PlanOK, HashLabels, At
  <2>2. TestRows(draft[p].part) # None
    BY <2>1, DivisionsAreFinite DEF PlaceOK, IsDivision
  <2>3. \/ /\ stage'[p] = "split" /\ pc'[p] = "failed" /\ cause'[p] = "labels"
           /\ RequiresTarget(Of(p).task) /\ private[PrivateId(p)].labels = None
        \/ /\ stage'[p] = "freeze" /\ pc'[p] = "idle" /\ cause'[p] = cause[p]
           /\ artifacts'[p].manifest.part = draft[p].part
           /\ artifacts'[p].manifest.labels = private[PrivateId(p)].labels
    BY <1>1, <2>1, StageOrder DEF HashLabels, At, Fails, Completes, ScoresInv, Shaped
  <2>4. QED
    BY <1>1, <2>1, <2>2, <2>3, OwnRefusals
       DEF RefusalOK, KeptOK, TouchedOK, PredictedOK, CauseOK, Splitting, Frozen
<1>7. \A d \in DOMAIN private \ {PrivateId(p)} : private'[d] = private[d]
  BY DEF HashLabels
<1>8. QED
  BY <1>1, <1>2, <1>3, <1>4, <1>5, <1>6, <1>7, OthersStay DEF ScoresInv, Active

\* The contract is frozen.
LEMMA FreezeKeeps ==
    ASSUME ScoresInv, NEW p, Freeze(p) PROVE ScoresInv'
<1>1. p \in Active /\ PlanOK(p) /\ data' = data /\ orphan' = orphan
  BY DEF Freeze, At, Elsewhere, ScoresInv
<1>2. Shaped'
  BY <1>1 DEF Freeze, Fails, Completes, Elsewhere, ScoresInv, Shaped, Active, PrivateId
<1>3. PrivateOK'
  <2>1. \A d \in DOMAIN private' : d \in DOMAIN private /\ private'[d].labels = private[d].labels
    BY DEF Freeze, ScoresInv, Shaped
  <2>2. QED
    BY <2>1 DEF ScoresInv, PrivateOK
<1>4. \A q \in Active \ {p} : Same(q)
  BY DEF Freeze, Fails, Completes, Same, Elsewhere, ScoresInv, Shaped
<1>5. PlanOK(p)'
  <2>1. /\ stage[p] = "freeze" /\ workspace'[p].predictions = workspace[p].predictions
    BY <1>1 DEF Freeze, At, ScoresInv, Shaped
  <2>2. \/ stage'[p] = "freeze" /\ pc'[p] = "failed" /\ artifacts'[p] = artifacts[p]
        \/ /\ stage'[p] = "generate" /\ pc'[p] = "idle"
           /\ artifacts'[p].report = artifacts[p].report
           /\ artifacts'[p].manifest = artifacts[p].manifest
           /\ artifacts'[p].contract = artifacts[p].manifest
    BY <1>1, <2>1, StageOrder DEF Freeze, At, Fails, Completes, ScoresInv, Shaped
  <2>3. QED
    BY <1>1, <2>1, <2>2 DEF PlanOK, PlaceOK, FrozenOK, ScoreOK, Of, Splitting, Frozen
<1>6. RefusalOK(p)'
  <2>1. RefusalOK(p)
    BY <1>1 DEF ScoresInv
  <2>2. /\ stage[p] = "freeze" /\ pc[p] = "idle"
        /\ private'[PrivateId(p)].labels = private[PrivateId(p)].labels
        /\ \/ /\ stage'[p] = "freeze" /\ pc'[p] = "failed" /\ cause'[p] = "frozen"
              /\ artifacts'[p] = artifacts[p] /\ workspace'[p] = workspace[p]
              /\ workspace[p].changed \cap Parts # {}
           \/ /\ stage'[p] = "generate" /\ pc'[p] = "idle" /\ cause'[p] = cause[p]
              /\ artifacts'[p].manifest = artifacts[p].manifest
              /\ workspace'[p].changed = workspace[p].changed \ {"evaluator"}
              /\ RequiresTarget(Of(p).task) => private'[PrivateId(p)].evaluator
    BY <1>1, StageOrder DEF Freeze, At, Fails, Completes, ScoresInv, Shaped
  <2>3. workspace[p].changed \cap Parts \subseteq data[p].touches
    BY <2>1, <2>2 DEF RefusalOK, TouchedOK, Splitting
  <2>4. /\ workspace[p].changed \subseteq Protected
        /\ workspace[p].changed \ {"evaluator"} \subseteq data[p].touches
    BY <1>1, <2>3 DEF ScoresInv, Shaped, Protected
  <2>5. QED
    BY <1>1, <2>1, <2>2, <2>3, <2>4, OwnRefusals
       DEF RefusalOK, KeptOK, TouchedOK, PredictedOK, CauseOK, Splitting, Frozen
<1>7. \A d \in DOMAIN private \ {PrivateId(p)} : private'[d] = private[d]
  BY DEF Freeze, ScoresInv, Shaped
<1>8. QED
  BY <1>1, <1>2, <1>3, <1>4, <1>5, <1>6, <1>7, OthersStay DEF ScoresInv, Active

\* An adapter is generated.
LEMMA GenerateKeeps ==
    ASSUME ScoresInv, NEW p, Generate(p) PROVE ScoresInv'
<1>1. p \in Active /\ PlanOK(p) /\ data' = data /\ orphan' = orphan
  BY DEF Generate, At, Elsewhere, ScoresInv
<1>2. Shaped'
  BY <1>1 DEF Generate, Fails, Completes, Elsewhere, ScoresInv, Shaped, Active, PrivateId
<1>3. PrivateOK'
  BY DEF Generate, ScoresInv, PrivateOK
<1>4. \A q \in Active \ {p} : Same(q)
  BY DEF Generate, Fails, Completes, Same, Elsewhere, ScoresInv, Shaped
<1>5. PlanOK(p)'
  <2>1. /\ stage[p] = "generate" /\ workspace'[p].predictions = workspace[p].predictions
        /\ artifacts'[p].report = artifacts[p].report
        /\ artifacts'[p].manifest = artifacts[p].manifest
        /\ artifacts'[p].contract = artifacts[p].contract
    BY <1>1 DEF Generate, At, ScoresInv, Shaped
  <2>2. \/ stage'[p] = "generate" /\ pc'[p] = "failed"
        \/ stage'[p] = "preflight" /\ pc'[p] = "idle"
    BY <1>1, <2>1, StageOrder DEF Generate, Fails, Completes, ScoresInv, Shaped
  <2>3. QED
    BY <1>1, <2>1, <2>2 DEF PlanOK, PlaceOK, FrozenOK, ScoreOK, Of, Splitting, Frozen
<1>6. RefusalOK(p)'
  <2>1. RefusalOK(p)
    BY <1>1 DEF ScoresInv
  <2>2. /\ stage[p] = "generate" /\ pc[p] = "idle" /\ private' = private
        /\ workspace'[p].changed = workspace[p].changed
        /\ artifacts'[p].manifest = artifacts[p].manifest
        /\ \/ stage'[p] = "generate" /\ pc'[p] = "failed" /\ cause'[p] = "model"
           \/ stage'[p] = "preflight" /\ pc'[p] = "idle" /\ cause'[p] = cause[p]
    BY <1>1, StageOrder DEF Generate, At, Fails, Completes, ScoresInv, Shaped
  <2>3. QED
    BY <1>1, <2>1, <2>2, OwnRefusals
       DEF RefusalOK, KeptOK, TouchedOK, PredictedOK, CauseOK, Splitting, Frozen
<1>7. \A d \in DOMAIN private \ {PrivateId(p)} : private'[d] = private[d]
  BY DEF Generate
<1>8. QED
  BY <1>1, <1>2, <1>3, <1>4, <1>5, <1>6, <1>7, OthersStay DEF ScoresInv, Active

\* A round of the preflight.
LEMMA AttemptKeeps ==
    ASSUME ScoresInv, NEW p, Attempt(p) PROVE ScoresInv'
<1>1. p \in Active /\ PlanOK(p) /\ data' = data /\ orphan' = orphan
  BY DEF Attempt, At, Elsewhere, ScoresInv
<1>2. Shaped'
  BY <1>1 DEF Attempt, Reaches, Elsewhere, ScoresInv, Shaped, Active, PrivateId
<1>3. PrivateOK'
  BY DEF Attempt, ScoresInv, PrivateOK
<1>4. \A q \in Active \ {p} : Same(q)
  BY DEF Attempt, Reaches, Same, Elsewhere, ScoresInv, Shaped
<1>5. PlanOK(p)'
  <2>1. /\ stage[p] = "preflight" /\ stage'[p] = "preflight" /\ pc'[p] = "labeled"
        /\ workspace'[p].predictions = workspace[p].predictions /\ artifacts'[p] = artifacts[p]
    BY <1>1 DEF Attempt, Reaches, ScoresInv, Shaped
  <2>2. QED
    BY <1>1, <2>1 DEF PlanOK, PlaceOK, FrozenOK, ScoreOK, Of, Splitting, Frozen
<1>6. RefusalOK(p)'
  <2>1. RefusalOK(p)
    BY <1>1 DEF ScoresInv
  <2>2. /\ stage[p] = "preflight" /\ stage'[p] = "preflight" /\ pc[p] # "failed"
        /\ pc'[p] = "labeled" /\ cause'[p] = cause[p] /\ artifacts'[p] = artifacts[p]
        /\ private' = private
        /\ workspace'[p].changed = workspace[p].changed
    BY <1>1 DEF Attempt, Reaches, ScoresInv, Shaped
  <2>3. QED
    BY <1>1, <2>1, <2>2, OwnRefusals
       DEF RefusalOK, KeptOK, TouchedOK, PredictedOK, CauseOK, Splitting, Frozen
<1>7. \A d \in DOMAIN private \ {PrivateId(p)} : private'[d] = private[d]
  BY DEF Attempt
<1>8. QED
  BY <1>1, <1>2, <1>3, <1>4, <1>5, <1>6, <1>7, OthersStay DEF ScoresInv, Active

\* The execution starts.
LEMMA ExecuteKeeps ==
    ASSUME ScoresInv, NEW p, Execute(p) PROVE ScoresInv'
<1>1. p \in Active /\ PlanOK(p) /\ data' = data /\ orphan' = orphan
  BY DEF Execute, At, Elsewhere, ScoresInv
<1>2. Shaped'
  BY <1>1 DEF Execute, Reaches, Elsewhere, ScoresInv, Shaped, Active, PrivateId
<1>3. PrivateOK'
  BY DEF Execute, ScoresInv, PrivateOK
<1>4. \A q \in Active \ {p} : Same(q)
  BY DEF Execute, Reaches, Same, Elsewhere, ScoresInv, Shaped
<1>5. PlanOK(p)'
  <2>1. /\ stage[p] = "execute" /\ stage'[p] = "execute" /\ pc'[p] = "public"
        /\ workspace'[p] = workspace[p] /\ artifacts'[p] = artifacts[p]
    BY <1>1 DEF Execute, At, Reaches, ScoresInv, Shaped
  <2>2. QED
    BY <1>1, <2>1 DEF PlanOK, PlaceOK, FrozenOK, ScoreOK, Of, Splitting, Frozen
<1>6. RefusalOK(p)'
  <2>1. RefusalOK(p)
    BY <1>1 DEF ScoresInv
  <2>2. /\ stage[p] = "execute" /\ stage'[p] = "execute" /\ pc[p] = "idle" /\ pc'[p] = "public"
        /\ cause'[p] = cause[p] /\ artifacts'[p] = artifacts[p] /\ private' = private
        /\ workspace' = workspace
    BY <1>1 DEF Execute, At, Reaches, ScoresInv, Shaped
  <2>3. QED
    BY <1>1, <2>1, <2>2, OwnRefusals
       DEF RefusalOK, KeptOK, TouchedOK, PredictedOK, CauseOK, Splitting, Frozen
<1>7. \A d \in DOMAIN private \ {PrivateId(p)} : private'[d] = private[d]
  BY DEF Execute
<1>8. QED
  BY <1>1, <1>2, <1>3, <1>4, <1>5, <1>6, <1>7, OthersStay DEF ScoresInv, Active

\* What was frozen is checked.
LEMMA CheckFrozenKeeps ==
    ASSUME ScoresInv, NEW p, CheckFrozen(p) PROVE ScoresInv'
<1>1. p \in Active /\ PlanOK(p) /\ data' = data /\ orphan' = orphan
  BY DEF CheckFrozen, At, Elsewhere, ScoresInv
<1>2. Shaped'
  BY <1>1
     DEF CheckFrozen, Fails, Reaches, Completes, Elsewhere, ScoresInv, Shaped, Active, PrivateId
<1>3. PrivateOK'
  BY DEF CheckFrozen, ScoresInv, PrivateOK
<1>4. \A q \in Active \ {p} : Same(q)
  BY DEF CheckFrozen, Fails, Reaches, Completes, Same, Elsewhere, ScoresInv, Shaped
<1>5. PlanOK(p)'
  <2>1. /\ stage[p] = "validate" /\ workspace'[p] = workspace[p]
    BY <1>1 DEF CheckFrozen, At
  <2>2. \/ /\ stage'[p] = "validate" /\ pc'[p] \in {"failed", "join"}
           /\ artifacts'[p] = artifacts[p]
        \/ /\ stage'[p] = "report" /\ pc'[p] = "idle" /\ ~RequiresTarget(Of(p).task)
           /\ artifacts'[p].manifest = artifacts[p].manifest
           /\ artifacts'[p].contract = artifacts[p].contract
    BY <1>1, <2>1, StageOrder DEF CheckFrozen, At, Fails, Reaches, Completes, ScoresInv, Shaped
  <2>3. QED
    BY <1>1, <2>1, <2>2 DEF PlanOK, PlaceOK, FrozenOK, ScoreOK, Of, Splitting, Frozen
<1>6. RefusalOK(p)'
  <2>1. /\ RefusalOK(p) /\ FrozenOK(p) /\ stage[p] = "validate" /\ pc[p] = "idle"
        /\ private' = private /\ workspace' = workspace
    BY <1>1 DEF ScoresInv, PlanOK, CheckFrozen, At
  <2>2. artifacts[p].contract = artifacts[p].manifest
    BY <2>1 DEF FrozenOK, Frozen
  <2>3. \/ /\ stage'[p] = "report" /\ pc'[p] = "idle" /\ cause'[p] = cause[p]
           /\ ~RequiresTarget(Of(p).task) /\ artifacts'[p].manifest = artifacts[p].manifest
           /\ artifacts'[p].sound = artifacts[p].sound
        \/ /\ stage'[p] = "validate" /\ pc'[p] = "join" /\ cause'[p] = cause[p]
           /\ RequiresTarget(Of(p).task) /\ artifacts' = artifacts
        \/ /\ stage'[p] = "validate" /\ pc'[p] = "failed" /\ artifacts' = artifacts
           /\ cause'[p] = "metrics" /\ ~artifacts[p].primary
        \/ /\ stage'[p] = "validate" /\ pc'[p] = "failed" /\ artifacts' = artifacts
           /\ cause'[p] = "frozen"
           /\ \/ workspace[p].changed # {}
              \/ /\ RequiresTarget(Of(p).task)
                 /\ \/ private[PrivateId(p)].labels # artifacts[p].manifest.labels
                    \/ ~private[PrivateId(p)].evaluator
                    \/ ~artifacts[p].sound
    BY <1>1, <2>1, <2>2, StageOrder
       DEF CheckFrozen, At, Fails, Reaches, Completes, ScoresInv, Shaped
  <2>4. workspace[p].changed \cap data[p].touches = workspace[p].changed
    BY <2>1 DEF RefusalOK, TouchedOK, Frozen
  <2>5. QED
    BY <1>1, <2>1, <2>3, <2>4, OwnRefusals
       DEF RefusalOK, KeptOK, TouchedOK, PredictedOK, CauseOK, Splitting, Frozen
<1>7. \A d \in DOMAIN private \ {PrivateId(p)} : private'[d] = private[d]
  BY DEF CheckFrozen
<1>8. QED
  BY <1>1, <1>2, <1>3, <1>4, <1>5, <1>6, <1>7, OthersStay DEF ScoresInv, Active

\* Predictions and labels are joined.
LEMMA ScoreKeeps ==
    ASSUME ScoresInv, NEW p, Score(p) PROVE ScoresInv'
<1>1. p \in Active /\ PlanOK(p) /\ data' = data /\ orphan' = orphan
  BY DEF Score, At, Elsewhere, ScoresInv
<1>2. Shaped'
  BY <1>1 DEF Score, Fails, Completes, Elsewhere, ScoresInv, Shaped, Active, PrivateId
<1>3. PrivateOK'
  BY DEF Score, ScoresInv, PrivateOK
<1>4. \A q \in Active \ {p} : Same(q)
  BY DEF Score, Fails, Completes, Same, Elsewhere, ScoresInv, Shaped
<1> DEFINE predictions == workspace[p].predictions
           labels == private[PrivateId(p)].labels
           rows == TestRows(artifacts[p].manifest.part)
<1>5. PlanOK(p)'
  <2>1. /\ stage[p] = "validate" /\ workspace'[p] = workspace[p]
    BY <1>1 DEF Score, At
  <2>2. \/ /\ stage'[p] = "validate" /\ pc'[p] = "failed" /\ artifacts'[p] = artifacts[p]
        \/ /\ stage'[p] = "report" /\ pc'[p] = "idle"
           /\ artifacts'[p].manifest = artifacts[p].manifest
           /\ artifacts'[p].contract = artifacts[p].contract
           /\ artifacts'[p].report = [rows |-> predictions, labels |-> labels]
           /\ predictions # None /\ labels # None /\ Joins(predictions, labels, Cardinality(rows))
    BY <1>1, <2>1, StageOrder DEF Score, At, Fails, Completes, ScoresInv, Shaped
  <2>3. CASE stage'[p] = "validate" /\ pc'[p] = "failed" /\ artifacts'[p] = artifacts[p]
    BY <1>1, <2>1, <2>3 DEF PlanOK, PlaceOK, FrozenOK, ScoreOK, Of, Splitting, Frozen
  <2>4. CASE /\ stage'[p] = "report" /\ pc'[p] = "idle"
             /\ artifacts'[p].manifest = artifacts[p].manifest
             /\ artifacts'[p].contract = artifacts[p].contract
             /\ artifacts'[p].report = [rows |-> predictions, labels |-> labels]
             /\ predictions # None /\ labels # None /\ Joins(predictions, labels, Cardinality(rows))
    <3>1. IsFiniteSet(labels)
      BY <1>1, <2>4 DEF ScoresInv, PrivateOK, Shaped
    <3>2. IsFiniteSet(rows)
      <4>1. IsFiniteSet(DOMAIN artifacts[p].manifest.part)
        BY <1>1, <2>1, DivisionsAreFinite DEF PlanOK, FrozenOK, Splitting, IsDivision
      <4>2. QED
        BY <4>1, FS_Subset DEF TestRows
    <3>3. predictions = labels
      BY <2>4, <3>1, JoinIsExact
    <3>4. predictions = rows
      BY <1>1, <2>4, <3>1, <3>2, EmptyJoin DEF PlanOK, FrozenOK
    <3>5. artifacts[p].contract = artifacts[p].manifest
      BY <1>1, <2>1 DEF PlanOK, FrozenOK, Frozen
    <3>6. /\ artifacts'[p].report.rows = TestRows(artifacts'[p].contract.part)
          /\ artifacts'[p].report.labels = artifacts'[p].report.rows
      BY <2>4, <3>3, <3>4, <3>5
    <3>7. ScoreOK(p)'
      BY <3>6 DEF ScoreOK
    <3>8. PlaceOK(p)'
      BY <2>4 DEF PlaceOK, Splitting, Frozen
    <3>9. FrozenOK(p)'
      BY <1>1, <2>1, <2>4 DEF PlanOK, FrozenOK, Splitting, Frozen
    <3>10. QED
      BY <3>7, <3>8, <3>9 DEF PlanOK
  <2>5. QED
    BY <2>2, <2>3, <2>4
<1>6. RefusalOK(p)'
  <2>1. /\ RefusalOK(p) /\ FrozenOK(p) /\ stage[p] = "validate" /\ pc[p] = "join"
        /\ private' = private /\ workspace' = workspace
    BY <1>1 DEF ScoresInv, PlanOK, Score, At
  <2>2. rows # None /\ rows \subseteq rows
    BY <2>1, DivisionsAreFinite DEF FrozenOK, Splitting, IsDivision
  <2>3. \/ /\ stage'[p] = "report" /\ pc'[p] = "idle" /\ cause'[p] = cause[p]
           /\ artifacts'[p].manifest = artifacts[p].manifest
           /\ artifacts'[p].sound = artifacts[p].sound
        \/ /\ stage'[p] = "validate" /\ pc'[p] = "failed" /\ artifacts' = artifacts
           /\ cause'[p] = "metrics" /\ ~Measurable(p)
        \/ /\ stage'[p] = "validate" /\ pc'[p] = "failed" /\ artifacts' = artifacts
           /\ cause'[p] = "join"
           /\ \/ predictions = None \/ labels = None
              \/ ~Joins(predictions, labels, Cardinality(rows))
    BY <1>1, <2>1, StageOrder DEF Score, At, Fails, Completes, ScoresInv, Shaped
  <2>4. Alone(p) /\ orphan[p] = "none" => predictions = rows /\ labels = rows
    BY <2>1 DEF RefusalOK, KeptOK, TouchedOK, PredictedOK, CauseOK, Splitting
  <2>5. Joins(rows, rows, Cardinality(rows))
    BY <2>2 DEF Joins
  <2> HIDE DEF predictions, labels, rows
  <2>6. cause'[p] = "join" => ~Alone(p) \/ orphan[p] # "none"
    BY <2>1, <2>2, <2>3, <2>4, <2>5 DEF RefusalOK, CauseOK
  <2>7. Measurable(p)' = Measurable(p)
    BY <1>1, <2>1 DEF Measurable, Of
  <2>8. QED
    BY <1>1, <2>1, <2>3, <2>6, <2>7, OwnRefusals
       DEF RefusalOK, KeptOK, TouchedOK, PredictedOK, CauseOK, Splitting, Frozen
<1>7. \A d \in DOMAIN private \ {PrivateId(p)} : private'[d] = private[d]
  BY DEF Score
<1>8. QED
  BY <1>1, <1>2, <1>3, <1>4, <1>5, <1>6, <1>7, OthersStay DEF ScoresInv, Active

-----------------------------------------------------------------------------
(* The processes.                                                          *)

\* What a process leaves is still the files of a workspace.
LEMMA EffectsAreFiles ==
    ASSUME NEW p \in Active, Shaped, NEW after \in Effects(p) \cup {workspace[p]}
    PROVE  /\ DOMAIN after = DOMAIN workspace[p] /\ after.predictions = workspace[p].predictions
           /\ after.changed \subseteq Protected
           /\ after.changed \subseteq workspace[p].changed \cup data[p].touches
<1>1. DOMAIN workspace[p] = {"adapter", "original", "changed", "predictions", "numeric"}
  BY DEF Shaped
<1>2. workspace[p].changed \subseteq Protected
  BY DEF Shaped
<1>3. CASE after = workspace[p]
  BY <1>2, <1>3
<1>4. CASE after = [workspace[p] EXCEPT !.original = FALSE]
  BY <1>1, <1>2, <1>4
<1>5. CASE \E file \in data[p].touches \cap Protected :
             after = [workspace[p] EXCEPT !.changed = @ \cup {file}]
  BY <1>1, <1>2, <1>5
<1>6. CASE \E code : after = [workspace[p] EXCEPT !.adapter = code]
  BY <1>1, <1>2, <1>6
<1>7. QED
  BY <1>3, <1>4, <1>5, <1>6 DEF Effects

\* And so are those with the predictions of a hidden run.
LEMMA WrittenAreFiles ==
    ASSUME NEW p, NEW after, NEW files \in Written(p, after),
           DOMAIN after = {"adapter", "original", "changed", "predictions", "numeric"}
    PROVE  /\ DOMAIN files = DOMAIN after /\ files.changed = after.changed
           /\ files.predictions = TestRows(artifacts[p].manifest.part)
  BY DEF Written

\* A failed process leaves its task where it is, or fails it.
LEMMA FailuresStayInTheTask ==
    ASSUME NEW p \in Active, Shaped, PlanOK(p), pc[p] \in Processes, RunFails(p)
    PROVE  /\ stage' = stage /\ DOMAIN pc' = Active /\ DOMAIN cause' = Active
           /\ DOMAIN draft' = Active /\ DOMAIN draft'[p] = DOMAIN draft[p]
           /\ \/ pc'[p] = "failed" /\ cause'[p] = "adapter"
              \/ pc'[p] = "repaired" /\ cause'[p] = cause[p] /\ stage[p] = "preflight"
           /\ \A q \in Active \ {p} :
                 pc'[q] = pc[q] /\ cause'[q] = cause[q] /\ draft'[q] = draft[q]
<1>1. CASE Repair(p) /\ stage[p] = "preflight"
  <2>1. CASE Reaches(p, "repaired") /\ \E code : draft' = [draft EXCEPT ![p].code = code]
    BY <1>1, <2>1 DEF Reaches, Shaped
  <2>2. CASE Fails(p, "adapter") /\ draft' = [draft EXCEPT ![p] = NoDraft]
    BY <2>2 DEF Fails, Shaped, NoDraft
  <2>3. QED
    BY <1>1, <2>1, <2>2 DEF Repair
<1>2. CASE Fails(p, "adapter") /\ draft' = [draft EXCEPT ![p] = NoDraft]
  BY <1>2 DEF Fails, Shaped, NoDraft
<1>3. QED
  BY <1>1, <1>2 DEF RunFails

\* A process that passes brings the next one, or the next task.
LEMMA PassesGoOn ==
    ASSUME NEW p \in Active, Shaped, PlanOK(p), pc[p] \in Processes, RunPasses(p)
    PROVE  /\ DOMAIN stage' = Active /\ DOMAIN pc' = Active /\ cause' = cause
           /\ DOMAIN draft' = Active
           /\ DOMAIN artifacts' = Active /\ DOMAIN artifacts'[p] = DOMAIN artifacts[p]
           /\ DOMAIN draft'[p] = DOMAIN draft[p]
           /\ artifacts'[p].manifest = artifacts[p].manifest
           /\ artifacts'[p].contract = artifacts[p].contract
           /\ artifacts'[p].report = artifacts[p].report
           /\ stage[p] \in {"preflight", "execute"}
           /\ \/ pc'[p] = "unlabeled" /\ stage[p] = "preflight" /\ stage'[p] = "preflight"
              \/ pc'[p] = "hidden" /\ stage[p] = "execute" /\ stage'[p] = "execute"
              \/ /\ pc'[p] = "idle" /\ stage'[p] \in {"execute", "validate"}
                 /\ stage'[p] = "validate" => pc[p] = "hidden"
                 /\ stage'[p] = "validate" /\ orphan[p] = "none" => artifacts'[p].sound
           /\ \A q \in Active \ {p} :
                 /\ stage'[q] = stage[q] /\ pc'[q] = pc[q] /\ draft'[q] = draft[q]
                 /\ artifacts'[q] = artifacts[q]
<1>1. CASE pc[p] = "labeled"
  BY <1>1 DEF RunPasses, Reaches, Shaped, PlanOK, PlaceOK
<1>2. CASE pc[p] = "unlabeled"
  <2>1. stage[p] = "preflight"
    BY <1>2 DEF PlanOK, PlaceOK
  <2>2. /\ Completes(p) /\ artifacts' = [artifacts EXCEPT ![p].validated = draft[p].code]
        /\ draft' = [draft EXCEPT ![p] = NoDraft]
    BY <1>2 DEF RunPasses
  <2>3. stage'[p] = "execute" /\ pc'[p] = "idle"
    BY <2>1, <2>2, StageOrder DEF Completes, Shaped
  <2>4. QED
    BY <2>1, <2>2, <2>3 DEF Completes, Shaped, NoDraft
<1>3. CASE pc[p] = "public"
  BY <1>3 DEF RunPasses, Reaches, Shaped, PlanOK, PlaceOK
<1>4. CASE pc[p] = "hidden"
  <2>1. stage[p] = "execute"
    BY <1>4 DEF PlanOK, PlaceOK
  <2>2. Completes(p) /\ draft' = draft
    BY <1>4 DEF RunPasses
  <2>3. PICK primary \in BOOLEAN, sound \in Rereads(p) :
          artifacts' = [artifacts EXCEPT ![p].primary = primary, ![p].sound = sound]
    BY <1>4 DEF RunPasses
  <2>4. /\ DOMAIN artifacts' = Active /\ DOMAIN artifacts'[p] = DOMAIN artifacts[p]
        /\ artifacts'[p].manifest = artifacts[p].manifest
        /\ artifacts'[p].contract = artifacts[p].contract
        /\ artifacts'[p].report = artifacts[p].report
        /\ orphan[p] = "none" => artifacts'[p].sound
        /\ \A q \in Active \ {p} : artifacts'[q] = artifacts[q]
    BY <2>3 DEF Shaped, Rereads
  <2>5. QED
    BY <1>4, <2>1, <2>2, <2>4, StageOrder DEF Completes, Shaped
<1>5. QED
  BY <1>1, <1>2, <1>3, <1>4 DEF Processes

\* A process ends.
LEMMA RunKeeps ==
    ASSUME ScoresInv, NEW p, Run(p) PROVE ScoresInv'
<1>1. /\ p \in Active /\ PlanOK(p) /\ RefusalOK(p) /\ Shaped /\ data' = data
      /\ private' = private /\ pc[p] \in Processes
  BY DEF Run, ScoresInv
<1>2. stage[p] \in {"preflight", "execute"} /\ (pc[p] = "hidden" => stage[p] = "execute")
  BY <1>1 DEF PlanOK, PlaceOK, Processes
<1> DEFINE rows == TestRows(artifacts[p].manifest.part)
           Files(files) ==
              /\ DOMAIN files = DOMAIN workspace[p] /\ files.changed \subseteq Protected
              /\ files.changed \subseteq workspace[p].changed \cup data[p].touches
<1>3. PICK after \in Effects(p) \cup {workspace[p]} :
        \/ /\ workspace' = [workspace EXCEPT ![p] =
                 IF pc[p] = "hidden" THEN [after EXCEPT !.predictions = None, !.numeric = TRUE]
                 ELSE after]
           /\ \E left \in {orphan[p], "running"} : orphan' = [orphan EXCEPT ![p] = left]
           /\ RunFails(p) /\ UNCHANGED artifacts
        \/ /\ \E files \in IF pc[p] = "hidden" THEN Written(p, after) ELSE {after} :
                 workspace' = [workspace EXCEPT ![p] = files]
           /\ RunPasses(p) /\ UNCHANGED orphan
  BY DEF Run
<1>4. /\ Files(after) /\ after.predictions = workspace[p].predictions
      /\ DOMAIN workspace[p] = {"adapter", "original", "changed", "predictions", "numeric"}
  BY <1>1, <1>3, EffectsAreFiles DEF Shaped
<1>5. /\ DOMAIN workspace' = Active /\ Files(workspace'[p])
      /\ workspace'[p].predictions \in {workspace[p].predictions, None, rows}
      /\ \A q \in Active \ {p} : workspace'[q] = workspace[q]
      /\ \/ /\ RunFails(p) /\ UNCHANGED artifacts
            /\ \E left \in {orphan[p], "running"} : orphan' = [orphan EXCEPT ![p] = left]
         \/ /\ RunPasses(p) /\ orphan' = orphan
            /\ pc[p] = "hidden" => workspace'[p].predictions = rows
  <2>1. CASE /\ workspace' = [workspace EXCEPT ![p] =
                   IF pc[p] = "hidden" THEN [after EXCEPT !.predictions = None, !.numeric = TRUE]
                   ELSE after]
             /\ \E left \in {orphan[p], "running"} : orphan' = [orphan EXCEPT ![p] = left]
             /\ RunFails(p) /\ UNCHANGED artifacts
    BY <1>1, <1>4, <2>1 DEF Shaped
  <2>2. CASE /\ \E files \in IF pc[p] = "hidden" THEN Written(p, after) ELSE {after} :
                   workspace' = [workspace EXCEPT ![p] = files]
             /\ RunPasses(p) /\ UNCHANGED orphan
    <3>1. PICK files \in IF pc[p] = "hidden" THEN Written(p, after) ELSE {after} :
             workspace' = [workspace EXCEPT ![p] = files]
      BY <2>2
    <3>2. /\ Files(files) /\ files.predictions \in {workspace[p].predictions, rows}
          /\ pc[p] = "hidden" => files.predictions = rows
      BY <1>4, <3>1, WrittenAreFiles
    <3>3. QED
      BY <1>1, <2>2, <3>1, <3>2 DEF Shaped
  <2>3. QED
    BY <1>3, <2>1, <2>2
<1>5a. /\ workspace'[p].changed \subseteq data[p].touches /\ DOMAIN orphan' = Active
       /\ workspace'[p].changed \cap Parts \subseteq data[p].touches
       /\ \A q \in Active \ {p} : orphan'[q] = orphan[q]
       /\ orphan'[p] = "none" => orphan[p] = "none"
  BY <1>1, <1>2, <1>5 DEF Shaped, RefusalOK, TouchedOK, Frozen
<1>6. CASE RunFails(p) /\ UNCHANGED artifacts
  <2>1. /\ stage' = stage /\ DOMAIN pc' = Active /\ DOMAIN cause' = Active
        /\ DOMAIN draft' = Active /\ DOMAIN draft'[p] = DOMAIN draft[p]
        /\ \/ pc'[p] = "failed" /\ cause'[p] = "adapter"
           \/ pc'[p] = "repaired" /\ cause'[p] = cause[p] /\ stage[p] = "preflight"
        /\ \A q \in Active \ {p} :
              pc'[q] = pc[q] /\ cause'[q] = cause[q] /\ draft'[q] = draft[q]
    BY <1>1, <1>6, FailuresStayInTheTask
  <2>2. Shaped'
    BY <1>1, <1>5, <1>6, <1>5a, <2>1 DEF Shaped, Active, PrivateId
  <2>3. PlanOK(p)'
    BY <1>1, <1>2, <1>5, <1>6, <1>5a, <2>1 DEF PlanOK, PlaceOK, FrozenOK, ScoreOK, Of, Splitting, Frozen
  <2>4. \A q \in Active \ {p} : Same(q)
    BY <1>1, <1>5, <1>6, <1>5a, <2>1 DEF Same
  <2>5. RefusalOK(p)'
    <3>1. RefusalOK(p)
      BY <1>1 DEF ScoresInv
    <3>2. pc[p] # "failed" /\ pc'[p] # "hash" /\ pc'[p] # "join"
      BY <1>1, <2>1 DEF Processes
    <3>3. QED
      BY <1>1, <1>2, <1>6, <1>5a, <2>1, <3>1, <3>2, OwnRefusals
         DEF RefusalOK, KeptOK, TouchedOK, PredictedOK, CauseOK, Splitting, Frozen
  <2>6. QED
    BY <1>1, <2>2, <2>3, <2>4, <2>5, OthersStay DEF ScoresInv, PrivateOK, Active
<1>7. CASE RunPasses(p) /\ orphan' = orphan /\ (pc[p] = "hidden" => workspace'[p].predictions = rows)
  <2>1. /\ DOMAIN stage' = Active /\ DOMAIN pc' = Active /\ cause' = cause
        /\ DOMAIN draft' = Active
        /\ DOMAIN artifacts' = Active /\ DOMAIN artifacts'[p] = DOMAIN artifacts[p]
        /\ DOMAIN draft'[p] = DOMAIN draft[p]
        /\ artifacts'[p].manifest = artifacts[p].manifest
        /\ artifacts'[p].contract = artifacts[p].contract
        /\ artifacts'[p].report = artifacts[p].report
        /\ \/ pc'[p] = "unlabeled" /\ stage[p] = "preflight" /\ stage'[p] = "preflight"
           \/ pc'[p] = "hidden" /\ stage[p] = "execute" /\ stage'[p] = "execute"
           \/ /\ pc'[p] = "idle" /\ stage'[p] \in {"execute", "validate"}
              /\ stage'[p] = "validate" => pc[p] = "hidden"
              /\ stage'[p] = "validate" /\ orphan[p] = "none" => artifacts'[p].sound
        /\ \A q \in Active \ {p} :
              /\ stage'[q] = stage[q] /\ pc'[q] = pc[q] /\ draft'[q] = draft[q]
              /\ artifacts'[q] = artifacts[q]
    BY <1>1, <1>7, PassesGoOn
  <2>2. Shaped'
    BY <1>1, <1>5, <1>7, <1>5a, <2>1 DEF Shaped, Active, PrivateId
  <2>3. PlanOK(p)'
    BY <1>1, <1>2, <1>5, <1>7, <1>5a, <2>1 DEF PlanOK, PlaceOK, FrozenOK, ScoreOK, Of, Splitting, Frozen
  <2>4. \A q \in Active \ {p} : Same(q)
    BY <1>1, <1>5, <1>7, <1>5a, <2>1 DEF Same
  <2>5. RefusalOK(p)'
    <3>1. RefusalOK(p)
      BY <1>1 DEF ScoresInv
    <3>2. pc[p] # "failed" /\ pc'[p] # "hash" /\ pc'[p] # "join"
      BY <1>1, <2>1 DEF Processes
    <3>3. stage'[p] \in Frozen /\ stage'[p] # "report"
      BY <2>1 DEF Frozen
    <3>4. QED
      BY <1>1, <1>2, <1>7, <1>5a, <2>1, <3>1, <3>2, <3>3, OwnRefusals
         DEF RefusalOK, KeptOK, TouchedOK, PredictedOK, CauseOK, Splitting, Frozen
  <2>6. QED
    BY <1>1, <2>2, <2>3, <2>4, <2>5, OthersStay DEF ScoresInv, PrivateOK, Active
<1>8. QED
  BY <1>5, <1>6, <1>7

-----------------------------------------------------------------------------
(* Retries, crashes and orphans.                                           *)

\* A task breaks where it is.
LEMMA BreaksKeeps ==
    ASSUME ScoresInv, NEW p, Breaks(p) PROVE ScoresInv'
<1>1. /\ p \in Active /\ PlanOK(p) /\ RefusalOK(p) /\ data' = data /\ orphan' = orphan
      /\ stage' = stage /\ artifacts' = artifacts /\ workspace' = workspace
      /\ private' = private
  BY DEF Breaks, Fails, Elsewhere, ScoresInv
<1>2. Shaped'
  BY <1>1 DEF Breaks, Fails, ScoresInv, Shaped, Active, PrivateId, NoDraft
<1>3. pc'[p] = "failed" /\ cause'[p] = "io"
  BY <1>1 DEF Breaks, Fails, ScoresInv, Shaped
<1>4. \A q \in Active \ {p} : Same(q)
  BY <1>1 DEF Breaks, Fails, Same, ScoresInv, Shaped
<1>5. PlanOK(p)'
  BY <1>1, <1>3 DEF PlanOK, PlaceOK, FrozenOK, ScoreOK, Of
<1>6. RefusalOK(p)'
  BY <1>1, <1>3, OwnRefusals DEF RefusalOK, KeptOK, TouchedOK, PredictedOK
<1>7. QED
  BY <1>1, <1>2, <1>4, <1>5, <1>6, OthersStay DEF ScoresInv, PrivateOK, Active

LEMMA RetryKeeps ==
    ASSUME ScoresInv, NEW p, Retry(p) PROVE ScoresInv'
<1>1. p \in Active /\ PlanOK(p) /\ data' = data
  BY DEF Retry, ScoresInv
<1>2. Shaped'
  BY <1>1 DEF Retry, ScoresInv, Shaped, Active, PrivateId
<1>3. PlanOK(p)'
  <2>1. /\ stage' = stage /\ artifacts' = artifacts /\ workspace' = workspace /\ orphan' = orphan
        /\ pc'[p] = "idle"
    BY <1>1 DEF Retry, ScoresInv, Shaped
  <2>2. QED
    BY <1>1, <2>1 DEF PlanOK, PlaceOK, FrozenOK, ScoreOK, Of
<1>4. \A q \in Active \ {p} : Same(q)
  BY DEF Retry, Same, ScoresInv, Shaped
<1>5. RefusalOK(p)'
  <2>1. RefusalOK(p) /\ pc'[p] = "idle" /\ cause'[p] = "none" /\ stage' = stage
    BY <1>1 DEF Retry, ScoresInv, Shaped
  <2>2. artifacts' = artifacts /\ workspace' = workspace /\ private' = private /\ orphan' = orphan
    BY DEF Retry
  <2>3. Measurable(p)' = Measurable(p)
    BY <1>1, <2>2 DEF Measurable, Of
  <2>4. QED
    BY <1>1, <2>1, <2>2, OwnRefusals DEF RefusalOK, KeptOK, TouchedOK, PredictedOK, CauseOK
<1>6. QED
  BY <1>1, <1>2, <1>3, <1>4, <1>5, OthersStay DEF Retry, ScoresInv, PrivateOK, Active

\* A crash leaves a hidden run behind only where one was running.
LEMMA CrashKeeps ==
    ASSUME ScoresInv, Crash PROVE ScoresInv'
<1>1. data' = data /\ stage' = stage /\ artifacts' = artifacts /\ workspace' = workspace
      /\ private' = private
  BY DEF Crash
<1>2. Shaped'
  BY <1>1 DEF Crash, ScoresInv, Shaped, Active, PrivateId, NoDraft
<1>3. ASSUME NEW q \in Active PROVE PlanOK(q)'
  <2>1. /\ pc'[q] \in {"failed", "idle"}
        /\ orphan'[q] = orphan[q] \/ (orphan'[q] = "running" /\ pc[q] = "hidden")
    BY <1>3 DEF Crash
  <2>2. PlanOK(q)
    BY <1>3 DEF ScoresInv
  <2>3. QED
    BY <1>1, <2>1, <2>2 DEF PlanOK, PlaceOK, FrozenOK, ScoreOK, Of, Splitting, Frozen
<1>4. ASSUME NEW q \in Active PROVE RefusalOK(q)'
  <2>1. /\ pc'[q] = (IF pc[q] = "failed" THEN "failed" ELSE "idle") /\ cause' = cause
        /\ orphan'[q] = "none" => orphan[q] = "none"
    BY <1>4 DEF Crash
  <2>2. RefusalOK(q)
    BY <1>4 DEF ScoresInv
  <2>3. Measurable(q)' = Measurable(q)
    BY <1>1 DEF Measurable, Of
  <2>4. QED
    BY <1>1, <2>1, <2>2, <2>3, OwnRefusals
       DEF RefusalOK, KeptOK, TouchedOK, PredictedOK, CauseOK, Excused, Lacking
<1>5. QED
  BY <1>1, <1>2, <1>3, <1>4 DEF ScoresInv, PrivateOK, Active

LEMMA OrphanWritesKeeps ==
    ASSUME ScoresInv, NEW p, OrphanWrites(p) PROVE ScoresInv'
<1>1. /\ p \in Active /\ PlanOK(p) /\ data' = data /\ stage' = stage /\ pc' = pc
      /\ artifacts' = artifacts /\ private' = private /\ draft' = draft /\ orphan[p] # "none"
      /\ cause' = cause
  BY DEF OrphanWrites, ScoresInv
<1> DEFINE rows == TestRows(artifacts[p].manifest.part)
<1>a. /\ orphan' \in {[orphan EXCEPT ![p] = "writing"], [orphan EXCEPT ![p] = "gone"]}
      /\ \E files : /\ workspace' = [workspace EXCEPT ![p] = files]
                    /\ DOMAIN files = DOMAIN workspace[p] /\ files.changed \subseteq Protected
                    /\ files.changed \subseteq workspace[p].changed \cup data[p].touches
                    /\ files.predictions \in {{}, rows}
  <2>1. CASE /\ orphan' = [orphan EXCEPT ![p] = "writing"]
             /\ \E after \in Effects(p) :
                    workspace' = [workspace EXCEPT ![p] = [after EXCEPT !.predictions = {}]]
    <3>1. PICK after \in Effects(p) :
             workspace' = [workspace EXCEPT ![p] = [after EXCEPT !.predictions = {}]]
      BY <2>1
    <3>2. /\ DOMAIN after = DOMAIN workspace[p] /\ after.changed \subseteq Protected
          /\ after.changed \subseteq workspace[p].changed \cup data[p].touches
      BY <1>1, EffectsAreFiles DEF ScoresInv
    <3>3. "predictions" \in DOMAIN workspace[p]
      BY <1>1 DEF ScoresInv, Shaped
    <3> DEFINE files == [after EXCEPT !.predictions = {}]
    <3>4. /\ DOMAIN files = DOMAIN workspace[p] /\ files.changed = after.changed
          /\ files.predictions = {}
      BY <1>1, <3>2, <3>3 DEF ScoresInv, Shaped
    <3>5. workspace' = [workspace EXCEPT ![p] = files]
      BY <3>1
    <3> HIDE DEF files
    <3>6. QED
      BY <2>1, <3>2, <3>4, <3>5
  <2>2. CASE /\ orphan' = [orphan EXCEPT ![p] = "gone"]
             /\ \E files \in Written(p, workspace[p]) :
                    workspace' = [workspace EXCEPT ![p] = files]
    <3>1. PICK files \in Written(p, workspace[p]) : workspace' = [workspace EXCEPT ![p] = files]
      BY <2>2
    <3>2. /\ DOMAIN files = DOMAIN workspace[p] /\ files.changed = workspace[p].changed
          /\ files.predictions = rows
      BY <1>1, WrittenAreFiles DEF ScoresInv, Shaped
    <3>3. files.changed \subseteq Protected
      BY <1>1, <3>2 DEF ScoresInv, Shaped
    <3>4. QED
      BY <2>2, <3>1, <3>2, <3>3
  <2>3. QED
    BY <2>1, <2>2 DEF OrphanWrites
<1>b. PICK files : /\ workspace' = [workspace EXCEPT ![p] = files]
                   /\ DOMAIN files = DOMAIN workspace[p] /\ files.changed \subseteq Protected
                   /\ files.changed \subseteq workspace[p].changed \cup data[p].touches
                   /\ files.predictions \in {{}, rows}
  BY <1>a
<1>2. Shaped'
  BY <1>1, <1>a, <1>b DEF ScoresInv, Shaped, Active, PrivateId
<1>3. PlanOK(p)'
  <2>1. \/ workspace'[p].predictions = {}
        \/ workspace'[p].predictions = TestRows(artifacts[p].manifest.part)
    BY <1>1, <1>b DEF ScoresInv, Shaped
  <2>2. QED
    BY <1>1, <2>1 DEF PlanOK, PlaceOK, FrozenOK, ScoreOK, Of, Splitting, Frozen
<1>4. \A q \in Active \ {p} : Same(q)
  BY <1>1, <1>a, <1>b DEF Same, ScoresInv, Shaped
<1>5. RefusalOK(p)'
  <2>1. orphan'[p] # "none" /\ RefusalOK(p) /\ stage[p] \in Frozen
    BY <1>1, <1>a DEF ScoresInv, Shaped, PlanOK, FrozenOK
  <2>2. workspace'[p].changed \subseteq data[p].touches
    BY <1>1, <1>b, <2>1 DEF ScoresInv, Shaped, RefusalOK, TouchedOK
  <2>3. QED
    BY <1>1, <2>1, <2>2, OwnRefusals DEF RefusalOK, KeptOK, TouchedOK, PredictedOK, CauseOK
<1>6. QED
  BY <1>1, <1>2, <1>3, <1>4, <1>5, OthersStay DEF ScoresInv, PrivateOK, Active

-----------------------------------------------------------------------------

\* Every step keeps the invariant.
LEMMA ScoresInvStep ==
    ASSUME ScoresInv, [Next]_vars PROVE ScoresInv'
<1>1. CASE Next
  <2>1. ASSUME NEW p \in Plan, Step(p) PROVE ScoresInv'
    BY <2>1, AuditKeeps, DivideKeeps, ResetPrivateKeeps, WriteSplitsKeeps, HashLabelsKeeps,
       FreezeKeeps, GenerateKeeps, AttemptKeeps, ExecuteKeeps, RunKeeps, CheckFrozenKeeps,
       ScoreKeeps, BreaksKeeps DEF Step
  <2>2. QED
    BY <1>1, <2>1, RetryKeeps, OrphanWritesKeeps, CrashKeeps DEF Next
<1>2. CASE UNCHANGED vars
  <2>1. \A q : Same(q)
    BY <1>2 DEF vars, Same
  <2>2. QED
    BY <1>2, <2>1, SameStays, RefusalStays
       DEF vars, ScoresInv, Shaped, PrivateOK, Active, PrivateId
<1>3. QED
  BY <1>1, <1>2

LEMMA ScoresInvInit == Init => ScoresInv
<1> SUFFICES ASSUME Init PROVE ScoresInv
  OBVIOUS
<1>1. Shaped
  BY DataAssumption DEF Init, Shaped, Active, NoArtifacts, CleanWorkspace, NoDraft, EmptyDirectory
<1>2. PrivateOK
  BY DEF Init, PrivateOK, EmptyDirectory
<1>3. ASSUME NEW q \in Active PROVE PlanOK(q)
  BY <1>3
     DEF Init, PlanOK, PlaceOK, FrozenOK, ScoreOK, NoArtifacts, CleanWorkspace, Splitting, Frozen
<1>4. ASSUME NEW q \in Active PROVE RefusalOK(q)
  BY <1>4 DEF Init, RefusalOK, KeptOK, TouchedOK, PredictedOK, CauseOK, Splitting, Frozen
<1>5. QED
  BY <1>1, <1>2, <1>3, <1>4 DEF ScoresInv

(***************************************************************************)
(* Once a contract is frozen its split stays what it was, predictions come *)
(* only after it, hidden labels are those of a division, and a plan that   *)
(* is left alone keeps them (executeContractFreeze,                        *)
(* runBenchmarkPredictionHarness, benchmarkPrivateStateDirectory).         *)
(***************************************************************************)
THEOREM ScoresInvariant == Spec => []ScoresInv
<1>1. QED
  BY ScoresInvInit, ScoresInvStep, PTL DEF Spec

(***************************************************************************)
(* Whatever other plans, crashes and orphaned runs do, a score is that of  *)
(* the plan's own frozen test rows, each with its prediction and its label *)
(* (joinBenchmarkHiddenPairs).                                             *)
(***************************************************************************)
THEOREM ScoresAreFrozen == Spec => []ScoresAreOfTheFrozenTest
<1>1. ScoresInv => ScoresAreOfTheFrozenTest
  BY DEF ScoresInv, PlanOK, ScoreOK, ScoresAreOfTheFrozenTest
<1>2. QED
  BY <1>1, ScoresInvariant, PTL

(***************************************************************************)
(* Of any dataset, with any ratios and any hashes, a split by input alone  *)
(* passes the guard: three parts with rows, no input in two of them        *)
(* (benchmarkThreeWayCounts, rebalanceBenchmarkUnitSplits,                 *)
(* inspectBenchmarkLeakage).                                               *)
(***************************************************************************)
THEOREM InputSplitsAreNeverRefused == Spec => []InputSplitsPass
<1>1. ScoresInv => InputSplitsPass
  <2>1. ASSUME ScoresInv, NEW p \in Active, cause[p] = "guard"
        PROVE  Of(p).grouped \/ Of(p).timed
    <3>1. PICK x \in DivisionTable : x.dataset = data[p].dataset /\ ~x.accepted
      BY <2>1 DEF ScoresInv, RefusalOK, CauseOK
    <3>2. /\ IsDataset(Of(p)) /\ ~Unsplittable(Of(p)) /\ x.part \in Divisions(Of(p))
          /\ ~Accepted(Of(p), x.part)
      BY <3>1, TableOfDivisions DEF Of
    <3>3. QED
      BY <3>2, InputDivisionsPass
  <2>2. QED
    BY <2>1 DEF InputSplitsPass
<1>2. QED
  BY <1>1, ScoresInvariant, PTL

(***************************************************************************)
(* A stratified split has rows of each class with three inputs in each     *)
(* part, whatever the order of the hashes (assignBenchmarkSplitUnits).     *)
(***************************************************************************)
THEOREM ClassesAreInEveryPart == Spec => []ClassesInEveryPart
<1>1. ScoresInv => ClassesInEveryPart
  <2>1. ASSUME ScoresInv, NEW p \in Active, artifacts[p].manifest # None,
               Method(Of(p)) = "stratified_hash", NEW label
        PROVE  Spread(Of(p), artifacts[p].manifest.part, label)
    <3>1. IsDivision(data[p].dataset, artifacts[p].manifest.part)
      BY <2>1 DEF ScoresInv, PlanOK, FrozenOK
    <3>2. /\ IsDataset(Of(p)) /\ ~Unsplittable(Of(p))
          /\ artifacts[p].manifest.part \in Divisions(Of(p))
      BY <3>1, TableOfDivisions DEF Of, IsDivision
    <3>3. QED
      BY <2>1, <3>2, ClassesAreSpread
  <2>2. QED
    BY <2>1 DEF ClassesInEveryPart, Spread
<1>2. QED
  BY <1>1, ScoresInvariant, PTL

(***************************************************************************)
(* Whatever crashes and retries, a plan with the data to itself, no        *)
(* orphaned run and protected files no run changed is never refused its    *)
(* labels, its contract or its join; and it is refused its score only for  *)
(* a primary metric its public run left out, a task without an evaluator   *)
(* or a regression's values that are not numbers (executeContractFreeze,   *)
(* executeHiddenValidation).                                               *)
(***************************************************************************)
THEOREM RefusalsHaveACause == Spec => []RefusedForACause
<1>1. ScoresInv => RefusedForACause
  BY DEF ScoresInv, RefusalOK, CauseOK, Excused, Lacking, Alone, RefusedForACause
<1>2. QED
  BY <1>1, ScoresInvariant, PTL
=============================================================================
