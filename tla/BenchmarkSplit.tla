--------------------------- MODULE BenchmarkSplit ---------------------------
(***************************************************************************)
(* How the benchmark agent divides an uploaded dataset into a training, a  *)
(* validation and a hidden test part                                       *)
(* (agent/benchmark_contract_agent.go): pure operators.                    *)
(*                                                                         *)
(* A dataset is a record                                                   *)
(*   rows     a sequence of [input, target, group, time], cells already    *)
(*            normalized, None where a cell is empty                       *)
(*   task     the task type the audit settled on                           *)
(*   clear    the column mapping is unambiguous                            *)
(*   grouped, timed   a group or a time column is configured               *)
(*   ratios   the percentages of the parts                                 *)
(*   hash     the order of the units' seeded SHA-256 keys: a number for    *)
(*            each key, no two equal                                       *)
(* Targets and times are natural numbers.  The near-duplicate scan only    *)
(* adds warnings and is left out.                                          *)
(***************************************************************************)
EXTENDS Naturals, Sequences, FiniteSets, FiniteSetsExt, Functions

CONSTANT None

Parts == {"train", "validation", "test"}
Tasks == {"classification", "regression", "generation", "retrieval", "inference"}
MinRows == 6
MinUnits == 3

RequiresTarget(task) == task \in {"classification", "regression", "generation", "retrieval"}

Targets(d) == {d.rows[i].target : i \in DOMAIN d.rows} \ {None}

\* The blocking issues executeDatasetAudit reports.
AuditBlocks(d) ==
    \/ ~d.clear
    \/ d.task = "classification" /\ Cardinality(Targets(d)) < 2

Method(d) ==
    CASE d.timed -> "chronological"
      [] ~d.timed /\ d.grouped -> "group_hash"
      [] ~d.timed /\ ~d.grouped /\ d.task = "classification" -> "stratified_hash"
      [] ~d.timed /\ ~d.grouped /\ d.task = "regression" -> "quantile_stratified_hash"
      [] OTHER -> "deterministic_hash"

\* prepareBenchmarkSplitRows keeps the rows with an input and, if needed, a target ...
Eligible(d) ==
    {i \in DOMAIN d.rows : /\ d.rows[i].input # None
                           /\ RequiresTarget(d.task) => d.rows[i].target # None}

\* ... and refuses times it cannot read, conflicting targets and a single class.
PreparationFails(d) ==
    \/ d.timed /\ \E i \in Eligible(d) : d.rows[i].time = None
    \/ \E i, j \in Eligible(d) : /\ d.rows[i].input = d.rows[j].input
                                 /\ d.rows[i].target # d.rows[j].target
    \/ d.task = "classification" /\ Cardinality({d.rows[i].target : i \in Eligible(d)}) < 2

-----------------------------------------------------------------------------
(* Units: the rows that must not be separated.                             *)

UnitKey(d, i) ==
    IF \/ Method(d) = "group_hash"
       \/ Method(d) = "chronological" /\ d.grouped
    THEN IF d.rows[i].group = None THEN <<"row", i>> ELSE <<"group", d.rows[i].group>>
    ELSE <<"input", d.rows[i].input>>

Units(d) == {UnitKey(d, i) : i \in Eligible(d)}
RowsOf(d, unit) == {i \in Eligible(d) : UnitKey(d, i) = unit}

\* What the datasets are: finitely many rows, percentages, and hashes that differ.
IsDataset(d) ==
    /\ IsFiniteSet(DOMAIN d.rows) /\ \A rows \in SUBSET DOMAIN d.rows : rows # None
    /\ {d.rows[i].target : i \in DOMAIN d.rows} \subseteq Nat \cup {None}
    /\ {d.ratios.validation, d.ratios.test} \subseteq 0..100
    /\ \A u \in Units(d) : d.hash[u] \in Nat
    /\ \A u, v \in Units(d) : d.hash[u] = d.hash[v] => u = v

\* A unit's time is its earliest row's.
TimeOf(d, unit) == Min({d.rows[i].time : i \in RowsOf(d, unit)})

\* The most frequent label of a unit, the least of several.
MajorityLabel(d, unit) ==
    LET labels == {d.rows[i].target : i \in RowsOf(d, unit)}
        Count(l) == Cardinality({i \in RowsOf(d, unit) : d.rows[i].target = l})
    IN  Min({l \in labels : \A m \in labels : Count(l) >= Count(m)})

\* benchmarkUnitMeanTarget: is the mean target of u below that of v?
MeanBelow(d, u, v) ==
    LET Total(w) == MapThenSumSet(LAMBDA i : d.rows[i].target, RowsOf(d, w))
    IN  Total(u) * Cardinality(RowsOf(d, v)) < Total(v) * Cardinality(RowsOf(d, u))

(***************************************************************************)
(* The ranks of the units by mean target.  The units come from a Go map,   *)
(* in any order, and sort.Slice leaves equal ones in any order: every way  *)
(* to break the ties is possible.                                          *)
(***************************************************************************)
Rankings(d) ==
    LET units == Units(d)
        below == {uv \in units \X units : MeanBelow(d, uv[1], uv[2])}
        lower == [u \in units |-> Cardinality({v \in units : <<v, u>> \in below})]
        tied == [u \in units |-> {v \in units : lower[v] = lower[u]}]
        contested == {u \in units : tied[u] # {u}}
        widest == Max({Cardinality(tied[u]) : u \in units})
        places == {t \in [contested -> 0..widest - 1] :
                     \A u \in contested : /\ t[u] < Cardinality(tied[u])
                                          /\ \A v \in tied[u] \ {u} : t[u] # t[v]}
    IN  {[u \in units |-> lower[u] + (IF u \in contested THEN t[u] ELSE 0)] : t \in places}

\* Mutant: classification is not stratified.
StratificationsOfRegression(d) ==
    CASE d.task = "regression" /\ Method(d) = "quantile_stratified_hash" ->
            {[u \in Units(d) |-> (rank[u] * 5) \div Cardinality(Units(d))] : rank \in Rankings(d)}
      [] OTHER -> {[u \in Units(d) |-> "all"]}

\* The strata the units may be put in.
Stratifications(d) ==
    CASE d.task = "classification" -> {[u \in Units(d) |-> MajorityLabel(d, u)]}
      [] d.task = "regression" /\ Method(d) = "quantile_stratified_hash" ->
            {[u \in Units(d) |-> (rank[u] * 5) \div Cardinality(Units(d))] : rank \in Rankings(d)}
      [] OTHER -> {[u \in Units(d) |-> "all"]}

-----------------------------------------------------------------------------
(* Assignment.                                                             *)

\* math.Round(total * ratio)
RoundedShare(total, percent) == (2 * total * percent + 100) \div 200

AtLeastOne(n) == IF n < 1 THEN 1 ELSE n

\* benchmarkThreeWayCounts: how many of total units train and validate; the rest test.
\* cut is the loop that leaves at least one unit for training.
ThreeWayCounts(total, ratios) ==
    LET cut[shares \in (0..total) \X (0..total)] ==
            LET v == shares[1]
                t == shares[2]
            IN  IF v + t < total THEN [train |-> total - v - t, validation |-> v]
                ELSE IF v >= t /\ v > 1 THEN cut[<<v - 1, t>>]
                ELSE IF t > 1 THEN cut[<<v, t - 1>>]
                ELSE [train |-> 0, validation |-> v]
    IN  IF total < 3 THEN [train |-> total, validation |-> 0]
        ELSE cut[<<AtLeastOne(RoundedShare(total, ratios.validation)),
                   AtLeastOne(RoundedShare(total, ratios.test))>>]

\* assignBenchmarkUnitSlice: the part of the unit at a place of a sorted slice.
PartAt(place, total, ratios) ==
    LET counts == ThreeWayCounts(total, ratios)
    IN  CASE place < counts.train -> "train"
          [] place >= counts.train /\ place < counts.train + counts.validation -> "validation"
          [] OTHER -> "test"

InPart(part, name) == {u \in DOMAIN part : part[u] = name}

\* rebalanceBenchmarkUnitSplits: an empty part takes the last unit that its own can spare.
Fill(d, part, missing) ==
    LET spare == {u \in DOMAIN part : Cardinality(InPart(part, part[u])) > 1}
        last == CHOOSE u \in spare : \A v \in spare : d.hash[v] <= d.hash[u]
    IN  IF InPart(part, missing) # {} \/ spare = {} THEN part ELSE [part EXCEPT ![last] = missing]

\* Mutant: only the validation part is filled.
RebalanceValidation(d, part) == Fill(d, part, "validation")

Rebalance(d, part) == Fill(d, Fill(d, part, "validation"), "test")

\* assignBenchmarkSplitUnits
Assign(d, strata) ==
    LET units == Units(d)
        Earlier(u, v) == \/ TimeOf(d, u) < TimeOf(d, v)
                         \/ TimeOf(d, u) = TimeOf(d, v) /\ d.hash[u] < d.hash[v]
        Peers(u) == {v \in units : strata[v] = strata[u]}
        assigned == [u \in units |-> PartAt(Cardinality({v \in Peers(u) : d.hash[v] < d.hash[u]}),
                                            Cardinality(Peers(u)), d.ratios)]
    IN  IF Method(d) = "chronological"
        THEN [u \in units |-> PartAt(Cardinality({v \in units : Earlier(v, u)}),
                                     Cardinality(units), d.ratios)]
        ELSE Rebalance(d, assigned)

-----------------------------------------------------------------------------
(* The leakage guard and the outcome.                                      *)

\* inspectBenchmarkLeakage, of the parts given to the eligible rows.
Leaks(d, part) ==
    \/ \E i, j \in DOMAIN part : d.rows[i].input = d.rows[j].input /\ part[i] # part[j]
    \/ d.grouped /\ \E i, j \in DOMAIN part : /\ d.rows[i].group = d.rows[j].group
                                              /\ d.rows[i].group # None
                                              /\ part[i] # part[j]
    \/ /\ Method(d) = "chronological"
       /\ \E i, j \in DOMAIN part :
            /\ <<part[i], part[j]>> \in {<<"train", "validation">>, <<"validation", "test">>}
            /\ d.rows[i].time > d.rows[j].time

\* What executeSplitMaterialization refuses before it assigns anything.
Unsplittable(d) ==
    \/ AuditBlocks(d)
    \/ PreparationFails(d)
    \/ Cardinality(Eligible(d)) < MinRows
    \/ Cardinality(Units(d)) < MinUnits

\* The parts of the eligible rows, for each stratification the sort may produce.
Divisions(d) ==
    {LET assigned == Assign(d, strata)
     IN  [i \in Eligible(d) |-> assigned[UnitKey(d, i)]] : strata \in Stratifications(d)}

Accepted(d, part) == Range(part) = Parts /\ ~Leaks(d, part)
=============================================================================
