---------------------------- MODULE MCBenchmark -----------------------------
EXTENDS Benchmark

CONSTANTS p1, p2

\* Keys hash in the order of their numbers; a unit of a row without a group comes last.
Hash == [key \in {"input", "group", "row"} \X (1..12) |->
            key[2] + (IF key[1] = "row" THEN 20 ELSE 0)]

Even == [train |-> 70, validation |-> 15, test |-> 15]
Skewed == [train |-> 4, validation |-> 48, test |-> 48]

Row(input, target, group, time) ==
    [input |-> input, target |-> target, group |-> group, time |-> time]
Data(task, ratios, rows) ==
    [rows |-> rows, task |-> task, clear |-> TRUE, grouped |-> FALSE, timed |-> FALSE,
     ratios |-> ratios, hash |-> Hash]

\* Six rows with n inputs, the last one repeated, in any two classes.
Classified == UNION {{<<"classified", ratios, class>> : class \in [1..n -> {1, 2}]} :
                       n \in 2..6, ratios \in {"even", "skewed"}}
\* Six rows in one group or none, the last two with one input.
Grouped == {<<"grouped", groups>> : groups \in SUBSET (1..6)}
\* Six rows at different times, the last with the input of the n-th.
Timed == {<<"timed", n>> : n \in 1..6}
\* Tasks that are split by input alone.
Plain == {<<"plain", task>> : task \in {"generation", "retrieval", "inference"}}
\* Eleven rows for five quantiles; the third and the fourth have the same target.
Quantiles == <<"quantiles">>

Repeated(i, n) == IF i < n THEN i ELSE n

Build(name) ==
    CASE name[1] = "classified" ->
            LET n == Len(name[3])
            IN  Data("classification", IF name[2] = "even" THEN Even ELSE Skewed,
                     [i \in 1..6 |-> Row(Repeated(i, n), name[3][Repeated(i, n)], None, None)])
      [] name[1] = "grouped" ->
            [Data("generation", Even,
                  [i \in 1..6 |-> Row(Repeated(i, 5), 1, IF i \in name[2] THEN 1 ELSE None, None)])
                EXCEPT !.grouped = TRUE]
      [] name[1] = "timed" ->
            [Data("generation", Even, [i \in 1..6 |-> Row(IF i = 6 THEN name[2] ELSE i, 1, None, i)])
                EXCEPT !.timed = TRUE]
      [] name[1] = "plain" -> Data(name[2], Even, [i \in 1..6 |-> Row(i, i, None, None)])
      [] name[1] = "quantiles" ->
            Data("regression", Even,
                 [i \in 1..11 |-> Row((i * 7) % 12, IF i = 4 THEN 3 ELSE i, None, None)])

Small == Classified \cup Grouped \cup Timed \cup Plain
MCDataset == [name \in Small \cup {Quantiles} |-> Build(name)]
\* Any small dataset is divided; adapters are found for a few, and may touch every file; two
\* plans, which touch nothing, share the quantiles.
Adaptable == {<<"plain", task>> : task \in {"generation", "retrieval", "inference"}}
Everything == Protected \cup {"repository", "adapter"}
Work(name, adaptable, touches) ==
    [dataset |-> name, adaptable |-> adaptable, touches |-> touches]
MCWorkloads ==
    {[p \in {p1} |-> Work(name, name \in Adaptable, Everything)] : name \in Small}
      \cup {[p \in {p1, p2} |-> Work(Quantiles, p = p1, {})]}
=============================================================================
