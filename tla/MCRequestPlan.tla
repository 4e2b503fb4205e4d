--------------------------- MODULE MCRequestPlan ---------------------------
(* Values of the constants of RequestPlan for TLC: an int64 of 7 bits. *)
EXTENDS RequestPlan, TLC

\* One product per edge: the largest amount, one that wraps, one without lines,
\* one of a kind no pool has.
Catalogue ==
  [vm    |-> [cpu |-> 2, mem |-> 4],
   big   |-> [mem |-> 15],
   huge  |-> [cpu |-> 33],
   void  |-> Empty,
   stray |-> [cpu |-> 2, tape |-> 1]]

\* Cores come in pairs; memory has no grain.
Grains == [cpu |-> 2, mem |-> 0]

Alphabet == [cpu |-> 1, mem |-> 2, tape |-> 3]

Line == [kind : {"cpu", "mem", "tape"}, amount : {0, 2, 3, 15, 16}]
         \cup [kind : {None}, amount : {2}]

Lines == {<<>>} \cup {<<a>> : a \in Line} \cup {<<a, b>> : a, b \in Line}
         \cup {<<[kind |-> "cpu", amount |-> 2], [kind |-> "mem", amount |-> 2],
                 [kind |-> "tape", amount |-> 2]>>}

\* Sorted is a sort: up to three valid lines, in any order.
ASSUME SortedIsSorted ==
  \A len \in 0..3 : \A lines \in [1..len -> Line] :
    (\A m, n \in 1..len : lines[m].kind # None /\ (lines[m].kind = lines[n].kind => m = n))
      => Sorted(lines) = SortSeq(lines, lineLess)

Orders ==
  [product : DOMAIN Catalogue \cup {"gone"}, quantity : {-1, 0, 1, 2, 4, 5, 9},
   lines : {<<>>}]
  \cup [product : {None}, quantity : {0, 2}, lines : Lines]
  \cup [product : {"vm"}, quantity : {1}, lines : {<<[kind |-> "cpu", amount |-> 2]>>}]
=============================================================================
