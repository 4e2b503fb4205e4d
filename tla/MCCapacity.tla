----------------------------- MODULE MCCapacity -----------------------------
(* Values of the constants of CapacityService for TLC. *)
EXTENDS CapacityRefinement, FiniteSetsExt, TLC

VmAndIp == {"vm", "ip"}

\* A body asks for one vm, or for two and an address.
Small == [small |-> [vm |-> 1, ip |-> 0]]
Large == [large |-> [vm |-> 2, ip |-> 1]]
SmallAndLarge == Small @@ Large

TwoVms == [vm |-> 2, ip |-> 1]
ThreeVms == [vm |-> 3, ip |-> 1]
FourVms == [vm |-> 4, ip |-> 2]

\* Quotas out of the way.
Ample == [c \in Customers |-> [vm |-> 9, ip |-> 9]]

Apart == [c \in Customers |-> [key \in Keys |-> <<c, key>>]]

\* Total is the sum.
ASSUME TotalIsSum ==
  \A amount \in [1..3 -> 0..3], S \in SUBSET (1..3) :
    Total(amount, S) = MapThenSumSet(LAMBDA x : amount[x], S)

IdsAndWorkers == Permutations(ReqIds) \cup Permutations(Workers)
IdsWorkersAndKeys == IdsAndWorkers \cup Permutations(Keys)
=============================================================================
