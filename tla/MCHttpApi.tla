------------------------------ MODULE MCHttpApi ------------------------------
(* Values of the constants of HttpApi for TLC. *)
EXTENDS HttpApi, TLC

VmAndIp == {"vm", "ip"}

\* A body asks for one vm, or for two and an address.
Large == [large |-> [vm |-> 2, ip |-> 1]]
SmallAndLarge == [small |-> [vm |-> 1, ip |-> 0]] @@ Large

\* Four never fit in ThreeVms: such a request is always rejected.
LargeAndHuge == Large @@ [huge |-> [vm |-> 4, ip |-> 1]]

ThreeVms == [vm |-> 3, ip |-> 1]
FourVms == [vm |-> 4, ip |-> 2]

\* Quotas: out of the way, or a large and a small request's worth.
Ample == [c \in Customers |-> [vm |-> 9, ip |-> 9]]
Tight == [c \in Customers |-> [vm |-> 3, ip |-> 1]]

Apart == [c \in Customers |-> [key \in Keys |-> <<c, key>>]]

IdsAndWorkers == Permutations(ReqIds) \cup Permutations(Workers)
IdsWorkersAndKeys == IdsAndWorkers \cup Permutations(Keys)
=============================================================================
