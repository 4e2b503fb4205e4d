--------------------------- MODULE MCMemoryStore ---------------------------
(* Values of the constants of MemoryStore for TLC. *)
EXTENDS MemoryStore, TLC

VmAndIp == {"vm", "ip"}
VmFirst == [vm |-> 1, ip |-> 2]

\* Bodies: a vm, or two and an address.
VmBodies == [one |-> [vm |-> 1, ip |-> 0], two |-> [vm |-> 2, ip |-> 1]]

FourVms == [vm |-> 4, ip |-> 2]

Tight == [c \in Customers |-> [vm |-> 3, ip |-> 1]]

Apart == [c \in Customers |-> [key \in Keys |-> <<c, key>>]]

IdsAndKeys == Permutations(ReqIds) \cup Permutations(Keys)
=============================================================================
