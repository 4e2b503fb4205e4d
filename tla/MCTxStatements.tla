--------------------------- MODULE MCTxStatements ---------------------------
(* Values of the constants of TxStatements for TLC. *)
EXTENDS TxStatements, TLC

VmAndIp == {"vm", "ip"}
VmFirst == <<"vm", "ip">>
SmallAndLarge == [small |-> [vm |-> 1, ip |-> 0], large |-> [vm |-> 2, ip |-> 1]]
ThreeVms == [vm |-> 3, ip |-> 2]
Ample == [c \in Customers |-> [vm |-> 9, ip |-> 9]]

Everyone == Permutations(ReqIds) \cup Permutations(Keys) \cup Permutations(Procs)
=============================================================================
