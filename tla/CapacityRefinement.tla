------------------------- MODULE CapacityRefinement -------------------------
(***************************************************************************)
(* CapacityService implements RequestLife in every interleaving and Ledger *)
(* while no two calls on one request overlap.  A row is mapped to its      *)
(* status and what it was made for; expiry and extensions are forgotten.   *)
(***************************************************************************)
EXTENDS CapacityService, CapacityAccounting

RowOf(r) == [status |-> r.status, cust |-> r.cust, key |-> r.key, body |-> r.body]
Rows == [id \in ReqIds |-> RowOf(request[id])]
LinesOf == [b \in Bodies |-> PlanKinds(b)]

Life == INSTANCE RequestLife WITH row <- Rows, Lines <- LinesOf

Books == INSTANCE Ledger WITH row <- Rows, Lines <- LinesOf

\* Seen through its committed rows the service only ever reserves, rejects,
\* confirms, cancels or expires one request at a time and completely, although
\* each of these is several statements decided by reads that may be stale.
ImplementsRequestLife == Life!Spec

\* While no two calls on one request overlap the counters are booked exactly:
\* every guarded UPDATE finds its row and no clamp is ever needed.
ImplementsLedger == Books!LedgerSpec
=============================================================================
