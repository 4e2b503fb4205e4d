------------------------------ MODULE HttpApi ------------------------------
(***************************************************************************)
(* The HTTP API (internal/httpapi) over the capacity service: which reply  *)
(* each call gets, when, and what reservation_confirmations_total counts.  *)
(* Every step of CapacityService is a step here, with the reply it leads   *)
(* to; a call that changed a request replies with the row it fetches after *)
(* its commit, and GET reads the row and the events one after the other.   *)
(* Error replies show no request and are not recorded; routes that only    *)
(* list (products, capacity, requests) leave no trace here.                *)
(***************************************************************************)
EXTENDS CapacityService

VARIABLES
  serving,  \* serving[w]: what the handler keeps until it replies, or None
  told,     \* the last reply a client received that shows a request, or None
  confirms  \* Metrics.ReservationConfirms, over all products

hvars == <<vars, serving, told, confirms>>

HttpInit ==
  /\ Init
  /\ serving = [w \in Workers |-> None]
  /\ told = None
  /\ confirms = 0

\* A handler that has called the service and has yet to fetch or reply.
Pending(ep, id, seen) == [ep |-> ep, id |-> id, seen |-> seen]

Keep(w, ep, id, seen) == /\ serving' = [serving EXCEPT ![w] = Pending(ep, id, seen)]
                         /\ UNCHANGED <<told, confirms>>

\* status: the one in the body.  explained: whether the events in the body
\* include the one of that status; only GET sends events.
Reply(ep, id, code, status, explained) ==
  told' = [ep |-> ep, id |-> id, code |-> code, status |-> status,
           explained |-> explained]

Inc(ep) == confirms' = IF ep = "confirm" THEN confirms + 1 ELSE confirms

\* Mutant: the reply of a request that is there is always 201.
CreatedCodeAlways(status) == 201

\* createRequest: 409 for a rejected request and 201 for any other.
CreatedCode(status) == IF status = "REJECTED" THEN 409 ELSE 201

Idle(w) == serving[w] = None

-----------------------------------------------------------------------------
(* POST /v1/requests *)

\* A replay answers with the row as it is now.
CreateReplay(w) ==
  /\ Idle(w)
  /\ \E c \in Customers, key \in Keys, b \in Bodies :
       \/ /\ ReplayFromRedis(w, c, key, b)
          /\ LET id == IdemGet(c, key)
             IN Reply("create", id, CreatedCode(request[id].status), request[id].status, TRUE)
       \/ /\ ReplayFromDB(w, c, key, b)
          /\ \E id \in FindByIdempotency(c, key) :
               Reply("create", id, CreatedCode(request[id].status), request[id].status, TRUE)
  /\ UNCHANGED <<serving, confirms>>

CreateReplayLate(w) ==
  /\ replayAfterDuplicate(w)
  /\ \E id \in Duplicates(loc[w].in) :
       Reply("create", id, CreatedCode(request[id].status), request[id].status, TRUE)
  /\ UNCHANGED <<serving, confirms>>

\* The row that the reply will show is the one made or read here.
CreateOutcome(w) ==
  \E id \in ReqIds :
    \/ reserveWithinTx(w, id) /\ Keep(w, "create", id, "RESERVED")
    \/ persistRejected(w, id) /\ Keep(w, "create", id, "REJECTED")
    \/ /\ RejectedReplay(w) /\ id \in Duplicates(loc[w].in)
       /\ Keep(w, "create", id, request[id].status)

CreateReply(w) ==
  /\ recordOutcome(w)
  /\ Reply("create", serving[w].id, CreatedCode(serving[w].seen), serving[w].seen, TRUE)
  /\ serving' = [serving EXCEPT ![w] = None]
  /\ UNCHANGED confirms

CreateOther(w) ==
  /\ \/ \E c \in Customers, key \in Keys, b \in Bodies : Idle(w) /\ CreateAdmit(w, c, key, b)
     \/ enforceActiveHoldsLimit(w)
     \/ buildReservationPlan(w)
     \/ ReserveDuplicate(w) \/ ReserveReject(w)
     \/ PersistRejectedDetail(w) \/ PersistRejectedDuplicate(w)
  /\ UNCHANGED <<serving, told, confirms>>

-----------------------------------------------------------------------------
(* POST /v1/requests/{id}/confirm, cancel, extend *)

\* The calls end where the service's transaction or statement does ...
LifecycleCommit(w) ==
  \/ ConfirmCommit(w) /\ Keep(w, "confirm", loc[w].id, None)
  \/ releaseReserved(w) /\ Keep(w, "cancel", loc[w].id, None)
  \/ ExtendEvent(w) /\ Keep(w, "extend", loc[w].id, None)

LifecycleOther(w) ==
  /\ \/ Idle(w) /\ \E id \in ReqIds : ConfirmGet(w, id) \/ CancelGet(w, id) \/ ExtendGet(w, id)
     \/ ListHolds(w)
     \/ ExtendUpdate(w)
  /\ UNCHANGED <<serving, told, confirms>>

Lifecycles == {"confirm", "cancel", "extend"}

\* Mutant: the reply shows the status the call was made for, not the row's.
FinalGetAssumed(w) ==
  /\ serving[w] # None /\ serving[w].ep \in Lifecycles
  /\ Inc(serving[w].ep)
  /\ Reply(serving[w].ep, serving[w].id, 200,
           [confirm |-> "COMPLETED", cancel |-> "CANCELLED", extend |-> "RESERVED"][serving[w].ep],
           TRUE)
  /\ serving' = [serving EXCEPT ![w] = None]
  /\ UNCHANGED vars

\* ... and go on to count the call, and to fetch the row they reply with.
FinalGet(w) ==
  /\ serving[w] # None /\ serving[w].ep \in Lifecycles
  /\ Inc(serving[w].ep)
  /\ \/ Reply(serving[w].ep, serving[w].id, 200, request[serving[w].id].status, TRUE)
     \/ UNCHANGED told   \* the fetch fails
  /\ serving' = [serving EXCEPT ![w] = None]
  /\ UNCHANGED vars

\* The calls whose request is already where they would take it.
Repeated == {<<"confirm", "COMPLETED">>, <<"cancel", "CANCELLED">>}

\* Mutant: a repeated confirm is counted again.
AlreadyThereCounted(w, ep, id) ==
  /\ Serves(w, ep) /\ Idle(w)
  /\ <<ep, request[id].status>> \in Repeated
  /\ confirms < 2 /\ Inc(ep)
  /\ Reply(ep, id, 200, request[id].status, TRUE)
  /\ UNCHANGED <<vars, serving>>

\* Mutant: a call on any request that has ended returns that request.
AlreadyThereAnyStatus(w, ep, id) ==
  /\ Serves(w, ep) /\ Idle(w)
  /\ request[id].status \in DOMAIN EventOf
  /\ Reply(ep, id, 200, request[id].status, TRUE)
  /\ UNCHANGED <<vars, serving, confirms>>

AlreadyThere(w, ep, id) ==
  /\ Serves(w, ep) /\ Idle(w)
  /\ <<ep, request[id].status>> \in Repeated
  /\ Reply(ep, id, 200, request[id].status, TRUE)
  /\ UNCHANGED <<vars, serving, confirms>>

\* An error reply, or none: the client has gone or the server died.
Fail(w) ==
  /\ ReturnError(w)
  /\ serving' = [serving EXCEPT ![w] = None]
  /\ UNCHANGED <<told, confirms>>

\* A server that dies between commit and reply.
DieAfterCommit(w) ==
  /\ At(w, "idle") /\ ~Idle(w)
  /\ serving' = [serving EXCEPT ![w] = None]
  /\ UNCHANGED <<vars, told, confirms>>

-----------------------------------------------------------------------------
(* GET /v1/requests/{id}: the row, its lines and its events, read one by one. *)

\* The event the service writes for a request that comes to have a status.
EventFor == [RESERVED |-> "reserved", REJECTED |-> "rejected", COMPLETED |-> "confirmed",
             CANCELLED |-> "cancelled", EXPIRED |-> "expired"]

Explains(id, s) == event[id][EventFor[s]] > 0

GetRow(w, id) ==
  /\ Serves(w, "get") /\ Idle(w) /\ Exists(id)
  /\ Keep(w, "get", id, request[id].status)
  /\ UNCHANGED vars

\* Mutant: the row is fetched again after the events.
GetEventsThenRow(w) ==
  /\ serving[w] # None /\ serving[w].ep = "get"
  /\ LET s == request[serving[w].id].status
     IN Reply("get", serving[w].id, 200, s, s = serving[w].seen /\ Explains(serving[w].id, s))
  /\ serving' = [serving EXCEPT ![w] = None]
  /\ UNCHANGED <<vars, confirms>>

GetEvents(w) ==
  /\ serving[w] # None /\ serving[w].ep = "get"
  /\ Reply("get", serving[w].id, 200, serving[w].seen, Explains(serving[w].id, serving[w].seen))
  /\ serving' = [serving EXCEPT ![w] = None]
  /\ UNCHANGED <<vars, confirms>>

-----------------------------------------------------------------------------
Serve(w) ==
  \/ CreateReplay(w) \/ CreateReplayLate(w)
  \/ CreateOutcome(w) \/ CreateReply(w) \/ CreateOther(w)
  \/ LifecycleCommit(w) \/ LifecycleOther(w) \/ FinalGet(w)
  \/ \E ep \in {"confirm", "cancel"}, id \in ReqIds : AlreadyThere(w, ep, id)
  \/ Fail(w) \/ DieAfterCommit(w)
  \/ \E id \in ReqIds : GetRow(w, id)
  \/ GetEvents(w)

Sweep(s) == ExpireDue(s) /\ UNCHANGED <<serving, told, confirms>>

Environment ==
  /\ Tick \/ \E r \in RedisKeys : RedisForget(r)
  /\ UNCHANGED <<serving, told, confirms>>

HttpNext ==
  \/ \E w \in Workers : Serve(w)
  \/ \E s \in Sweepers : Sweep(s)
  \/ Environment

HttpSpec == HttpInit /\ [][HttpNext]_hvars

-----------------------------------------------------------------------------
Terminal == RequestStatus \ {"RESERVED"}

\* The last reply of this endpoint with this status code, if it is one.
Told(ep, code) == told # None /\ told.ep = ep /\ told.code = code

\* A reply that shows how a request ended shows what the row says then and ever
\* after, so no two replies disagree, whatever was still under way when the
\* reply was put together.
RepliesAgree ==
  told # None /\ told.status \in Terminal => told.status = request[told.id].status

\* A confirm answered 200 is a request confirmed, whoever confirmed it.
ConfirmedIsCompleted == Told("confirm", 200) => told.status = "COMPLETED"

\* A create answered 201 has reserved, at its own or at an earlier call; one
\* answered 409 with a request never did, although the reply may be put together
\* from what a concurrent call of the same key stored.
CreatedWasReserved ==
  told # None /\ told.ep = "create" =>
    (told.code = 201) = (event[told.id]["reserved"] > 0)

\* GET never shows a request that was reserved without the event of the status
\* it shows, although it reads row and events in separate statements and others
\* move the request in between.  A rejected request is another matter: its row
\* is inserted before its event, in no transaction, so GET may show the one
\* without the other.
OutcomesExplained ==
  Told("get", 200) /\ told.status # "REJECTED" => told.explained

\* reservation_confirmations_total never runs ahead of the confirmed requests.
ConfirmationsCounted ==
  confirms <= Cardinality({id \in ReqIds : request[id].status = "COMPLETED"})
=============================================================================
