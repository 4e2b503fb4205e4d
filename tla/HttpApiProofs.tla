---------------------------- MODULE HttpApiProofs ----------------------------
(***************************************************************************)
(* What the HTTP replies show, for any constants.  Every step of HttpApi   *)
(* is a step of CapacityService or leaves it alone, so the service's       *)
(* theorems hold here too; the replies are then explained by the rows.     *)
(***************************************************************************)
EXTENDS HttpApi, CapacityServiceProofs

-----------------------------------------------------------------------------
(* The service under the handlers. *)

\* A handler's step is a step of the service's worker, or none.
LEMMA ServeSteps ==
  ASSUME NEW w \in Workers, Serve(w)
  PROVE  Create(w) \/ Lifecycle(w) \/ ReturnError(w) \/ UNCHANGED vars
<1>1. CreateReplay(w) \/ CreateReplayLate(w) \/ CreateOutcome(w) \/ CreateReply(w)
        \/ CreateOther(w) => Create(w)
  BY DEF CreateReplay, CreateReplayLate, CreateOutcome, CreateReply, CreateOther, Create
<1>2. LifecycleCommit(w) \/ LifecycleOther(w) => Lifecycle(w)
  BY DEF LifecycleCommit, LifecycleOther, Lifecycle
<1>3. FinalGet(w) \/ DieAfterCommit(w) \/ GetEvents(w) => UNCHANGED vars
  BY DEF FinalGet, DieAfterCommit, GetEvents
<1>4. ASSUME NEW id \in ReqIds, NEW ep \in {"confirm", "cancel"},
             AlreadyThere(w, ep, id) \/ GetRow(w, id)
      PROVE  UNCHANGED vars
  BY <1>4 DEF AlreadyThere, GetRow
<1>5. Fail(w) => ReturnError(w)
  BY DEF Fail
<1> QED BY <1>1, <1>2, <1>3, <1>4, <1>5 DEF Serve

\* Every step here is a step of the service or leaves it alone.
LEMMA ServiceSteps == [HttpNext]_hvars => [Next]_vars
<1>1. ASSUME NEW w \in Workers, Serve(w)
      PROVE  [Next]_vars
  BY <1>1, ServeSteps DEF Next
<1>2. ASSUME NEW s \in Sweepers, Sweep(s)
      PROVE  [Next]_vars
  BY <1>2 DEF Sweep, Next
<1>3. Environment => [Next]_vars
  BY DEF Environment, Next
<1>4. UNCHANGED hvars => UNCHANGED vars
  BY DEF hvars
<1> QED BY <1>1, <1>2, <1>3, <1>4 DEF HttpNext

\* The API runs the service.
THEOREM ServiceRuns == HttpSpec => Spec
<1>1. HttpInit => Init
  BY DEF HttpInit
<1> QED BY <1>1, ServiceSteps, PTL DEF HttpSpec, Spec

-----------------------------------------------------------------------------
(* What a handler keeps and what a client was told, against the row. *)

\* req is the table of requests, now or after a step.
PendingOK(s, req) ==
  /\ s.id \in ReqIds /\ req[s.id].status # "NONE"
  /\ s.ep = "confirm" => req[s.id].status = "COMPLETED"
  /\ s.ep = "get" => s.seen \in RequestStatus
  /\ s.ep \in {"create", "get"} =>
       /\ s.seen \in Terminal => s.seen = req[s.id].status
       /\ s.seen = "REJECTED" <=> req[s.id].status = "REJECTED"

ReplyOK(t, req) ==
  /\ t.id \in ReqIds /\ req[t.id].status # "NONE"
  /\ t.status \in Terminal => t.status = req[t.id].status
  /\ t.ep = "confirm" => t.status = "COMPLETED"
  /\ t.ep = "create" => (t.code = 201 <=> req[t.id].status # "REJECTED")
  /\ t.ep = "get" /\ t.status # "REJECTED" => t.explained

\* What a handler keeps is still true of the row.
ServingOK == \A w \in Workers : serving[w] # None => PendingOK(serving[w], request)

\* A create that is about to reply keeps the request its call is on.
CreatingOK ==
  \A w \in Workers : pc[w] \in CreatedPC =>
    /\ serving[w].ep = "create" /\ serving[w].id = loc[w].id
    /\ PendingOK(serving[w], request)

\* What the last reply showed is still true of the row.
ToldOK == told # None => ReplyOK(told, request)

ServingFun == serving = [w \in Workers |-> serving[w]]

Handled == ServingFun /\ ServingOK /\ CreatingOK /\ ToldOK

\* How a request ended, and that it was rejected, is settled once and for all.
LEMMA Settled ==
  ASSUME TypeOK, [Next]_vars, NEW id \in ReqIds, request[id].status # "NONE"
  PROVE  /\ request'[id].status # "NONE"
         /\ request[id].status \in Terminal => request'[id].status = request[id].status
         /\ request'[id].status = "REJECTED" <=> request[id].status = "REJECTED"
<1>1. /\ request[id].status \in Terminal => request'[id] = request[id]
      /\ request'[id].status # request[id].status =>
           <<request[id].status, request'[id].status>> \in Transitions
  BY FinalStep DEF Final, Terminal
<1> QED BY <1>1 DEF Transitions, Terminal, RequestStatus

\* A step of the service never falsifies what a handler keeps ...
LEMMA PendingStays ==
  ASSUME TypeOK, [Next]_vars, NEW s, PendingOK(s, request)
  PROVE  PendingOK(s, request')
<1>1. s.id \in ReqIds /\ request[s.id].status # "NONE"
  BY DEF PendingOK
<1>2. /\ request'[s.id].status # "NONE"
      /\ request[s.id].status \in Terminal => request'[s.id].status = request[s.id].status
      /\ request'[s.id].status = "REJECTED" <=> request[s.id].status = "REJECTED"
  BY <1>1, Settled
<1> QED BY <1>1, <1>2 DEF PendingOK, Terminal, RequestStatus

\* ... or what a client was told.
LEMMA ReplyStays ==
  ASSUME TypeOK, [Next]_vars, NEW t, ReplyOK(t, request)
  PROVE  ReplyOK(t, request')
<1>1. t.id \in ReqIds /\ request[t.id].status # "NONE"
  BY DEF ReplyOK
<1>2. /\ request'[t.id].status # "NONE"
      /\ request[t.id].status \in Terminal => request'[t.id].status = request[t.id].status
      /\ request'[t.id].status = "REJECTED" <=> request[t.id].status = "REJECTED"
  BY <1>1, Settled
<1> QED BY <1>1, <1>2 DEF ReplyOK, Terminal, RequestStatus

\* A reply or a pending handler built from a row as it is agrees with it.
LEMMA FromRow ==
  ASSUME TypeOK, NEW id \in ReqIds, Exists(id)
  PROVE  /\ PendingOK(Pending("create", id, request[id].status), request)
         /\ PendingOK(Pending("get", id, request[id].status), request)
<1>1. request[id].status \in RequestStatus
  BY RowComplete DEF TypeOK, Row
<1> QED BY <1>1 DEF PendingOK, Pending, Exists

\* The replies of a create show the row they were made from.
LEMMA CreateReplyOK ==
  ASSUME TypeOK, NEW id \in ReqIds, Exists(id), NEW seen,
         seen \in Terminal => seen = request[id].status,
         seen = "REJECTED" <=> request[id].status = "REJECTED",
         Reply("create", id, CreatedCode(seen), seen, TRUE)
  PROVE  ReplyOK(told', request)
  BY DEF Reply, ReplyOK, CreatedCode, Exists

\* A handler's step leaves every other worker and its handler alone.
LEMMA ServesAlone ==
  ASSUME TypeOK, ServingFun, NEW w \in Workers, Serve(w), NEW v \in Workers, v # w
  PROVE  pc'[v] = pc[v] /\ loc'[v] = loc[v] /\ serving'[v] = serving[v]
<1>1. w \in Procs /\ v \in Procs
  BY DEF Procs
<1>2. pc'[v] = pc[v] /\ loc'[v] = loc[v]
  BY <1>1, ServeSteps, WorkerMovesAlone DEF vars, proc
<1>3. serving'[v] = serving[v]
  <2>1. CASE CreateOutcome(w) \/ LifecycleCommit(w)
    BY <2>1 DEF CreateOutcome, LifecycleCommit, Keep, ServingFun
  <2>2. CASE CreateReply(w) \/ FinalGet(w) \/ Fail(w) \/ DieAfterCommit(w) \/ GetEvents(w)
    BY <2>2 DEF CreateReply, FinalGet, Fail, DieAfterCommit, GetEvents, ServingFun
  <2>3. CASE CreateReplay(w) \/ CreateReplayLate(w) \/ CreateOther(w) \/ LifecycleOther(w)
    BY <2>3 DEF CreateReplay, CreateReplayLate, CreateOther, LifecycleOther
  <2>4. ASSUME NEW id \in ReqIds, NEW ep \in {"confirm", "cancel"},
               AlreadyThere(w, ep, id) \/ GetRow(w, id)
        PROVE  serving'[v] = serving[v]
    BY <2>4 DEF AlreadyThere, GetRow, Keep, ServingFun
  <2> QED BY <2>1, <2>2, <2>3, <2>4 DEF Serve
<1> QED BY <1>2, <1>3

\* The outcome of a create is kept with the request the call goes on with.
LEMMA OutcomeKept ==
  ASSUME TypeOK, UniqueKeys, ServingFun, NEW w \in Workers, CreateOutcome(w)
  PROVE  /\ serving'[w].ep = "create" /\ serving'[w].id = loc'[w].id
         /\ PendingOK(serving'[w], request')
<1> DEFINE Goal == /\ serving'[w].ep = "create" /\ serving'[w].id = loc'[w].id
                   /\ PendingOK(serving'[w], request')
<1> SUFFICES Goal
  OBVIOUS
<1>0. w \in Procs
  BY DEF Procs
<1>1. ASSUME NEW id \in ReqIds, reserveWithinTx(w, id), Keep(w, "create", id, "RESERVED")
      PROVE  Goal
  <2>1. serving'[w] = Pending("create", id, "RESERVED")
    BY <1>1 DEF Keep, ServingFun
  <2>2. loc'[w].id = id
    BY <1>0, <1>1, SetId DEF reserveWithinTx, GotoWith, TypeOK
  <2>3. request'[id].status = "RESERVED"
    BY <1>1, NewRow
  <2> QED BY <2>1, <2>2, <2>3 DEF Pending, PendingOK, Terminal, RequestStatus
<1>2. ASSUME NEW id \in ReqIds, persistRejected(w, id), Keep(w, "create", id, "REJECTED")
      PROVE  Goal
  <2>1. serving'[w] = Pending("create", id, "REJECTED")
    BY <1>2 DEF Keep, ServingFun
  <2>2. loc'[w].id = id
    BY <1>0, <1>2, SetId DEF persistRejected, GotoWith, TypeOK
  <2>3. request'[id].status = "REJECTED"
    BY <1>2, NewRow
  <2> QED BY <2>1, <2>2, <2>3 DEF Pending, PendingOK
<1>3. ASSUME NEW id \in ReqIds, RejectedReplay(w), id \in Duplicates(loc[w].in),
             Keep(w, "create", id, request[id].status)
      PROVE  Goal
  <2>1. serving'[w] = Pending("create", id, request[id].status)
    BY <1>3 DEF Keep, ServingFun
  <2>2. PICK i \in Duplicates(loc[w].in) : GotoWith(w, "record", i)
    BY <1>3 DEF RejectedReplay
  <2>3. i = id /\ Exists(id)
    BY <1>3, <2>2 DEF Duplicates, FindByIdempotency, UniqueKeys
  <2>4. loc'[w].id = id
    BY <1>0, <2>2, <2>3, SetId DEF GotoWith, TypeOK
  <2>5. UNCHANGED request
    BY <1>3 DEF RejectedReplay, db
  <2>6. serving'[w].ep = "create" /\ serving'[w].id = id
    BY <2>1 DEF Pending
  <2>7. PendingOK(serving'[w], request)
    BY <2>1, <2>3, FromRow
  <2>8. PendingOK(serving'[w], request')
    BY <2>5, <2>7
  <2> QED BY <2>4, <2>6, <2>8
<1> HIDE DEF Goal
<1> QED BY <1>1, <1>2, <1>3 DEF CreateOutcome

\* A handler's own step keeps the claim about creates.
LEMMA OwnCreating ==
  ASSUME TypeOK, UniqueKeys, Handled, NEW w \in Workers, Serve(w), pc'[w] \in CreatedPC
  PROVE  /\ serving'[w].ep = "create" /\ serving'[w].id = loc'[w].id
         /\ PendingOK(serving'[w], request')
<1>0. w \in Procs /\ w \notin Sweepers /\ w \in DOMAIN pc
  BY ProcAssumption DEF Procs, TypeOK
<1>1. CASE CreateOutcome(w)
  BY <1>1, OutcomeKept DEF Handled
<1>2. CASE pc[w] \in CreatedPC /\ loc'[w] = loc[w] /\ serving'[w] = serving[w]
  <2>1. [Next]_vars
    BY ServeSteps DEF Next
  <2>2. /\ serving[w].ep = "create" /\ serving[w].id = loc[w].id
        /\ PendingOK(serving[w], request)
    BY <1>2 DEF Handled, CreatingOK
  <2> QED BY <1>2, <2>1, <2>2, PendingStays
<1>3. CASE UNCHANGED <<vars, serving>>
  BY <1>2, <1>3 DEF vars, proc
<1>4. CASE CreateReplay(w)
  <2>1. UNCHANGED <<pc, loc, serving>>
    BY <1>4 DEF CreateReplay, ReplayFromRedis, ReplayFromDB, proc
  <2> QED BY <1>2, <2>1
<1>5. CASE CreateReplayLate(w) \/ CreateReply(w) \/ Fail(w)
  <2>1. pc'[w] = "idle"
    BY <1>0, <1>5 DEF CreateReplayLate, CreateReply, Fail, replayAfterDuplicate, recordOutcome,
      ReturnError, Return
  <2> QED BY <2>1 DEF CreatedPC
<1>6. CASE CreateOther(w)
  <2>1. CASE PersistRejectedDetail(w)
    BY <1>2, <1>6, <2>1 DEF PersistRejectedDetail, CreateOther, At, Goto, CreatedPC
  <2>2. CASE \/ \E c \in Customers, key \in Keys, b \in Bodies : CreateAdmit(w, c, key, b)
             \/ enforceActiveHoldsLimit(w) \/ buildReservationPlan(w)
             \/ ReserveDuplicate(w) \/ ReserveReject(w) \/ PersistRejectedDuplicate(w)
    <3>1. pc'[w] \in {"limit", "plan", "reserve", "replay", "reject", "rejectReplay"}
      BY <1>0, <2>2 DEF CreateAdmit, enforceActiveHoldsLimit, buildReservationPlan,
        ReserveDuplicate, ReserveReject, PersistRejectedDuplicate, Goto
    <3> QED BY <3>1 DEF CreatedPC
  <2> QED BY <1>6, <2>1, <2>2 DEF CreateOther
<1>7. CASE LifecycleCommit(w)
  <2>1. pc'[w] = "idle"
    BY <1>0, <1>7 DEF LifecycleCommit, ConfirmCommit, releaseReserved, ExtendEvent, Return
  <2> QED BY <2>1 DEF CreatedPC
<1>8. CASE LifecycleOther(w)
  <2>1. pc'[w] \in {"confirm", "release", "extend", "confirmTx", "releaseTx", "extendEvent"}
    BY <1>0, <1>8 DEF LifecycleOther, ConfirmGet, CancelGet, ExtendGet, ListHolds,
      ExtendUpdate, Goto, GotoWith
  <2> QED BY <2>1 DEF CreatedPC
<1>9. CASE FinalGet(w) \/ GetEvents(w)
  <2>1. pc[w] \in CreatedPC /\ serving[w].ep # "create"
    BY <1>9 DEF FinalGet, GetEvents, Lifecycles, vars, proc
  <2> QED BY <2>1 DEF Handled, CreatingOK
<1>10. CASE DieAfterCommit(w) \/ \E id \in ReqIds : GetRow(w, id)
  <2>1. pc'[w] = "idle"
    BY <1>10 DEF DieAfterCommit, GetRow, Serves, At, vars, proc
  <2> QED BY <2>1 DEF CreatedPC
<1>11. ASSUME NEW ep \in {"confirm", "cancel"}, NEW id \in ReqIds, AlreadyThere(w, ep, id)
       PROVE  UNCHANGED <<vars, serving>>
  BY <1>11 DEF AlreadyThere
<1> QED BY <1>1, <1>3, <1>4, <1>5, <1>6, <1>7, <1>8, <1>9, <1>10, <1>11 DEF Serve

\* A handler's own step keeps only what the row says.
LEMMA OwnServing ==
  ASSUME TypeOK, UniqueKeys, Handled, NEW w \in Workers, Serve(w), serving'[w] # None
  PROVE  PendingOK(serving'[w], request')
<1>0. [Next]_vars /\ w \in DOMAIN serving
  BY ServeSteps DEF Next, Handled, ServingFun
<1>1. CASE serving'[w] = serving[w]
  BY <1>0, <1>1, PendingStays DEF Handled, ServingOK
<1>2. CASE CreateReplay(w) \/ CreateReplayLate(w) \/ CreateOther(w) \/ LifecycleOther(w)
  BY <1>1, <1>2 DEF CreateReplay, CreateReplayLate, CreateOther, LifecycleOther
<1>3. CASE CreateOutcome(w)
  BY <1>3, OutcomeKept DEF Handled
<1>4. CASE CreateReply(w) \/ FinalGet(w) \/ Fail(w) \/ DieAfterCommit(w) \/ GetEvents(w)
  BY <1>0, <1>4 DEF CreateReply, FinalGet, Fail, DieAfterCommit, GetEvents
<1>5. CASE ConfirmCommit(w) /\ Keep(w, "confirm", loc[w].id, None)
  <2>1. serving'[w] = Pending("confirm", loc[w].id, None)
    BY <1>0, <1>5 DEF Keep
  <2>2. loc[w].id \in ReqIds /\ request'[loc[w].id].status = "COMPLETED"
    BY <1>5, CompletedRow
  <2> QED BY <2>1, <2>2 DEF Pending, PendingOK
<1>6. ASSUME NEW ep \in {"cancel", "extend"}, Keep(w, ep, loc[w].id, None),
             pc[w] \in LifecyclePC
      PROVE  PendingOK(serving'[w], request')
  <2>1. serving'[w] = Pending(ep, loc[w].id, None)
    BY <1>0, <1>6 DEF Keep
  <2>2. loc[w].id \in ReqIds /\ request[loc[w].id].status # "NONE"
    BY <1>6, HeldRequest DEF Procs, Exists
  <2>3. request'[loc[w].id].status # "NONE"
    BY <1>0, <2>2, Settled
  <2> QED BY <2>1, <2>2, <2>3 DEF Pending, PendingOK
<1>7. CASE LifecycleCommit(w)
  <2>1. releaseReserved(w) \/ ExtendEvent(w) => pc[w] \in LifecyclePC
    BY DEF releaseReserved, ExtendEvent, At, LifecyclePC
  <2> QED BY <1>5, <1>6, <1>7, <2>1 DEF LifecycleCommit
<1>8. ASSUME NEW id \in ReqIds, GetRow(w, id)
      PROVE  PendingOK(serving'[w], request')
  <2>1. serving'[w] = Pending("get", id, request[id].status) /\ Exists(id)
    BY <1>0, <1>8 DEF GetRow, Keep
  <2>2. PendingOK(serving'[w], request)
    BY <2>1, FromRow
  <2> QED BY <1>0, <2>2, PendingStays
<1>9. ASSUME NEW ep \in {"confirm", "cancel"}, NEW id \in ReqIds, AlreadyThere(w, ep, id)
      PROVE  serving'[w] = serving[w]
  BY <1>9 DEF AlreadyThere
<1> QED BY <1>1, <1>2, <1>3, <1>4, <1>7, <1>8, <1>9 DEF Serve

\* What a reply shows is what the row says.
LEMMA OwnTold ==
  ASSUME TypeOK, AuditFollowsRequest, Handled, NEW w \in Workers, Serve(w), told' # told
  PROVE  ReplyOK(told', request)
<1>0. w \in Procs
  BY DEF Procs
<1>1. ASSUME NEW id \in ReqIds, Exists(id),
             Reply("create", id, CreatedCode(request[id].status), request[id].status, TRUE)
      PROVE  ReplyOK(told', request)
  BY <1>1, CreateReplyOK
<1>2. CASE CreateReplay(w)
  <2>1. ASSUME NEW c \in Customers, NEW key \in Keys, NEW b \in Bodies,
               ReplayFromRedis(w, c, key, b)
        PROVE  IdemGet(c, key) \in ReqIds /\ Exists(IdemGet(c, key))
    BY <2>1 DEF ReplayFromRedis, IdemGet, RedisKeys, TypeOK
  <2>2. \A c \in Customers, key \in Keys : \A id \in FindByIdempotency(c, key) :
          id \in ReqIds /\ Exists(id)
    BY DEF FindByIdempotency
  <2> QED BY <1>1, <1>2, <2>1, <2>2 DEF CreateReplay
<1>3. CASE CreateReplayLate(w)
  <2>1. \A id \in Duplicates(loc[w].in) : id \in ReqIds /\ Exists(id)
    BY DEF Duplicates, FindByIdempotency
  <2> QED BY <1>1, <1>3, <2>1 DEF CreateReplayLate
<1>4. CASE CreateReply(w)
  <2>1. pc[w] \in CreatedPC
    BY <1>4 DEF CreateReply, recordOutcome, At, CreatedPC
  <2>2. serving[w].ep = "create" /\ PendingOK(serving[w], request)
    BY <2>1 DEF Handled, CreatingOK
  <2> QED BY <1>4, <2>2, CreateReplyOK DEF CreateReply, PendingOK, Exists
<1>5. CASE FinalGet(w)
  <2>1. PendingOK(serving[w], request) /\ serving[w].ep \in Lifecycles
    BY <1>5 DEF FinalGet, Handled, ServingOK
  <2>2. Reply(serving[w].ep, serving[w].id, 200, request[serving[w].id].status, TRUE)
    BY <1>5 DEF FinalGet
  <2> QED BY <2>1, <2>2 DEF Reply, ReplyOK, PendingOK, Lifecycles
<1>6. ASSUME NEW ep \in {"confirm", "cancel"}, NEW id \in ReqIds, AlreadyThere(w, ep, id)
      PROVE  ReplyOK(told', request)
  <2>1. /\ ep = "confirm" => request[id].status = "COMPLETED"
        /\ request[id].status # "NONE"
    BY <1>6 DEF AlreadyThere, Repeated
  <2> QED BY <1>6, <2>1 DEF AlreadyThere, Reply, ReplyOK
<1>7. CASE GetEvents(w)
  <2> DEFINE id == serving[w].id
             s == serving[w].seen
  <2>1. PendingOK(serving[w], request) /\ serving[w].ep = "get"
    BY <1>7 DEF GetEvents, Handled, ServingOK
  <2>2. /\ s \in Terminal => s = request[id].status
        /\ s = "REJECTED" <=> request[id].status = "REJECTED"
        /\ s \in RequestStatus /\ id \in ReqIds /\ request[id].status # "NONE"
    BY <2>1 DEF PendingOK
  <2>3. ASSUME s # "REJECTED"
        PROVE  Explains(id, s)
    <3>1. request[id].status \in DOMAIN HoldStatusOf
      BY <2>2, <2>3, RowComplete DEF TypeOK, RequestStatus, HoldStatusOf, Exists, Row
    <3>2. CASE s = "RESERVED"
      <4>1. event[id]["reserved"] = 1
        BY <2>2, <3>1 DEF AuditFollowsRequest
      <4> QED BY <3>2, <4>1 DEF Explains, EventFor
    <3>3. CASE s \in DOMAIN EventOf
      <4>1. s = request[id].status
        BY <2>2, <3>3 DEF EventOf, Terminal, RequestStatus
      <4>2. event[id][EventOf[s]] = 1
        BY <2>2, <3>3, <4>1 DEF AuditFollowsRequest
      <4>3. EventFor[s] = EventOf[s]
        BY <3>3 DEF EventFor, EventOf
      <4> QED BY <4>2, <4>3 DEF Explains
    <3> QED BY <2>2, <2>3, <3>2, <3>3 DEF RequestStatus, EventOf, Terminal
  <2>4. Reply("get", id, 200, s, Explains(id, s))
    BY <1>7 DEF GetEvents
  <2> HIDE DEF s, id
  <2>5. /\ told'.id = id /\ told'.status = s /\ told'.ep = "get"
        /\ s # "REJECTED" => told'.explained
    BY <2>3, <2>4 DEF Reply
  <2> QED BY <2>1, <2>2, <2>5 DEF ReplyOK, PendingOK, id
<1>8. CASE CreateOutcome(w) \/ CreateOther(w) \/ LifecycleCommit(w) \/ LifecycleOther(w)
           \/ Fail(w) \/ DieAfterCommit(w) \/ \E id \in ReqIds : GetRow(w, id)
  BY <1>8 DEF CreateOutcome, CreateOther, LifecycleCommit, LifecycleOther, Fail,
    DieAfterCommit, GetRow, Keep
<1> QED BY <1>2, <1>3, <1>4, <1>5, <1>6, <1>7, <1>8 DEF Serve

\* Every step keeps what the handlers and the client know true.
LEMMA HandledStep ==
  TypeOK /\ UniqueKeys /\ AuditFollowsRequest /\ Handled /\ [HttpNext]_hvars => Handled'
<1> SUFFICES ASSUME TypeOK, UniqueKeys, AuditFollowsRequest, Handled, [HttpNext]_hvars
             PROVE  Handled'
  OBVIOUS
<1>0. [Next]_vars
  BY ServiceSteps
<1>1. ASSUME NEW w \in Workers, Serve(w)
      PROVE  Handled'
  <2>1. ServingFun'
    BY <1>1 DEF Serve, CreateReplay, CreateReplayLate, CreateOutcome, CreateReply, CreateOther,
      LifecycleCommit, LifecycleOther, FinalGet, AlreadyThere, Fail, DieAfterCommit, GetRow,
      GetEvents, Keep, Handled, ServingFun
  <2>2. ServingOK'
    <3> SUFFICES ASSUME NEW v \in Workers, serving'[v] # None
                 PROVE  PendingOK(serving'[v], request')
      BY DEF ServingOK
    <3>1. CASE v = w
      BY <1>1, <3>1, OwnServing
    <3>2. CASE v # w
      BY <1>0, <1>1, <3>2, ServesAlone, PendingStays DEF Handled, ServingOK
    <3> QED BY <3>1, <3>2
  <2>3. CreatingOK'
    <3> SUFFICES ASSUME NEW v \in Workers, pc'[v] \in CreatedPC
                 PROVE  /\ serving'[v].ep = "create" /\ serving'[v].id = loc'[v].id
                        /\ PendingOK(serving'[v], request')
      BY DEF CreatingOK
    <3>1. CASE v = w
      BY <1>1, <3>1, OwnCreating
    <3>2. CASE v # w
      <4>1. pc'[v] = pc[v] /\ loc'[v] = loc[v] /\ serving'[v] = serving[v]
        BY <1>1, <3>2, ServesAlone DEF Handled
      <4>2. /\ serving[v].ep = "create" /\ serving[v].id = loc[v].id
            /\ PendingOK(serving[v], request)
        BY <4>1 DEF Handled, CreatingOK
      <4> QED BY <1>0, <4>1, <4>2, PendingStays
    <3> QED BY <3>1, <3>2
  <2>4. ToldOK'
    <3> SUFFICES ASSUME told' # None PROVE ReplyOK(told', request')
      BY DEF ToldOK
    <3>1. ReplyOK(told', request)
      BY <1>1, OwnTold DEF Handled, ToldOK
    <3> QED BY <1>0, <3>1, ReplyStays
  <2> QED BY <2>1, <2>2, <2>3, <2>4 DEF Handled
<1>2. ASSUME UNCHANGED <<serving, told>>,
             \A w \in Workers : pc'[w] = pc[w] /\ loc'[w] = loc[w]
      PROVE  Handled'
  <2>1. ServingFun' /\ ServingOK' /\ ToldOK'
    BY <1>0, <1>2, PendingStays, ReplyStays DEF Handled, ServingFun, ServingOK, ToldOK
  <2>2. CreatingOK'
    <3> SUFFICES ASSUME NEW v \in Workers, pc'[v] \in CreatedPC
                 PROVE  /\ serving'[v].ep = "create" /\ serving'[v].id = loc'[v].id
                        /\ PendingOK(serving'[v], request')
      BY DEF CreatingOK
    <3>1. /\ serving[v].ep = "create" /\ serving[v].id = loc[v].id
          /\ PendingOK(serving[v], request)
      BY <1>2 DEF Handled, CreatingOK
    <3> QED BY <1>0, <1>2, <3>1, PendingStays
  <2> QED BY <2>1, <2>2 DEF Handled
<1>3. ASSUME NEW s \in Sweepers, Sweep(s)
      PROVE  Handled'
  <2>1. \A w \in Workers : pc'[w] = pc[w] /\ loc'[w] = loc[w]
    BY <1>3, SweeperMovesAlone, ProcAssumption DEF Sweep, Procs
  <2> QED BY <1>2, <1>3, <2>1 DEF Sweep
<1>4. CASE Environment \/ UNCHANGED hvars
  <2>1. UNCHANGED <<pc, loc, serving, told>>
    BY <1>4 DEF Environment, Tick, RedisForget, hvars, vars, proc
  <2> QED BY <1>2, <2>1
<1> QED BY <1>1, <1>3, <1>4 DEF HttpNext

\* What handlers keep and clients are told is true of the rows, always.
LEMMA AlwaysHandled == HttpSpec => []Handled
<1>1. HttpInit => Handled
  BY DEF HttpInit, Init, Handled, ServingFun, ServingOK, CreatingOK, ToldOK, CreatedPC, Procs
<1>2. TypeOK /\ UniqueKeys /\ AuditFollowsRequest /\ Handled /\ [HttpNext]_hvars => Handled'
  BY HandledStep
<1> QED BY <1>1, <1>2, ServiceRuns, TypeCorrect, KeysAreUnique, AuditFollows, PTL DEF HttpSpec

\* No reply shows an outcome that another reply or the row contradicts, then or
\* later, although the reply is put together after the commit.
THEOREM RepliesNeverDisagree == HttpSpec => []RepliesAgree
<1>1. Handled => RepliesAgree
  BY DEF Handled, ToldOK, ReplyOK, RepliesAgree
<1> QED BY <1>1, AlwaysHandled, PTL

\* A confirm that is answered 200 shows a confirmed request.
THEOREM ConfirmsComplete == HttpSpec => []ConfirmedIsCompleted
<1>1. Handled => ConfirmedIsCompleted
  BY DEF Handled, ToldOK, ReplyOK, ConfirmedIsCompleted, Told
<1> QED BY <1>1, AlwaysHandled, PTL

\* GET never shows a request that was reserved without the event of the status
\* it shows.
THEOREM OutcomesHaveEvents == HttpSpec => []OutcomesExplained
<1>1. Handled => OutcomesExplained
  BY DEF Handled, ToldOK, ReplyOK, OutcomesExplained, Told
<1> QED BY <1>1, AlwaysHandled, PTL

\* 201 is answered for requests that reserved and 409 for those that never did,
\* to the first call and to every replay.
THEOREM CreatesTellOutcome == HttpSpec => []CreatedWasReserved
<1>1. TypeOK /\ Handled /\ AuditFollowsRequest => CreatedWasReserved
  <2> SUFFICES ASSUME TypeOK, Handled, AuditFollowsRequest, told # None, told.ep = "create"
               PROVE  (told.code = 201) = (event[told.id]["reserved"] > 0)
    BY DEF CreatedWasReserved
  <2>1. /\ told.id \in ReqIds /\ request[told.id].status # "NONE"
        /\ told.code = 201 <=> request[told.id].status # "REJECTED"
    BY DEF Handled, ToldOK, ReplyOK
  <2>2. event[told.id]["reserved"] =
          IF request[told.id].status \in DOMAIN HoldStatusOf THEN 1 ELSE 0
    BY <2>1, AuditParts DEF AuditOf
  <2>3. request[told.id].status \in DOMAIN HoldStatusOf <=> request[told.id].status # "REJECTED"
    BY <2>1 DEF HoldStatusOf, TypeOK, RepositoryTypeOK, Row, NoRow, RequestStatus
  <2> QED BY <2>1, <2>2, <2>3
<1> QED BY <1>1, AlwaysHandled, ServiceRuns, TypeCorrect, AuditFollows, PTL


-----------------------------------------------------------------------------
(* The counter of confirmations.  A confirm that has committed and has yet to *)
(* count takes its place among the completed requests already.               *)

CompletedIds == {id \in ReqIds : request[id].status = "COMPLETED"}
Confirming == {w \in Workers : serving[w] # None /\ serving[w].ep = "confirm"}

ConfirmsRoom ==
  /\ confirms \in Nat
  /\ confirms + Cardinality(Confirming) <= Cardinality(CompletedIds)

\* A completed request stays one.
LEMMA CompletedStay ==
  TypeOK /\ [HttpNext]_hvars => CompletedIds \subseteq CompletedIds'
<1> SUFFICES ASSUME TypeOK, [HttpNext]_hvars, NEW id \in CompletedIds
             PROVE  id \in CompletedIds'
  OBVIOUS
<1>1. id \in ReqIds /\ request[id].status = "COMPLETED"
  BY DEF CompletedIds
<1>2. request'[id].status = request[id].status
  BY <1>1, ServiceSteps, Settled DEF Terminal, RequestStatus
<1> QED BY <1>1, <1>2 DEF CompletedIds

\* Which steps touch the counter, or make a handler one that will.
LEMMA CountingSteps ==
  ASSUME ServingFun, [HttpNext]_hvars
  PROVE  \/ confirms' = confirms /\ Confirming' \subseteq Confirming
         \/ \E w \in Workers : ConfirmCommit(w) /\ Keep(w, "confirm", loc[w].id, None)
         \/ \E w \in Workers : FinalGet(w)
<1> DEFINE Quiet == confirms' = confirms /\ Confirming' \subseteq Confirming
           Goal == \/ Quiet
                   \/ \E w \in Workers : ConfirmCommit(w) /\ Keep(w, "confirm", loc[w].id, None)
                   \/ \E w \in Workers : FinalGet(w)
<1> SUFFICES Goal
  OBVIOUS
<1>1. UNCHANGED <<serving, confirms>> => Quiet
  BY DEF Confirming
<1>2. ASSUME NEW w \in Workers, serving' = [serving EXCEPT ![w] = None], UNCHANGED confirms
      PROVE  Quiet
  BY <1>2 DEF Confirming, ServingFun
<1>3. ASSUME NEW w \in Workers, NEW ep \in {"create", "cancel", "extend", "get"}, NEW id, NEW seen,
             Keep(w, ep, id, seen)
      PROVE  Quiet
  <2>1. serving'[w].ep = ep /\ UNCHANGED confirms
    BY <1>3 DEF Keep, Pending, ServingFun
  <2>2. \A v \in Workers : v # w => serving'[v] = serving[v]
    BY <1>3 DEF Keep, ServingFun
  <2> QED BY <2>1, <2>2 DEF Confirming
<1> HIDE DEF Quiet
<1>4. ASSUME NEW w \in Workers, Serve(w)
      PROVE  Goal
  <2>1. CASE CreateReplay(w) \/ CreateReplayLate(w) \/ CreateOther(w) \/ LifecycleOther(w)
    BY <1>1, <2>1 DEF CreateReplay, CreateReplayLate, CreateOther, LifecycleOther
  <2>2. CASE CreateReply(w) \/ Fail(w) \/ DieAfterCommit(w) \/ GetEvents(w)
    BY <1>2, <2>2 DEF CreateReply, Fail, DieAfterCommit, GetEvents
  <2>3. CASE CreateOutcome(w)
    BY <1>3, <2>3 DEF CreateOutcome
  <2>4. CASE LifecycleCommit(w)
    BY <1>3, <2>4 DEF LifecycleCommit
  <2>5. CASE FinalGet(w)
    BY <2>5
  <2>6. ASSUME NEW ep \in {"confirm", "cancel"}, NEW id \in ReqIds, AlreadyThere(w, ep, id)
        PROVE  Goal
    BY <1>1, <2>6 DEF AlreadyThere
  <2>7. ASSUME NEW id \in ReqIds, GetRow(w, id)
        PROVE  Goal
    BY <1>3, <2>7 DEF GetRow
  <2> QED BY <1>4, <2>1, <2>2, <2>3, <2>4, <2>5, <2>6, <2>7 DEF Serve
<1>5. CASE Environment \/ (\E s \in Sweepers : Sweep(s)) \/ UNCHANGED hvars
  BY <1>1, <1>5 DEF Environment, Sweep, hvars
<1> QED BY <1>4, <1>5 DEF HttpNext

\* A commit adds a completed request for the place its handler takes, and the
\* handler gives the place up when it counts.
LEMMA RoomStep ==
  ASSUME IsFiniteSet(ReqIds), IsFiniteSet(Workers)
  PROVE  TypeOK /\ ServingFun /\ ConfirmsRoom /\ [HttpNext]_hvars => ConfirmsRoom'
<1> SUFFICES ASSUME TypeOK, ServingFun, ConfirmsRoom, [HttpNext]_hvars
             PROVE  /\ confirms' \in Nat
                    /\ confirms' + Cardinality(Confirming') <= Cardinality(CompletedIds')
  BY DEF ConfirmsRoom
<1> DEFINE C == CompletedIds
           D == CompletedIds'
           P == Confirming
           Q == Confirming'
<1>1. C \in SUBSET ReqIds /\ D \in SUBSET ReqIds /\ P \in SUBSET Workers /\ Q \in SUBSET Workers
  BY DEF CompletedIds, Confirming
<1>2. confirms \in Nat /\ confirms + Cardinality(P) <= Cardinality(C) /\ C \subseteq D
  BY CompletedStay DEF ConfirmsRoom
<1> HIDE DEF C, D, P, Q
<1> DEFINE Goal == confirms' \in Nat /\ confirms' + Cardinality(Q) <= Cardinality(D)
<1> SUFFICES Goal
  BY DEF D, Q
<1>3. IsFiniteSet(C) /\ IsFiniteSet(D) /\ IsFiniteSet(P) /\ IsFiniteSet(Q)
  BY <1>1, FS_Subset
<1>4. /\ Cardinality(C) \in Nat /\ Cardinality(D) \in Nat /\ Cardinality(P) \in Nat
      /\ Cardinality(Q) \in Nat /\ Cardinality(C) <= Cardinality(D)
  BY <1>2, <1>3, FS_CardinalityType, FS_Subset
<1>5. CASE confirms' = confirms /\ Q \subseteq P
  <2>1. Cardinality(Q) <= Cardinality(P)
    BY <1>3, <1>5, FS_Subset
  <2> QED BY <1>2, <1>4, <1>5, <2>1
<1>6. ASSUME NEW w \in Workers, ConfirmCommit(w), Keep(w, "confirm", loc[w].id, None)
      PROVE  Goal
  <2> DEFINE id == loc[w].id
  <2>1. id \in ReqIds /\ id \notin C /\ id \in D
    BY <1>6, CompletedRow DEF C, D, CompletedIds
  <2>2. confirms' = confirms /\ Q \subseteq P \cup {w}
    BY <1>6 DEF Keep, ServingFun, P, Q, Confirming
  <2> HIDE DEF id
  <2>3. IsFiniteSet(C \cup {id}) /\ Cardinality(C \cup {id}) = Cardinality(C) + 1
    BY <1>3, <2>1, FS_AddElement
  <2>4. Cardinality(C) + 1 <= Cardinality(D)
    BY <1>2, <1>3, <2>1, <2>3, FS_Subset
  <2>5. IsFiniteSet(P \cup {w}) /\ Cardinality(P \cup {w}) <= Cardinality(P) + 1
    <3>1. IsFiniteSet(P \cup {w}) /\ (Cardinality(P \cup {w}) = Cardinality(P)
            \/ Cardinality(P \cup {w}) = Cardinality(P) + 1)
      BY <1>3, FS_AddElement
    <3> QED BY <1>4, <3>1
  <2>6. Cardinality(P \cup {w}) \in Nat /\ Cardinality(Q) <= Cardinality(P \cup {w})
    BY <2>2, <2>5, FS_Subset, FS_CardinalityType
  <2> QED BY <1>2, <1>4, <2>2, <2>4, <2>5, <2>6
<1>7. ASSUME NEW w \in Workers, FinalGet(w)
      PROVE  Goal
  <2>1. Q = P \ {w} /\ D = C
    BY <1>7 DEF FinalGet, vars, db, ServingFun, P, Q, C, D, Confirming, CompletedIds
  <2>2. CASE serving[w].ep = "confirm"
    <3>1. w \in P /\ confirms' = confirms + 1
      BY <1>7, <2>2 DEF FinalGet, Inc, P, Confirming
    <3>2. Cardinality(Q) = Cardinality(P) - 1
      BY <1>3, <2>1, <3>1, FS_RemoveElement
    <3> QED BY <1>2, <1>4, <2>1, <3>1, <3>2
  <2>3. CASE serving[w].ep # "confirm"
    <3>1. confirms' = confirms /\ Q \subseteq P
      BY <1>7, <2>1, <2>3 DEF FinalGet, Inc
    <3> QED BY <1>5, <3>1
  <2> QED BY <2>2, <2>3
<1> HIDE DEF Goal
<1> QED BY <1>5, <1>6, <1>7, CountingSteps DEF P, Q

\* reservation_confirmations_total never runs ahead of the confirmed requests,
\* whatever calls are retried, fail after their commit or race one another.
THEOREM ConfirmsCounted ==
  ASSUME IsFiniteSet(ReqIds), IsFiniteSet(Workers)
  PROVE  HttpSpec => []ConfirmationsCounted
<1>1. HttpInit => ConfirmsRoom
  <2> SUFFICES ASSUME HttpInit PROVE ConfirmsRoom
    OBVIOUS
  <2>1. Confirming = {} /\ CompletedIds = {} /\ confirms = 0
    BY DEF HttpInit, Init, RepositoryInit, NoRow, Confirming, CompletedIds
  <2> QED BY <2>1, FS_EmptySet DEF ConfirmsRoom
<1>2. TypeOK /\ ServingFun /\ ConfirmsRoom /\ [HttpNext]_hvars => ConfirmsRoom'
  BY RoomStep
<1>3. ConfirmsRoom => ConfirmationsCounted
  <2> SUFFICES ASSUME ConfirmsRoom PROVE ConfirmationsCounted
    OBVIOUS
  <2>1. CompletedIds \in SUBSET ReqIds /\ Confirming \in SUBSET Workers
    BY DEF CompletedIds, Confirming
  <2>2. Cardinality(CompletedIds) \in Nat /\ Cardinality(Confirming) \in Nat
    BY <2>1, FS_Subset, FS_CardinalityType
  <2>3. confirms <= Cardinality(CompletedIds)
    BY <2>2 DEF ConfirmsRoom
  <2> QED BY <2>3 DEF ConfirmationsCounted, CompletedIds
<1>4. Handled => ServingFun
  BY DEF Handled
<1> QED BY <1>1, <1>2, <1>3, <1>4, AlwaysHandled, ServiceRuns, TypeCorrect, PTL DEF HttpSpec
=============================================================================
