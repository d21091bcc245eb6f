---------------------------- MODULE EventProofs -----------------------------
(***************************************************************************)
(* The event tables and the services around them, for every instance of    *)
(* their constants.  What one repository call does to the tables is proved *)
(* once; every service then only has to show which calls it makes.         *)
(***************************************************************************)
EXTENDS EventService, EventSync, SportsService, MarketService,
        FiniteSetTheorems, TLAPS

-----------------------------------------------------------------------------
(***************************************************************************)
(* The repository calls.                                                   *)
(***************************************************************************)
RowsOK == events \in [Events -> Rows \cup {NoRow}]

TablesOK == RowsOK /\ ResolvedOnce

\* A closed event is not reopened, a resolved one does not change.
Forward ==
    \A e \in Events :
        /\ events[e].status = "closed"
            => events'[e].status \in {"closed", "resolved"}
        /\ events[e].status = "resolved" => events'[e] = events[e]

\* What the calls of the resolutions are: audit rows and messages, by event.
Audited(e) == {a \in audits : a.event = e}
Queued(e) == {row \in outbox : row.event = e}

ResolvedOnceAt(e) ==
    IF events[e].status = "resolved"
    THEN /\ Cardinality(Audited(e)) = 1
         /\ Queued(e) = {[event |-> e, outcome |-> events[e].outcome]}
         /\ \A a \in Audited(e) : a.outcome = events[e].outcome
    ELSE /\ Audited(e) = {}
         /\ Queued(e) = {}
         /\ events[e].outcome = NoOutcome

LEMMA ResolvedOnceByEvent == ResolvedOnce <=> \A e \in Events : ResolvedOnceAt(e)
BY DEF ResolvedOnce, ResolvedOnceAt, Audited, Queued

LEMMA RowFields ==
    ASSUME RowsOK, NEW e \in Events
    PROVE  /\ events[e] = [status |-> events[e].status, outcome |-> events[e].outcome]
           /\ events[e].status \in Statuses \cup {"none"}
           /\ events[e].outcome \in Outcomes \cup {NoOutcome}
           /\ events[e].status = "none" => events[e] = NoRow
BY DEF RowsOK, Rows, NoRow, Statuses

LEMMA TablesInit == NoEvents => TablesOK
<1> SUFFICES ASSUME NoEvents PROVE TablesOK
  OBVIOUS
<1>1. RowsOK
  BY DEF NoEvents, RowsOK
<1>2. ASSUME NEW e \in Events
      PROVE  ResolvedOnceAt(e)
  BY DEF NoEvents, NoRow, ResolvedOnceAt, Audited, Queued
<1>3. QED
  BY <1>1, <1>2, ResolvedOnceByEvent DEF TablesOK

\* A call that changes statuses only, of an event that is not resolved and to
\* a status that is not "resolved", adds no audit and no message.
LEMMA StatusChange ==
    ASSUME TablesOK, NEW e, NEW to \in SyncStatuses,
           \A x \in Events : x = e => events[x].status # "resolved",
           events' = [events EXCEPT ![e].status = to],
           UNCHANGED <<audits, outbox>>
    PROVE  TablesOK'
<1>1. ASSUME NEW x \in Events
      PROVE  /\ events'[x] \in Rows \cup {NoRow}
             /\ x # e => events'[x] = events[x]
             /\ x = e => /\ events'[x].status = to
                         /\ events'[x].outcome = events[x].outcome
                         /\ events[x].status # "resolved"
  <2>1. CASE x = e
    <3>1. events'[x] = [events[x] EXCEPT !.status = to]
      BY <2>1 DEF TablesOK, RowsOK
    <3>2. events[x] \in Rows \cup {NoRow} /\ to \in Statuses
      BY DEF TablesOK, RowsOK, SyncStatuses, Statuses
    <3>3. events'[x] \in Rows
      BY <3>1, <3>2 DEF Rows, NoRow
    <3>4. events'[x].status = to /\ events'[x].outcome = events[x].outcome
      BY <3>1, <3>2 DEF Rows, NoRow
    <3>5. QED
      BY <2>1, <3>3, <3>4
  <2>2. CASE x # e
    BY <2>2 DEF TablesOK, RowsOK
  <2>3. QED
    BY <2>1, <2>2
<1>2. DOMAIN events' = Events /\ events' = [x \in Events |-> events'[x]]
  BY DEF TablesOK, RowsOK
<1>3. RowsOK'
  BY <1>1, <1>2 DEF RowsOK
<1>4. ASSUME NEW x \in Events
      PROVE  ResolvedOnceAt(x)'
  <2>1. ResolvedOnceAt(x)
    BY ResolvedOnceByEvent DEF TablesOK
  <2>2. Audited(x)' = Audited(x) /\ Queued(x)' = Queued(x)
    BY DEF Audited, Queued
  <2>3. to # "resolved"
    BY DEF SyncStatuses
  <2>4. QED
    BY <1>1, <2>1, <2>2, <2>3 DEF ResolvedOnceAt
<1>5. QED
  BY <1>3, <1>4 DEF TablesOK, ResolvedOnce, ResolvedOnceAt, Audited, Queued

LEMMA CreateRowKeeps ==
    ASSUME TablesOK, NEW e \in Events, CreateRow(e)
    PROVE  TablesOK' /\ Forward
<1>1. events[e] = NoRow /\ events' = [events EXCEPT ![e] =
          [status |-> "pending", outcome |-> NoOutcome]]
  BY DEF CreateRow, Exists, validateCreateRequest
<1>2. events' = [events EXCEPT ![e].status = "pending"]
  <2>1. [events[e] EXCEPT !.status = "pending"] =
           [status |-> "pending", outcome |-> NoOutcome]
    BY <1>1 DEF NoRow
  <2>2. QED
    BY <1>1, <2>1
<1>3. TablesOK'
  <2>1. events[e].status # "resolved"
    BY <1>1 DEF NoRow
  <2>2. QED
    BY <1>2, <2>1, StatusChange DEF CreateRow, SyncStatuses
<1>4. Forward
  BY <1>1 DEF Forward, NoRow, TablesOK, RowsOK
<1>5. QED
  BY <1>3, <1>4

LEMMA UpsertSourceKeeps ==
    ASSUME TablesOK, NEW e, NEW to \in SyncStatuses, UpsertSource(e, to)
    PROVE  TablesOK' /\ Forward
<1>1. CASE \E x \in Events : x = e /\ events[x].status \in {"closed", "resolved"}
  <2>1. events' = events
    <3>1. e \in Events /\ events[e].status \in {"closed", "resolved"}
      BY <1>1
    <3>2. [events[e] EXCEPT !.status = events[e].status] = events[e]
      BY <3>1, RowFields DEF TablesOK
    <3>3. events' = [events EXCEPT ![e] = [events[e] EXCEPT !.status = events[e].status]]
      BY <3>1 DEF UpsertSource
    <3>4. QED
      BY <3>1, <3>2, <3>3 DEF TablesOK, RowsOK
  <2>2. UNCHANGED tables
    BY <2>1 DEF UpsertSource, tables
  <2>3. QED
    BY <2>2 DEF tables, TablesOK, RowsOK, ResolvedOnce, Forward
<1>2. CASE \A x \in Events : x = e => events[x].status \notin {"closed", "resolved"}
  <2>1. events' = [events EXCEPT ![e].status = to]
    BY <1>2 DEF UpsertSource, TablesOK, RowsOK
  <2>2. TablesOK'
    BY <1>2, <2>1, StatusChange DEF UpsertSource
  <2>3. Forward
    BY <1>2, <2>1 DEF Forward, TablesOK, RowsOK
  <2>4. QED
    BY <2>2, <2>3
<1>3. QED
  BY <1>1, <1>2

LEMMA SetStatusKeeps ==
    ASSUME TablesOK, NEW e \in Events, NEW from, NEW to \in Statuses,
           canTransition(from, to), SetStatus(e, from, to)
    PROVE  TablesOK' /\ Forward
<1>1. /\ events[e].status \in {"pending", "active"}
      /\ to \in SyncStatuses
  BY DEF SetStatus, canTransition, SyncStatuses
<1>2. TablesOK'
  BY <1>1, StatusChange DEF SetStatus
<1>3. Forward
  BY <1>1 DEF SetStatus, Forward, TablesOK, RowsOK
<1>4. QED
  BY <1>2, <1>3

\* A resolution finds the row closed, so the event has neither an audit nor a
\* message yet.
LEMMA ResolveRowKeeps ==
    ASSUME TablesOK, NEW e \in Events, NEW o \in Outcomes, NEW by,
           ResolveRow(e, "closed", o, by)
    PROVE  TablesOK' /\ Forward
<1> DEFINE audit == [event |-> e, outcome |-> o, by |-> by]
           message == [event |-> e, outcome |-> o]
<1>1. /\ events[e].status = "closed"
      /\ events' = [events EXCEPT ![e] = [status |-> "resolved", outcome |-> o]]
      /\ audits' = audits \cup {audit}
  BY DEF ResolveRow, Resolved
<1>2. \A x \in Events : ResolvedOnceAt(x)
  BY ResolvedOnceByEvent DEF TablesOK
<1>3. Audited(e) = {} /\ Queued(e) = {}
  BY <1>1, <1>2 DEF ResolvedOnceAt
<1>4. outbox' = outbox \cup {message}
  BY <1>3 DEF ResolveRow, Resolved, Queued
<1>5. RowsOK'
  BY <1>1 DEF TablesOK, RowsOK, Rows, Statuses
<1>6. ASSUME NEW x \in Events
      PROVE  ResolvedOnceAt(x)'
  <2>1. CASE x = e
    <3>1. events'[x] = [status |-> "resolved", outcome |-> o]
      BY <1>1, <2>1 DEF TablesOK, RowsOK
    <3>2. Audited(x)' = {audit} /\ Queued(x)' = {message}
      BY <1>1, <1>3, <1>4, <2>1 DEF Audited, Queued
    <3>3. Cardinality({audit}) = 1
      BY FS_Singleton
    <3>4. QED
      BY <2>1, <3>1, <3>2, <3>3 DEF ResolvedOnceAt
  <2>2. CASE x # e
    <3>1. events'[x] = events[x]
      BY <1>1, <2>2 DEF TablesOK, RowsOK
    <3>2. Audited(x)' = Audited(x) /\ Queued(x)' = Queued(x)
      BY <1>1, <1>4, <2>2 DEF Audited, Queued
    <3>3. QED
      BY <1>2, <3>1, <3>2 DEF ResolvedOnceAt
  <2>3. QED
    BY <2>1, <2>2
<1>7. Forward
  BY <1>1 DEF Forward, TablesOK, RowsOK
<1>8. QED
  BY <1>5, <1>6, <1>7 DEF TablesOK, ResolvedOnce, ResolvedOnceAt, Audited, Queued

LEMMA QuietTables ==
    ASSUME TablesOK, UNCHANGED tables
    PROVE  TablesOK' /\ Forward
BY DEF tables, TablesOK, RowsOK, ResolvedOnce, Forward

-----------------------------------------------------------------------------
(***************************************************************************)
(* The event service.  A call carries what it read: an update a transition *)
(* that is legal from the status it saw, a resolution the status "closed". *)
(***************************************************************************)
RequestRecords ==
    [at : {"idle", "update", "resolve", "delete", "bump", "load", "put",
           "epoch", "lookup", "count", "select", "store"},
     event : Events \cup {NoEvent},
     row : Rows \cup {NoRow},
     by : {"manual", "polymarket"},
     to : Statuses \cup Outcomes \cup {"none", "put"},
     version : Versions \cup {NoVersion},
     total : Nat,
     values : SUBSET Events]

ServiceTypeOK ==
    /\ request \in [Requests -> RequestRecords]
    /\ version \in Versions \cup {NoVersion}

Carries(call) ==
    /\ call.at = "update" => /\ call.event \in Events
                             /\ call.to \in Statuses
                             /\ canTransition(call.row.status, call.to)
    /\ call.at = "resolve" => /\ call.event \in Events
                              /\ call.to \in Outcomes
                              /\ call.row.status = "closed"
    /\ call.at = "load" => call.event \in Events

ServiceInv == /\ TablesOK
              /\ ServiceTypeOK
              /\ \A r \in Requests : Carries(request[r])

\* A version no call holds and that is not current: there are two more
\* numbers than calls.
LEMMA FreshVersionExists ==
    \E v \in Versions : v # version /\ \A r \in Requests : request[r].version # v
<1> DEFINE held == {request[r].version : r \in Requests}
<1>1. IsFiniteSet(held) /\ Cardinality(held) <= Cardinality(Requests)
  <2>1. IsFiniteSet(Requests)
    BY EventServiceAssumption
  <2> DEFINE g == [r \in Requests |-> request[r].version]
  <2>2. g \in Surjection(Requests, held)
    BY DEF Surjection
  <2>3. QED
    BY <2>1, <2>2, FS_Surjection
<1>2. IsFiniteSet(held \cup {version}) /\ Cardinality(held \cup {version}) <= Cardinality(Requests) + 1
  <2>1. Cardinality(held) \in Nat /\ Cardinality(Requests) \in Nat
    BY <1>1, FS_CardinalityType, EventServiceAssumption
  <2>2. /\ IsFiniteSet(held \cup {version})
        /\ \/ Cardinality(held \cup {version}) = Cardinality(held)
           \/ Cardinality(held \cup {version}) = Cardinality(held) + 1
    <3>1. /\ IsFiniteSet(held \cup {version})
          /\ Cardinality(held \cup {version}) =
                IF version \in held THEN Cardinality(held) ELSE Cardinality(held) + 1
      <4> HIDE DEF held
      <4>1. QED
        BY <1>1, FS_AddElement
    <3>2. QED
      BY <3>1
  <2>3. QED
    <3> HIDE DEF held
    <3>1. QED
      BY <1>1, <2>1, <2>2
<1>3. Cardinality(Versions) = Cardinality(Requests) + 2
  <2>1. Cardinality(Requests) \in Nat
    BY FS_CardinalityType, EventServiceAssumption
  <2>2. QED
    BY <2>1, FS_Interval DEF Versions
<1>4. ~ (Versions \subseteq held \cup {version})
  <2>1. Cardinality(Requests) \in Nat
    BY FS_CardinalityType, EventServiceAssumption
  <2>2. SUFFICES ASSUME Versions \subseteq held \cup {version}
                 PROVE  FALSE
    OBVIOUS
  <2>3. Cardinality(Versions) <= Cardinality(held \cup {version})
    BY <1>2, <2>2, FS_Subset
  <2>4. Cardinality(held \cup {version}) \in Nat
    BY <1>2, FS_CardinalityType
  <2>5. QED
    BY <1>2, <1>3, <2>1, <2>3, <2>4
<1>5. QED
  BY <1>4

LEMMA FreshVersionIsFresh ==
    /\ FreshVersion \in Versions
    /\ FreshVersion # version
    /\ \A r \in Requests : request[r].version # FreshVersion
BY FreshVersionExists DEF FreshVersion

LEMMA ServiceInvInit == NoEvents /\ ServiceInit => ServiceInv
<1> SUFFICES ASSUME NoEvents, ServiceInit PROVE ServiceInv
  OBVIOUS
<1>1. TablesOK
  BY TablesInit
<1>2. NoRequest \in RequestRecords
  BY DEF NoRequest, RequestRecords, NoRow
<1>3. QED
  BY <1>1, <1>2 DEF ServiceInv, ServiceInit, ServiceTypeOK, Carries, NoRequest

\* What a call becomes decides whether the service's part of the invariant
\* holds in the next state.
LEMMA CallGoesOn ==
    ASSUME ServiceInv, NEW r \in Requests, NEW call \in RequestRecords,
           Carries(call), Goes(r, call), TablesOK',
           version' \in Versions \cup {NoVersion}
    PROVE  ServiceInv'
<1>1. \A s \in Requests : request'[s] = IF s = r THEN call ELSE request[s]
  BY DEF Goes, ServiceInv, ServiceTypeOK
<1>2. ServiceTypeOK'
  BY <1>1 DEF Goes, ServiceInv, ServiceTypeOK
<1>3. ASSUME NEW s \in Requests
      PROVE  Carries(request'[s])
  BY <1>1 DEF ServiceInv
<1>4. QED
  BY <1>2, <1>3 DEF ServiceInv, Carries

LEMMA CallReturns ==
    ASSUME ServiceInv, NEW r \in Requests, Returns(r), TablesOK',
           version' \in Versions \cup {NoVersion}
    PROVE  ServiceInv'
<1>1. NoRequest \in RequestRecords /\ Carries(NoRequest)
  BY DEF NoRequest, RequestRecords, NoRow, Carries
<1>2. QED
  BY <1>1, CallGoesOn DEF Returns

\* A call that reads or caches, with the tables as they are.
LEMMA QuietCall ==
    ASSUME ServiceInv, NEW r \in Requests, UNCHANGED tables,
           version' \in Versions \cup {NoVersion},
           \/ UNCHANGED request
           \/ Returns(r)
           \/ \E call \in RequestRecords : Carries(call) /\ Goes(r, call)
    PROVE  ServiceInv' /\ Forward
<1>1. TablesOK' /\ Forward
  BY QuietTables DEF ServiceInv
<1>2. CASE UNCHANGED request
  BY <1>1, <1>2 DEF ServiceInv, ServiceTypeOK, Carries
<1>3. CASE Returns(r)
  BY <1>1, <1>3, CallReturns
<1>4. CASE \E call \in RequestRecords : Carries(call) /\ Goes(r, call)
  BY <1>1, <1>4, CallGoesOn
<1>5. QED
  BY <1>1, <1>2, <1>3, <1>4

\* The fields of a call in progress.
LEMMA CallFields ==
    ASSUME ServiceInv, NEW r \in Requests
    PROVE  /\ request[r] \in RequestRecords
           /\ Carries(request[r])
           /\ version \in Versions \cup {NoVersion}
BY DEF ServiceInv, ServiceTypeOK

LEMMA NoRequestIsTyped ==
    NoRequest \in RequestRecords /\ Carries(NoRequest)
BY DEF NoRequest, RequestRecords, NoRow, Carries

\* The calls of the event service that change a row or are about to.
LEMMA ChangesKeep ==
    ASSUME ServiceInv, NEW r \in Requests,
           \/ UpdateRow(r) \/ ResolveTransaction(r)
           \/ \E e \in Events :
                \/ Create(r, e)
                \/ \E to \in Statuses : UpdateStatus(r, e, to) \/ SyncSource(r, e, to)
                \/ \E o \in Outcomes : Resolve(r, e, o) \/ ResolveSource(r, e, o)
    PROVE  ServiceInv' /\ Forward
<1>0. TablesOK /\ version \in Versions \cup {NoVersion}
  BY DEF ServiceInv, ServiceTypeOK
<1> DEFINE Drops(e) == [NoRequest EXCEPT !.at = "delete", !.event = e]
<1>a. \A e \in Events : Drops(e) \in RequestRecords /\ Carries(Drops(e))
  BY DEF NoRequest, RequestRecords, NoRow, Carries
<1>1. CASE UpdateRow(r)
  <2> DEFINE call == request[r]
  <2>1. /\ call.event \in Events /\ call.to \in Statuses
        /\ canTransition(call.row.status, call.to)
        /\ version' = version
    BY <1>1, CallFields DEF UpdateRow, At, Carries, caches
  <2>2. CASE SetStatus(call.event, call.row.status, call.to) /\ Goes(r, Drops(call.event))
    <3>1. TablesOK' /\ Forward
      BY <1>0, <2>1, <2>2, SetStatusKeeps
    <3>2. QED
      BY <1>0, <1>a, <2>1, <2>2, <3>1, CallGoesOn
  <2>3. CASE Returns(r) /\ UNCHANGED tables
    BY <1>0, <2>1, <2>3, QuietCall
  <2>4. QED
    BY <1>1, <2>2, <2>3 DEF UpdateRow
<1>2. CASE ResolveTransaction(r)
  <2> DEFINE call == request[r]
  <2>1. /\ call.event \in Events /\ call.to \in Outcomes
        /\ call.row.status = "closed"
        /\ version' = version
    BY <1>2, CallFields DEF ResolveTransaction, At, Carries, caches
  <2>2. CASE /\ ResolveRow(call.event, call.row.status, call.to, call.by)
             /\ Goes(r, Drops(call.event))
    <3>1. TablesOK' /\ Forward
      BY <1>0, <2>1, <2>2, ResolveRowKeeps
    <3>2. QED
      BY <1>0, <1>a, <2>1, <2>2, <3>1, CallGoesOn
  <2>3. CASE Returns(r) /\ UNCHANGED tables
    BY <1>0, <2>1, <2>3, QuietCall
  <2>4. QED
    BY <1>2, <2>2, <2>3 DEF ResolveTransaction
<1>3. ASSUME NEW e \in Events, Create(r, e)
      PROVE  ServiceInv' /\ Forward
  <2> DEFINE call == [NoRequest EXCEPT !.at = "bump", !.to = "put", !.event = e,
                                       !.row = events'[e]]
  <2>1. TablesOK' /\ Forward
    BY <1>0, <1>3, CreateRowKeeps DEF Create
  <2>2. events'[e] \in Rows \cup {NoRow}
    BY <2>1 DEF TablesOK, RowsOK
  <2>3. call \in RequestRecords /\ Carries(call)
    BY <2>2 DEF NoRequest, RequestRecords, Carries
  <2>4. QED
    BY <1>0, <1>3, <2>1, <2>3, CallGoesOn DEF Create, caches
<1>4. ASSUME NEW e \in Events, NEW to \in Statuses, UpdateStatus(r, e, to)
      PROVE  ServiceInv' /\ Forward
  <2> DEFINE call == [NoRequest EXCEPT !.at = "update", !.event = e,
                                       !.row = events[e], !.to = to]
  <2>1. events[e] \in Rows \cup {NoRow} /\ canTransition(events[e].status, to)
    BY <1>0, <1>4 DEF TablesOK, RowsOK, UpdateStatus
  <2>2. call \in RequestRecords /\ Carries(call)
    BY <2>1 DEF NoRequest, RequestRecords, Carries
  <2>3. QED
    BY <1>0, <1>4, <2>2, QuietCall DEF UpdateStatus, caches
<1>5. ASSUME NEW e \in Events, NEW to \in Statuses, SyncSource(r, e, to)
      PROVE  ServiceInv' /\ Forward
  <2>1. TablesOK' /\ Forward
    BY <1>0, <1>5, UpsertSourceKeeps DEF SyncSource
  <2>2. QED
    BY <1>0, <1>5, <1>a, <2>1, CallGoesOn DEF SyncSource, caches
<1>6. ASSUME NEW e \in Events, NEW o \in Outcomes, NEW by \in {"manual", "polymarket"},
             resolve(r, e, o, by)
      PROVE  ServiceInv' /\ Forward
  <2> DEFINE call == [NoRequest EXCEPT !.at = "resolve", !.event = e,
                                       !.row = events[e], !.to = o, !.by = by]
  <2>1. events[e] \in Rows \cup {NoRow} /\ events[e].status = "closed"
    BY <1>0, <1>6 DEF TablesOK, RowsOK, resolve
  <2>2. call \in RequestRecords /\ Carries(call)
    BY <2>1 DEF NoRequest, RequestRecords, Carries
  <2>3. QED
    BY <1>0, <1>6, <2>2, QuietCall DEF resolve, caches
<1>7. QED
  BY <1>1, <1>2, <1>3, <1>4, <1>5, <1>6 DEF Resolve, ResolveSource

\* The cache calls and the reads, which leave the tables alone.
LEMMA ReadsKeep ==
    ASSUME ServiceInv, NEW r \in Requests,
           \/ deleteCachedEvent(r) \/ invalidateEventLists(r)
           \/ Load(r) \/ putCachedEvent(r)
           \/ eventListCacheVersion(r) \/ getCachedEventList(r)
           \/ CountEvents(r) \/ SelectEvents(r) \/ putCachedEventList(r)
           \/ List(r) \/ Crash(r) \/ \E e \in Events : Get(r, e)
    PROVE  ServiceInv' /\ Forward
<1>0. /\ request[r] \in RequestRecords /\ Carries(request[r])
      /\ version \in Versions \cup {NoVersion}
      /\ NoRequest \in RequestRecords
      /\ RowsOK
  BY CallFields, NoRequestIsTyped DEF ServiceInv, TablesOK
<1>a. Listed \in SUBSET Events /\ Cardinality(Listed) \in Nat
  BY EventStoreAssumption, FS_Subset, FS_CardinalityType DEF Listed
<1>b. UNCHANGED tables => UNCHANGED <<events, audits, outbox>>
  BY DEF tables
<1>1. CASE deleteCachedEvent(r)
  <2> DEFINE call == [request[r] EXCEPT !.at = "bump"]
  <2>1. call \in RequestRecords /\ Carries(call)
    BY <1>0 DEF RequestRecords, Carries
  <2>2. QED
    BY <1>0, <1>1, <2>1, QuietCall DEF deleteCachedEvent
<1>2. CASE invalidateEventLists(r)
  <2> DEFINE call == [request[r] EXCEPT !.at = "put"]
  <2>1. call \in RequestRecords /\ Carries(call)
    BY <1>0 DEF RequestRecords, Carries
  <2>2. version' \in Versions \cup {NoVersion}
    BY <1>0, <1>2, FreshVersionIsFresh DEF invalidateEventLists, Publish
  <2>3. QED
    BY <1>0, <1>2, <2>1, <2>2, QuietCall DEF invalidateEventLists
<1>3. CASE Load(r)
  <2> DEFINE call == [request[r] EXCEPT !.at = "put", !.row = events[request[r].event]]
  <2>1. events[request[r].event] \in Rows \cup {NoRow}
    BY <1>0, <1>3 DEF Load, At, Carries, RowsOK
  <2>2. call \in RequestRecords /\ Carries(call)
    BY <1>0, <2>1 DEF RequestRecords, Carries
  <2>3. QED
    BY <1>0, <1>3, <2>2, QuietCall DEF Load, caches
<1>4. CASE putCachedEvent(r)
  BY <1>0, <1>4, QuietCall DEF putCachedEvent
<1>5. CASE eventListCacheVersion(r)
  <2> DEFINE call == [NoRequest EXCEPT !.at = "lookup", !.version = FreshVersion]
  <2>1. call \in RequestRecords /\ Carries(call)
    BY <1>0, FreshVersionIsFresh DEF RequestRecords, Carries, NoRequest
  <2>2. version' \in Versions \cup {NoVersion}
    BY <1>0, <1>5, FreshVersionIsFresh DEF eventListCacheVersion, Publish
  <2>3. QED
    BY <1>0, <1>5, <2>1, <2>2, QuietCall DEF eventListCacheVersion
<1>6. CASE getCachedEventList(r)
  <2> DEFINE call == [request[r] EXCEPT !.at = "count"]
  <2>1. call \in RequestRecords /\ Carries(call)
    BY <1>0 DEF RequestRecords, Carries
  <2>2. QED
    BY <1>0, <1>6, <2>1, QuietCall DEF getCachedEventList, caches
<1>7. CASE CountEvents(r)
  <2> DEFINE call == [request[r] EXCEPT !.at = "select", !.total = Cardinality(Listed)]
  <2> DEFINE n == Cardinality(Listed)
  <2> HIDE DEF n
  <2>1. n \in Nat
    BY <1>a DEF n
  <2>2. [request[r] EXCEPT !.at = "select", !.total = n] \in RequestRecords
    BY <1>0, <2>1 DEF RequestRecords
  <2>3. call \in RequestRecords /\ Carries(call)
    BY <1>0, <2>2 DEF RequestRecords, Carries, n
  <2>4. QED
    BY <1>0, <2>3, <1>7, <2>1, QuietCall DEF CountEvents, caches
<1>8. CASE SelectEvents(r)
  <2> DEFINE call == [request[r] EXCEPT !.at = "store", !.values = Listed]
  <2>1. ASSUME NEW values \in SUBSET Events
        PROVE  [request[r] EXCEPT !.at = "store", !.values = values] \in RequestRecords
    BY <1>0 DEF RequestRecords
  <2>2. call \in RequestRecords
    BY <1>a, <2>1
  <2>3. Carries(call)
    BY <1>0 DEF RequestRecords, Carries
  <2>4. QED
    BY <1>0, <1>8, <2>2, <2>3, QuietCall DEF SelectEvents, caches
<1>9. CASE putCachedEventList(r)
  BY <1>0, <1>9, QuietCall DEF putCachedEventList
<1>10. CASE List(r)
  <2> DEFINE looking == [NoRequest EXCEPT !.at = "lookup", !.version = version]
             asking == [NoRequest EXCEPT !.at = "epoch"]
  <2>1. looking \in RequestRecords /\ asking \in RequestRecords
    <3>1. looking \in RequestRecords
      BY <1>0 DEF RequestRecords
    <3>2. asking \in RequestRecords
      BY <1>0 DEF RequestRecords
    <3>3. QED
      BY <3>1, <3>2
  <2>2. Carries(looking) /\ Carries(asking)
    BY DEF Carries, NoRequest
  <2>3. QED
    BY <1>0, <1>10, <2>1, <2>2, QuietCall DEF List, caches
<1>11. CASE Crash(r)
  BY <1>0, <1>11, QuietCall DEF Crash, caches
<1>12. ASSUME NEW e \in Events, Get(r, e)
       PROVE  ServiceInv' /\ Forward
  <2> DEFINE call == [NoRequest EXCEPT !.at = "load", !.event = e]
  <2>1. call \in RequestRecords /\ Carries(call)
    BY <1>0 DEF RequestRecords, Carries, NoRequest
  <2>2. QED
    BY <1>0, <1>12, <2>1, QuietCall DEF Get, caches
<1>13. QED
  BY <1>1, <1>2, <1>3, <1>4, <1>5, <1>6, <1>7, <1>8, <1>9, <1>10, <1>11, <1>12

LEMMA ServiceStepKeeps ==
    ServiceInv /\ [ServiceNext]_serviceVars => ServiceInv' /\ Forward
<1> SUFFICES ASSUME ServiceInv, [ServiceNext]_serviceVars
             PROVE  ServiceInv' /\ Forward
  OBVIOUS
<1>0. version \in Versions \cup {NoVersion}
  BY DEF ServiceInv, ServiceTypeOK
<1>1. ASSUME NEW r \in Requests, Step(r)
      PROVE  ServiceInv' /\ Forward
  BY <1>1, ChangesKeep, ReadsKeep DEF Step
<1>2. ASSUME NEW r \in Requests, Call(r)
      PROVE  ServiceInv' /\ Forward
  BY <1>2, ChangesKeep, ReadsKeep DEF Call
<1>3. ASSUME NEW r \in Requests, Crash(r)
      PROVE  ServiceInv' /\ Forward
  BY <1>3, ReadsKeep
<1>4. ASSUME UNCHANGED <<tables, request>>, version' \in Versions \cup {NoVersion}
      PROVE  ServiceInv' /\ Forward
  <2>1. TablesOK' /\ Forward
    BY <1>4, QuietTables DEF ServiceInv
  <2>2. QED
    BY <1>4, <2>1 DEF ServiceInv, ServiceTypeOK, Carries
<1>5. CASE \/ \E e \in Events : ExpireDetail(e)
           \/ ExpireList
           \/ UNCHANGED serviceVars
  BY <1>0, <1>4, <1>5 DEF ExpireDetail, ExpireList, serviceVars, service, caches
<1>6. CASE RedisRestarts
  BY <1>4, <1>6 DEF RedisRestarts
<1>7. QED
  BY <1>1, <1>2, <1>3, <1>5, <1>6 DEF ServiceNext

\* Resolutions of any replica, at any moment of others' calls: one audit, one
\* message, one outcome.
THEOREM ResolvedOnceByService == ServiceSpec => []ResolvedOnce
<1>1. ServiceInv => ResolvedOnce
  BY DEF ServiceInv, TablesOK
<1>2. QED
  BY <1>1, ServiceInvInit, ServiceStepKeeps, PTL DEF ServiceSpec

\* No call of the event service, however late, reopens a closed event or
\* touches a resolved one.
THEOREM ServiceNeverReopens == ServiceSpec => ClosedNeverReopens
<1>1. ServiceInv /\ [ServiceNext]_serviceVars => [Forward]_tables
  BY ServiceStepKeeps
<1>2. QED
  BY <1>1, ServiceInvInit, ServiceStepKeeps, PTL DEF ServiceSpec, ClosedNeverReopens, Forward

-----------------------------------------------------------------------------
(***************************************************************************)
(* The cached list.  What a reader has counted or selected under the       *)
(* version that is still current is what the rows say now, unless a change *)
(* has still to replace the version or failed to.                          *)
(***************************************************************************)
Current == [total |-> Cardinality(Listed), values |-> Listed]

ReadRight(call) ==
    call.version = version =>
        /\ call.at \in {"select", "store"} => call.total = Cardinality(Listed)
        /\ call.at = "store" => call.values = Listed

Excused == \/ version = NoVersion
           \/ unbumped
           \/ \E r \in Requests : Changing(r)

ListInv == \/ Excused
           \/ /\ list \in {NoEntry, Current}
              /\ \A r \in Requests : ReadRight(request[r])

\* A call goes on without touching rows or version.
LEMMA ListStep ==
    ASSUME ServiceInv, ListInv, NEW r \in Requests, NEW call, Goes(r, call),
           UNCHANGED <<events, version>>,
           unbumped => unbumped',
           Changing(r) => unbumped' \/ call.at \in {"delete", "bump"},
           Excused \/ ReadRight(call),
           Excused \/ list' \in {list, NoEntry, Current}
    PROVE  ListInv'
<1>1. \A s \in Requests : request'[s] = IF s = r THEN call ELSE request[s]
  BY DEF Goes, ServiceInv, ServiceTypeOK
<1>2. Listed' = Listed
  BY DEF Listed
<1>3. CASE Excused
  <2>1. CASE version = NoVersion \/ unbumped
    BY <2>1 DEF ListInv, Excused
  <2>2. CASE Changing(r)
    BY <1>1, <2>2 DEF ListInv, Excused, Changing
  <2>3. ASSUME NEW s \in Requests, Changing(s), s # r
        PROVE  ListInv'
    BY <1>1, <2>3 DEF ListInv, Excused, Changing
  <2>4. QED
    BY <1>3, <2>1, <2>2, <2>3 DEF Excused
<1>4. CASE ~Excused
  <2>1. list' \in {NoEntry, Current}
    BY <1>4 DEF ListInv
  <2>2. Current' = Current
    BY <1>2 DEF Current
  <2>3. ASSUME NEW s \in Requests
        PROVE  ReadRight(request[s])'
    <3>1. ReadRight(request'[s])
      BY <1>1, <1>4 DEF ListInv
    <3>2. QED
      BY <1>2, <3>1 DEF ReadRight
  <2>4. QED
    BY <2>1, <2>2, <2>3 DEF ListInv
<1>5. QED
  BY <1>3, <1>4

\* A change leaves its call to replace the version.
LEMMA ListChanged ==
    ASSUME ServiceInv, NEW r \in Requests, NEW call, Goes(r, call),
           call.at \in {"delete", "bump"}
    PROVE  ListInv'
<1>1. request'[r] = call
  BY DEF Goes, ServiceInv, ServiceTypeOK
<1>2. QED
  BY <1>1 DEF ListInv, Excused, Changing

\* Under a version nobody has read there is neither a list nor a reader.
LEMMA ListPublished ==
    ASSUME ServiceInv, NEW r \in Requests, NEW call, Goes(r, call), Publish,
           call.at \notin {"select", "store"}
    PROVE  ListInv'
<1>1. \A s \in Requests : request'[s] = IF s = r THEN call ELSE request[s]
  BY DEF Goes, ServiceInv, ServiceTypeOK
<1>2. /\ version' = FreshVersion
      /\ list' = NoEntry
      /\ \A s \in Requests : request[s].version # FreshVersion
  BY FreshVersionIsFresh DEF Publish
<1>3. ASSUME NEW s \in Requests
      PROVE  ReadRight(request[s])'
  BY <1>1, <1>2 DEF ReadRight
<1>4. QED
  BY <1>2, <1>3 DEF ListInv

LEMMA ListInvInit == NoEvents /\ ServiceInit => ListInv
BY DEF ServiceInit, ListInv, Excused

LEMMA NoRequestReadsRight == ReadRight(NoRequest) /\ NoRequest.at = "idle"
BY DEF ReadRight, NoRequest

LEMMA ListStepKeeps ==
    ServiceInv /\ ListInv /\ [ServiceNext]_serviceVars => ListInv'
<1> SUFFICES ASSUME ServiceInv, ListInv, [ServiceNext]_serviceVars
             PROVE  ListInv'
  OBVIOUS
<1>0. ASSUME NEW r \in Requests
      PROVE  request[r] \in RequestRecords
  BY CallFields
<1> DEFINE Ended(e) == [NoRequest EXCEPT !.at = "delete", !.event = e]
<1>a. \A e : Ended(e).at = "delete"
  BY DEF NoRequest
<1>b. ASSUME NEW r \in Requests, Returns(r), ~Changing(r),
             UNCHANGED <<events, version, unbumped>>, list' \in {list, NoEntry}
      PROVE  ListInv'
  BY <1>b, ListStep, NoRequestReadsRight DEF Returns
<1>1. ASSUME NEW r \in Requests, UpdateRow(r) \/ ResolveTransaction(r)
      PROVE  ListInv'
  <2>1. \/ \E e : Goes(r, Ended(e))
        \/ Returns(r) /\ UNCHANGED tables
    BY <1>1 DEF UpdateRow, ResolveTransaction
  <2>2. ~Changing(r) /\ UNCHANGED <<version, list, unbumped>>
    BY <1>1 DEF UpdateRow, ResolveTransaction, At, Changing, caches
  <2>3. QED
    BY <1>a, <1>b, <2>1, <2>2, ListChanged DEF tables
<1>2. ASSUME NEW r \in Requests, deleteCachedEvent(r)
      PROVE  ListInv'
  <2> DEFINE call == [request[r] EXCEPT !.at = "bump"]
  <2>1. call.at = "bump"
    BY <1>0 DEF RequestRecords
  <2>2. QED
    BY <1>2, <2>1, ListChanged DEF deleteCachedEvent
<1>3. ASSUME NEW r \in Requests, invalidateEventLists(r)
      PROVE  ListInv'
  <2> DEFINE call == [request[r] EXCEPT !.at = "put"]
  <2>1. call.at = "put"
    BY <1>0 DEF RequestRecords
  <2>2. CASE unbumped'
    BY <2>2 DEF ListInv, Excused
  <2>3. CASE Publish
    BY <1>3, <2>1, <2>3, ListPublished, NoRequestReadsRight DEF invalidateEventLists, Returns
  <2>4. QED
    BY <1>3, <2>2, <2>3 DEF invalidateEventLists
<1>4. ASSUME NEW r \in Requests, Load(r)
      PROVE  ListInv'
  <2> DEFINE call == [request[r] EXCEPT !.at = "put", !.row = events[request[r].event]]
  <2>1. call.at = "put"
    BY <1>0 DEF RequestRecords
  <2>2. ReadRight(call)
    BY <2>1 DEF ReadRight
  <2>3. ~Changing(r) /\ UNCHANGED <<events, version, list, unbumped>>
    BY <1>4 DEF Load, At, Changing, caches, tables
  <2>4. QED
    BY <1>4, <1>b, <2>2, <2>3, ListStep DEF Load
<1>5. ASSUME NEW r \in Requests, putCachedEvent(r)
      PROVE  ListInv'
  BY <1>5, <1>b DEF putCachedEvent, At, Changing, tables
<1>6. ASSUME NEW r \in Requests, eventListCacheVersion(r)
      PROVE  ListInv'
  <2> DEFINE call == [NoRequest EXCEPT !.at = "lookup", !.version = FreshVersion]
  <2>1. call.at = "lookup"
    BY DEF NoRequest
  <2>2. CASE Publish /\ Goes(r, call)
    BY <2>1, <2>2, ListPublished
  <2>3. CASE Returns(r) /\ UNCHANGED <<version, list, unbumped>>
    BY <1>6, <1>b, <2>3 DEF eventListCacheVersion, At, Changing, tables
  <2>4. QED
    BY <1>6, <2>2, <2>3 DEF eventListCacheVersion
<1>7. ASSUME NEW r \in Requests, getCachedEventList(r)
      PROVE  ListInv'
  <2> DEFINE call == [request[r] EXCEPT !.at = "count"]
  <2>1. call.at = "count"
    BY <1>0 DEF RequestRecords
  <2>2. ReadRight(call)
    BY <2>1 DEF ReadRight
  <2>3. ~Changing(r) /\ UNCHANGED <<events, version, list, unbumped>>
    BY <1>7 DEF getCachedEventList, At, Changing, caches, tables
  <2>4. QED
    BY <1>7, <1>b, <2>2, <2>3, ListStep DEF getCachedEventList
<1>8. ASSUME NEW r \in Requests, CountEvents(r)
      PROVE  ListInv'
  <2> DEFINE call == [request[r] EXCEPT !.at = "select", !.total = Cardinality(Listed)]
  <2>1. call.at = "select" /\ call.total = Cardinality(Listed)
    BY <1>0 DEF RequestRecords
  <2>2. ReadRight(call)
    BY <2>1 DEF ReadRight
  <2>3. ~Changing(r) /\ UNCHANGED <<events, version, list, unbumped>>
    BY <1>8 DEF CountEvents, At, Changing, caches, tables
  <2>4. QED
    BY <1>8, <2>2, <2>3, ListStep DEF CountEvents
<1>9. ASSUME NEW r \in Requests, SelectEvents(r)
      PROVE  ListInv'
  <2> DEFINE call == [request[r] EXCEPT !.at = "store", !.values = Listed]
  <2>1. /\ call.at = "store" /\ call.values = Listed
        /\ call.total = request[r].total /\ call.version = request[r].version
    BY <1>0 DEF RequestRecords
  <2>2. Excused \/ ReadRight(call)
    BY <1>9, <2>1 DEF ReadRight, ListInv, SelectEvents, At
  <2>3. ~Changing(r) /\ UNCHANGED <<events, version, list, unbumped>>
    BY <1>9 DEF SelectEvents, At, Changing, caches, tables
  <2>4. QED
    BY <1>9, <2>2, <2>3, ListStep DEF SelectEvents
<1>10. ASSUME NEW r \in Requests, putCachedEventList(r)
       PROVE  ListInv'
  <2>1. Excused \/ list' \in {list, NoEntry, Current}
    BY <1>10 DEF putCachedEventList, FoundBy, Current, ListInv, ReadRight, At
  <2>2. ~Changing(r) /\ UNCHANGED <<events, version, unbumped>>
    BY <1>10 DEF putCachedEventList, At, Changing, tables
  <2>3. QED
    BY <1>10, <2>1, <2>2, ListStep, NoRequestReadsRight DEF putCachedEventList, Returns
<1>11. ASSUME NEW r \in Requests, List(r)
       PROVE  ListInv'
  <2> DEFINE looking == [NoRequest EXCEPT !.at = "lookup", !.version = version]
             asking == [NoRequest EXCEPT !.at = "epoch"]
  <2>1. ReadRight(looking) /\ ReadRight(asking)
    BY DEF NoRequest, ReadRight
  <2>2. ~Changing(r) /\ UNCHANGED <<events, version, list, unbumped>>
    BY <1>11, NoRequestReadsRight DEF List, Changing, caches, tables
  <2>3. QED
    BY <1>11, <2>1, <2>2, ListStep DEF List
<1>12. ASSUME NEW r \in Requests, Crash(r)
       PROVE  ListInv'
  BY <1>12, ListStep, NoRequestReadsRight DEF Crash, Returns, caches, tables
<1>13. ASSUME NEW r \in Requests, NEW e \in Events, Create(r, e)
       PROVE  ListInv'
  <2> DEFINE call == [NoRequest EXCEPT !.at = "bump", !.to = "put", !.event = e,
                                       !.row = events'[e]]
  <2>1. call.at = "bump"
    BY DEF NoRequest
  <2>2. QED
    BY <1>13, <2>1, ListChanged DEF Create
<1>14. ASSUME NEW r \in Requests, NEW e \in Events, NEW to \in Statuses, SyncSource(r, e, to)
       PROVE  ListInv'
  BY <1>14, <1>a, ListChanged DEF SyncSource
<1>15. ASSUME NEW r \in Requests, NEW e \in Events, Get(r, e)
       PROVE  ListInv'
  <2> DEFINE call == [NoRequest EXCEPT !.at = "load", !.event = e]
  <2>1. ReadRight(call)
    BY DEF NoRequest, ReadRight
  <2>2. ~Changing(r) /\ UNCHANGED <<events, version, list, unbumped>>
    BY <1>15, NoRequestReadsRight DEF Get, Changing, caches, tables
  <2>3. QED
    BY <1>15, <2>1, <2>2, ListStep DEF Get
<1>16. ASSUME NEW r \in Requests, NEW e \in Events, NEW to \in Statuses, UpdateStatus(r, e, to)
       PROVE  ListInv'
  <2> DEFINE call == [NoRequest EXCEPT !.at = "update", !.event = e,
                                       !.row = events[e], !.to = to]
  <2>1. ReadRight(call)
    BY DEF NoRequest, ReadRight
  <2>2. ~Changing(r) /\ UNCHANGED <<events, version, list, unbumped>>
    BY <1>16, NoRequestReadsRight DEF UpdateStatus, Changing, caches, tables
  <2>3. QED
    BY <1>16, <2>1, <2>2, ListStep DEF UpdateStatus
<1>17. ASSUME NEW r \in Requests, NEW e \in Events, NEW o, NEW by, resolve(r, e, o, by)
       PROVE  ListInv'
  <2> DEFINE call == [NoRequest EXCEPT !.at = "resolve", !.event = e,
                                       !.row = events[e], !.to = o, !.by = by]
  <2>1. ReadRight(call)
    BY DEF NoRequest, ReadRight
  <2>2. ~Changing(r) /\ UNCHANGED <<events, version, list, unbumped>>
    BY <1>17, NoRequestReadsRight DEF resolve, Changing, caches, tables
  <2>3. QED
    BY <1>17, <2>1, <2>2, ListStep DEF resolve
<1>18. CASE RedisRestarts
  BY <1>18 DEF RedisRestarts, ListInv, Excused
<1>19. CASE \/ \E e \in Events : ExpireDetail(e)
            \/ ExpireList
            \/ UNCHANGED serviceVars
  <2>1. UNCHANGED <<events, request, version, unbumped>> /\ list' \in {list, NoEntry}
    BY <1>19 DEF ExpireDetail, ExpireList, serviceVars, service, caches, tables
  <2>2. QED
    BY <2>1 DEF ListInv, Excused, Current, ReadRight, Listed, Changing
<1>20. ASSUME NEW r \in Requests, Step(r)
       PROVE  ListInv'
  BY <1>20, <1>1, <1>2, <1>3, <1>4, <1>5, <1>6, <1>7, <1>8, <1>9, <1>10 DEF Step
<1>21. ASSUME NEW r \in Requests, Call(r)
       PROVE  ListInv'
  BY <1>21, <1>11, <1>13, <1>14, <1>15, <1>16, <1>17 DEF Call, Resolve, ResolveSource
<1>22. QED
  BY <1>12, <1>18, <1>19, <1>20, <1>21 DEF ServiceNext

\* The list a reader leaves under the current version is the rows' own, except
\* while a change has not replaced the version yet or could not.
THEOREM ListsAreFresh == ServiceSpec => []ListFresh
<1>1. ListInv => ListFresh
  BY DEF ListInv, Excused, ListFresh, Current
<1>2. QED
  BY <1>1, ServiceInvInit, ServiceStepKeeps, ListInvInit, ListStepKeeps, PTL DEF ServiceSpec

-----------------------------------------------------------------------------
(***************************************************************************)
(* The sports service changes the events of its games, and so does the     *)
(* event service behind its back.                                          *)
(***************************************************************************)
LEMMA SportsStepKeeps ==
    TablesOK /\ [SportsNext]_sportsVars => TablesOK' /\ Forward
<1> SUFFICES ASSUME TablesOK, [SportsNext]_sportsVars
             PROVE  TablesOK' /\ Forward
  OBVIOUS
<1>1. CASE SyncGame
  BY <1>1, UpsertSourceKeeps DEF SyncGame, SyncStatuses
<1>2. ASSUME NEW g \in Games, UpsertSource(g, "closed")
      PROVE  TablesOK' /\ Forward
  BY <1>2, UpsertSourceKeeps DEF SyncStatuses
<1>3. ASSUME NEW g \in Games, NEW o \in Outcomes, ResolveRow(g, "closed", o, "polymarket")
      PROVE  TablesOK' /\ Forward
  <2>1. g \in Events
    BY SportsServiceAssumption, EventStoreAssumption
  <2>2. QED
    BY <1>3, <2>1, ResolveRowKeeps
<1>4. CASE UNCHANGED tables
  BY <1>4, QuietTables
<1>5. CASE EventChanges
  BY <1>2, <1>3, <1>5 DEF EventChanges
<1>6. CASE \/ FetchGames \/ UpsertGame \/ deleteCachedDetail \/ invalidateLists
           \/ GameSyncFails \/ ExpireScores \/ SourceChanges \/ UNCHANGED sportsVars
           \/ \E g \in Games : ExpireGame(g)
  BY <1>4, <1>6 DEF FetchGames, UpsertGame, deleteCachedDetail, invalidateLists,
        GameSyncFails, ExpireScores, SourceChanges, sportsVars, ExpireGame
<1>7. ASSUME NEW r \in Readers,
             \/ \E g \in Games : GetGame(r, g)
             \/ ListGames(r)
             \/ ReaderStep(r)
      PROVE  UNCHANGED tables
  BY <1>7 DEF GetGame, ListGames, ReaderStep, LoadGame, loadTeams,
        putCachedDetail, CountGames, SelectGames, FillTeams, putCachedList
<1>8. QED
  BY <1>1, <1>4, <1>5, <1>6, <1>7 DEF SportsNext, SyncGamesStep

\* Synchronizing games neither resolves an event twice ...
THEOREM ResolvedOnceBySports == SportsSpec => []ResolvedOnce
<1>1. TablesOK => ResolvedOnce
  BY DEF TablesOK
<1>2. QED
  BY <1>1, TablesInit, SportsStepKeeps, PTL DEF SportsSpec

\* ... nor reopens one.
THEOREM SportsNeverReopen == SportsSpec => ClosedNeverReopens
BY TablesInit, SportsStepKeeps, PTL DEF SportsSpec, ClosedNeverReopens, Forward

-----------------------------------------------------------------------------
(***************************************************************************)
(* The synchronization with Polymarket.  A run carries verdicts of pages   *)
(* it fetched earlier; a verdict names an outcome that some market of the  *)
(* event was priced out for, and such a market's prices never move again.  *)
(***************************************************************************)
SourceTypeOK == source \in [Polymarket -> SourceRecords]

PricedFor(e, o) == \E m \in SourceMarkets : source[e].prices[m] = Final(o)

\* What a run may carry: every outcome of a verdict has its market.
Items == [event : Polymarket, status : SyncStatuses, verdict : SUBSET Outcomes]

Supported(item) == \A o \in item.verdict : PricedFor(item.event, o)

RunRecords ==
    [at : {"idle", "fetch", "items", "read", "resolve"},
     closed : BOOLEAN,
     page : Nat,
     attempt : Nat,
     todo : SUBSET Items,
     item : Items \cup {NoItem}]

RunOK(run) ==
    /\ run \in RunRecords
    /\ run.at \in {"read", "resolve"} => run.item \in Items
    /\ \A item \in run.todo : Supported(item)
    /\ run.item \in Items => Supported(run.item)

AuditsOK == \A a \in audits : a.by = "polymarket"
                => /\ a.event \in Polymarket /\ a.outcome \in Outcomes
                   /\ PricedFor(a.event, a.outcome)

SyncInv == /\ TablesOK
           /\ SourceTypeOK
           /\ sync \in [Replicas -> RunRecords]
           /\ \A r \in Replicas : RunOK(sync[r])
           /\ AuditsOK

\* A decided market names the outcome it was priced out for.
LEMMA DecidedIsFinal ==
    ASSUME NEW price \in Prices, NEW o \in resolvedMarketOutcome(price)
    PROVE  o \in Outcomes /\ price = Final(o)
<1>1. /\ o \in Outcomes /\ price[o] = 1
      /\ \A other \in Outcomes \ {o} : price[other] = 0
  BY DEF resolvedMarketOutcome
<1>2. \A p \in Outcomes : price[p] = Final(o)[p]
  BY <1>1 DEF Final
<1>3. QED
  BY <1>1, <1>2 DEF Prices, Final

LEMMA VerdictIsSupported ==
    ASSUME SourceTypeOK, NEW e \in Polymarket
    PROVE  /\ normalizeSourceEvent(e) \in Items
           /\ Supported(normalizeSourceEvent(e))
<1> DEFINE prices == source[e].prices
           item == normalizeSourceEvent(e)
<1>1. prices \in [SourceMarkets -> Prices]
  BY DEF SourceTypeOK, SourceRecords
<1>2. ASSUME NEW o \in resolvedOutcome(prices)
      PROVE  o \in Outcomes /\ PricedFor(e, o)
  <2>1. PICK m \in SourceMarkets : o \in resolvedMarketOutcome(prices[m])
    BY <1>2 DEF resolvedOutcome
  <2>2. QED
    BY <1>1, <2>1, DecidedIsFinal DEF PricedFor
<1>3. /\ item.event = e
      /\ item.status \in SyncStatuses
      /\ item.verdict = resolvedOutcome(prices)
  BY DEF normalizeSourceEvent, SyncStatuses
<1>4. item \in Items
  <2>1. resolvedOutcome(prices) \in SUBSET Outcomes
    BY <1>2
  <2>2. QED
    BY <2>1 DEF normalizeSourceEvent, Items, SyncStatuses
<1>5. QED
  BY <1>2, <1>3, <1>4 DEF Supported

LEMMA NoRunIsOK == RunOK(NoRun) /\ [NoRun EXCEPT !.at = "fetch"] \in RunRecords
<1>1. NoRun \in RunRecords
  BY DEF NoRun, RunRecords
<1>2. NoRun.at = "idle" /\ NoRun.todo = {} /\ NoRun.item.verdict = {}
  BY DEF NoRun, NoItem
<1>3. QED
  BY <1>1, <1>2 DEF RunOK, Supported, RunRecords

LEMMA SyncInvInit == NoEvents /\ SyncInit => SyncInv
<1> SUFFICES ASSUME NoEvents, SyncInit PROVE SyncInv
  OBVIOUS
<1>1. TablesOK
  BY TablesInit
<1>2. SourceTypeOK
  BY DEF SyncInit, SourceTypeOK
<1>3. \A r \in Replicas : sync[r] = NoRun
  BY DEF SyncInit
<1>4. sync \in [Replicas -> RunRecords]
  BY NoRunIsOK DEF SyncInit, RunOK
<1>5. AuditsOK
  BY DEF NoEvents, AuditsOK
<1>6. QED
  BY <1>1, <1>2, <1>3, <1>4, <1>5, NoRunIsOK DEF SyncInv

\* A run goes on while the source stays as it is.
LEMMA RunGoesOn ==
    ASSUME SyncInv, NEW r \in Replicas, NEW run, RunOK(run), Becomes(r, run),
           TablesOK', UNCHANGED source, AuditsOK'
    PROVE  SyncInv'
<1>1. \A s \in Replicas : sync'[s] = IF s = r THEN run ELSE sync[s]
  BY DEF Becomes, SyncInv
<1>2. sync' \in [Replicas -> RunRecords]
  BY DEF Becomes, SyncInv, RunOK
<1>3. ASSUME NEW s \in Replicas
      PROVE  RunOK(sync[s])'
  <2>1. RunOK(sync'[s])
    BY <1>1 DEF SyncInv
  <2>2. QED
    BY <2>1 DEF RunOK, Supported, PricedFor
<1>4. SourceTypeOK'
  BY DEF SyncInv, SourceTypeOK
<1>5. QED
  BY <1>2, <1>3, <1>4 DEF SyncInv

\* A market that is priced out stays so.
LEMMA PricesAreFinal ==
    ASSUME SourceTypeOK, SourceMoves
    PROVE  /\ SourceTypeOK'
           /\ \A e \in Polymarket : \A o \in Outcomes : PricedFor(e, o) => PricedFor(e, o)'
<1>1. CASE \E e \in Polymarket :
             source' = [source EXCEPT ![e].closed = TRUE, ![e].active = FALSE]
  <2>1. PICK e \in Polymarket :
             source' = [source EXCEPT ![e].closed = TRUE, ![e].active = FALSE]
    BY <1>1
  <2>2. ASSUME NEW x \in Polymarket
        PROVE  source'[x] \in SourceRecords /\ source'[x].prices = source[x].prices
    <3>1. source[x] \in SourceRecords
      BY DEF SourceTypeOK
    <3>2. source'[x] = IF x = e THEN [[source[x] EXCEPT !.closed = TRUE] EXCEPT !.active = FALSE]
                       ELSE source[x]
      BY <2>1 DEF SourceTypeOK
    <3>3. QED
      BY <3>1, <3>2 DEF SourceRecords
  <2>3. QED
    BY <2>1, <2>2 DEF SourceTypeOK, PricedFor
<1>2. ASSUME NEW e \in Polymarket, NEW m \in SourceMarkets, NEW price \in Prices,
             ~PricedOut(e, m), source' = [source EXCEPT ![e].prices[m] = price]
      PROVE  /\ SourceTypeOK'
             /\ \A x \in Polymarket : \A o \in Outcomes : PricedFor(x, o) => PricedFor(x, o)'
  <2>1. ASSUME NEW x \in Polymarket
        PROVE  /\ source'[x] \in SourceRecords
               /\ \A n \in SourceMarkets :
                     source'[x].prices[n] = IF x = e /\ n = m THEN price ELSE source[x].prices[n]
    <3>1. source[x] \in SourceRecords
      BY DEF SourceTypeOK
    <3>2. source'[x] = IF x = e THEN [source[x] EXCEPT !.prices = [@ EXCEPT ![m] = price]]
                       ELSE source[x]
      BY <1>2 DEF SourceTypeOK
    <3>3. QED
      BY <3>1, <3>2 DEF SourceRecords
  <2>2. SourceTypeOK'
    BY <1>2, <2>1 DEF SourceTypeOK
  <2>3. ASSUME NEW x \in Polymarket, NEW o \in Outcomes, PricedFor(x, o)
        PROVE  PricedFor(x, o)'
    <3>1. PICK n \in SourceMarkets : source[x].prices[n] = Final(o)
      BY <2>3 DEF PricedFor
    <3>2. ~ (x = e /\ n = m)
      BY <1>2, <3>1 DEF PricedOut
    <3>3. source'[x].prices[n] = Final(o)
      BY <2>1, <3>1, <3>2
    <3>4. QED
      BY <3>3 DEF PricedFor
  <2>4. QED
    BY <2>2, <2>3
<1>3. \A o \in Outcomes : Final(o) \in Prices /\ Leading(o) \in Prices
  BY DEF Final, Leading, Prices
<1>4. QED
  BY <1>1, <1>2, <1>3 DEF SourceMoves

\* What concerns neither the source nor the resolutions of the job.
LEMMA SyncQuiet ==
    ASSUME SyncInv, UNCHANGED <<tables, source>>,
           \/ UNCHANGED sync
           \/ \E r \in Replicas : \E run : RunOK(run) /\ Becomes(r, run)
    PROVE  SyncInv' /\ Forward
<1>1. TablesOK' /\ Forward
  BY QuietTables DEF SyncInv
<1>2. AuditsOK'
  BY DEF SyncInv, AuditsOK, PricedFor, tables
<1>3. CASE UNCHANGED sync
  BY <1>1, <1>2, <1>3 DEF SyncInv, SourceTypeOK, RunOK, Supported, PricedFor
<1>4. CASE \E r \in Replicas : \E run : RunOK(run) /\ Becomes(r, run)
  BY <1>1, <1>2, <1>4, RunGoesOn
<1>5. QED
  BY <1>1, <1>3, <1>4

LEMMA RunFacts ==
    ASSUME SyncInv, NEW r \in Replicas
    PROVE  /\ RunOK(sync[r])
           /\ sync[r] \in RunRecords
BY DEF SyncInv

\* The next page, or the end.
LEMMA NextPageKeeps ==
    ASSUME SyncInv, NEW r \in Replicas, PageDone(r)
    PROVE  SyncInv' /\ Forward
<1> DEFINE run == sync[r]
           next == [run EXCEPT !.page = @ + 1, !.attempt = 0, !.at = "fetch"]
           closing == [NoRun EXCEPT !.at = "fetch", !.closed = TRUE]
<1>1. run \in RunRecords /\ RunOK(run)
  BY RunFacts
<1>2. RunOK(next)
  <2>1. next \in RunRecords
    <3>1. run.page + 1 \in Nat
      BY <1>1 DEF RunRecords
    <3>2. ASSUME NEW n \in Nat
          PROVE  [run EXCEPT !.page = n, !.attempt = 0, !.at = "fetch"] \in RunRecords
      BY <1>1 DEF RunRecords
    <3>3. QED
      BY <3>1, <3>2
  <2>2. next.at = "fetch" /\ next.todo = run.todo /\ next.item = run.item
    BY <1>1 DEF RunRecords
  <2>3. QED
    BY <1>1, <2>1, <2>2 DEF RunOK
<1>3. RunOK(closing)
  <2>1. closing \in RunRecords
    BY NoRunIsOK DEF RunOK, RunRecords
  <2>2. closing.at = "fetch" /\ closing.todo = {} /\ closing.item = NoItem
    BY DEF NoRun
  <2>3. NoItem.verdict = {}
    BY DEF NoItem
  <2>4. QED
    BY <2>1, <2>2, <2>3 DEF RunOK, Supported
<1>4. \E after : RunOK(after) /\ Becomes(r, after)
  BY <1>2, <1>3, NoRunIsOK DEF PageDone, NextPage, Ends
<1>5. QED
  BY <1>4, SyncQuiet DEF PageDone

LEMMA FetchPageKeeps ==
    ASSUME SyncInv, NEW r \in Replicas, FetchPage(r)
    PROVE  SyncInv' /\ Forward
<1>1. sync[r] \in RunRecords /\ RunOK(sync[r])
  BY RunFacts
<1>2. PICK items \in ListEvents(sync[r].closed, sync[r].page) :
        Becomes(r, [sync[r] EXCEPT !.at = "items", !.attempt = 0,
                        !.todo = {normalizeSourceEvent(e) : e \in items},
                        !.page = IF Cardinality(items) < PageSize
                                 THEN MaxSyncPages - 1 ELSE @])
  BY DEF FetchPage
<1> DEFINE todo == {normalizeSourceEvent(e) : e \in items}
           page == IF Cardinality(items) < PageSize THEN MaxSyncPages - 1 ELSE sync[r].page
<1>3. todo \in SUBSET Items /\ \A item \in todo : Supported(item)
  <2>1. items \subseteq Polymarket
    BY DEF ListEvents, Matching
  <2>2. QED
    BY <2>1, VerdictIsSupported DEF SyncInv
<1>4. page \in Nat
  BY <1>1, EventSyncAssumption DEF RunRecords
<1> HIDE DEF todo, page
<1> DEFINE run == [sync[r] EXCEPT !.at = "items", !.attempt = 0, !.todo = todo, !.page = page]
<1>5. Becomes(r, run)
  BY <1>2 DEF todo, page
<1>6. run \in RunRecords
  BY <1>1, <1>3, <1>4 DEF RunRecords
<1>7. run.at = "items" /\ run.todo = todo /\ run.item = sync[r].item
  BY <1>1 DEF RunRecords
<1>8. RunOK(run)
  BY <1>1, <1>3, <1>6, <1>7 DEF RunOK
<1>9. QED
  BY <1>5, <1>8, SyncQuiet DEF FetchPage

LEMMA SyncItemKeeps ==
    ASSUME SyncInv, NEW r \in Replicas, SyncItem(r)
    PROVE  SyncInv' /\ Forward
<1>1. sync[r] \in RunRecords /\ RunOK(sync[r])
  BY RunFacts
<1>2. PICK next \in sync[r].todo :
        /\ UpsertSource(next.event, next.status)
        /\ Becomes(r, IF sync[r].closed /\ next.verdict # {}
                      THEN [Without(sync[r], next) EXCEPT !.at = "read",
                                                          !.item = next]
                      ELSE Without(sync[r], next))
  BY DEF SyncItem
<1>3. next \in Items /\ Supported(next)
  BY <1>1 DEF RunOK, RunRecords
<1>4. TablesOK' /\ Forward
  BY <1>2, <1>3, UpsertSourceKeeps DEF SyncInv, Items
<1>5. AuditsOK'
  <2>1. UNCHANGED <<audits, source>>
    BY <1>2 DEF UpsertSource, SyncItem
  <2>2. QED
    BY <2>1 DEF AuditsOK, PricedFor, SyncInv
<1> DEFINE plain == Without(sync[r], next)
           reading == [Without(sync[r], next) EXCEPT !.at = "read", !.item = next]
<1>6. RunOK(plain)
  <2>1. plain \in RunRecords
    BY <1>1 DEF RunRecords, Without
  <2>2. plain.at = sync[r].at /\ plain.todo \subseteq sync[r].todo /\ plain.item = sync[r].item
    BY <1>1 DEF RunRecords, Without
  <2>3. QED
    BY <1>1, <2>1, <2>2 DEF RunOK
<1>7. RunOK(reading)
  <2>1. plain \in RunRecords
    BY <1>6 DEF RunOK
  <2>2. reading \in RunRecords
    BY <1>3, <2>1 DEF RunRecords
  <2>3. reading.at = "read" /\ reading.todo = plain.todo /\ reading.item = next
    BY <2>1 DEF RunRecords
  <2>4. QED
    BY <1>3, <1>6, <2>2, <2>3 DEF RunOK
<1>8. QED
  BY <1>2, <1>4, <1>5, <1>6, <1>7, RunGoesOn DEF SyncItem

LEMMA ResumedIsOK ==
    ASSUME NEW run, RunOK(run)
    PROVE  RunOK(Resumed(run))
<1>1. run \in RunRecords
  BY DEF RunOK
<1>2. Resumed(run) \in RunRecords
  BY <1>1 DEF RunRecords, Resumed
<1>3. Resumed(run).at = "items" /\ Resumed(run).todo = run.todo /\ Resumed(run).item = NoItem
  BY <1>1 DEF RunRecords, Resumed
<1>4. NoItem.verdict = {}
  BY DEF NoItem
<1>5. QED
  BY <1>2, <1>3, <1>4 DEF RunOK, Supported

LEMMA ReadForResolutionKeeps ==
    ASSUME SyncInv, NEW r \in Replicas, ReadForResolution(r)
    PROVE  SyncInv' /\ Forward
<1> DEFINE deciding == [sync[r] EXCEPT !.at = "resolve"]
<1>1. sync[r] \in RunRecords /\ RunOK(sync[r])
  BY RunFacts
<1>2. RunOK(deciding)
  <2>1. deciding \in RunRecords
    BY <1>1 DEF RunRecords
  <2>2. deciding.todo = sync[r].todo /\ deciding.item = sync[r].item
    BY <1>1 DEF RunRecords
  <2>3. QED
    BY <1>1, <2>1, <2>2 DEF RunOK, ReadForResolution
<1>3. \E run : RunOK(run) /\ Becomes(r, run)
  BY <1>1, <1>2, ResumedIsOK, NoRunIsOK DEF ReadForResolution
<1>4. QED
  BY <1>3, SyncQuiet DEF ReadForResolution

\* The outcome that is recorded comes from the verdict.
LEMMA ResolveItemKeeps ==
    ASSUME SyncInv, NEW r \in Replicas, ResolveItem(r)
    PROVE  SyncInv' /\ Forward
<1> DEFINE item == sync[r].item
<1>1. sync[r] \in RunRecords /\ RunOK(sync[r]) /\ item \in Items
  BY RunFacts DEF ResolveItem, RunOK
<1>2. ASSUME NEW o \in item.verdict, ResolveRow(item.event, "closed", o, "polymarket"),
             Becomes(r, Resumed(sync[r]))
      PROVE  SyncInv' /\ Forward
  <2>1. /\ item.event \in Polymarket /\ item.event \in Events /\ o \in Outcomes
        /\ PricedFor(item.event, o)
    BY <1>1, EventStoreAssumption DEF Items, RunOK, Supported
  <2>2. TablesOK' /\ Forward
    BY <1>2, <2>1, ResolveRowKeeps DEF SyncInv
  <2>3. AuditsOK'
    <3>1. audits' = audits \cup {[event |-> item.event, outcome |-> o, by |-> "polymarket"]}
      BY <1>2 DEF ResolveRow, Resolved
    <3>2. UNCHANGED source
      BY DEF ResolveItem
    <3>3. QED
      BY <2>1, <3>1, <3>2 DEF AuditsOK, PricedFor, SyncInv
  <2>4. RunOK(Resumed(sync[r])) /\ UNCHANGED source
    BY <1>1, ResumedIsOK DEF ResolveItem
  <2>5. QED
    BY <1>2, <2>2, <2>3, <2>4, RunGoesOn
<1>3. CASE Ends(r) /\ UNCHANGED tables
  BY <1>3, SyncQuiet, NoRunIsOK DEF ResolveItem, Ends
<1>4. QED
  BY <1>2, <1>3 DEF ResolveItem

LEMMA AdministratorKeeps ==
    ASSUME SyncInv, Administrator
    PROVE  SyncInv' /\ Forward
<1>1. ASSUME TablesOK', AuditsOK'
      PROVE  SyncInv'
  BY <1>1 DEF Administrator, syncing, SyncInv, SourceTypeOK, RunOK, Supported, PricedFor
<1>2. ASSUME NEW e \in Polymarket, NEW to \in Statuses,
             canTransition(events[e].status, to), SetStatus(e, events[e].status, to)
      PROVE  SyncInv' /\ Forward
  <2>1. TablesOK' /\ Forward
    BY <1>2, SetStatusKeeps, EventStoreAssumption DEF SyncInv
  <2>2. AuditsOK'
    BY <1>2 DEF SetStatus, Administrator, syncing, AuditsOK, PricedFor, SyncInv
  <2>3. QED
    BY <1>1, <2>1, <2>2
<1>3. ASSUME NEW e \in Polymarket, NEW o \in Outcomes, ResolveRow(e, "closed", o, "manual")
      PROVE  SyncInv' /\ Forward
  <2>1. TablesOK' /\ Forward
    BY <1>3, ResolveRowKeeps, EventStoreAssumption DEF SyncInv
  <2>2. AuditsOK'
    <3>1. audits' = audits \cup {[event |-> e, outcome |-> o, by |-> "manual"]}
      BY <1>3 DEF ResolveRow, Resolved
    <3>2. QED
      BY <3>1 DEF Administrator, syncing, AuditsOK, PricedFor, SyncInv
  <2>3. QED
    BY <1>1, <2>1, <2>2
<1>4. QED
  BY <1>2, <1>3 DEF Administrator

LEMMA SourceMovesKeeps ==
    ASSUME SyncInv, SourceMoves
    PROVE  SyncInv' /\ Forward
<1>1. /\ SourceTypeOK'
      /\ \A e \in Polymarket : \A o \in Outcomes : PricedFor(e, o) => PricedFor(e, o)'
  BY PricesAreFinal DEF SyncInv
<1>2. UNCHANGED <<tables, sync>>
  BY DEF SourceMoves
<1>3. TablesOK' /\ Forward
  BY <1>2, QuietTables DEF SyncInv
<1>4. ASSUME NEW item \in Items, Supported(item)
      PROVE  Supported(item)'
  BY <1>1, <1>4 DEF Supported, Items
<1>5. ASSUME NEW r \in Replicas
      PROVE  RunOK(sync[r])'
  <2>1. RunOK(sync[r]) /\ sync'[r] = sync[r]
    BY <1>2 DEF SyncInv
  <2>2. sync[r].todo \subseteq Items
    BY <2>1 DEF RunOK, RunRecords
  <2>3. QED
    BY <1>4, <2>1, <2>2 DEF RunOK
<1>6. AuditsOK'
  <2>1. ASSUME NEW a \in audits, a.by = "polymarket"
        PROVE  /\ a.event \in Polymarket /\ a.outcome \in Outcomes
               /\ PricedFor(a.event, a.outcome)'
    <3>1. /\ a.event \in Polymarket /\ a.outcome \in Outcomes
          /\ PricedFor(a.event, a.outcome)
      BY <2>1 DEF SyncInv, AuditsOK
    <3>2. QED
      BY <1>1, <3>1
  <2>2. QED
    BY <1>2, <2>1 DEF AuditsOK, tables
<1>7. QED
  BY <1>1, <1>2, <1>3, <1>5, <1>6 DEF SyncInv

LEMMA SyncStepKeeps ==
    SyncInv /\ [SyncNext]_syncVars => SyncInv' /\ Forward
<1> SUFFICES ASSUME SyncInv, [SyncNext]_syncVars
             PROVE  SyncInv' /\ Forward
  OBVIOUS
<1>1. ASSUME NEW r \in Replicas, SyncStep(r)
      PROVE  SyncInv' /\ Forward
  BY <1>1, FetchPageKeeps, SyncItemKeeps, NextPageKeeps, ReadForResolutionKeeps,
     ResolveItemKeeps DEF SyncStep
<1>2. ASSUME NEW r \in Replicas, Tick(r)
      PROVE  SyncInv' /\ Forward
  <2> DEFINE run == [NoRun EXCEPT !.at = "fetch"]
  <2>1. run.at = "fetch" /\ run.todo = {} /\ run.item.verdict = {}
    BY DEF NoRun, NoItem
  <2>2. RunOK(run)
    BY <2>1, NoRunIsOK DEF RunOK, Supported
  <2>3. QED
    BY <1>2, <2>2, SyncQuiet DEF Tick
<1>3. ASSUME NEW r \in Replicas, getJSON(r)
      PROVE  SyncInv' /\ Forward
  <2> DEFINE run == [sync[r] EXCEPT !.attempt = @ + 1]
  <2>1. sync[r] \in RunRecords /\ RunOK(sync[r])
    BY RunFacts
  <2>2. RunOK(run)
    <3>1. run \in RunRecords
      BY <2>1 DEF RunRecords
    <3>2. run.at = sync[r].at /\ run.todo = sync[r].todo /\ run.item = sync[r].item
      BY <2>1 DEF RunRecords
    <3>3. QED
      BY <2>1, <3>1, <3>2 DEF RunOK
  <2>3. QED
    BY <1>3, <2>2, SyncQuiet, NoRunIsOK DEF getJSON, Ends
<1>4. ASSUME NEW r \in Replicas, SyncFails(r)
      PROVE  SyncInv' /\ Forward
  BY <1>4, SyncQuiet, NoRunIsOK DEF SyncFails, Ends
<1>5. CASE LeaseExpires \/ UNCHANGED syncVars
  BY <1>5, SyncQuiet DEF LeaseExpires, syncVars, syncing
<1>6. CASE SourceMoves
  BY <1>6, SourceMovesKeeps
<1>7. CASE Administrator
  BY <1>7, AdministratorKeeps
<1>8. QED
  BY <1>1, <1>2, <1>3, <1>4, <1>5, <1>6, <1>7 DEF SyncNext

\* Runs of any number of replicas, by pages as old as they may be: an outcome
\* the job records is one a market of the source was priced out for.
THEOREM ResolvedByFinal == SyncSpec => []ResolvedByFinalPrice
<1>1. SyncInv => ResolvedByFinalPrice
  BY DEF SyncInv, AuditsOK, PricedFor, ResolvedByFinalPrice
<1>2. QED
  BY <1>1, SyncInvInit, SyncStepKeeps, PTL DEF SyncSpec

\* Runs and administrators may both have read an event closed: one resolution.
THEOREM ResolvedOnceBySync == SyncSpec => []ResolvedOnce
<1>1. SyncInv => ResolvedOnce
  BY DEF SyncInv, TablesOK
<1>2. QED
  BY <1>1, SyncInvInit, SyncStepKeeps, PTL DEF SyncSpec

\* A page that lists an event as open, however old, does not reopen it.
THEOREM SyncNeverReopens == SyncSpec => ClosedNeverReopens
BY SyncInvInit, SyncStepKeeps, PTL DEF SyncSpec, ClosedNeverReopens, Forward

-----------------------------------------------------------------------------
(***************************************************************************)
(* Markets and their settlement.  A market that a call is about to insert  *)
(* has no row and no second call inserts it; a write that moves a market   *)
(* or lends to it compares a status that is not "settled"; and a market    *)
(* that is due is settled, still on the list of the running visit, or the  *)
(* visit has passed one over.                                              *)
(***************************************************************************)
MarketStatuses == OpenStatuses \cup {"settled"}

MarketRecords == [status : MarketStatuses \cup {"none"}, pool : Nat,
                  options : SUBSET Outcomes]

MerchantRecords == [status : {"none", "active", "inactive"}, currency : Currencies]

CallRecords ==
    [at : {"idle", "get", "write", "insert", "move", "lend"},
     on : Markets \cup Merchants \cup {NoMarket},
     to : OpenStatuses \cup {"none"},
     seen : OpenStatuses \cup {"none"},
     row : MerchantRecords]

PassRecords == [state : {"none", "running", "failed", "done"},
                todo : SUBSET Markets, skipped : BOOLEAN]

MarketTypeOK ==
    /\ merchants \in [Merchants -> MerchantRecords]
    /\ markets \in [Markets -> MarketRecords]
    /\ calls \in [Calls -> CallRecords]
    /\ passes \in [Events -> PassRecords]
    /\ timely \in SUBSET Markets

MarketCallOK(call) ==
    /\ call.at \in {"get", "write"} => call.on \in Merchants
    /\ call.at = "insert" => call.on \in Markets /\ markets[call.on] = NoMarketRow
    /\ call.at = "move" => /\ call.on \in Markets
                           /\ call.to \in OpenStatuses
                           /\ call.seen \in OpenStatuses
    /\ call.at = "lend" => call.on \in Markets /\ call.seen = "active"

CallsOK ==
    /\ \A c \in Calls : MarketCallOK(calls[c])
    /\ \A c, d \in Calls :
          c # d /\ calls[c].at = "insert" /\ calls[d].at = "insert"
            => calls[c].on # calls[d].on

PassOK(e) ==
    /\ passes[e].state # "none" => events[e].status = "resolved"
    /\ passes[e].state # "running" => passes[e].todo = {}
    /\ \A m \in passes[e].todo : EventOf[m] = e /\ markets[m].status \in MarketStatuses

TimelyOK(m) ==
    /\ markets[m].status \in MarketStatuses
    /\ passes[EventOf[m]].state = "running"
        => \/ m \in passes[EventOf[m]].todo \/ passes[EventOf[m]].skipped
           \/ markets[m].status = "settled"
    /\ passes[EventOf[m]].state = "done" => markets[m].status = "settled"

SettlementOK == /\ \A e \in Events : PassOK(e)
                /\ \A m \in timely : TimelyOK(m)

MarketInv == TablesOK /\ MarketTypeOK /\ CallsOK /\ SettlementOK

\* What a step may not do to a settled market.
SettledStay ==
    \A m \in Markets : markets[m].status = "settled" => markets'[m] = markets[m]

MarketStep == MarketInv' /\ Forward /\ SettledStay

LEMMA NoCallIsOK == NoCall \in CallRecords /\ NoCall.at = "idle"
BY DEF NoCall, CallRecords, MerchantRecords, NoMerchant, Currencies

LEMMA MarketInvInit == NoEvents /\ MarketInit => MarketInv
<1> SUFFICES ASSUME NoEvents, MarketInit PROVE MarketInv
  OBVIOUS
<1>1. TablesOK
  BY TablesInit
<1>2. MarketTypeOK
  <2>1. NoMerchant \in MerchantRecords /\ NoMarketRow \in MarketRecords
        /\ NotStarted \in PassRecords
    BY DEF NoMerchant, MerchantRecords, Currencies, NoMarketRow, MarketRecords,
           NotStarted, PassRecords
  <2>2. QED
    BY <2>1, NoCallIsOK DEF MarketInit, MerchantsInit, MarketTypeOK
<1>3. CallsOK
  BY NoCallIsOK DEF MarketInit, CallsOK, MarketCallOK
<1>4. SettlementOK
  BY DEF MarketInit, SettlementOK, PassOK, NotStarted
<1>5. QED
  BY <1>1, <1>2, <1>3, <1>4 DEF MarketInv

\* A call opens, goes on or ends.
LEMMA MarketCallGoesOn ==
    ASSUME MarketInv, NEW c \in Calls, NEW call \in CallRecords,
           Continues(c, call), MarketCallOK(call)',
           call.at = "insert" => \A d \in Calls : calls[d].on # call.on,
           \A d \in Calls : d # c /\ calls[d].at = "insert"
               => markets'[calls[d].on] = markets[calls[d].on]
    PROVE  CallsOK' /\ calls' \in [Calls -> CallRecords]
<1>1. /\ calls' \in [Calls -> CallRecords]
      /\ \A d \in Calls : calls'[d] = IF d = c THEN call ELSE calls[d]
  BY DEF Continues, MarketInv, MarketTypeOK
<1>2. ASSUME NEW d \in Calls
      PROVE  MarketCallOK(calls[d])'
  <2>1. CASE d = c
    BY <1>1, <2>1 DEF MarketCallOK
  <2>2. CASE d # c
    <3>1. MarketCallOK(calls[d]) /\ calls'[d] = calls[d]
      BY <1>1, <2>2 DEF MarketInv, CallsOK
    <3>2. QED
      BY <2>2, <3>1 DEF MarketCallOK
  <2>3. QED
    BY <2>1, <2>2
<1>3. ASSUME NEW d \in Calls, NEW f \in Calls, d # f,
             calls'[d].at = "insert", calls'[f].at = "insert"
      PROVE  calls'[d].on # calls'[f].on
  BY <1>1, <1>3 DEF MarketInv, CallsOK
<1>4. QED
  BY <1>1, <1>2, <1>3 DEF CallsOK

LEMMA MarketCallEnds ==
    ASSUME MarketInv, NEW c \in Calls, Answers(c),
           \A d \in Calls : d # c /\ calls[d].at = "insert"
               => markets'[calls[d].on] = markets[calls[d].on]
    PROVE  CallsOK' /\ calls' \in [Calls -> CallRecords]
<1>1. MarketCallOK(NoCall)'
  BY NoCallIsOK DEF MarketCallOK
<1>2. QED
  BY <1>1, NoCallIsOK, MarketCallGoesOn DEF Answers

\* Merchants: markets and settlement do not notice.
LEMMA MerchantStepKeeps ==
    ASSUME MarketInv, UNCHANGED <<tables, markets, passes, timely>>,
           merchants' \in [Merchants -> MerchantRecords],
           calls' \in [Calls -> CallRecords], CallsOK'
    PROVE  MarketStep
<1>1. TablesOK' /\ Forward
  BY QuietTables DEF MarketInv
<1>2. MarketTypeOK'
  BY DEF MarketInv, MarketTypeOK
<1>3. SettlementOK'
  BY DEF MarketInv, SettlementOK, PassOK, TimelyOK, tables
<1>4. SettledStay
  BY DEF SettledStay
<1>5. QED
  BY <1>1, <1>2, <1>3, <1>4 DEF MarketStep, MarketInv

LEMMA MarketCallFacts ==
    ASSUME MarketInv, NEW c \in Calls
    PROVE  calls[c] \in CallRecords /\ MarketCallOK(calls[c])
BY DEF MarketInv, MarketTypeOK, CallsOK

LEMMA MerchantCallsKeep ==
    ASSUME MarketInv,
           \/ \E c \in Calls : MerchantCall(c) \/ ReadMerchant(c) \/ WriteMerchant(c)
           \/ \E a \in Merchants : Deactivate(a)
    PROVE  MarketStep
<1>0. /\ merchants \in [Merchants -> MerchantRecords]
      /\ calls \in [Calls -> CallRecords]
      /\ CallsOK
  BY DEF MarketInv, MarketTypeOK
<1>1. ASSUME NEW c \in Calls, NEW a \in Merchants, Register(c, a)
      PROVE  MarketStep
  <2>1. merchants' \in [Merchants -> MerchantRecords]
    BY <1>0, <1>1 DEF Register, InsertMerchant, validateRegisterRequest, MerchantRecords
  <2>2. CallsOK'
    BY <1>0, <1>1 DEF Register, CallsOK, MarketCallOK
  <2>3. QED
    BY <1>0, <1>1, <2>1, <2>2, MerchantStepKeeps DEF Register
<1>2. ASSUME NEW c \in Calls, NEW call \in CallRecords, call.at \in {"get", "write"},
             call.on \in Merchants, Continues(c, call),
             UNCHANGED <<tables, merchants, markets, passes, timely>>
      PROVE  MarketStep
  <2>1. MarketCallOK(call)'
    BY <1>2 DEF MarketCallOK
  <2>2. CallsOK' /\ calls' \in [Calls -> CallRecords]
    BY <1>2, <2>1, MarketCallGoesOn
  <2>3. QED
    BY <1>0, <1>2, <2>2, MerchantStepKeeps
<1>3. ASSUME NEW c \in Calls, NEW a \in Merchants, UpdateMerchant(c, a)
      PROVE  MarketStep
  <2> DEFINE call == [NoCall EXCEPT !.at = "get", !.on = a]
  <2>1. call \in CallRecords
    BY NoCallIsOK DEF CallRecords
  <2>2. call.at = "get" /\ call.on = a
    BY DEF NoCall
  <2>3. QED
    BY <1>2, <1>3, <2>1, <2>2 DEF UpdateMerchant
<1>4. ASSUME NEW c \in Calls, ReadMerchant(c)
      PROVE  MarketStep
  <2>1. calls[c] \in CallRecords /\ calls[c].on \in Merchants
    BY <1>4, MarketCallFacts DEF ReadMerchant, MarketCallOK
  <2>2. PICK row \in applyUpdate(merchants[calls[c].on]) :
           Continues(c, [calls[c] EXCEPT !.at = "write", !.row = row])
    BY <1>4 DEF ReadMerchant
  <2>3. row \in MerchantRecords
    BY <1>0, <2>1, <2>2 DEF applyUpdate, MerchantRecords
  <2> DEFINE call == [calls[c] EXCEPT !.at = "write", !.row = row]
  <2>4. call \in CallRecords
    BY <2>1, <2>3 DEF CallRecords
  <2>5. call.at = "write" /\ call.on \in Merchants
    BY <2>1 DEF CallRecords
  <2>6. QED
    BY <1>2, <1>4, <2>2, <2>4, <2>5 DEF ReadMerchant
<1>5. ASSUME NEW c \in Calls, WriteMerchant(c)
      PROVE  MarketStep
  <2>1. calls[c] \in CallRecords /\ calls[c].on \in Merchants
    BY <1>5, MarketCallFacts DEF WriteMerchant, MarketCallOK
  <2>2. merchants' \in [Merchants -> MerchantRecords]
    BY <1>0, <1>5, <2>1 DEF WriteMerchant, CallRecords
  <2>3. CallsOK' /\ calls' \in [Calls -> CallRecords]
    BY <1>5, MarketCallEnds DEF WriteMerchant
  <2>4. QED
    BY <1>5, <2>2, <2>3, MerchantStepKeeps DEF WriteMerchant
<1>6. ASSUME NEW a \in Merchants, Deactivate(a)
      PROVE  MarketStep
  <2>1. merchants' \in [Merchants -> MerchantRecords]
    BY <1>0, <1>6 DEF Deactivate, MerchantRecords
  <2>2. CallsOK'
    BY <1>0, <1>6 DEF Deactivate, CallsOK, MarketCallOK
  <2>3. QED
    BY <1>0, <1>6, <2>1, <2>2, MerchantStepKeeps DEF Deactivate
<1>7. QED
  BY <1>1, <1>3, <1>4, <1>5, <1>6 DEF MerchantCall

\* A market call opens: it takes what it read with it.
LEMMA MarketCallsOpen ==
    ASSUME MarketInv, NEW c \in Calls, MarketCall(c)
    PROVE  MarketStep
<1>0. markets \in [Markets -> MarketRecords]
  BY DEF MarketInv, MarketTypeOK
<1>1. ASSUME NEW call \in CallRecords, MarketCallOK(call),
             call.at = "insert" => \A d \in Calls : calls[d].on # call.on,
             Continues(c, call),
             UNCHANGED <<tables, merchants, markets, passes, timely>>
      PROVE  MarketStep
  <2>1. MarketCallOK(call)'
    BY <1>1 DEF MarketCallOK
  <2>2. CallsOK' /\ calls' \in [Calls -> CallRecords]
    BY <1>1, <2>1, MarketCallGoesOn
  <2>3. merchants' \in [Merchants -> MerchantRecords]
    BY <1>1 DEF MarketInv, MarketTypeOK
  <2>4. QED
    BY <1>1, <2>2, <2>3, MerchantStepKeeps
<1>2. ASSUME NEW m \in Markets, CreateMarket(c, m)
      PROVE  MarketStep
  <2> DEFINE call == [NoCall EXCEPT !.at = "insert", !.on = m]
  <2>1. call \in CallRecords
    BY NoCallIsOK DEF CallRecords
  <2>2. call.at = "insert" /\ call.on = m
    BY DEF NoCall
  <2>3. MarketCallOK(call)
    BY <1>2, <2>2 DEF MarketCallOK, CreateMarket
  <2>4. QED
    BY <1>1, <1>2, <2>1, <2>2, <2>3 DEF CreateMarket
<1>3. ASSUME NEW m \in Markets, AddLiquidity(c, m)
      PROVE  MarketStep
  <2> DEFINE call == [NoCall EXCEPT !.at = "lend", !.on = m, !.seen = "active"]
  <2>1. call \in CallRecords
    BY NoCallIsOK DEF CallRecords, OpenStatuses
  <2>2. call.at = "lend" /\ call.on = m /\ call.seen = "active"
    BY DEF NoCall
  <2>3. MarketCallOK(call)
    BY <2>2 DEF MarketCallOK
  <2>4. QED
    BY <1>1, <1>3, <2>1, <2>2, <2>3 DEF AddLiquidity
<1>4. ASSUME NEW m \in Markets, NEW to \in OpenStatuses, UpdateMarketStatus(c, m, to)
      PROVE  MarketStep
  <2> DEFINE seen == markets[m].status
  <2>1. seen \in OpenStatuses
    BY <1>4 DEF UpdateMarketStatus, CanMove, OpenStatuses
  <2> HIDE DEF seen
  <2> DEFINE call == [NoCall EXCEPT !.at = "move", !.on = m, !.to = to, !.seen = seen]
  <2>2. call \in CallRecords
    BY <2>1, NoCallIsOK DEF CallRecords
  <2>3. call.at = "move" /\ call.on = m /\ call.to = to /\ call.seen = seen
    BY DEF NoCall
  <2>4. MarketCallOK(call)
    BY <2>1, <2>3 DEF MarketCallOK
  <2>5. Continues(c, call)
    BY <1>4 DEF UpdateMarketStatus, seen
  <2>6. QED
    BY <1>1, <1>4, <2>2, <2>3, <2>4, <2>5 DEF UpdateMarketStatus
<1>5. QED
  BY <1>2, <1>3, <1>4 DEF MarketCall

\* A row is written: an existing market keeps existing, a settled one stays.
LEMMA MarketRowWritten ==
    ASSUME MarketInv, NEW m \in Markets, NEW row \in MarketRecords,
           row.status \in MarketStatuses,
           markets[m].status = "settled" => row = markets[m],
           markets' = [markets EXCEPT ![m] = row],
           UNCHANGED <<tables, merchants, passes, timely>>,
           calls' \in [Calls -> CallRecords], CallsOK'
    PROVE  MarketStep
<1>1. /\ markets' \in [Markets -> MarketRecords]
      /\ \A n \in Markets : markets'[n] = IF n = m THEN row ELSE markets[n]
  BY DEF MarketInv, MarketTypeOK
<1>2. MarketTypeOK'
  BY <1>1 DEF MarketInv, MarketTypeOK
<1>3. ASSUME NEW e \in Events
      PROVE  PassOK(e)'
  <2>1. PassOK(e) /\ passes[e].todo \subseteq Markets
    BY DEF MarketInv, SettlementOK, MarketTypeOK, PassRecords
  <2>2. QED
    BY <1>1, <2>1 DEF PassOK, tables
<1>4. ASSUME NEW n \in timely
      PROVE  TimelyOK(n)'
  <2>1. TimelyOK(n) /\ n \in Markets
    BY DEF MarketInv, SettlementOK, MarketTypeOK
  <2>2. QED
    BY <1>1, <2>1 DEF TimelyOK
<1>5. TablesOK' /\ Forward
  BY QuietTables DEF MarketInv
<1>6. SettledStay
  BY <1>1 DEF SettledStay
<1>7. QED
  BY <1>2, <1>3, <1>4, <1>5, <1>6 DEF MarketStep, MarketInv, SettlementOK

\* A market that is inserted before its event is resolved finds no pass begun.
LEMMA InsertMarketKeeps ==
    ASSUME MarketInv, NEW c \in Calls, InsertMarket(c)
    PROVE  MarketStep
<1> DEFINE m == calls[c].on
<1>1. m \in Markets /\ markets[m] = NoMarketRow
  BY MarketCallFacts DEF InsertMarket, MarketCallOK
<1>2. PICK row \in NewMarkets : markets' = [markets EXCEPT ![m] = row]
  BY DEF InsertMarket
<1>3. row \in MarketRecords /\ row.status = "active"
  BY MarketServiceAssumption DEF NewMarkets, MarketRecords, MarketStatuses, OpenStatuses
<1>4. /\ markets' \in [Markets -> MarketRecords]
      /\ \A n \in Markets : markets'[n] = IF n = m THEN row ELSE markets[n]
  BY <1>1, <1>2, <1>3 DEF MarketInv, MarketTypeOK
<1>5. CallsOK' /\ calls' \in [Calls -> CallRecords]
  <2>1. ASSUME NEW d \in Calls, d # c, calls[d].at = "insert"
        PROVE  markets'[calls[d].on] = markets[calls[d].on]
    <3>1. calls[d].on \in Markets /\ calls[d].on # m
      BY <2>1, MarketCallFacts DEF MarketCallOK, MarketInv, CallsOK, InsertMarket
    <3>2. QED
      BY <1>4, <3>1
  <2>2. QED
    BY <2>1, MarketCallEnds DEF InsertMarket
<1>6. UNCHANGED <<tables, merchants, passes>> /\ timely' \in SUBSET Markets
  BY <1>1 DEF InsertMarket, MarketInv, MarketTypeOK
<1>7. MarketTypeOK'
  BY <1>4, <1>5, <1>6 DEF MarketInv, MarketTypeOK
<1>8. ASSUME NEW e \in Events
      PROVE  PassOK(e)'
  <2>1. PassOK(e) /\ passes[e].todo \subseteq Markets
    BY DEF MarketInv, SettlementOK, MarketTypeOK, PassRecords
  <2>2. QED
    BY <1>3, <1>4, <1>6, <2>1 DEF PassOK, tables, MarketStatuses, OpenStatuses
<1>9. ASSUME NEW n \in timely'
      PROVE  TimelyOK(n)'
  <2>1. CASE n \in timely
    <3>1. TimelyOK(n) /\ n \in Markets
      BY <2>1 DEF MarketInv, SettlementOK, MarketTypeOK
    <3>2. n # m
      BY <1>1, <3>1 DEF TimelyOK, MarketStatuses, OpenStatuses, NoMarketRow
    <3>3. QED
      BY <1>4, <1>6, <3>1, <3>2 DEF TimelyOK
  <2>2. CASE n \notin timely
    <3>1. n = m /\ events[EventOf[m]].status # "resolved"
      BY <2>2 DEF InsertMarket
    <3>2. passes[EventOf[m]].state = "none"
      <4>1. EventOf[m] \in Events
        BY <1>1, MarketServiceAssumption
      <4>2. PassOK(EventOf[m])
        BY <4>1 DEF MarketInv, SettlementOK
      <4>3. QED
        BY <3>1, <4>2 DEF PassOK
    <3>3. QED
      BY <1>1, <1>3, <1>4, <1>6, <3>1, <3>2 DEF TimelyOK, MarketStatuses, OpenStatuses
  <2>3. QED
    BY <2>1, <2>2
<1>10. TablesOK' /\ Forward
  BY <1>6, QuietTables DEF MarketInv
<1>11. SettledStay
  BY <1>1, <1>4 DEF SettledStay, NoMarketRow
<1>12. QED
  BY <1>5, <1>7, <1>8, <1>9, <1>10, <1>11 DEF MarketStep, MarketInv, SettlementOK

\* A late status change and a late loan compare the status they saw.
LEMMA MarketWritesKeep ==
    ASSUME MarketInv, NEW c \in Calls, MoveMarket(c) \/ LendMarket(c)
    PROVE  MarketStep
<1> DEFINE m == calls[c].on
<1>1. /\ m \in Markets /\ markets[m] \in MarketRecords
      /\ calls[c].seen \in OpenStatuses
      /\ calls[c].at = "move" => calls[c].to \in OpenStatuses
  BY MarketCallFacts DEF MoveMarket, LendMarket, MarketCallOK, OpenStatuses,
        MarketInv, MarketTypeOK
<1>2. ASSUME NEW row \in MarketRecords, row.status \in OpenStatuses,
             markets[m].status \in OpenStatuses,
             markets' = [markets EXCEPT ![m] = row]
      PROVE  MarketStep
  <2>1. ASSUME NEW d \in Calls, d # c, calls[d].at = "insert"
        PROVE  markets'[calls[d].on] = markets[calls[d].on]
    <3>1. calls[d].on \in Markets /\ markets[calls[d].on] = NoMarketRow
      BY <2>1, MarketCallFacts DEF MarketCallOK
    <3>2. calls[d].on # m
      BY <1>2, <3>1 DEF NoMarketRow, OpenStatuses
    <3>3. QED
      BY <1>2, <3>1, <3>2 DEF MarketInv, MarketTypeOK
  <2>2. CallsOK' /\ calls' \in [Calls -> CallRecords]
    BY <2>1, MarketCallEnds DEF MoveMarket, LendMarket
  <2>3. row.status \in MarketStatuses /\ markets[m].status # "settled"
    BY <1>2 DEF MarketStatuses, OpenStatuses
  <2>4. UNCHANGED <<tables, merchants, passes, timely>>
    BY DEF MoveMarket, LendMarket
  <2>5. QED
    BY <1>1, <1>2, <2>2, <2>3, <2>4, MarketRowWritten
<1>3. CASE UNCHANGED markets
  <2>1. CallsOK' /\ calls' \in [Calls -> CallRecords]
    BY <1>3, MarketCallEnds DEF MoveMarket, LendMarket
  <2>2. UNCHANGED <<tables, merchants, passes, timely>>
    BY DEF MoveMarket, LendMarket
  <2>3. merchants' \in [Merchants -> MerchantRecords]
    BY <2>2 DEF MarketInv, MarketTypeOK
  <2>4. QED
    BY <1>3, <2>1, <2>2, <2>3, MerchantStepKeeps
<1>4. CASE MoveMarket(c) /\ markets[m].status = calls[c].seen
  <2> DEFINE row == [markets[m] EXCEPT !.status = calls[c].to]
  <2>1. calls[c].to \in OpenStatuses
    BY <1>1, <1>4 DEF MoveMarket
  <2>2. row \in MarketRecords /\ row.status \in OpenStatuses
    BY <1>1, <2>1 DEF MarketRecords, MarketStatuses
  <2>3. markets' = [markets EXCEPT ![m] = row]
    BY <1>1, <1>4 DEF MoveMarket, MarketInv, MarketTypeOK
  <2>4. QED
    BY <1>1, <1>2, <1>4, <2>2, <2>3
<1>5. CASE LendMarket(c) /\ markets[m].status = calls[c].seen
  <2> DEFINE row == [markets[m] EXCEPT !.pool = @ + 1]
  <2>1. row \in MarketRecords /\ row.status \in OpenStatuses
    BY <1>1, <1>5 DEF MarketRecords, MarketStatuses
  <2>2. markets' = [markets EXCEPT ![m] = row]
    BY <1>1, <1>5 DEF LendMarket, MarketInv, MarketTypeOK
  <2>3. QED
    BY <1>1, <1>2, <1>5, <2>1, <2>2
<1>6. QED
  BY <1>3, <1>4, <1>5 DEF MoveMarket, LendMarket

\* Nothing but the tables, the passes and what is due changes.
LEMMA MarketRest ==
    ASSUME MarketInv, UNCHANGED <<merchants, markets, calls>>,
           timely' \in SUBSET Markets,
           TablesOK', Forward, SettlementOK', passes' \in [Events -> PassRecords]
    PROVE  MarketStep
<1>1. MarketTypeOK' /\ CallsOK'
  BY DEF MarketInv, MarketTypeOK, CallsOK, MarketCallOK
<1>2. SettledStay
  BY DEF SettledStay
<1>3. QED
  BY <1>1, <1>2 DEF MarketStep, MarketInv

LEMMA MoveEventKeeps ==
    ASSUME MarketInv, MoveEvent
    PROVE  MarketStep
<1>1. UNCHANGED <<merchants, markets, calls, passes, timely>>
  BY DEF MoveEvent, business
<1>2. TablesOK' /\ Forward
  <2>1. PICK e \in Events :
            \/ CreateRow(e)
            \/ \E to \in Statuses : /\ canTransition(events[e].status, to)
                                    /\ SetStatus(e, events[e].status, to)
            \/ \E o \in Outcomes : ResolveRow(e, "closed", o, "manual")
    BY DEF MoveEvent
  <2>2. QED
    BY <2>1, CreateRowKeeps, SetStatusKeeps, ResolveRowKeeps DEF MarketInv
<1>3. SettlementOK'
  BY <1>1, <1>2 DEF MarketInv, SettlementOK, PassOK, TimelyOK, Forward
<1>4. QED
  BY <1>1, <1>2, <1>3, MarketRest DEF MarketInv, MarketTypeOK

\* A visit lists every market that may still be open, and an event it is made
\* for stays resolved.
LEMMA ListMarketsKeeps ==
    ASSUME MarketInv, NEW e \in Events, ListMarkets(e)
    PROVE  MarketStep
<1>1. /\ events[e].status = "resolved"
      /\ UNCHANGED <<tables, merchants, markets, calls>>
      /\ timely' = timely \cup unsettledMarkets(e)
  BY DEF ListMarkets
<1> DEFINE pass == [state |-> "running", skipped |-> FALSE, todo |-> unsettledMarkets(e)]
<1>2. /\ passes' \in [Events -> PassRecords]
      /\ \A x \in Events : passes'[x] = IF x = e THEN pass ELSE passes[x]
  BY DEF ListMarkets, MarketInv, MarketTypeOK, PassRecords, unsettledMarkets
<1>3. TablesOK' /\ Forward
  BY <1>1, QuietTables DEF MarketInv
<1>4. ASSUME NEW x \in Events
      PROVE  PassOK(x)'
  <2>1. CASE x = e
    BY <1>1, <1>2, <2>1 DEF PassOK, unsettledMarkets, tables, MarketStatuses
  <2>2. CASE x # e
    BY <1>1, <1>2, <2>2 DEF PassOK, tables, MarketInv, SettlementOK
  <2>3. QED
    BY <2>1, <2>2
<1>5. timely' \in SUBSET Markets
  BY <1>1 DEF MarketInv, MarketTypeOK, unsettledMarkets
<1>6. ASSUME NEW m \in timely'
      PROVE  TimelyOK(m)'
  <2>1. m \in Markets /\ EventOf[m] \in Events
    BY <1>5, MarketServiceAssumption
  <2>2. CASE m \in unsettledMarkets(e)
    <3>1. EventOf[m] = e /\ markets[m].status \in OpenStatuses
      BY <2>2 DEF unsettledMarkets
    <3>2. passes'[EventOf[m]].state = "running" /\ m \in passes'[EventOf[m]].todo
      BY <1>2, <2>2, <3>1
    <3>3. QED
      BY <1>1, <3>1, <3>2 DEF TimelyOK, MarketStatuses
  <2>3. CASE m \notin unsettledMarkets(e)
    <3>1. TimelyOK(m)
      BY <1>1, <2>3 DEF MarketInv, SettlementOK
    <3>2. CASE EventOf[m] = e
      BY <1>1, <1>2, <2>1, <2>3, <3>1, <3>2 DEF TimelyOK, unsettledMarkets, MarketStatuses
    <3>3. CASE EventOf[m] # e
      BY <1>1, <1>2, <2>1, <3>1, <3>3 DEF TimelyOK
    <3>4. QED
      BY <3>2, <3>3
  <2>4. QED
    BY <2>2, <2>3
<1>7. QED
  BY <1>1, <1>2, <1>3, <1>4, <1>5, <1>6, MarketRest DEF SettlementOK

\* A visit goes on or ends, and the markets stay as they are.
LEMMA PassMoves ==
    ASSUME MarketInv, NEW e \in Events, NEW pass \in PassRecords,
           passes[e].state = "running",
           passes' = [passes EXCEPT ![e] = pass],
           UNCHANGED <<tables, merchants, markets, calls, timely>>,
           pass.todo \subseteq passes[e].todo,
           pass.state # "running" => pass.todo = {},
           pass.state = "running" => pass.todo = passes[e].todo \/ pass.skipped,
           pass.state = "running" => (passes[e].skipped => pass.skipped),
           pass.state = "done" => passes[e].todo = {} /\ ~ passes[e].skipped
    PROVE  MarketStep
<1>1. /\ passes' \in [Events -> PassRecords]
      /\ \A x \in Events : passes'[x] = IF x = e THEN pass ELSE passes[x]
  BY DEF MarketInv, MarketTypeOK
<1>2. TablesOK' /\ Forward
  BY QuietTables DEF MarketInv
<1>3. ASSUME NEW x \in Events
      PROVE  PassOK(x)'
  <2>1. PassOK(x) /\ PassOK(e)
    BY DEF MarketInv, SettlementOK
  <2>2. QED
    BY <1>1, <2>1 DEF PassOK, tables
<1>4. ASSUME NEW m \in timely'
      PROVE  TimelyOK(m)'
  <2>1. m \in Markets /\ TimelyOK(m) /\ EventOf[m] \in Events
    BY MarketServiceAssumption DEF MarketInv, MarketTypeOK, SettlementOK
  <2>2. QED
    BY <1>1, <2>1 DEF TimelyOK
<1>5. timely' \in SUBSET Markets
  BY DEF MarketInv, MarketTypeOK
<1>6. QED
  BY <1>1, <1>2, <1>3, <1>4, <1>5, MarketRest DEF SettlementOK

LEMMA VisitMovesKeep ==
    ASSUME MarketInv, NEW e \in Events, SkipListed(e) \/ VisitFails(e) \/ PassEnds(e)
    PROVE  MarketStep
<1>0. /\ passes[e] \in PassRecords /\ PassOK(e)
      /\ passes \in [Events -> PassRecords]
  BY DEF MarketInv, MarketTypeOK, SettlementOK
<1>1. CASE SkipListed(e)
  <2>1. PICK m \in passes[e].todo :
          passes' = [passes EXCEPT ![e].todo = @ \ {m}, ![e].skipped = TRUE]
    BY <1>1 DEF SkipListed
  <2>2. passes[e].state = "running"
    BY <1>0, <2>1 DEF PassOK
  <2> DEFINE pass == [passes[e] EXCEPT !.todo = @ \ {m}, !.skipped = TRUE]
  <2>3. /\ pass \in PassRecords /\ pass.skipped /\ pass.state = "running"
        /\ pass.todo \subseteq passes[e].todo
    BY <1>0, <2>2 DEF PassRecords
  <2>4. passes' = [passes EXCEPT ![e] = pass]
    BY <1>0, <2>1
  <2> HIDE DEF pass
  <2>5. QED
    BY <1>1, <2>2, <2>3, <2>4, PassMoves DEF SkipListed
<1>2. CASE VisitFails(e)
  <2> DEFINE pass == [NotStarted EXCEPT !.state = "failed"]
  <2>1. pass \in PassRecords /\ pass.todo = {} /\ pass.state = "failed"
    BY DEF PassRecords, NotStarted
  <2>2. QED
    BY <1>2, <2>1, PassMoves DEF VisitFails
<1>3. CASE PassEnds(e)
  <2> DEFINE pass == [NotStarted EXCEPT !.state = IF passes[e].skipped THEN "failed" ELSE "done"]
  <2>1. /\ pass \in PassRecords /\ pass.todo = {}
        /\ pass.state \in {"failed", "done"}
        /\ pass.state = "done" => ~ passes[e].skipped
    BY DEF PassRecords, NotStarted
  <2>2. /\ passes[e].state = "running" /\ passes[e].todo = {}
        /\ passes' = [passes EXCEPT ![e] = pass]
        /\ UNCHANGED <<tables, merchants, markets, calls, timely>>
    BY <1>3 DEF PassEnds
  <2> HIDE DEF pass
  <2>3. pass.state # "running"
    BY <2>1
  <2>4. QED
    BY <2>1, <2>2, <2>3, PassMoves
<1>4. QED
  BY <1>1, <1>2, <1>3

\* A listed market is settled and leaves the list.
LEMMA SettleListedKeeps ==
    ASSUME MarketInv, NEW e \in Events, SettleListed(e)
    PROVE  MarketStep
<1>1. PICK m \in passes[e].todo :
        /\ markets' = [markets EXCEPT ![m].status = "settled"]
        /\ passes' = [passes EXCEPT ![e].todo = @ \ {m}]
  BY DEF SettleListed
<1>2. UNCHANGED <<tables, merchants, calls, timely>>
  BY DEF SettleListed
<1>3. /\ passes[e] \in PassRecords
      /\ m \in Markets /\ EventOf[m] = e
      /\ markets[m] \in MarketRecords /\ markets[m].status \in MarketStatuses
  BY DEF MarketInv, MarketTypeOK, PassRecords, SettlementOK, PassOK
<1> DEFINE row == [markets[m] EXCEPT !.status = "settled"]
<1>4. /\ row \in MarketRecords /\ row.status = "settled"
      /\ markets[m].status = "settled" => row = markets[m]
  BY <1>3 DEF MarketRecords, MarketStatuses
<1>5. /\ markets' \in [Markets -> MarketRecords]
      /\ \A n \in Markets : markets'[n] = IF n = m THEN row ELSE markets[n]
  BY <1>1, <1>3, <1>4 DEF MarketInv, MarketTypeOK
<1>6. /\ passes' \in [Events -> PassRecords]
      /\ \A x \in Events : x # e => passes'[x] = passes[x]
      /\ passes'[e].state = passes[e].state /\ passes'[e].todo = passes[e].todo \ {m}
      /\ passes'[e].skipped = passes[e].skipped
  BY <1>1, <1>3 DEF MarketInv, MarketTypeOK, PassRecords
<1>7. CallsOK'
  <2>1. ASSUME NEW c \in Calls
        PROVE  MarketCallOK(calls[c])'
    <3>1. MarketCallOK(calls[c])
      BY DEF MarketInv, CallsOK
    <3>2. QED
      BY <1>2, <1>3, <1>5, <3>1 DEF MarketCallOK, NoMarketRow, MarketStatuses, OpenStatuses
  <2>2. QED
    BY <1>2, <2>1 DEF MarketInv, CallsOK
<1>8. ASSUME NEW x \in Events
      PROVE  PassOK(x)'
  <2>1. PassOK(x) /\ passes[x].todo \subseteq Markets
    BY DEF MarketInv, SettlementOK, MarketTypeOK, PassRecords
  <2>2. ASSUME NEW n \in passes'[x].todo
        PROVE  EventOf[n] = x /\ markets'[n].status \in MarketStatuses
    BY <1>4, <1>5, <1>6, <2>1, <2>2 DEF PassOK, MarketStatuses
  <2>3. QED
    BY <1>2, <1>6, <2>1, <2>2 DEF PassOK, tables
<1>9. ASSUME NEW n \in timely'
      PROVE  TimelyOK(n)'
  <2>1. n \in Markets /\ TimelyOK(n) /\ EventOf[n] \in Events
    BY <1>2, MarketServiceAssumption DEF MarketInv, MarketTypeOK, SettlementOK
  <2>2. QED
    BY <1>3, <1>4, <1>5, <1>6, <2>1 DEF TimelyOK, MarketStatuses
<1>10. TablesOK' /\ Forward
  BY <1>2, QuietTables DEF MarketInv
<1>11. SettledStay
  BY <1>2, <1>4, <1>5 DEF SettledStay
<1>12. MarketTypeOK'
  BY <1>2, <1>5, <1>6 DEF MarketInv, MarketTypeOK
<1>13. QED
  BY <1>7, <1>8, <1>9, <1>10, <1>11, <1>12 DEF MarketStep, MarketInv, SettlementOK

LEMMA MarketStepKeeps ==
    MarketInv /\ [MarketNext]_marketVars => MarketStep
<1> SUFFICES ASSUME MarketInv, [MarketNext]_marketVars
             PROVE  MarketStep
  OBVIOUS
<1>1. ASSUME NEW c \in Calls,
             MarketCall(c) \/ InsertMarket(c) \/ MoveMarket(c) \/ LendMarket(c)
      PROVE  MarketStep
  BY <1>1, MarketCallsOpen, InsertMarketKeeps, MarketWritesKeep
<1>2. ASSUME NEW e \in Events,
             \/ ListMarkets(e) \/ SettleListed(e)
             \/ SkipListed(e) \/ VisitFails(e) \/ PassEnds(e)
      PROVE  MarketStep
  BY <1>2, ListMarketsKeeps, SettleListedKeeps, VisitMovesKeep
<1>3. CASE UNCHANGED marketVars
  <2>1. UNCHANGED <<tables, merchants, markets, calls, passes, timely>>
    BY <1>3 DEF marketVars, business
  <2>2. TablesOK' /\ Forward
    BY <2>1, QuietTables DEF MarketInv
  <2>3. /\ SettlementOK'
        /\ passes' \in [Events -> PassRecords]
        /\ timely' \in SUBSET Markets
    BY <2>1 DEF MarketInv, SettlementOK, PassOK, TimelyOK, tables, MarketTypeOK
  <2>4. QED
    BY <2>1, <2>2, <2>3, MarketRest
<1>4. QED
  BY <1>1, <1>2, <1>3, MerchantCallsKeep, MoveEventKeeps DEF MarketNext

\* Markets may be created until the very moment their event is resolved, and
\* suspended or closed while settlement visits them; visits pass markets over,
\* fail and are repeated.  One that ended without an error has left none of the
\* markets it had to settle.
THEOREM TimelyAreSettled == MarketSpec => []TimelyMarketsSettled
<1>1. MarketInv => TimelyMarketsSettled
  <2> SUFFICES ASSUME MarketInv, NEW m \in timely, passes[EventOf[m]].state = "done"
               PROVE  markets[m].status = "settled"
    BY DEF TimelyMarketsSettled
  <2>1. m \in Markets /\ TimelyOK(m)
    BY DEF MarketInv, MarketTypeOK, SettlementOK
  <2>2. QED
    BY <2>1 DEF TimelyOK
<1>2. MarketInv /\ [MarketNext]_marketVars => MarketInv'
  BY MarketStepKeeps DEF MarketStep
<1>3. QED
  BY <1>1, <1>2, MarketInvInit, PTL DEF MarketSpec

\* No call that read a market before its settlement reopens it or lends to it.
THEOREM SettledAreFinal == MarketSpec => SettledMarketsFinal
<1>1. MarketInv /\ [MarketNext]_marketVars => MarketInv' /\ SettledStay
  BY MarketStepKeeps DEF MarketStep
<1>2. QED
  BY <1>1, MarketInvInit, PTL DEF MarketSpec, SettledMarketsFinal, SettledStay

\* The event behind the markets is resolved once ...
THEOREM ResolvedOnceInMarkets == MarketSpec => []ResolvedOnce
<1>1. MarketInv => ResolvedOnce
  BY DEF MarketInv, TablesOK
<1>2. MarketInv /\ [MarketNext]_marketVars => MarketInv'
  BY MarketStepKeeps DEF MarketStep
<1>3. QED
  BY <1>1, <1>2, MarketInvInit, PTL DEF MarketSpec

\* ... and never reopened.
THEOREM MarketsNeverReopen == MarketSpec => ClosedNeverReopens
<1>1. MarketInv /\ [MarketNext]_marketVars => MarketInv' /\ Forward
  BY MarketStepKeeps DEF MarketStep
<1>2. QED
  BY <1>1, MarketInvInit, PTL DEF MarketSpec, ClosedNeverReopens, Forward
=============================================================================
