---------------------------- MODULE EventService ----------------------------
(***************************************************************************)
(* The event service of several replicas over one database and one Redis:  *)
(* every call with its repository calls and its cache calls as separate    *)
(* steps.  An event is cached under its id for five minutes; a list is     *)
(* cached for a minute under a version that every change replaces.  A      *)
(* cache call may fail, which the service ignores, and a replica may crash *)
(* between two steps of a call.                                            *)
(***************************************************************************)
EXTENDS EventStore

CONSTANTS Requests,     \* calls in progress at once
          ListStatus,   \* the status the listing readers filter on
          MaxLosses,    \* bound: failed cache calls and crashes
          NoEntry,      \* a cache miss
          NoEvent       \* the event of a call that concerns none

ASSUME EventServiceAssumption ==
    /\ ListStatus \in Statuses
    /\ IsFiniteSet(Requests)
    /\ MaxLosses \in Nat
    /\ NoEvent \notin Events
    /\ NoEntry \notin Rows
    /\ NoEntry \notin [total : Nat, values : SUBSET Events]

\* Versions are unique.  One that is neither current nor held by a call can
\* never be seen again, so this many numbers are enough to tell them apart.
Versions == 1 .. Cardinality(Requests) + 2
NoVersion == 0

VARIABLES request,   \* the call every request slot is executing
          detail,    \* the cached event under every detail key
          version,   \* the value of the list-version key
          list,      \* the cached list under the current version
          losses,    \* failed cache calls and crashes so far
          unbumped   \* the last change's new list version was never stored

caches == <<detail, version, list>>
service == <<request, caches, losses, unbumped>>
serviceVars == <<tables, service>>

NoRequest == [at |-> "idle", event |-> NoEvent, row |-> NoRow, by |-> "manual",
         to |-> "none", version |-> NoVersion, total |-> 0, values |-> {}]

ServiceInit ==
    /\ request = [r \in Requests |-> NoRequest]
    /\ detail = [e \in Events |-> NoEntry]
    /\ version = NoVersion
    /\ list = NoEntry
    /\ losses = 0
    /\ unbumped = FALSE

Goes(r, call) == request' = [request EXCEPT ![r] = call]
Returns(r) == Goes(r, NoRequest)
At(r, step) == request[r].at = step

Loss == losses < MaxLosses /\ losses' = losses + 1

\* The rows a list query returns.
Listed == {e \in Events : events[e].status = ListStatus}

-----------------------------------------------------------------------------
(* The list version                                                        *)

\* cacheEpoch.Next.
FreshVersion == CHOOSE v \in Versions :
                    v # version /\ \A r \in Requests : request[r].version # v

Publish == /\ version' = FreshVersion
           /\ list' = NoEntry

\* invalidateEventLists ends every change; a created event is then cached.
invalidateEventLists(r) ==
    /\ At(r, "bump")
    /\ \/ Publish /\ unbumped' = FALSE /\ UNCHANGED losses
       \/ Loss /\ unbumped' = TRUE /\ UNCHANGED <<version, list>>
    /\ IF request[r].to = "put"
       THEN Goes(r, [request[r] EXCEPT !.at = "put"])
       ELSE Returns(r)
    /\ UNCHANGED <<tables, detail>>

-----------------------------------------------------------------------------
(* Changes                                                                 *)

Create(r, e) ==
    /\ request[r] = NoRequest
    /\ CreateRow(e)
    /\ Goes(r, [NoRequest EXCEPT !.at = "bump", !.to = "put", !.event = e,
                            !.row = events'[e]])
    /\ UNCHANGED <<caches, losses, unbumped>>

SyncSource(r, e, to) ==
    /\ request[r] = NoRequest
    /\ e \in Polymarket
    /\ to \in SyncStatuses
    /\ UpsertSource(e, to)
    /\ Goes(r, [NoRequest EXCEPT !.at = "delete", !.event = e])
    /\ UNCHANGED <<caches, losses, unbumped>>

UpdateStatus(r, e, to) ==
    /\ request[r] = NoRequest
    /\ Exists(e)
    /\ canTransition(events[e].status, to)
    /\ Goes(r, [NoRequest EXCEPT !.at = "update", !.event = e, !.row = events[e],
                            !.to = to])
    /\ UNCHANGED <<tables, caches, losses, unbumped>>

UpdateRow(r) ==
    /\ At(r, "update")
    /\ LET call == request[r] IN
       \/ /\ SetStatus(call.event, call.row.status, call.to)
          /\ Goes(r, [NoRequest EXCEPT !.at = "delete", !.event = call.event])
       \/ /\ events[call.event].status # call.row.status
          /\ Returns(r)
          /\ UNCHANGED tables
    /\ UNCHANGED <<caches, losses, unbumped>>

resolve(r, e, outcome, by) ==
    /\ request[r] = NoRequest
    /\ events[e].status = "closed"
    /\ Goes(r, [NoRequest EXCEPT !.at = "resolve", !.event = e, !.row = events[e],
                            !.to = outcome, !.by = by])
    /\ UNCHANGED <<tables, caches, losses, unbumped>>

Resolve(r, e, outcome) == resolve(r, e, outcome, "manual")

\* An event already resolved is left as it is; the look-up before resolve
\* decides nothing else.
ResolveSource(r, e, outcome) ==
    /\ e \in Polymarket
    /\ resolve(r, e, outcome, "polymarket")

ResolveTransaction(r) ==
    /\ At(r, "resolve")
    /\ LET call == request[r] IN
       \/ /\ ResolveRow(call.event, call.row.status, call.to, call.by)
          /\ Goes(r, [NoRequest EXCEPT !.at = "delete", !.event = call.event])
       \/ /\ events[call.event].status # call.row.status
          /\ Returns(r)
          /\ UNCHANGED tables
    /\ UNCHANGED <<caches, losses, unbumped>>

deleteCachedEvent(r) ==
    /\ At(r, "delete")
    /\ \/ /\ detail' = [detail EXCEPT ![request[r].event] = NoEntry]
          /\ UNCHANGED losses
       \/ Loss /\ UNCHANGED detail
    /\ Goes(r, [request[r] EXCEPT !.at = "bump"])
    /\ UNCHANGED <<tables, version, list, unbumped>>

-----------------------------------------------------------------------------
(* Reads                                                                   *)

\* A hit answers and ends the call; a miss goes to the database.  A failed
\* look-up and an entry that does not decode count as a miss.
Get(r, e) ==
    /\ request[r] = NoRequest
    /\ \/ detail[e] = NoEntry /\ UNCHANGED losses
       \/ Loss
    /\ Goes(r, [NoRequest EXCEPT !.at = "load", !.event = e])
    /\ UNCHANGED <<tables, caches, unbumped>>

Load(r) ==
    /\ At(r, "load")
    /\ IF Exists(request[r].event)
       THEN Goes(r, [request[r] EXCEPT !.at = "put",
                                       !.row = events[request[r].event]])
       ELSE Returns(r)
    /\ UNCHANGED <<tables, caches, losses, unbumped>>

putCachedEvent(r) ==
    /\ At(r, "put")
    /\ \/ /\ detail' = [detail EXCEPT ![request[r].event] = request[r].row]
          /\ UNCHANGED losses
       \/ Loss /\ UNCHANGED detail
    /\ Returns(r)
    /\ UNCHANGED <<tables, version, list, unbumped>>

\* List reads the version before anything else; without one it stores a new
\* one, and when that fails the list is not cached.
List(r) ==
    /\ request[r] = NoRequest
    /\ Goes(r, IF version # NoVersion
               THEN [NoRequest EXCEPT !.at = "lookup", !.version = version]
               ELSE [NoRequest EXCEPT !.at = "epoch"])
    /\ UNCHANGED <<tables, caches, losses, unbumped>>

eventListCacheVersion(r) ==
    /\ At(r, "epoch")
    /\ \/ /\ Publish
          /\ unbumped' = FALSE
          /\ Goes(r, [NoRequest EXCEPT !.at = "lookup", !.version = FreshVersion])
          /\ UNCHANGED losses
       \/ Loss /\ Returns(r) /\ UNCHANGED <<version, list, unbumped>>
    /\ UNCHANGED <<tables, detail>>

\* What is cached under a version that was replaced meanwhile decides nothing
\* but whether this call ends here.
getCachedEventList(r) ==
    /\ At(r, "lookup")
    /\ \/ /\ request[r].version = version => list = NoEntry
          /\ Goes(r, [request[r] EXCEPT !.at = "count"])
       \/ /\ request[r].version = version => list # NoEntry
          /\ Returns(r)
    /\ UNCHANGED <<tables, caches, losses, unbumped>>

\* The total and the rows are read by two statements.
CountEvents(r) ==
    /\ At(r, "count")
    /\ Goes(r, [request[r] EXCEPT !.at = "select",
                                  !.total = Cardinality(Listed)])
    /\ UNCHANGED <<tables, caches, losses, unbumped>>

SelectEvents(r) ==
    /\ At(r, "select")
    /\ Goes(r, [request[r] EXCEPT !.at = "store", !.values = Listed])
    /\ UNCHANGED <<tables, caches, losses, unbumped>>

FoundBy(r) == [total |-> request[r].total, values |-> request[r].values]

\* A mutant: the list is stored under the version of now.
StoredUnderCurrent(r) ==
    /\ At(r, "store")
    /\ list' = IF version = NoVersion THEN list ELSE FoundBy(r)
    /\ Returns(r)
    /\ UNCHANGED <<tables, detail, version, losses, unbumped>>

putCachedEventList(r) ==
    /\ At(r, "store")
    /\ \/ /\ list' = IF request[r].version = version THEN FoundBy(r) ELSE list
          /\ UNCHANGED losses
       \/ Loss /\ UNCHANGED list
    /\ Returns(r)
    /\ UNCHANGED <<tables, detail, version, unbumped>>

-----------------------------------------------------------------------------
(* The environment                                                         *)

\* A mutant: the entry is stored without a time to live.
NeverExpires(e) == FALSE /\ UNCHANGED serviceVars

ExpireDetail(e) ==
    /\ detail[e] # NoEntry
    /\ detail' = [detail EXCEPT ![e] = NoEntry]
    /\ UNCHANGED <<tables, request, version, list, losses, unbumped>>

ExpireList ==
    /\ list # NoEntry
    /\ list' = NoEntry
    /\ UNCHANGED <<tables, request, detail, version, losses, unbumped>>

\* Redis comes back empty.
RedisRestarts ==
    /\ version # NoVersion
    /\ Loss
    /\ detail' = [e \in Events |-> NoEntry]
    /\ version' = NoVersion
    /\ list' = NoEntry
    /\ UNCHANGED <<tables, request, unbumped>>

\* The replica dies in the middle of the call.
Changing(r) == request[r].at \in {"delete", "bump"}

Crash(r) ==
    /\ request[r] # NoRequest
    /\ Loss
    /\ Returns(r)
    /\ unbumped' = (unbumped \/ Changing(r))
    /\ UNCHANGED <<tables, caches>>

Step(r) ==
    \/ UpdateRow(r) \/ ResolveTransaction(r)
    \/ deleteCachedEvent(r) \/ invalidateEventLists(r)
    \/ Load(r) \/ putCachedEvent(r)
    \/ eventListCacheVersion(r) \/ getCachedEventList(r)
    \/ CountEvents(r) \/ SelectEvents(r) \/ putCachedEventList(r)

Call(r) ==
    \/ List(r)
    \/ \E e \in Events :
        \/ Create(r, e) \/ Get(r, e)
        \/ \E to \in Statuses : UpdateStatus(r, e, to) \/ SyncSource(r, e, to)
        \/ \E o \in Outcomes : Resolve(r, e, o) \/ ResolveSource(r, e, o)

ServiceNext ==
    \/ \E r \in Requests : Step(r) \/ Call(r) \/ Crash(r)
    \/ \E e \in Events : ExpireDetail(e)
    \/ ExpireList
    \/ RedisRestarts

\* A call in progress goes on, and Redis drops an entry at its time to live.
ServiceFairness ==
    /\ \A r \in Requests : WF_serviceVars(Step(r))
    /\ \A e \in Events : WF_serviceVars(ExpireDetail(e))

ServiceSpec == /\ NoEvents /\ ServiceInit
               /\ [][ServiceNext]_serviceVars
               /\ ServiceFairness

-----------------------------------------------------------------------------
\* A list reader takes the version, the total and the rows at three moments
\* while others change the rows and replace the version.  The list it leaves
\* under the current version is still the rows' own, except while a change
\* has not replaced the version yet, or when its replacement was lost.
\* (docs/resources/cache.md: mutations rotate the list version to invalidate
\* all list variants.)
ListFresh ==
    \/ version = NoVersion
    \/ list \in {NoEntry,
                 [total |-> Cardinality(Listed), values |-> Listed]}
    \/ unbumped
    \/ \E r \in Requests : Changing(r)

\* A reader may cache the event it loaded before another call resolved it and
\* deleted the cached one.  Such an entry dies with its time to live and
\* nobody caches it again: from some moment on readers see the resolution.
ReadersSeeResolution ==
    \A e \in Events : events[e].status = "resolved"
        ~> [](detail[e] \in {NoEntry, events[e]})
=============================================================================
