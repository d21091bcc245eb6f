----------------------------- MODULE EventSync ------------------------------
(***************************************************************************)
(* The Polymarket synchronization of every replica: the cron job behind a  *)
(* Redis lease, the paged listing with the client's retries, the upsert of *)
(* every listed event and the resolution of the decided ones.  A run acts  *)
(* on the page it fetched, whatever happens at the source, in the other    *)
(* replica or at the administrator's desk meanwhile, and the first error   *)
(* ends it.  The cache calls of the event service are in EventService.     *)
(***************************************************************************)
EXTENDS EventStore

CONSTANTS Replicas,
          SourceMarkets,  \* the binary markets of a source event
          PageSize, MaxSyncPages,
          MaxRetries,     \* of the Polymarket client, per page
          MaxErrors,      \* bound: failed calls, crashes
          Nobody          \* no replica holds the lease

ASSUME EventSyncAssumption ==
    /\ PageSize \in Nat \ {0}
    /\ MaxSyncPages \in Nat \ {0}
    /\ MaxRetries \in Nat
    /\ MaxErrors \in Nat
    /\ Nobody \notin Replicas

VARIABLES source,   \* Polymarket's own events
          lease,    \* the holder of the job's lock key
          sync,     \* the job of every replica
          errors    \* failed calls and crashes so far

syncing == <<source, lease, sync, errors>>
syncVars == <<tables, syncing>>

\* Outcome prices: settled at 1 or 0, or still between the two.
Between == 2
Prices == [Outcomes -> {0, 1, Between}]

\* What the source says of an event.
SourceRecords == [active : BOOLEAN, closed : BOOLEAN,
                  prices : [SourceMarkets -> Prices]]

\* What a run keeps of a listed event: its status and its verdict.
NoItem == [event |-> Nobody, status |-> "none", verdict |-> {}]

NoRun == [at |-> "idle", closed |-> FALSE, page |-> 0, attempt |-> 0,
         todo |-> {}, item |-> NoItem]

SyncInit ==
    /\ source \in [Polymarket -> SourceRecords]
    /\ lease = Nobody
    /\ sync = [r \in Replicas |-> NoRun]
    /\ errors = 0

Becomes(r, run) == sync' = [sync EXCEPT ![r] = run]
Ends(r) == Becomes(r, NoRun)
Error == errors < MaxErrors /\ errors' = errors + 1

-----------------------------------------------------------------------------
(* What the source says                                                    *)

\* A mutant: the other price is not looked at.
MarketLeader(price) == {o \in Outcomes : price[o] = 1}

\* A binary market is decided by one price of 1 and the other of 0.
resolvedMarketOutcome(price) ==
    {o \in Outcomes : price[o] = 1 /\ \A other \in Outcomes \ {o} : price[other] = 0}

\* The decided markets must agree; undecided ones have no say.
resolvedOutcome(prices) ==
    LET decided == UNION {resolvedMarketOutcome(prices[m]) : m \in SourceMarkets}
    IN  IF Cardinality(decided) = 1 THEN decided ELSE {}

\* Of an event with an identity and an end date; others are skipped.
normalizeSourceEvent(e) ==
    [event |-> e,
     status |-> IF source[e].closed THEN "closed"
                ELSE IF source[e].active THEN "active" ELSE "pending",
     verdict |-> resolvedOutcome(source[e].prices)]

Matching(closed) == {e \in Polymarket : /\ source[e].closed = closed
                                        /\ source[e].active = ~closed}

-----------------------------------------------------------------------------
(* The cron job                                                            *)

\* SetNX; the lock is never released, it expires.
Tick(r) ==
    /\ sync[r] = NoRun
    /\ lease = Nobody
    /\ lease' = r
    /\ Becomes(r, [NoRun EXCEPT !.at = "fetch"])
    /\ UNCHANGED <<tables, source, errors>>

\* A mutant: the lock outlives the interval.
LeaseKept == FALSE /\ UNCHANGED syncVars

LeaseExpires ==
    /\ lease # Nobody
    /\ lease' = Nobody
    /\ UNCHANGED <<tables, source, sync, errors>>

\* The open events first, then the closed ones.
NextPage(r, run) ==
    LET next == [run EXCEPT !.page = @ + 1, !.attempt = 0, !.at = "fetch"]
    IN  IF next.page < MaxSyncPages THEN Becomes(r, next)
        ELSE IF run.closed THEN Ends(r)
        ELSE Becomes(r, [NoRun EXCEPT !.at = "fetch", !.closed = TRUE])

\* A page of a listing ordered by volume, which moves between two requests:
\* of the matching events any that make up the page.
ListEvents(closed, page) ==
    LET rest == Cardinality(Matching(closed)) - page * PageSize
        size == IF rest < 0 THEN 0 ELSE IF rest > PageSize THEN PageSize ELSE rest
    IN  {items \in SUBSET Matching(closed) : Cardinality(items) = size}

\* A short page is the last of its status.
FetchPage(r) ==
    /\ sync[r].at = "fetch"
    /\ \E items \in ListEvents(sync[r].closed, sync[r].page) :
        Becomes(r, [sync[r] EXCEPT !.at = "items", !.attempt = 0,
                        !.todo = {normalizeSourceEvent(e) : e \in items},
                        !.page = IF Cardinality(items) < PageSize
                                 THEN MaxSyncPages - 1 ELSE @])
    /\ UNCHANGED <<tables, source, lease, errors>>

\* A transport error or a status of 429 or 5xx is retried, any other ends
\* the run.
getJSON(r) ==
    /\ sync[r].at = "fetch"
    /\ Error
    /\ \/ /\ sync[r].attempt < MaxRetries
          /\ Becomes(r, [sync[r] EXCEPT !.attempt = @ + 1])
       \/ Ends(r)
    /\ UNCHANGED <<tables, source, lease>>

Without(run, next) == [run EXCEPT !.todo = @ \ {next}]

\* SyncSource, for the next event of the page.
SyncItem(r) ==
    /\ sync[r].at = "items"
    /\ \E next \in sync[r].todo :
        /\ UpsertSource(next.event, next.status)
        /\ Becomes(r, IF sync[r].closed /\ next.verdict # {}
                      THEN [Without(sync[r], next) EXCEPT !.at = "read",
                                                          !.item = next]
                      ELSE Without(sync[r], next))
    /\ UNCHANGED <<source, lease, errors>>

PageDone(r) ==
    /\ sync[r].at = "items"
    /\ sync[r].todo = {}
    /\ NextPage(r, sync[r])
    /\ UNCHANGED <<tables, source, lease, errors>>

Resumed(run) == [run EXCEPT !.at = "items", !.item = NoItem]

\* ResolveSource passes an event that is resolved already.
ReadForResolution(r) ==
    /\ sync[r].at = "read"
    /\ LET status == events[sync[r].item.event].status IN
       Becomes(r, IF status = "resolved" THEN Resumed(sync[r])
                  ELSE IF status = "closed" THEN [sync[r] EXCEPT !.at = "resolve"]
                  ELSE NoRun)
    /\ UNCHANGED <<tables, source, lease, errors>>

\* Losing the race for the row is an error, which ends the run.
ResolveItem(r) ==
    /\ sync[r].at = "resolve"
    /\ \/ /\ \E o \in sync[r].item.verdict :
                ResolveRow(sync[r].item.event, "closed", o, "polymarket")
          /\ Becomes(r, Resumed(sync[r]))
       \/ /\ events[sync[r].item.event].status # "closed"
          /\ Ends(r)
          /\ UNCHANGED tables
    /\ UNCHANGED <<source, lease, errors>>

\* A repository call fails or the replica dies; the lock stays.
SyncFails(r) ==
    /\ sync[r].at \notin {"idle", "fetch"}
    /\ Error
    /\ Ends(r)
    /\ UNCHANGED <<tables, source, lease>>

SyncStep(r) == \/ FetchPage(r) \/ SyncItem(r) \/ PageDone(r)
               \/ ReadForResolution(r) \/ ResolveItem(r)

-----------------------------------------------------------------------------
(* The source and the administrator                                        *)

\* A market priced out for an outcome, and one that only leads to it.
Final(o) == [p \in Outcomes |-> IF p = o THEN 1 ELSE 0]
Leading(o) == [p \in Outcomes |-> IF p = o THEN 1 ELSE Between]

PricedOut(e, m) == \E o \in Outcomes : source[e].prices[m] = Final(o)

\* Trading closes at the source, then every market is priced out for good.
SourceMoves ==
    /\ \E e \in Polymarket :
        \/ /\ ~source[e].closed
           /\ source' = [source EXCEPT ![e].closed = TRUE, ![e].active = FALSE]
        \/ /\ source[e].closed
           /\ \E m \in SourceMarkets, o \in Outcomes :
                /\ ~PricedOut(e, m)
                /\ \E price \in {Final(o), Leading(o)} :
                    source' = [source EXCEPT ![e].prices[m] = price]
    /\ UNCHANGED <<tables, lease, sync, errors>>

\* The calls of EventService, at the moment they change the row.
Administrator ==
    /\ \E e \in Polymarket :
        \/ \E to \in Statuses : /\ canTransition(events[e].status, to)
                                /\ SetStatus(e, events[e].status, to)
        \/ \E o \in Outcomes : ResolveRow(e, "closed", o, "manual")
    /\ UNCHANGED syncing

SyncNext ==
    \/ \E r \in Replicas : Tick(r) \/ SyncStep(r) \/ getJSON(r) \/ SyncFails(r)
    \/ LeaseExpires
    \/ SourceMoves
    \/ Administrator

\* A lock expires, some replica's timer finds it free, and runs go on.
SyncFairness ==
    /\ WF_syncVars(LeaseExpires)
    /\ WF_syncVars(\E r \in Replicas : Tick(r))
    /\ \A r \in Replicas : WF_syncVars(SyncStep(r))

SyncSpec == NoEvents /\ SyncInit /\ [][SyncNext]_syncVars /\ SyncFairness

-----------------------------------------------------------------------------
\* A run resolves by the page it fetched, and prices move on.  Still it never
\* records an outcome that no market of the source was priced out for.
\* (docs/resources/polymarket-sync.md: indeterminate outcomes remain closed
\* rather than being paid incorrectly.)
ResolvedByFinalPrice ==
    \A a \in audits : a.by = "polymarket"
        => \E m \in SourceMarkets : source[a.event].prices[m] = Final(a.outcome)

\* Whatever runs fail, crash, overlap or lose a race, and although the first
\* error ends a run before the events that follow: once every market of a
\* closed source event is priced out for the same outcome, which is for good,
\* some run of some replica leaves the event resolved.  This holds as long as
\* the events of a status fit on one page.  Beyond that nothing is promised:
\* pages are cut from an order by volume that moves between two requests, and
\* a decided event, whose volume falls, may never again be among the first
\* MaxSyncPages pages.
DecidedEventsResolved ==
    Cardinality(Polymarket) <= PageSize =>
        []<>(\A e \in Polymarket :
                /\ source[e].closed /\ ~source[e].active
                /\ resolvedOutcome(source[e].prices) # {}
                /\ \A m \in SourceMarkets : PricedOut(e, m)
                => events[e].status = "resolved")
=============================================================================
