----------------------------- MODULE EventStore -----------------------------
(***************************************************************************)
(* The event tables (events, event_resolution_audits, event_outbox) and    *)
(* the statements the event repository runs on them, one operator per      *)
(* repository call: each call is one statement or one transaction, so it   *)
(* takes effect at once.  The services that call them in several steps are *)
(* modules of their own (EventService, EventSync, MarketService,           *)
(* SportsService), which extend this one.                                  *)
(***************************************************************************)
EXTENDS Naturals, FiniteSets

CONSTANTS Events,       \* event sources; a source has at most one row
          Polymarket,   \* the events whose source type is polymarket
          Outcomes,
          NoOutcome     \* the NULL outcome

ASSUME EventStoreAssumption ==
    /\ Polymarket \subseteq Events
    /\ IsFiniteSet(Events)
    /\ NoOutcome \notin Outcomes

VARIABLES events,   \* the row of every source
          audits,   \* event_resolution_audits
          outbox    \* event_outbox rows of type event.resolved

tables == <<events, audits, outbox>>

\* validStatus.
Statuses == {"pending", "active", "closed", "resolved"}

\* The statuses a source may ask for: resolution has a call of its own.
SyncStatuses == {"pending", "active", "closed"}

Rows == [status : Statuses, outcome : Outcomes \cup {NoOutcome}]

NoRow == [status |-> "none", outcome |-> NoOutcome]

NoEvents == /\ events = [e \in Events |-> NoRow]
            /\ audits = {}
            /\ outbox = {}

Exists(e) == events[e] # NoRow

canTransition(from, to) ==
    \/ from = "pending" /\ to \in {"active", "closed"}
    \/ from = "active" /\ to = "closed"

\* The rows a valid request makes.
validateCreateRequest == [status : {"pending"}, outcome : {NoOutcome}]

\* INSERT; the unique index on the source refuses a second row.
CreateRow(e) ==
    /\ ~Exists(e)
    /\ \E row \in validateCreateRequest : events' = [events EXCEPT ![e] = row]
    /\ UNCHANGED <<audits, outbox>>

\* A mutant: only a resolved event keeps its status.
UpsertReopening(e, to) ==
    /\ events' = [events EXCEPT
                    ![e].status = IF @ = "resolved" THEN @ ELSE to]
    /\ UNCHANGED <<audits, outbox>>

\* INSERT ... ON CONFLICT (source_type, source_id) DO UPDATE.
UpsertSource(e, to) ==
    /\ events' = [events EXCEPT
                    ![e].status = IF @ \in {"closed", "resolved"} THEN @ ELSE to]
    /\ UNCHANGED <<audits, outbox>>

\* UPDATE ... WHERE id = e AND status = from; no row updated is an error.
SetStatus(e, from, to) ==
    /\ events[e].status = from
    /\ events' = [events EXCEPT ![e].status = to]
    /\ UNCHANGED <<audits, outbox>>

\* The row, its audit and its outbox message, in one transaction.
Resolved(e, outcome, by) ==
    /\ events' = [events EXCEPT ![e] = [status |-> "resolved",
                                        outcome |-> outcome]]
    /\ audits' = audits \cup {[event |-> e, outcome |-> outcome, by |-> by]}
    /\ outbox' = IF \E row \in outbox : row.event = e THEN outbox
                 ELSE outbox \cup {[event |-> e, outcome |-> outcome]}

\* A mutant: the status that was read is not compared again.
ResolveAnyway(e, from, outcome, by) == Resolved(e, outcome, by)

ResolveRow(e, from, outcome, by) ==
    /\ events[e].status = from
    /\ Resolved(e, outcome, by)

-----------------------------------------------------------------------------
\* Synchronizations of several replicas, administrators and resolutions act
\* on what each of them read earlier.  Whatever their order, an event that
\* is closed is not reopened, a resolved one keeps its outcome for good, and
\* only the source itself moves an event back, from active to pending.
\* (docs/resources/polymarket-sync.md: closed and resolved local events
\* cannot be reopened; manual resolution remains a terminal override.)
ClosedNeverReopens ==
    [][\A e \in Events :
        /\ events[e].status = "closed"
            => events'[e].status \in {"closed", "resolved"}
        /\ events[e].status = "resolved" => events'[e] = events[e]]_tables

\* Two resolutions of one event, manual and synchronized, may both have read
\* it closed: still exactly one is recorded, and the row, its audit and the
\* message settlement will pay by name the same outcome.
ResolvedOnce ==
    \A e \in Events :
        LET audited == {a \in audits : a.event = e}
            queued == {row \in outbox : row.event = e}
        IN  IF events[e].status = "resolved"
            THEN /\ Cardinality(audited) = 1
                 /\ queued = {[event |-> e, outcome |-> events[e].outcome]}
                 /\ \A a \in audited : a.outcome = events[e].outcome
            ELSE /\ audited = {}
                 /\ queued = {}
                 /\ events[e].outcome = NoOutcome
=============================================================================
