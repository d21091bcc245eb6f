------------------------- MODULE SettlementDelivery -------------------------
(***************************************************************************)
(* How a resolved event reaches settlement: the transactional outbox, the  *)
(* dispatcher of every replica, the JetStream stream with its one durable  *)
(* consumer, and the settlement consumer of every replica with its         *)
(* retries, dead letters and acknowledgements.  Publishing and             *)
(* acknowledging may fail with or without effect, a replica may crash and  *)
(* restart at every step, and a delivery that takes longer than the        *)
(* acknowledgement wait is delivered again.                                *)
(***************************************************************************)
EXTENDS Naturals, Sequences, FiniteSets

CONSTANTS Events, Markets,
          EventOf,          \* the event a market belongs to
          Doubtful,         \* markets whose data may need repair
          Replicas,
          BatchSize,        \* outboxBatchSize
          RetryAttempts,    \* settlementRetryAttempts
          MaxDeliver,       \* maxDeliveries of the durable consumer
          MaxMessages,      \* bound: messages ever on the stream
          MaxFaults,        \* bound: failed calls and crashes
          Idle              \* the message of a consumer that holds none

MessageIds == 1 .. MaxMessages

ASSUME DeliveryAssumption ==
    /\ EventOf \in [Markets -> Events]
    /\ Doubtful \subseteq Markets
    /\ IsFiniteSet(Events) /\ IsFiniteSet(Replicas)
    /\ BatchSize \in Nat \ {0}
    /\ RetryAttempts \in Nat \ {0}
    /\ MaxDeliver \in Nat \ {0}
    /\ MaxMessages \in Nat
    /\ MaxFaults \in Nat
    /\ Idle \notin Nat

VARIABLES
    status,         \* events.status, of events that trading has closed
    outbox,         \* event_outbox: no row, pending, or published_at set
    unsettleable,   \* markets SettleEvent skips: outcome or wallet missing
    paid,           \* how often each market was settled
    batch,          \* per replica: the dispatch transaction in progress
    stream,         \* the events on the subject, in publication order
    deliveries,     \* how often the consumer delivered each message
    waiting,        \* messages whose acknowledgement wait is running
    acked,          \* messages the stream counts as acknowledged
    consumer,       \* per replica: where runConsumer is
    deadLetters,    \* events on the dead-letter subject
    faults          \* failed calls and crashes so far

tables == <<status, outbox, unsettleable, paid>>
broker == <<stream, deliveries, waiting, acked, deadLetters>>
vars == <<tables, batch, broker, consumer, faults>>

Steps == {"next", "list", "settle", "deadLetter", "ack", "stuck"}

NoBatch == [todo |-> {}, done |-> {}]

\* A consumer at a step, with a message and no market to visit.
Holding(step, i, attempt) ==
    [step |-> step, message |-> i, attempt |-> attempt,
     visit |-> {}, skipped |-> FALSE]

\* runConsumer between two messages.
Ready == Holding("next", Idle, 0)

Init ==
    /\ status = [e \in Events |-> "closed"]
    /\ outbox = [e \in Events |-> "none"]
    /\ unsettleable \in SUBSET Doubtful
    /\ paid = [m \in Markets |-> 0]
    /\ batch = [r \in Replicas |-> NoBatch]
    /\ stream = <<>>
    /\ deliveries = [i \in MessageIds |-> 0]
    /\ waiting = {}
    /\ acked = {}
    /\ consumer = [r \in Replicas |-> Ready]
    /\ deadLetters = {}
    /\ faults = 0

MarketsOf(e) == {m \in Markets : EventOf[m] = e}

-----------------------------------------------------------------------------
(* The event service and the outbox dispatcher                             *)

\* One transaction: the row is resolved only if it still has the status
\* that was read, and the outbox row is inserted unless there is one.
Resolve(e) ==
    /\ status[e] = "closed"
    /\ status' = [status EXCEPT ![e] = "resolved"]
    /\ outbox' = [outbox EXCEPT ![e] = IF @ = "none" THEN "pending" ELSE @]
    /\ UNCHANGED <<unsettleable, paid, batch, broker, consumer, faults>>

\* Rows some dispatch transaction holds: FOR UPDATE SKIP LOCKED passes them.
LockedRows == UNION {batch[r].todo \cup batch[r].done : r \in Replicas}

Pending == {e \in Events : outbox[e] = "pending"} \ LockedRows

\* At most BatchSize rows; which of the pending ones come first does not
\* matter to anything below.
LockPendingMessages(r) ==
    /\ batch[r] = NoBatch
    /\ Pending # {}
    /\ \E rows \in SUBSET Pending :
        /\ rows # {}
        /\ \/ rows = Pending
           \/ Cardinality(rows) = BatchSize
        /\ Cardinality(rows) <= BatchSize
        /\ batch' = [batch EXCEPT ![r] = [todo |-> rows, done |-> {}]]
    /\ UNCHANGED <<tables, broker, consumer, faults>>

Append1(e) ==
    /\ Len(stream) < MaxMessages
    /\ stream' = Append(stream, e)

PublishOutbox(r, e) ==
    /\ e \in batch[r].todo
    /\ Append1(e)
    /\ batch' = [batch EXCEPT ![r] = [todo |-> @.todo \ {e},
                                      done |-> @.done \cup {e}]]
    /\ UNCHANGED <<tables, deliveries, waiting, acked, deadLetters, consumer,
                   faults>>

\* published_at becomes visible for the whole batch, or for none of it.
CommitDispatch(r) ==
    /\ batch[r].todo = {} /\ batch[r].done # {}
    /\ outbox' = [e \in Events |->
                    IF e \in batch[r].done THEN "published" ELSE outbox[e]]
    /\ batch' = [batch EXCEPT ![r] = NoBatch]
    /\ UNCHANGED <<status, unsettleable, paid, broker, consumer, faults>>

Fault ==
    /\ faults < MaxFaults
    /\ faults' = faults + 1

\* A publication fails or times out, the stream having kept the message or
\* not, or the transaction fails: every mark of the batch is rolled back.
DispatchFails(r) ==
    /\ batch[r] # NoBatch
    /\ Fault
    /\ \/ \E e \in batch[r].todo : Append1(e)
       \/ UNCHANGED stream
    /\ batch' = [batch EXCEPT ![r] = NoBatch]
    /\ UNCHANGED <<tables, deliveries, waiting, acked, deadLetters, consumer>>

-----------------------------------------------------------------------------
(* The settlement consumer of a replica                                    *)

\* Between two attempts a consumer only knows the message it holds.
Moved(r, step) == [consumer EXCEPT ![r] = Holding(step, @.message, 0)]

\* The next attempt at the same message.
Again(r) == [consumer EXCEPT ![r] = Holding("list", @.message, @.attempt + 1)]

EventAt(r) == stream[consumer[r].message]

\* Fetch one message that is neither acknowledged nor waited for and has a
\* delivery left.  A consumer whose last message is still pending gets an
\* error instead, and goes on getting it: step "stuck".
NextMessage(r) ==
    /\ consumer[r].step = "next"
    /\ \E i \in 1 .. Len(stream) :
        /\ i \notin acked \cup waiting
        /\ deliveries[i] < MaxDeliver
        /\ deliveries' = [deliveries EXCEPT ![i] = @ + 1]
        /\ waiting' = waiting \cup {i}
        /\ consumer' = [consumer EXCEPT ![r] = Holding("list", i, 1)]
    /\ UNCHANGED <<tables, batch, stream, acked, deadLetters, faults>>

\* Mutant of Visiting: the errors of skipped markets are not returned.
VisitingSilently(r, markets, skipped) ==
    IF markets = {}
    THEN Moved(r, "ack")
    ELSE [consumer EXCEPT ![r] =
            [step |-> "settle", message |-> @.message, attempt |-> @.attempt,
             visit |-> markets, skipped |-> skipped]]

\* The markets of the list still to visit; after the last one SettleEvent
\* returns nil, or the joined errors of the markets it skipped.
Visiting(r, markets, skipped) ==
    IF markets = {}
    THEN Moved(r, IF skipped THEN "deadLetter" ELSE "ack")
    ELSE [consumer EXCEPT ![r] =
            [step |-> "settle", message |-> @.message, attempt |-> @.attempt,
             visit |-> markets, skipped |-> skipped]]

\* SettleEvent begins by listing the markets without a settlement; an event
\* that is not resolved is a permanent error.
ListUnsettled(r) ==
    /\ consumer[r].step = "list"
    /\ consumer' = IF status[EventAt(r)] # "resolved"
                   THEN Moved(r, "deadLetter")
                   ELSE Visiting(r, {m \in MarketsOf(EventAt(r)) : paid[m] = 0},
                                 FALSE)
    /\ UNCHANGED <<tables, batch, broker, faults>>

\* The transaction of one market, under its row lock: it looks again whether
\* the market is settled, since the list is no longer current.
NotLookedAgain(m) == FALSE  \* mutant of AlreadySettled
AlreadySettled(m) == paid[m] > 0

SettleMarket(r, m) ==
    /\ consumer[r].step = "settle"
    /\ m \in consumer[r].visit
    /\ consumer' = Visiting(r, consumer[r].visit \ {m},
                            consumer[r].skipped \/ m \in unsettleable)
    /\ paid' = IF m \in unsettleable \/ AlreadySettled(m)
               THEN paid
               ELSE [paid EXCEPT ![m] = @ + 1]
    /\ UNCHANGED <<status, outbox, unsettleable, batch, broker, faults>>

\* Mutant of TransientError: the limit is compared one too late.
TransientErrorOnceMore(r) ==
    /\ consumer[r].step \in {"list", "settle"}
    /\ consumer' = IF consumer[r].attempt > RetryAttempts
                   THEN Moved(r, "deadLetter")
                   ELSE Again(r)
    /\ UNCHANGED <<tables, batch, broker, faults>>

\* Mutant of TransientError: after the last attempt the message is left to
\* be delivered again.
TransientErrorLeft(r) ==
    /\ consumer[r].step \in {"list", "settle"}
    /\ consumer' = IF consumer[r].attempt = RetryAttempts
                   THEN [consumer EXCEPT ![r] = Ready]
                   ELSE Again(r)
    /\ UNCHANGED <<tables, batch, broker, faults>>

\* Mutant of TransientError: after the last attempt the message stays
\* pending.
TransientErrorSticks(r) ==
    /\ consumer[r].step \in {"list", "settle"}
    /\ consumer' = IF consumer[r].attempt = RetryAttempts
                   THEN Moved(r, "stuck")
                   ELSE Again(r)
    /\ UNCHANGED <<tables, batch, broker, faults>>

\* Any other error ends the attempt; after RetryAttempts of them the
\* message is given up.
TransientError(r) ==
    /\ consumer[r].step \in {"list", "settle"}
    /\ consumer' = IF consumer[r].attempt = RetryAttempts
                   THEN Moved(r, "deadLetter")
                   ELSE Again(r)
    /\ UNCHANGED <<tables, batch, broker, faults>>

PublishDeadLetter(r) ==
    /\ consumer[r].step = "deadLetter"
    /\ deadLetters' = deadLetters \cup {EventAt(r)}
    /\ consumer' = Moved(r, "ack")
    /\ UNCHANGED <<tables, batch, stream, deliveries, waiting, acked, faults>>

Acknowledge(r) ==
    /\ consumer[r].step = "ack"
    /\ acked' = acked \cup {consumer[r].message}
    /\ waiting' = waiting \ {consumer[r].message}
    /\ consumer' = [consumer EXCEPT ![r] = Ready]
    /\ UNCHANGED <<tables, batch, stream, deliveries, deadLetters, faults>>

\* The dead letter or the acknowledgement gets no answer, having had its
\* effect or not.  pending stays set and the consumer is stuck.
DeadLetterFails(r) ==
    /\ consumer[r].step = "deadLetter"
    /\ Fault
    /\ deadLetters' \in {deadLetters, deadLetters \cup {EventAt(r)}}
    /\ consumer' = Moved(r, "stuck")
    /\ UNCHANGED <<tables, batch, stream, deliveries, waiting, acked>>

AckFails(r) ==
    /\ consumer[r].step = "ack"
    /\ Fault
    /\ acked' \in {acked, acked \cup {consumer[r].message}}
    /\ consumer' = Moved(r, "stuck")
    /\ UNCHANGED <<tables, batch, stream, deliveries, waiting, deadLetters>>

-----------------------------------------------------------------------------
(* The broker, the replicas and the operator                               *)

\* ackWait runs out: the message may be delivered again, also while its
\* first receiver is still at work.  After the last delivery it makes no
\* difference any more.
AckWaitExpires(i) ==
    /\ i \in waiting
    /\ deliveries[i] < MaxDeliver
    /\ waiting' = waiting \ {i}
    /\ UNCHANGED <<tables, batch, stream, deliveries, acked, deadLetters,
                   consumer, faults>>

\* PostgreSQL rolls the dispatch transaction back; the new process binds to
\* the same durable consumer and holds no message.
Restart(r) ==
    /\ Fault
    /\ batch' = [batch EXCEPT ![r] = NoBatch]
    /\ consumer' = [consumer EXCEPT ![r] = Ready]
    /\ UNCHANGED <<tables, broker>>

\* An operator repairs the data of a dead-lettered event and publishes the
\* original payload again.
Replay(e) ==
    /\ e \in deadLetters
    /\ MarketsOf(e) \cap unsettleable # {}
    /\ unsettleable' = unsettleable \ MarketsOf(e)
    /\ Append1(e)
    /\ UNCHANGED <<status, outbox, paid, batch, deliveries, waiting, acked,
                   deadLetters, consumer, faults>>

Dispatcher(r) ==
    \/ LockPendingMessages(r)
    \/ \E e \in Events : PublishOutbox(r, e)
    \/ CommitDispatch(r)

Consumer(r) ==
    \/ NextMessage(r)
    \/ ListUnsettled(r)
    \/ \E m \in Markets : SettleMarket(r, m)
    \/ TransientError(r)
    \/ PublishDeadLetter(r)
    \/ Acknowledge(r)

Failure(r) ==
    \/ DispatchFails(r)
    \/ DeadLetterFails(r)
    \/ AckFails(r)
    \/ Restart(r)

Next ==
    \/ \E e \in Events : Resolve(e) \/ Replay(e)
    \/ \E r \in Replicas : Dispatcher(r) \/ Consumer(r) \/ Failure(r)
    \/ \E i \in MessageIds : AckWaitExpires(i)

SafeSpec == Init /\ [][Next]_vars

\* The tickers and loops of a replica run for ever and the broker's timer
\* expires; nothing obliges an event to be resolved, a call to fail, a
\* replica to restart or an operator to act.
Spec ==
    /\ SafeSpec
    /\ \A r \in Replicas : WF_vars(Dispatcher(r)) /\ WF_vars(Consumer(r))
    /\ \A i \in MessageIds : WF_vars(AckWaitExpires(i))

-----------------------------------------------------------------------------
(* Properties                                                              *)

\* Every variable has its type (event_outbox.published_at is set or not, a
\* consumer holds a message of the stream exactly while it works on one,
\* and no message is delivered more often than maxDeliveries).
TypeOK ==
    /\ status \in [Events -> {"closed", "resolved"}]
    /\ outbox \in [Events -> {"none", "pending", "published"}]
    /\ unsettleable \in SUBSET Markets
    /\ paid \in [Markets -> Nat]
    /\ batch \in [Replicas -> [todo : SUBSET Events, done : SUBSET Events]]
    /\ stream \in Seq(Events) /\ Len(stream) <= MaxMessages
    /\ deliveries \in [MessageIds -> 0 .. MaxDeliver]
    /\ waiting \in SUBSET (1 .. Len(stream))
    /\ acked \in SUBSET (1 .. Len(stream))
    /\ consumer \in [Replicas ->
            [step : Steps, message : 0 .. MaxMessages \cup {Idle},
             attempt : 0 .. RetryAttempts, visit : SUBSET Markets,
             skipped : BOOLEAN]]
    /\ \A r \in Replicas : consumer[r].step # "next"
                            => consumer[r].message \in 1 .. Len(stream)
    /\ deadLetters \in SUBSET Events
    /\ faults \in 0 .. MaxFaults

\* A resolved event is dealt with once all its markets are settled or its
\* dead letter is on the stream.
DealtWith(e) ==
    \/ e \in deadLetters
    \/ \A m \in MarketsOf(e) : paid[m] > 0

\* No step between the outbox and the acknowledgement loses an event: a
\* resolved event has its outbox row pending, or a message that is not
\* acknowledged, or has been dealt with (Dispatch marks after publishing,
\* processUntilAcknowledged acknowledges last, whatever fails in between).
ResolutionKept ==
    \A e \in Events : status[e] = "resolved" =>
        \/ outbox[e] = "pending"
        \/ \E i \in 1 .. Len(stream) : stream[i] = e /\ i \notin acked
        \/ DealtWith(e)

\* A message the durable consumer will not deliver again, unacknowledged and
\* in nobody's hands.
Abandoned(i) ==
    /\ i \notin acked /\ deliveries[i] = MaxDeliver
    /\ \A r \in Replicas :
        consumer[r].message = i => consumer[r].step = "stuck"

\* The stream drops a message silently only after every one of its
\* deliveries was cut short by a crash or a failed call of its own: retries
\* and slow settlements do not use deliveries up.
AbandonedByFaults ==
    \A i \in 1 .. Len(stream) : Abandoned(i) => faults >= MaxDeliver

\* The delivery keeps the promise at every step: markets are paid once, after
\* the resolution, and only resolved events are given up (settleMarket looks
\* under the row lock whether another replica was faster).
Promise == INSTANCE SettlementPromise
    WITH resolved <- {e \in Events : status[e] = "resolved"},
         givenUp <- deadLetters

KeepsPromise == Promise!SafeSpec

\* A failed acknowledgement blocks its replica and a cut delivery uses up one
\* of MaxDeliver, so that the promise is kept in the end as long as the
\* failures leave one working consumer and one delivery: then every resolved
\* event is settled or dead-lettered (runDispatcher and runConsumer go on
\* after every error).
FewFaults == faults < MaxDeliver /\ faults < Cardinality(Replicas)

ResolutionDelivered ==
    []FewFaults => \A e \in Events : status[e] = "resolved" ~> DealtWith(e)
=============================================================================
