--------------------------- MODULE DeliveryProofs ---------------------------
(***************************************************************************)
(* Safety of the delivery for every number of events, markets, replicas,   *)
(* messages and faults: types, the resolution that is never lost, and the  *)
(* refinement of SettlementPromise.                                        *)
(***************************************************************************)
EXTENDS SettlementDelivery, FiniteSetTheorems, TLAPS

-----------------------------------------------------------------------------
(***************************************************************************)
(* Types.                                                                  *)
(***************************************************************************)
ConsumerStates ==
    [step : Steps, message : 0 .. MaxMessages \cup {Idle},
     attempt : 0 .. RetryAttempts, visit : SUBSET Markets, skipped : BOOLEAN]

\* What the type invariant says of the consumers.
ConsumersOK ==
    /\ consumer \in [Replicas -> ConsumerStates]
    /\ \A r \in Replicas : consumer[r].step # "next"
                            => consumer[r].message \in 1 .. Len(stream)

LEMMA TypeOKConsumers == TypeOK => ConsumersOK
BY DEF TypeOK, ConsumersOK, ConsumerStates

LEMMA ReadyType == Ready \in ConsumerStates
BY DeliveryAssumption DEF Ready, Holding, ConsumerStates, Steps

\* The consumer of one replica changes, its message being on the stream.
LEMMA OneConsumer ==
    ASSUME ConsumersOK, NEW r \in Replicas, NEW state \in ConsumerStates,
           state.step # "next" => state.message \in 1 .. Len(stream),
           consumer' = [consumer EXCEPT ![r] = state],
           stream' = stream
    PROVE  ConsumersOK'
BY DEF ConsumersOK

\* Where Moved leaves the consumer.
MovedState(r, step) == Holding(step, consumer[r].message, 0)

LEMMA MovedIs ==
    ASSUME NEW r, NEW step
    PROVE  Moved(r, step) = [consumer EXCEPT ![r] = MovedState(r, step)]
BY DEF Moved, MovedState

LEMMA HoldingType ==
    ASSUME NEW step \in Steps, NEW i \in 0 .. MaxMessages \cup {Idle},
           NEW attempt \in 0 .. RetryAttempts
    PROVE  /\ Holding(step, i, attempt) \in ConsumerStates
           /\ Holding(step, i, attempt).step = step
           /\ Holding(step, i, attempt).message = i
BY DEF Holding, ConsumerStates

LEMMA MovedStateType ==
    ASSUME ConsumersOK, NEW r \in Replicas, NEW step \in Steps
    PROVE  MovedState(r, step) \in ConsumerStates
<1>1. consumer[r].message \in 0 .. MaxMessages \cup {Idle}
  BY DEF ConsumersOK, ConsumerStates
<1>2. 0 \in 0 .. RetryAttempts
  BY DeliveryAssumption
<1>3. QED
  BY <1>1, <1>2, HoldingType DEF MovedState

LEMMA MovedType ==
    ASSUME ConsumersOK, NEW r \in Replicas, NEW step \in Steps,
           consumer[r].step # "next",
           consumer' = Moved(r, step), stream' = stream
    PROVE  ConsumersOK'
<1>1. MovedState(r, step) \in ConsumerStates
  BY MovedStateType
<1>2. MovedState(r, step).message \in 1 .. Len(stream)
  BY DEF ConsumersOK, MovedState, Holding
<1>3. QED
  BY <1>1, <1>2, MovedIs, OneConsumer

\* Where Visiting leaves the consumer.
VisitingState(r, markets, skipped) ==
    IF markets = {}
    THEN MovedState(r, IF skipped THEN "deadLetter" ELSE "ack")
    ELSE [step |-> "settle", message |-> consumer[r].message,
          attempt |-> consumer[r].attempt, visit |-> markets,
          skipped |-> skipped]

LEMMA VisitingIs ==
    ASSUME ConsumersOK, NEW r \in Replicas, NEW markets, NEW skipped
    PROVE  Visiting(r, markets, skipped)
            = [consumer EXCEPT ![r] = VisitingState(r, markets, skipped)]
<1>1. CASE markets = {}
  BY <1>1, MovedIs DEF Visiting, VisitingState
<1>2. CASE markets # {}
  BY <1>2 DEF Visiting, VisitingState, ConsumersOK, ConsumerStates
<1>3. QED
  BY <1>1, <1>2

LEMMA VisitingType ==
    ASSUME ConsumersOK, NEW r \in Replicas, NEW markets \in SUBSET Markets,
           NEW skipped \in BOOLEAN, consumer[r].step # "next",
           consumer' = Visiting(r, markets, skipped), stream' = stream
    PROVE  ConsumersOK'
<1> DEFINE state == VisitingState(r, markets, skipped)
<1>1. state \in ConsumerStates /\ state.message \in 1 .. Len(stream)
  <2>1. CASE markets = {}
    <3>1. (IF skipped THEN "deadLetter" ELSE "ack") \in Steps
      BY DEF Steps
    <3>2. QED
      BY <2>1, <3>1, MovedStateType DEF VisitingState, MovedState, Holding, ConsumersOK
  <2>2. CASE markets # {}
    BY <2>2 DEF VisitingState, ConsumersOK, ConsumerStates, Steps
  <2>3. QED
    BY <2>1, <2>2
<1>2. consumer' = [consumer EXCEPT ![r] = state]
  BY VisitingIs
<1>3. QED
  BY <1>1, <1>2, OneConsumer

LEMMA AppendType ==
    ASSUME TypeOK, NEW e \in Events, Append1(e)
    PROVE  /\ stream' \in Seq(Events) /\ Len(stream') <= MaxMessages
           /\ Len(stream') = Len(stream) + 1
           /\ \A i \in 1 .. Len(stream) : stream'[i] = stream[i]
           /\ stream'[Len(stream) + 1] = e
BY DeliveryAssumption DEF TypeOK, Append1

\* The stream grows while the consumers keep their messages.
LEMMA LongerStream ==
    ASSUME TypeOK, consumer' = consumer,
           stream' \in Seq(Events), Len(stream') >= Len(stream)
    PROVE  /\ ConsumersOK'
           /\ waiting \in SUBSET (1 .. Len(stream'))
           /\ acked \in SUBSET (1 .. Len(stream'))
<1>1. Len(stream) \in Nat /\ Len(stream') \in Nat
  BY DEF TypeOK
<1>2. 1 .. Len(stream) \subseteq 1 .. Len(stream')
  BY <1>1
<1>3. QED
  BY <1>2, TypeOKConsumers DEF TypeOK, ConsumersOK

\* The broker's other variables and the tables, next to the consumers.
OthersOK ==
    /\ status \in [Events -> {"closed", "resolved"}]
    /\ outbox \in [Events -> {"none", "pending", "published"}]
    /\ unsettleable \in SUBSET Markets
    /\ paid \in [Markets -> Nat]
    /\ batch \in [Replicas -> [todo : SUBSET Events, done : SUBSET Events]]
    /\ stream \in Seq(Events) /\ Len(stream) <= MaxMessages
    /\ deliveries \in [MessageIds -> 0 .. MaxDeliver]
    /\ waiting \in SUBSET (1 .. Len(stream))
    /\ acked \in SUBSET (1 .. Len(stream))
    /\ deadLetters \in SUBSET Events
    /\ faults \in 0 .. MaxFaults

LEMMA TypeOKSplits == TypeOK <=> OthersOK /\ ConsumersOK
BY DEF TypeOK, OthersOK, ConsumersOK, ConsumerStates

LEMMA TypeOKNext ==
    ASSUME OthersOK', ConsumersOK'
    PROVE  TypeOK'
BY DEF TypeOK, OthersOK, ConsumersOK, ConsumerStates

LEMMA InitTypeOK == Init => TypeOK
<1> SUFFICES ASSUME Init PROVE TypeOK
  OBVIOUS
<1>1. OthersOK
  BY DeliveryAssumption DEF Init, OthersOK, NoBatch, MessageIds
<1>2. ConsumersOK
  BY ReadyType DEF Init, ConsumersOK, Ready, Holding
<1>3. QED
  BY <1>1, <1>2, TypeOKSplits

LEMMA DispatcherTypeOK ==
    ASSUME TypeOK, NEW r \in Replicas, Dispatcher(r)
    PROVE  TypeOK'
<1>0. OthersOK /\ ConsumersOK
  BY TypeOKSplits
<1>1. CASE LockPendingMessages(r)
  <2>1. PICK rows \in SUBSET Pending :
            batch' = [batch EXCEPT ![r] = [todo |-> rows, done |-> {}]]
    BY <1>1 DEF LockPendingMessages
  <2>2. rows \in SUBSET Events
    BY DEF Pending
  <2>3. OthersOK'
    BY <1>0, <1>1, <2>1, <2>2
       DEF LockPendingMessages, OthersOK, tables, broker
  <2>4. ConsumersOK'
    BY <1>0, <1>1 DEF LockPendingMessages, ConsumersOK, broker
  <2>5. QED
    BY <2>3, <2>4, TypeOKNext
<1>2. ASSUME NEW e \in Events, PublishOutbox(r, e)
      PROVE  TypeOK'
  <2>1. Append1(e) /\ consumer' = consumer
    BY <1>2 DEF PublishOutbox
  <2>2. stream' \in Seq(Events) /\ Len(stream') <= MaxMessages
        /\ Len(stream') >= Len(stream)
    BY <1>0, <2>1, AppendType DEF OthersOK
  <2>3. /\ ConsumersOK'
        /\ waiting \in SUBSET (1 .. Len(stream'))
        /\ acked \in SUBSET (1 .. Len(stream'))
    BY <2>1, <2>2, LongerStream
  <2>4. batch' \in [Replicas -> [todo : SUBSET Events, done : SUBSET Events]]
    BY <1>0, <1>2 DEF PublishOutbox, OthersOK
  <2>5. OthersOK'
    BY <1>0, <1>2, <2>2, <2>3, <2>4 DEF PublishOutbox, OthersOK, tables
  <2>6. QED
    BY <2>3, <2>5, TypeOKNext
<1>3. CASE CommitDispatch(r)
  <2>1. OthersOK'
    BY <1>0, <1>3 DEF CommitDispatch, OthersOK, NoBatch, broker
  <2>2. ConsumersOK'
    BY <1>0, <1>3 DEF CommitDispatch, ConsumersOK, broker
  <2>3. QED
    BY <2>1, <2>2, TypeOKNext
<1>4. QED
  BY <1>1, <1>2, <1>3 DEF Dispatcher

LEMMA NextMessageTypeOK ==
    ASSUME TypeOK, NEW r \in Replicas, NextMessage(r)
    PROVE  TypeOK'
<1>0. OthersOK /\ ConsumersOK
  BY TypeOKSplits
<1>1. PICK i \in 1 .. Len(stream) :
        /\ deliveries[i] < MaxDeliver
        /\ deliveries' = [deliveries EXCEPT ![i] = @ + 1]
        /\ waiting' = waiting \cup {i}
        /\ consumer' = [consumer EXCEPT ![r] = Holding("list", i, 1)]
  BY DEF NextMessage
<1>2. UNCHANGED <<tables, batch, stream, acked, deadLetters, faults>>
  BY DEF NextMessage
<1>3. i \in MessageIds
  BY <1>0, DeliveryAssumption DEF OthersOK, MessageIds
<1>4. deliveries' \in [MessageIds -> 0 .. MaxDeliver]
  BY <1>0, <1>1, <1>3, DeliveryAssumption DEF OthersOK
<1>5. OthersOK'
  BY <1>0, <1>1, <1>2, <1>4 DEF OthersOK, tables
<1> DEFINE state == Holding("list", i, 1)
<1>6. state \in ConsumerStates /\ state.message = i
  BY <1>3, DeliveryAssumption, HoldingType DEF Steps, MessageIds
<1>7. ConsumersOK'
  BY <1>0, <1>1, <1>2, <1>6, OneConsumer
<1>8. QED
  BY <1>5, <1>7, TypeOKNext

LEMMA ConsumerTypeOK ==
    ASSUME TypeOK, NEW r \in Replicas, Consumer(r)
    PROVE  TypeOK'
<1>0. OthersOK /\ ConsumersOK
  BY TypeOKSplits
<1>1. CASE NextMessage(r)
  BY <1>1, NextMessageTypeOK
<1>2. CASE ListUnsettled(r)
  <2>1. OthersOK' /\ stream' = stream
    BY <1>0, <1>2 DEF ListUnsettled, OthersOK, tables, broker
  <2>2. consumer[r].step # "next"
    BY <1>2 DEF ListUnsettled
  <2>3. CASE status[EventAt(r)] # "resolved"
    BY <1>0, <1>2, <2>1, <2>2, <2>3, MovedType, TypeOKNext
       DEF ListUnsettled, Steps
  <2>4. CASE status[EventAt(r)] = "resolved"
    <3>1. {m \in MarketsOf(EventAt(r)) : paid[m] = 0} \in SUBSET Markets
      BY DEF MarketsOf
    <3>2. QED
      BY <1>0, <1>2, <2>1, <2>2, <2>4, <3>1, VisitingType, TypeOKNext
         DEF ListUnsettled
  <2>5. QED
    BY <2>3, <2>4
<1>3. ASSUME NEW m \in Markets, SettleMarket(r, m)
      PROVE  TypeOK'
  <2>1. OthersOK' /\ stream' = stream
    <3>1. paid' \in [Markets -> Nat]
      BY <1>0, <1>3 DEF SettleMarket, OthersOK
    <3>2. QED
      BY <1>0, <1>3, <3>1 DEF SettleMarket, OthersOK, broker
  <2>2. /\ consumer[r].step # "next"
        /\ consumer[r].visit \ {m} \in SUBSET Markets
        /\ (consumer[r].skipped \/ m \in unsettleable) \in BOOLEAN
    BY <1>0, <1>3 DEF SettleMarket, ConsumersOK, ConsumerStates
  <2>3. consumer' = Visiting(r, consumer[r].visit \ {m},
                             consumer[r].skipped \/ m \in unsettleable)
    BY <1>3 DEF SettleMarket
  <2>4. ConsumersOK'
    BY <1>0, <2>1, <2>2, <2>3, VisitingType
  <2>5. QED
    BY <2>1, <2>4, TypeOKNext
<1>4. CASE TransientError(r)
  <2>1. OthersOK' /\ stream' = stream
    BY <1>0, <1>4 DEF TransientError, OthersOK, tables, broker
  <2>2. consumer[r].step # "next"
    BY <1>4 DEF TransientError
  <2>3. CASE consumer[r].attempt = RetryAttempts
    BY <1>0, <1>4, <2>1, <2>2, <2>3, MovedType, TypeOKNext
       DEF TransientError, Steps
  <2>4. CASE consumer[r].attempt # RetryAttempts
    <3> DEFINE state ==
            Holding("list", consumer[r].message, consumer[r].attempt + 1)
    <3>1. consumer' = [consumer EXCEPT ![r] = state]
      BY <1>4, <2>4 DEF TransientError, Again
    <3>2. consumer[r].attempt + 1 \in 0 .. RetryAttempts
      BY <1>0, <2>4, DeliveryAssumption DEF ConsumersOK, ConsumerStates
    <3>3. consumer[r].message \in 0 .. MaxMessages \cup {Idle}
      BY <1>0 DEF ConsumersOK, ConsumerStates
    <3>4. state \in ConsumerStates
      BY <3>2, <3>3, HoldingType DEF Steps
    <3>5. state.message \in 1 .. Len(stream)
      BY <1>0, <2>2 DEF ConsumersOK, Holding
    <3>6. ConsumersOK'
      BY <1>0, <2>1, <3>1, <3>4, <3>5, OneConsumer
    <3>7. QED
      BY <2>1, <3>6, TypeOKNext
  <2>5. QED
    BY <2>3, <2>4
<1>5. CASE PublishDeadLetter(r)
  <2>1. EventAt(r) \in Events
    BY <1>0, <1>5 DEF PublishDeadLetter, EventAt, ConsumersOK, OthersOK
  <2>2. OthersOK' /\ stream' = stream
    BY <1>0, <1>5, <2>1 DEF PublishDeadLetter, OthersOK, tables
  <2>3. ConsumersOK'
    BY <1>0, <1>5, <2>2, MovedType DEF PublishDeadLetter, Steps
  <2>4. QED
    BY <2>2, <2>3, TypeOKNext
<1>6. CASE Acknowledge(r)
  <2>1. consumer[r].message \in 1 .. Len(stream)
    BY <1>0, <1>6 DEF Acknowledge, ConsumersOK
  <2>2. OthersOK' /\ stream' = stream
    BY <1>0, <1>6, <2>1 DEF Acknowledge, OthersOK, tables
  <2>3. ConsumersOK'
    BY <1>0, <1>6, <2>2, ReadyType, OneConsumer DEF Acknowledge, Ready, Holding
  <2>4. QED
    BY <2>2, <2>3, TypeOKNext
<1>7. QED
  BY <1>1, <1>2, <1>3, <1>4, <1>5, <1>6 DEF Consumer

LEMMA FailureTypeOK ==
    ASSUME TypeOK, NEW r \in Replicas, Failure(r)
    PROVE  TypeOK'
<1>0. OthersOK /\ ConsumersOK
  BY TypeOKSplits
<1>1. Fault => faults' \in 0 .. MaxFaults
  BY <1>0, DeliveryAssumption DEF Fault, OthersOK
<1>2. NoBatch \in [todo : SUBSET Events, done : SUBSET Events]
  BY DEF NoBatch
<1>3. CASE DispatchFails(r)
  <2>1. stream' \in Seq(Events) /\ Len(stream') <= MaxMessages
        /\ Len(stream') >= Len(stream)
    <3>1. ASSUME NEW e \in batch[r].todo, Append1(e)
          PROVE  stream' \in Seq(Events) /\ Len(stream') <= MaxMessages
                 /\ Len(stream') >= Len(stream)
      <4>1. e \in Events
        BY <1>0, <3>1 DEF OthersOK
      <4>2. QED
        BY <1>0, <3>1, <4>1, AppendType DEF OthersOK
    <3>2. CASE stream' = stream
      BY <1>0, <3>2 DEF OthersOK
    <3>3. QED
      BY <1>3, <3>1, <3>2 DEF DispatchFails
  <2>2. /\ ConsumersOK'
        /\ waiting \in SUBSET (1 .. Len(stream'))
        /\ acked \in SUBSET (1 .. Len(stream'))
    BY <1>3, <2>1, LongerStream DEF DispatchFails
  <2>3. OthersOK'
    BY <1>0, <1>1, <1>2, <1>3, <2>1, <2>2 DEF DispatchFails, OthersOK, tables
  <2>4. QED
    BY <2>2, <2>3, TypeOKNext
<1>4. CASE DeadLetterFails(r)
  <2>1. EventAt(r) \in Events
    BY <1>0, <1>4 DEF DeadLetterFails, EventAt, ConsumersOK, OthersOK
  <2>2. OthersOK' /\ stream' = stream
    BY <1>0, <1>1, <1>4, <2>1 DEF DeadLetterFails, OthersOK, tables
  <2>3. ConsumersOK'
    BY <1>0, <1>4, <2>2, MovedType DEF DeadLetterFails, Steps
  <2>4. QED
    BY <2>2, <2>3, TypeOKNext
<1>5. CASE AckFails(r)
  <2>1. consumer[r].message \in 1 .. Len(stream)
    BY <1>0, <1>5 DEF AckFails, ConsumersOK
  <2>2. OthersOK' /\ stream' = stream
    BY <1>0, <1>1, <1>5, <2>1 DEF AckFails, OthersOK, tables
  <2>3. ConsumersOK'
    BY <1>0, <1>5, <2>2, MovedType DEF AckFails, Steps
  <2>4. QED
    BY <2>2, <2>3, TypeOKNext
<1>6. CASE Restart(r)
  <2>1. OthersOK' /\ stream' = stream
    BY <1>0, <1>1, <1>2, <1>6 DEF Restart, OthersOK, tables, broker
  <2>2. ConsumersOK'
    BY <1>0, <1>6, <2>1, ReadyType, OneConsumer DEF Restart, Ready, Holding
  <2>3. QED
    BY <2>1, <2>2, TypeOKNext
<1>7. QED
  BY <1>3, <1>4, <1>5, <1>6 DEF Failure

LEMMA NextTypeOK ==
    ASSUME TypeOK, [Next]_vars
    PROVE  TypeOK'
<1>0. OthersOK /\ ConsumersOK
  BY TypeOKSplits
<1>1. ASSUME NEW e \in Events, Resolve(e)
      PROVE  TypeOK'
  <2>1. OthersOK'
    BY <1>0, <1>1 DEF Resolve, OthersOK, broker
  <2>2. ConsumersOK'
    BY <1>0, <1>1 DEF Resolve, ConsumersOK, broker
  <2>3. QED
    BY <2>1, <2>2, TypeOKNext
<1>2. ASSUME NEW e \in Events, Replay(e)
      PROVE  TypeOK'
  <2>1. Append1(e) /\ consumer' = consumer
    BY <1>2 DEF Replay
  <2>2. stream' \in Seq(Events) /\ Len(stream') <= MaxMessages
        /\ Len(stream') >= Len(stream)
    BY <1>0, <2>1, AppendType DEF OthersOK
  <2>3. /\ ConsumersOK'
        /\ waiting \in SUBSET (1 .. Len(stream'))
        /\ acked \in SUBSET (1 .. Len(stream'))
    BY <2>1, <2>2, LongerStream
  <2>4. OthersOK'
    BY <1>0, <1>2, <2>2, <2>3 DEF Replay, OthersOK
  <2>5. QED
    BY <2>3, <2>4, TypeOKNext
<1>3. ASSUME NEW i \in MessageIds, AckWaitExpires(i)
      PROVE  TypeOK'
  <2>1. OthersOK'
    BY <1>0, <1>3 DEF AckWaitExpires, OthersOK, tables
  <2>2. ConsumersOK'
    BY <1>0, <1>3 DEF AckWaitExpires, ConsumersOK
  <2>3. QED
    BY <2>1, <2>2, TypeOKNext
<1>4. CASE UNCHANGED vars
  BY <1>4 DEF TypeOK, vars, tables, broker
<1>5. QED
  BY <1>1, <1>2, <1>3, <1>4, DispatcherTypeOK, ConsumerTypeOK, FailureTypeOK
     DEF Next

\* Every variable of the delivery keeps its type: no message is delivered
\* more often than maxDeliveries, an attempt is at most the last one, and a
\* consumer at work has a message that is on the stream.
THEOREM DeliveryTypeCorrect == SafeSpec => []TypeOK
<1>1. Init => TypeOK
  BY InitTypeOK
<1>2. TypeOK /\ [Next]_vars => TypeOK'
  BY NextTypeOK
<1>3. QED
  BY <1>1, <1>2, PTL DEF SafeSpec

-----------------------------------------------------------------------------
(***************************************************************************)
(* What no step takes back.                                                *)
(***************************************************************************)
Monotone ==
    /\ \A e \in Events : status[e] = "resolved" => status'[e] = "resolved"
    /\ \A m \in Markets : paid[m] > 0 => paid'[m] > 0
    /\ deadLetters \subseteq deadLetters'
    /\ Len(stream) <= Len(stream')
    /\ \A i \in 1 .. Len(stream) : stream'[i] = stream[i]

\* The messages a step acknowledges are those of consumers done with them.
AcksLast ==
    \A i \in acked' \ acked : \E r \in Replicas :
        consumer[r].step = "ack" /\ consumer[r].message = i

LEMMA SameStream ==
    ASSUME TypeOK, stream' = stream
    PROVE  /\ Len(stream) <= Len(stream')
           /\ \A i \in 1 .. Len(stream) : stream'[i] = stream[i]
BY DEF TypeOK

LEMMA MoreStream ==
    ASSUME TypeOK, NEW e \in Events, Append1(e)
    PROVE  /\ Len(stream) <= Len(stream')
           /\ \A i \in 1 .. Len(stream) : stream'[i] = stream[i]
BY AppendType DEF TypeOK

LEMMA StepsAreMonotone ==
    ASSUME TypeOK, [Next]_vars
    PROVE  Monotone /\ AcksLast
<1>1. ASSUME NEW e \in Events, Resolve(e)
      PROVE  Monotone /\ AcksLast
  BY <1>1, SameStream DEF Resolve, Monotone, AcksLast, broker, TypeOK
<1>2. ASSUME NEW e \in Events, Replay(e)
      PROVE  Monotone /\ AcksLast
  BY <1>2, MoreStream DEF Replay, Monotone, AcksLast
<1>3. ASSUME NEW r \in Replicas, Dispatcher(r)
      PROVE  Monotone /\ AcksLast
  <2>1. CASE LockPendingMessages(r)
    BY <2>1, SameStream
       DEF LockPendingMessages, Monotone, AcksLast, broker, tables
  <2>2. ASSUME NEW e \in Events, PublishOutbox(r, e)
        PROVE  Monotone /\ AcksLast
    BY <2>2, MoreStream DEF PublishOutbox, Monotone, AcksLast, tables
  <2>3. CASE CommitDispatch(r)
    BY <2>3, SameStream DEF CommitDispatch, Monotone, AcksLast, broker
  <2>4. QED
    BY <1>3, <2>1, <2>2, <2>3 DEF Dispatcher
<1>4. ASSUME NEW r \in Replicas, Consumer(r)
      PROVE  Monotone /\ AcksLast
  <2>1. CASE NextMessage(r)
    BY <2>1, SameStream DEF NextMessage, Monotone, AcksLast, tables
  <2>2. CASE ListUnsettled(r)
    BY <2>2, SameStream DEF ListUnsettled, Monotone, AcksLast, tables, broker
  <2>3. ASSUME NEW m \in Markets, SettleMarket(r, m)
        PROVE  Monotone /\ AcksLast
    <3>1. \A n \in Markets : paid[n] > 0 => paid'[n] > 0
      BY <2>3 DEF SettleMarket, TypeOK
    <3>2. QED
      BY <2>3, <3>1, SameStream DEF SettleMarket, Monotone, AcksLast, broker
  <2>4. CASE TransientError(r)
    BY <2>4, SameStream DEF TransientError, Monotone, AcksLast, tables, broker
  <2>5. CASE PublishDeadLetter(r)
    BY <2>5, SameStream DEF PublishDeadLetter, Monotone, AcksLast, tables
  <2>6. CASE Acknowledge(r)
    BY <2>6, SameStream DEF Acknowledge, Monotone, AcksLast, tables
  <2>7. QED
    BY <1>4, <2>1, <2>2, <2>3, <2>4, <2>5, <2>6 DEF Consumer
<1>5. ASSUME NEW r \in Replicas, Failure(r)
      PROVE  Monotone /\ AcksLast
  <2>1. CASE DispatchFails(r)
    <3>1. /\ Len(stream) <= Len(stream')
          /\ \A i \in 1 .. Len(stream) : stream'[i] = stream[i]
      <4>1. ASSUME NEW e \in batch[r].todo, Append1(e)
            PROVE  /\ Len(stream) <= Len(stream')
                   /\ \A i \in 1 .. Len(stream) : stream'[i] = stream[i]
        <5>1. e \in Events
          BY <1>5, <4>1 DEF TypeOK
        <5>2. QED
          BY <4>1, <5>1, MoreStream
      <4>2. QED
        BY <2>1, <4>1, SameStream DEF DispatchFails
    <3>2. QED
      BY <2>1, <3>1 DEF DispatchFails, Monotone, AcksLast, tables
  <2>2. CASE DeadLetterFails(r)
    BY <2>2, SameStream DEF DeadLetterFails, Monotone, AcksLast, tables
  <2>3. CASE AckFails(r)
    BY <2>3, <1>5, SameStream DEF AckFails, Monotone, AcksLast, tables
  <2>4. CASE Restart(r)
    BY <2>4, SameStream DEF Restart, Monotone, AcksLast, tables, broker
  <2>5. QED
    BY <1>5, <2>1, <2>2, <2>3, <2>4 DEF Failure
<1>6. ASSUME NEW i \in MessageIds, AckWaitExpires(i)
      PROVE  Monotone /\ AcksLast
  BY <1>6, SameStream DEF AckWaitExpires, Monotone, AcksLast, tables
<1>7. CASE UNCHANGED vars
  BY <1>7, SameStream DEF vars, tables, broker, Monotone, AcksLast
<1>8. QED
  BY <1>1, <1>2, <1>3, <1>4, <1>5, <1>6, <1>7 DEF Next

LEMMA DealtWithKept ==
    ASSUME Monotone, NEW e \in Events, DealtWith(e)
    PROVE  DealtWith(e)'
BY DEF Monotone, DealtWith, MarketsOf

-----------------------------------------------------------------------------
(***************************************************************************)
(* Where a resolution is between its outbox row and the end of its         *)
(* message: the inductive invariant.                                       *)
(***************************************************************************)
\* On the stream for some consumer, or dealt with.
Carried(e) ==
    \/ \E i \in 1 .. Len(stream) : stream[i] = e /\ i \notin acked
    \/ DealtWith(e)

\* Only resolved events are in the outbox, in a batch, on the stream and
\* among the dead letters.
OnlyResolved ==
    /\ \A e \in Events : status[e] = "resolved" <=> outbox[e] # "none"
    /\ \A r \in Replicas : \A e \in batch[r].todo \cup batch[r].done :
            status[e] = "resolved"
    /\ \A i \in 1 .. Len(stream) : status[stream[i]] = "resolved"
    /\ \A e \in deadLetters : status[e] = "resolved"

\* A row is marked, or about to be marked, after its message is out.
PublishedFirst ==
    /\ \A e \in Events : outbox[e] = "published" => Carried(e)
    /\ \A r \in Replicas : \A e \in batch[r].done : Carried(e)

\* A consumer that skipped no market has settled those it visited, and one
\* that acknowledges has dealt with its event.
WorksOn(r) ==
    /\ consumer[r].step = "settle" =>
        /\ consumer[r].visit \subseteq MarketsOf(EventAt(r))
        /\ consumer[r].skipped \/ \A m \in MarketsOf(EventAt(r)) \ consumer[r].visit :
                                        paid[m] > 0
    /\ consumer[r].step = "ack" => DealtWith(EventAt(r))

ConsumersWork == \A r \in Replicas : WorksOn(r)

DeliveryInv == TypeOK /\ OnlyResolved /\ PublishedFirst /\ ConsumersWork

LEMMA EventAtType ==
    ASSUME TypeOK, NEW r \in Replicas, consumer[r].step # "next"
    PROVE  /\ EventAt(r) \in Events
           /\ consumer[r].message \in 1 .. Len(stream)
BY DEF TypeOK, EventAt

LEMMA CarriedKept ==
    ASSUME TypeOK, ConsumersWork, Monotone, AcksLast,
           NEW e \in Events, Carried(e)
    PROVE  Carried(e)'
<1>1. CASE DealtWith(e)
  BY <1>1, DealtWithKept DEF Carried
<1>2. ASSUME NEW i \in 1 .. Len(stream), stream[i] = e, i \notin acked
      PROVE  Carried(e)'
  <2>1. i \in 1 .. Len(stream') /\ stream'[i] = e
    BY <1>2 DEF Monotone, TypeOK
  <2>2. CASE i \notin acked'
    BY <2>1, <2>2 DEF Carried
  <2>3. CASE i \in acked'
    <3>1. PICK r \in Replicas :
            consumer[r].step = "ack" /\ consumer[r].message = i
      BY <1>2, <2>3 DEF AcksLast
    <3>2. DealtWith(e)
      BY <1>2, <3>1 DEF ConsumersWork, WorksOn, EventAt
    <3>3. QED
      BY <3>2, DealtWithKept DEF Carried
  <2>4. QED
    BY <2>2, <2>3
<1>3. QED
  BY <1>1, <1>2 DEF Carried

LEMMA AppendedIsCarried ==
    ASSUME TypeOK, NEW e \in Events, Append1(e), acked' = acked
    PROVE  Carried(e)'
<1>1. /\ Len(stream) + 1 \in 1 .. Len(stream')
      /\ stream'[Len(stream) + 1] = e
  BY AppendType DEF TypeOK
<1>2. Len(stream) + 1 \notin acked
  BY DEF TypeOK
<1>3. QED
  BY <1>1, <1>2 DEF Carried

\* A consumer whose own state does not change.
LEMMA WorksOnKept ==
    ASSUME TypeOK, Monotone, NEW r \in Replicas, WorksOn(r),
           consumer'[r] = consumer[r]
    PROVE  WorksOn(r)'
<1>1. CASE consumer[r].step \notin {"settle", "ack"}
  BY <1>1 DEF WorksOn
<1>2. CASE consumer[r].step \in {"settle", "ack"}
  <2>1. EventAt(r)' = EventAt(r) /\ EventAt(r) \in Events
    BY <1>2, EventAtType DEF EventAt, Monotone
  <2>2. CASE consumer[r].step = "settle"
    BY <2>1, <2>2 DEF WorksOn, Monotone, MarketsOf
  <2>3. CASE consumer[r].step = "ack"
    BY <2>1, <2>3, DealtWithKept DEF WorksOn, DealtWith, MarketsOf, Monotone
  <2>4. QED
    BY <1>2, <2>2, <2>3
<1>3. QED
  BY <1>1, <1>2

\* One consumer changes, and works on its message afterwards.
LEMMA OneWorks ==
    ASSUME TypeOK, Monotone, ConsumersWork,
           NEW r \in Replicas, NEW state,
           consumer' = [consumer EXCEPT ![r] = state],
           WorksOn(r)'
    PROVE  ConsumersWork'
<1>1. \A q \in Replicas : q # r => consumer'[q] = consumer[q]
  BY DEF TypeOK
<1>2. QED
  BY <1>1, WorksOnKept DEF ConsumersWork

\* A consumer at a step that promises nothing.
LEMMA MovedWorks ==
    ASSUME TypeOK, Monotone, ConsumersWork,
           NEW r \in Replicas, NEW step, NEW i, NEW attempt,
           step \notin {"settle", "ack"},
           consumer' = [consumer EXCEPT ![r] = Holding(step, i, attempt)]
    PROVE  ConsumersWork'
<1>1. consumer'[r].step = step
  BY DEF TypeOK, Holding
<1>2. WorksOn(r)'
  BY <1>1 DEF WorksOn
<1>3. QED
  BY <1>2, OneWorks

LEMMA MovedAwayWorks ==
    ASSUME TypeOK, Monotone, ConsumersWork, NEW r \in Replicas,
           NEW step \in Steps \ {"settle", "ack"},
           consumer' = Moved(r, step)
    PROVE  ConsumersWork'
<1>1. consumer' = [consumer EXCEPT ![r] =
                      Holding(step, consumer[r].message, 0)]
  BY MovedIs DEF MovedState
<1>2. step \notin {"settle", "ack"}
  OBVIOUS
<1>3. QED
  BY <1>1, <1>2, MovedWorks

\* A consumer that goes on to acknowledge a message dealt with.
LEMMA DoneWorks ==
    ASSUME TypeOK, Monotone, ConsumersWork, NEW r \in Replicas,
           consumer[r].step # "next", stream' = stream,
           DealtWith(EventAt(r))', consumer' = Moved(r, "ack")
    PROVE  ConsumersWork'
<1>1. consumer' = [consumer EXCEPT ![r] = MovedState(r, "ack")]
  BY MovedIs
<1>2. consumer'[r].step = "ack" /\ consumer'[r].message = consumer[r].message
  BY <1>1 DEF TypeOK, MovedState, Holding
<1>3. WorksOn(r)'
  BY <1>2 DEF WorksOn
<1>4. QED
  BY <1>1, <1>3, OneWorks

LEMMA VisitingWorks ==
    ASSUME TypeOK, Monotone, ConsumersWork, NEW r \in Replicas,
           NEW markets \in SUBSET Markets, NEW skipped \in BOOLEAN,
           consumer[r].step # "next", stream' = stream,
           markets \subseteq MarketsOf(EventAt(r)),
           skipped \/ \A m \in MarketsOf(EventAt(r)) \ markets : paid'[m] > 0,
           consumer' = Visiting(r, markets, skipped)
    PROVE  ConsumersWork'
<1>1. consumer' = [consumer EXCEPT ![r] = VisitingState(r, markets, skipped)]
  BY TypeOKConsumers, VisitingIs
<1>2. CASE markets = {}
  <2>1. CASE skipped
    <3>1. consumer' = Moved(r, "deadLetter")
      BY <1>2, <2>1 DEF Visiting
    <3>2. "deadLetter" \in Steps \ {"settle", "ack"}
      BY DEF Steps
    <3>3. QED
      BY <3>1, <3>2, MovedAwayWorks
  <2>2. CASE ~skipped
    <3>1. consumer' = Moved(r, "ack")
      BY <1>2, <2>2 DEF Visiting
    <3>2. consumer'[r].message = consumer[r].message
      BY <3>1 DEF Moved, Holding, TypeOK
    <3>3. EventAt(r)' = EventAt(r)
      BY <3>2 DEF EventAt
    <3>4. DealtWith(EventAt(r))'
      BY <1>2, <2>2, <3>3 DEF DealtWith, MarketsOf
    <3>5. QED
      BY <3>1, <3>4, DoneWorks
  <2>3. QED
    BY <2>1, <2>2
<1>3. CASE markets # {}
  <2>1. /\ consumer'[r].step = "settle"
        /\ consumer'[r].message = consumer[r].message
        /\ consumer'[r].visit = markets
        /\ consumer'[r].skipped = skipped
    BY <1>1, <1>3 DEF VisitingState, TypeOK
  <2>2. EventAt(r)' = EventAt(r)
    BY <2>1 DEF EventAt
  <2>3. WorksOn(r)'
    BY <2>1, <2>2 DEF WorksOn, MarketsOf
  <2>4. QED
    BY <1>1, <2>3, OneWorks
<1>4. QED
  BY <1>2, <1>3

LEMMA OnlyResolvedKept ==
    ASSUME TypeOK, OnlyResolved, [Next]_vars
    PROVE  OnlyResolved'
<1>1. Monotone
  BY StepsAreMonotone
<1>2. ASSUME stream' = stream
      PROVE  (\A i \in 1 .. Len(stream) : status[stream[i]] = "resolved")'
  <2>1. \A i \in 1 .. Len(stream) : stream[i] \in Events
    BY DEF TypeOK
  <2>2. QED
    BY <1>1, <1>2, <2>1 DEF OnlyResolved, Monotone
<1>3. ASSUME NEW e \in Events, Append1(e), status[e] = "resolved"
      PROVE  (\A i \in 1 .. Len(stream) : status[stream[i]] = "resolved")'
  <2>1. \A i \in 1 .. Len(stream) : stream[i] \in Events
    BY DEF TypeOK
  <2>2. 1 .. Len(stream') = 1 .. Len(stream) \cup {Len(stream) + 1}
    BY <1>3, AppendType DEF TypeOK
  <2>3. QED
    BY <1>1, <1>3, <2>1, <2>2, AppendType DEF OnlyResolved, Monotone
<1>4. ASSUME batch' = batch
      PROVE  (\A r \in Replicas : \A e \in batch[r].todo \cup batch[r].done :
                 status[e] = "resolved")'
  BY <1>1, <1>4 DEF OnlyResolved, Monotone, TypeOK
<1>5. ASSUME NEW r \in Replicas, batch' = [batch EXCEPT ![r] = NoBatch]
      PROVE  (\A q \in Replicas : \A e \in batch[q].todo \cup batch[q].done :
                 status[e] = "resolved")'
  BY <1>1, <1>5 DEF OnlyResolved, Monotone, TypeOK, NoBatch
<1>6. ASSUME deadLetters' = deadLetters
      PROVE  (\A e \in deadLetters : status[e] = "resolved")'
  BY <1>1, <1>6 DEF OnlyResolved, Monotone, TypeOK
<1>7. ASSUME NEW r \in Replicas, consumer[r].step # "next",
             deadLetters' \in {deadLetters, deadLetters \cup {EventAt(r)}}
      PROVE  (\A e \in deadLetters : status[e] = "resolved")'
  <2>1. EventAt(r) \in Events /\ status[EventAt(r)] = "resolved"
    BY <1>7, EventAtType DEF OnlyResolved, EventAt
  <2>2. QED
    BY <1>1, <1>7, <2>1 DEF OnlyResolved, Monotone, TypeOK
<1>8. ASSUME status' = status, outbox' = outbox
      PROVE  (\A e \in Events : status[e] = "resolved" <=> outbox[e] # "none")'
  BY <1>8 DEF OnlyResolved
<1>11. ASSUME NEW e \in Events, Resolve(e)
       PROVE  OnlyResolved'
  <2>1. \A d \in Events : status'[d] = "resolved" <=> outbox'[d] # "none"
    BY <1>11 DEF Resolve, OnlyResolved, TypeOK
  <2>2. QED
    BY <1>2, <1>4, <1>6, <1>11, <2>1 DEF Resolve, OnlyResolved, broker
<1>12. ASSUME NEW e \in Events, Replay(e)
       PROVE  OnlyResolved'
  <2>1. status[e] = "resolved" /\ Append1(e)
    BY <1>12 DEF Replay, OnlyResolved
  <2>2. QED
    BY <1>3, <1>4, <1>6, <1>8, <1>12, <2>1 DEF Replay, OnlyResolved
<1>13. ASSUME NEW r \in Replicas, Dispatcher(r)
       PROVE  OnlyResolved'
  <2>1. CASE LockPendingMessages(r)
    <3>1. PICK rows \in SUBSET Pending :
              batch' = [batch EXCEPT ![r] = [todo |-> rows, done |-> {}]]
      BY <2>1 DEF LockPendingMessages
    <3>2. \A e \in rows : status[e] = "resolved"
      BY DEF OnlyResolved, Pending
    <3>3. status' = status
      BY <2>1 DEF LockPendingMessages, tables
    <3>4. (\A q \in Replicas : \A e \in batch[q].todo \cup batch[q].done :
              status[e] = "resolved")'
      BY <3>1, <3>2, <3>3 DEF OnlyResolved, TypeOK
    <3>5. QED
      BY <1>2, <1>6, <1>8, <2>1, <3>4
         DEF LockPendingMessages, OnlyResolved, tables, broker
  <2>2. ASSUME NEW e \in Events, PublishOutbox(r, e)
        PROVE  OnlyResolved'
    <3>1. status[e] = "resolved" /\ Append1(e) /\ status' = status
      BY <2>2 DEF PublishOutbox, OnlyResolved, tables
    <3>2. (\A q \in Replicas : \A d \in batch[q].todo \cup batch[q].done :
              status[d] = "resolved")'
      BY <2>2, <3>1 DEF PublishOutbox, OnlyResolved, TypeOK
    <3>3. QED
      BY <1>3, <1>6, <1>8, <2>2, <3>1, <3>2
         DEF PublishOutbox, OnlyResolved, tables
  <2>3. CASE CommitDispatch(r)
    <3>1. \A e \in batch[r].done : outbox[e] # "none"
      BY DEF OnlyResolved, TypeOK
    <3>2. \A e \in Events : outbox'[e] # "none" <=> outbox[e] # "none"
      BY <2>3, <3>1 DEF CommitDispatch
    <3>3. (\A e \in Events : status[e] = "resolved" <=> outbox[e] # "none")'
      BY <2>3, <3>2 DEF CommitDispatch, OnlyResolved
    <3>4. QED
      BY <1>2, <1>5, <1>6, <2>3, <3>3 DEF CommitDispatch, OnlyResolved, broker
  <2>4. QED
    BY <1>13, <2>1, <2>2, <2>3 DEF Dispatcher
<1>14. ASSUME NEW r \in Replicas, Consumer(r)
       PROVE  OnlyResolved'
  <2>1. CASE NextMessage(r)
    BY <1>2, <1>4, <1>6, <1>8, <2>1 DEF NextMessage, OnlyResolved, tables
  <2>2. CASE ListUnsettled(r)
    BY <1>2, <1>4, <1>6, <1>8, <2>2
       DEF ListUnsettled, OnlyResolved, tables, broker
  <2>3. ASSUME NEW m \in Markets, SettleMarket(r, m)
        PROVE  OnlyResolved'
    BY <1>2, <1>4, <1>6, <1>8, <2>3 DEF SettleMarket, OnlyResolved, broker
  <2>4. CASE TransientError(r)
    BY <1>2, <1>4, <1>6, <1>8, <2>4
       DEF TransientError, OnlyResolved, tables, broker
  <2>5. CASE PublishDeadLetter(r)
    BY <1>2, <1>4, <1>7, <1>8, <2>5
       DEF PublishDeadLetter, OnlyResolved, tables
  <2>6. CASE Acknowledge(r)
    BY <1>2, <1>4, <1>6, <1>8, <2>6 DEF Acknowledge, OnlyResolved, tables
  <2>7. QED
    BY <1>14, <2>1, <2>2, <2>3, <2>4, <2>5, <2>6 DEF Consumer
<1>15. ASSUME NEW r \in Replicas, Failure(r)
       PROVE  OnlyResolved'
  <2>1. CASE DispatchFails(r)
    <3>1. \A e \in batch[r].todo : e \in Events /\ status[e] = "resolved"
      BY <1>15 DEF OnlyResolved, TypeOK
    <3>2. (\A i \in 1 .. Len(stream) : status[stream[i]] = "resolved")'
      BY <1>2, <1>3, <2>1, <3>1 DEF DispatchFails
    <3>3. QED
      BY <1>5, <1>6, <1>8, <2>1, <3>2 DEF DispatchFails, OnlyResolved, tables
  <2>2. CASE DeadLetterFails(r)
    BY <1>2, <1>4, <1>7, <1>8, <1>15, <2>2
       DEF DeadLetterFails, OnlyResolved, tables
  <2>3. CASE AckFails(r)
    BY <1>2, <1>4, <1>6, <1>8, <2>3 DEF AckFails, OnlyResolved, tables
  <2>4. CASE Restart(r)
    BY <1>2, <1>5, <1>6, <1>8, <1>15, <2>4
       DEF Restart, OnlyResolved, tables, broker
  <2>5. QED
    BY <1>15, <2>1, <2>2, <2>3, <2>4 DEF Failure
<1>16. ASSUME NEW i \in MessageIds, AckWaitExpires(i)
       PROVE  OnlyResolved'
  BY <1>2, <1>4, <1>6, <1>8, <1>16 DEF AckWaitExpires, OnlyResolved, tables
<1>17. CASE UNCHANGED vars
  BY <1>2, <1>4, <1>6, <1>8, <1>17 DEF vars, OnlyResolved, tables, broker
<1>18. QED
  BY <1>11, <1>12, <1>13, <1>14, <1>15, <1>16, <1>17 DEF Next

LEMMA PublishedFirstKept ==
    ASSUME TypeOK, PublishedFirst, ConsumersWork, [Next]_vars
    PROVE  PublishedFirst'
<1>1. Monotone /\ AcksLast
  BY StepsAreMonotone
<1>2. \A e \in Events : Carried(e) => Carried(e)'
  BY <1>1, CarriedKept
<1>3. ASSUME \A e \in Events : outbox'[e] = "published"
                                => outbox[e] = "published" \/ Carried(e),
             \A r \in Replicas : \A e \in batch'[r].done :
                 e \in batch[r].done \/ Carried(e)',
             \A r \in Replicas : batch'[r].done \subseteq Events
      PROVE  PublishedFirst'
  BY <1>2, <1>3 DEF PublishedFirst
<1>4. \A r \in Replicas : batch[r].done \subseteq Events
  BY DEF TypeOK
<1>5. ASSUME outbox' = outbox, batch' = batch
      PROVE  PublishedFirst'
  BY <1>3, <1>4, <1>5
<1>6. ASSUME outbox' = outbox, NEW r \in Replicas,
             batch' = [batch EXCEPT ![r] = NoBatch]
      PROVE  PublishedFirst'
  <2>1. \A q \in Replicas : batch'[q].done \subseteq batch[q].done
    BY <1>6 DEF TypeOK, NoBatch
  <2>2. QED
    BY <1>3, <1>4, <1>6, <2>1
<1>11. ASSUME NEW e \in Events, Resolve(e)
       PROVE  PublishedFirst'
  BY <1>3, <1>4, <1>11 DEF Resolve, TypeOK
<1>12. ASSUME NEW e \in Events, Replay(e)
       PROVE  PublishedFirst'
  BY <1>5, <1>12 DEF Replay
<1>13. ASSUME NEW r \in Replicas, Dispatcher(r)
       PROVE  PublishedFirst'
  <2>1. CASE LockPendingMessages(r)
    <3>1. \A q \in Replicas : batch'[q].done \subseteq batch[q].done
      BY <2>1 DEF LockPendingMessages, TypeOK
    <3>2. QED
      BY <1>3, <1>4, <2>1, <3>1 DEF LockPendingMessages, tables
  <2>2. ASSUME NEW e \in Events, PublishOutbox(r, e)
        PROVE  PublishedFirst'
    <3>1. Carried(e)'
      BY <2>2, AppendedIsCarried DEF PublishOutbox
    <3>2. \A q \in Replicas : batch'[q].done \subseteq batch[q].done \cup {e}
      BY <2>2 DEF PublishOutbox, TypeOK
    <3>3. \A q \in Replicas : batch'[q].done \subseteq Events
      BY <1>4, <3>2
    <3>4. QED
      BY <1>3, <2>2, <3>1, <3>2, <3>3 DEF PublishOutbox, tables
  <2>3. CASE CommitDispatch(r)
    <3>1. \A q \in Replicas : batch'[q].done \subseteq batch[q].done
      BY <2>3 DEF CommitDispatch, TypeOK, NoBatch
    <3>2. \A e \in Events : outbox'[e] = "published"
                                => outbox[e] = "published" \/ Carried(e)
      BY <1>13, <2>3 DEF CommitDispatch, PublishedFirst
    <3>3. QED
      BY <1>3, <1>4, <3>1, <3>2
  <2>4. QED
    BY <1>13, <2>1, <2>2, <2>3 DEF Dispatcher
<1>14. ASSUME NEW r \in Replicas, Consumer(r)
       PROVE  PublishedFirst'
  <2>1. outbox' = outbox /\ batch' = batch
    BY <1>14
       DEF Consumer, NextMessage, ListUnsettled, SettleMarket, TransientError,
           PublishDeadLetter, Acknowledge, tables
  <2>2. QED
    BY <1>5, <2>1
<1>15. ASSUME NEW r \in Replicas, Failure(r)
       PROVE  PublishedFirst'
  <2>1. outbox' = outbox
    BY <1>15
       DEF Failure, DispatchFails, DeadLetterFails, AckFails, Restart, tables
  <2>2. batch' = batch \/ batch' = [batch EXCEPT ![r] = NoBatch]
    BY <1>15
       DEF Failure, DispatchFails, DeadLetterFails, AckFails, Restart
  <2>3. QED
    BY <1>5, <1>6, <1>15, <2>1, <2>2
<1>16. ASSUME NEW i \in MessageIds, AckWaitExpires(i)
       PROVE  PublishedFirst'
  BY <1>5, <1>16 DEF AckWaitExpires, tables
<1>17. CASE UNCHANGED vars
  BY <1>5, <1>17 DEF vars, tables
<1>18. QED
  BY <1>11, <1>12, <1>13, <1>14, <1>15, <1>16, <1>17 DEF Next

LEMMA ConsumersWorkKept ==
    ASSUME TypeOK, ConsumersWork, [Next]_vars
    PROVE  ConsumersWork'
<1>1. Monotone
  BY StepsAreMonotone
<1>2. ASSUME consumer' = consumer
      PROVE  ConsumersWork'
  BY <1>1, <1>2, WorksOnKept DEF ConsumersWork
<1>3. ASSUME NEW r \in Replicas, NEW step \in Steps \ {"settle", "ack"},
             consumer' = Moved(r, step)
      PROVE  ConsumersWork'
  BY <1>1, <1>3, MovedAwayWorks
<1>4. ASSUME NEW r \in Replicas, consumer' = [consumer EXCEPT ![r] = Ready]
      PROVE  ConsumersWork'
  <2>1. "next" \notin {"settle", "ack"}
    OBVIOUS
  <2>2. QED
    BY <1>1, <1>4, <2>1, MovedWorks DEF Ready
<1>5. "deadLetter" \in Steps \ {"settle", "ack"}
      /\ "stuck" \in Steps \ {"settle", "ack"}
  BY DEF Steps
<1>11. ASSUME NEW r \in Replicas, Consumer(r)
       PROVE  ConsumersWork'
  <2>1. CASE NextMessage(r)
    <3>1. PICK i \in 1 .. Len(stream) :
              consumer' = [consumer EXCEPT ![r] = Holding("list", i, 1)]
      BY <2>1 DEF NextMessage
    <3>2. "list" \notin {"settle", "ack"}
      OBVIOUS
    <3>3. QED
      BY <1>1, <3>1, <3>2, MovedWorks
  <2>2. CASE ListUnsettled(r)
    <3>1. CASE status[EventAt(r)] # "resolved"
      BY <1>3, <1>5, <2>2, <3>1 DEF ListUnsettled
    <3>2. CASE status[EventAt(r)] = "resolved"
      <4> DEFINE markets == {m \in MarketsOf(EventAt(r)) : paid[m] = 0}
      <4>1. markets \in SUBSET Markets /\ markets \subseteq MarketsOf(EventAt(r))
        BY DEF MarketsOf
      <4>2. /\ consumer' = Visiting(r, markets, FALSE)
            /\ consumer[r].step # "next" /\ stream' = stream /\ paid' = paid
        BY <2>2, <3>2 DEF ListUnsettled, tables, broker
      <4>3. \A m \in MarketsOf(EventAt(r)) \ markets : paid'[m] > 0
        BY <4>2 DEF MarketsOf, TypeOK
      <4> HIDE DEF markets
      <4>4. QED
        BY <1>1, <4>1, <4>2, <4>3, VisitingWorks
    <3>3. QED
      BY <3>1, <3>2
  <2>3. ASSUME NEW m \in Markets, SettleMarket(r, m)
        PROVE  ConsumersWork'
    <3> DEFINE markets == consumer[r].visit \ {m}
               skipped == consumer[r].skipped \/ m \in unsettleable
    <3>1. /\ consumer[r].step = "settle" /\ m \in consumer[r].visit
          /\ consumer' = Visiting(r, markets, skipped) /\ stream' = stream
      BY <2>3 DEF SettleMarket, broker
    <3>2. markets \in SUBSET Markets /\ skipped \in BOOLEAN
      BY DEF TypeOK
    <3>3. markets \subseteq MarketsOf(EventAt(r))
      BY <3>1 DEF ConsumersWork, WorksOn
    <3>4. m \notin unsettleable => paid'[m] > 0
      BY <2>3 DEF SettleMarket, AlreadySettled, TypeOK
    <3>5. skipped \/ \A n \in MarketsOf(EventAt(r)) \ markets : paid'[n] > 0
      <4>1. SUFFICES ASSUME ~skipped, NEW n \in MarketsOf(EventAt(r)) \ markets
                     PROVE  paid'[n] > 0
        OBVIOUS
      <4>2. CASE n = m
        BY <3>4, <4>1, <4>2
      <4>3. CASE n # m
        <5>1. n \in Markets /\ paid[n] > 0
          BY <3>1, <4>1, <4>3 DEF ConsumersWork, WorksOn, MarketsOf
        <5>2. QED
          BY <1>1, <5>1 DEF Monotone
      <4>4. QED
        BY <4>2, <4>3
    <3> HIDE DEF markets, skipped
    <3>6. QED
      BY <1>1, <3>1, <3>2, <3>3, <3>5, VisitingWorks
  <2>4. CASE TransientError(r)
    <3>1. CASE consumer[r].attempt = RetryAttempts
      BY <1>3, <1>5, <2>4, <3>1 DEF TransientError
    <3>2. CASE consumer[r].attempt # RetryAttempts
      <4>1. consumer' = [consumer EXCEPT ![r] =
                Holding("list", consumer[r].message, consumer[r].attempt + 1)]
        BY <2>4, <3>2 DEF TransientError, Again
      <4>2. "list" \notin {"settle", "ack"}
        OBVIOUS
      <4>3. QED
        BY <1>1, <4>1, <4>2, MovedWorks
    <3>3. QED
      BY <3>1, <3>2
  <2>5. CASE PublishDeadLetter(r)
    <3>1. /\ consumer[r].step # "next" /\ stream' = stream
          /\ consumer' = Moved(r, "ack")
          /\ deadLetters' = deadLetters \cup {EventAt(r)}
      BY <2>5 DEF PublishDeadLetter
    <3>2. consumer'[r].message = consumer[r].message
      BY <3>1 DEF Moved, Holding, TypeOK
    <3>3. DealtWith(EventAt(r))'
      BY <3>1, <3>2 DEF DealtWith, EventAt
    <3>4. QED
      BY <1>1, <3>1, <3>3, DoneWorks
  <2>6. CASE Acknowledge(r)
    BY <1>4, <2>6 DEF Acknowledge
  <2>7. QED
    BY <1>11, <2>1, <2>2, <2>3, <2>4, <2>5, <2>6 DEF Consumer
<1>12. ASSUME NEW r \in Replicas, Failure(r)
       PROVE  ConsumersWork'
  <2>1. CASE DispatchFails(r)
    BY <1>2, <2>1 DEF DispatchFails
  <2>2. CASE DeadLetterFails(r)
    BY <1>3, <1>5, <2>2 DEF DeadLetterFails
  <2>3. CASE AckFails(r)
    BY <1>3, <1>5, <2>3 DEF AckFails
  <2>4. CASE Restart(r)
    BY <1>4, <1>12, <2>4 DEF Restart
  <2>5. QED
    BY <1>12, <2>1, <2>2, <2>3, <2>4 DEF Failure
<1>13. ASSUME \/ \E e \in Events : Resolve(e) \/ Replay(e)
              \/ \E r \in Replicas : Dispatcher(r)
              \/ \E i \in MessageIds : AckWaitExpires(i)
              \/ UNCHANGED vars
       PROVE  ConsumersWork'
  <2>1. consumer' = consumer
    BY <1>13
       DEF Resolve, Replay, Dispatcher, LockPendingMessages, PublishOutbox,
           CommitDispatch, AckWaitExpires, vars
  <2>2. QED
    BY <1>2, <2>1
<1>14. QED
  BY <1>11, <1>12, <1>13 DEF Next

LEMMA DeliveryInvHolds == SafeSpec => []DeliveryInv
<1>1. Init => DeliveryInv
  <2> SUFFICES ASSUME Init PROVE DeliveryInv
    OBVIOUS
  <2>1. TypeOK
    BY InitTypeOK
  <2>2. OnlyResolved /\ PublishedFirst
    BY DEF Init, OnlyResolved, PublishedFirst, NoBatch
  <2>3. ConsumersWork
    BY DEF Init, ConsumersWork, WorksOn, Ready, Holding
  <2>4. QED
    BY <2>1, <2>2, <2>3 DEF DeliveryInv
<1>2. DeliveryInv /\ [Next]_vars => DeliveryInv'
  BY NextTypeOK, OnlyResolvedKept, PublishedFirstKept, ConsumersWorkKept
     DEF DeliveryInv
<1>3. QED
  BY <1>1, <1>2, PTL DEF SafeSpec

\* No step between the outbox and the acknowledgement loses an event, for any
\* number of replicas, failures and crashes: Dispatch marks a row after its
\* message is out, and a consumer acknowledges after the markets are settled
\* or the dead letter is out.
THEOREM ResolutionIsKept == SafeSpec => []ResolutionKept
<1>1. DeliveryInv => ResolutionKept
  <2> SUFFICES ASSUME DeliveryInv, NEW e \in Events, status[e] = "resolved",
                      outbox[e] # "pending"
               PROVE  Carried(e)
    BY DEF ResolutionKept, Carried
  <2>1. outbox[e] = "published"
    BY DEF DeliveryInv, OnlyResolved, TypeOK
  <2>2. QED
    BY <2>1 DEF DeliveryInv, PublishedFirst
<1>2. QED
  BY <1>1, DeliveryInvHolds, PTL

-----------------------------------------------------------------------------
(***************************************************************************)
(* The refinement.                                                         *)
(***************************************************************************)
resolvedEvents == {e \in Events : status[e] = "resolved"}

LEMMA PromiseStep ==
    ASSUME DeliveryInv, [Next]_vars
    PROVE  [Promise!Next]_(Promise!vars)
<1>0. TypeOK /\ OnlyResolved /\ ConsumersWork
  BY DEF DeliveryInv
<1>1. ASSUME status' = status, paid' = paid, deadLetters' = deadLetters
      PROVE  UNCHANGED Promise!vars
  BY <1>1 DEF Promise!vars
<1>2. ASSUME NEW e \in Events, Resolve(e)
      PROVE  Promise!Resolve(e)
  <2>1. resolvedEvents' = resolvedEvents \cup {e} /\ e \notin resolvedEvents
    BY <1>0, <1>2 DEF Resolve, resolvedEvents, TypeOK
  <2>2. QED
    BY <1>2, <2>1 DEF Promise!Resolve, Resolve, resolvedEvents, broker
<1>3. ASSUME NEW r \in Replicas, consumer[r].step # "next",
             status' = status, paid' = paid,
             deadLetters' \in {deadLetters, deadLetters \cup {EventAt(r)}}
      PROVE  [Promise!Next]_(Promise!vars)
  <2>1. EventAt(r) \in Events /\ EventAt(r) \in resolvedEvents
    BY <1>0, <1>3, EventAtType DEF OnlyResolved, EventAt, resolvedEvents
  <2>2. resolvedEvents' = resolvedEvents
    BY <1>3 DEF resolvedEvents
  <2>3. CASE deadLetters' = deadLetters
    BY <1>1, <1>3, <2>3
  <2>4. CASE deadLetters' = deadLetters \cup {EventAt(r)}
    <3>1. Promise!GiveUp(EventAt(r))
      BY <1>3, <2>1, <2>2, <2>4 DEF Promise!GiveUp, resolvedEvents
    <3>2. QED
      BY <2>1, <3>1 DEF Promise!Next
  <2>5. QED
    BY <1>3, <2>3, <2>4
<1>4. ASSUME NEW r \in Replicas, NEW m \in Markets, SettleMarket(r, m)
      PROVE  [Promise!Next]_(Promise!vars)
  <2>1. CASE m \in unsettleable \/ AlreadySettled(m)
    BY <1>1, <1>4, <2>1 DEF SettleMarket, broker
  <2>2. CASE ~(m \in unsettleable \/ AlreadySettled(m))
    <3>1. paid[m] = 0
      BY <1>0, <2>2 DEF AlreadySettled, TypeOK
    <3>2. EventOf[m] = EventAt(r) /\ EventAt(r) \in Events
          /\ status[EventAt(r)] = "resolved"
      <4>1. /\ m \in MarketsOf(EventAt(r))
            /\ consumer[r].step = "settle"
        BY <1>0, <1>4 DEF SettleMarket, ConsumersWork, WorksOn
      <4>2. QED
        BY <1>0, <4>1, EventAtType DEF MarketsOf, OnlyResolved, EventAt
    <3>3. paid' = [paid EXCEPT ![m] = 1]
      BY <1>0, <1>4, <2>2, <3>1 DEF SettleMarket, TypeOK
    <3>4. resolvedEvents' = resolvedEvents /\ deadLetters' = deadLetters
      BY <1>4 DEF SettleMarket, resolvedEvents, broker
    <3>5. Promise!Settle(m)
      BY <3>1, <3>2, <3>3, <3>4 DEF Promise!Settle, resolvedEvents
    <3>6. QED
      BY <3>5 DEF Promise!Next
  <2>3. QED
    BY <2>1, <2>2
<1>5. ASSUME NEW e \in Events, Replay(e)
      PROVE  UNCHANGED Promise!vars
  BY <1>1, <1>5 DEF Replay
<1>6. ASSUME NEW r \in Replicas, Dispatcher(r)
      PROVE  UNCHANGED Promise!vars
  BY <1>1, <1>6
     DEF Dispatcher, LockPendingMessages, PublishOutbox, CommitDispatch,
         tables, broker
<1>7. ASSUME NEW r \in Replicas, Consumer(r)
      PROVE  [Promise!Next]_(Promise!vars)
  <2>1. CASE NextMessage(r) \/ ListUnsettled(r) \/ TransientError(r)
             \/ Acknowledge(r)
    BY <1>1, <2>1
       DEF NextMessage, ListUnsettled, TransientError, Acknowledge,
           tables, broker
  <2>2. CASE PublishDeadLetter(r)
    BY <1>3, <1>7, <2>2 DEF PublishDeadLetter, tables
  <2>3. QED
    BY <1>4, <1>7, <2>1, <2>2 DEF Consumer
<1>8. ASSUME NEW r \in Replicas, Failure(r)
      PROVE  [Promise!Next]_(Promise!vars)
  <2>1. CASE DispatchFails(r) \/ AckFails(r) \/ Restart(r)
    BY <1>1, <2>1 DEF DispatchFails, AckFails, Restart, tables, broker
  <2>2. CASE DeadLetterFails(r)
    BY <1>3, <1>8, <2>2 DEF DeadLetterFails, tables
  <2>3. QED
    BY <1>8, <2>1, <2>2 DEF Failure
<1>9. ASSUME NEW i \in MessageIds, AckWaitExpires(i)
      PROVE  UNCHANGED Promise!vars
  BY <1>1, <1>9 DEF AckWaitExpires, tables
<1>10. CASE UNCHANGED vars
  BY <1>1, <1>10 DEF vars, tables, broker
<1>11. QED
  BY <1>2, <1>5, <1>6, <1>7, <1>8, <1>9, <1>10 DEF Next, Promise!Next

\* The delivery implements its promise in every step: however often a message
\* is delivered and by whomever, a market is paid for once and after its
\* event was resolved, and only resolved events are given up.
THEOREM DeliveryImplementsPromise == SafeSpec => KeepsPromise
<1>1. Init => Promise!Init
  BY DEF Init, Promise!Init
<1>2. DeliveryInv /\ [Next]_vars => [Promise!Next]_(Promise!vars)
  BY PromiseStep
<1>3. QED
  BY <1>1, <1>2, DeliveryInvHolds, PTL
     DEF SafeSpec, KeepsPromise, Promise!SafeSpec

-----------------------------------------------------------------------------
(***************************************************************************)
(* Deliveries that were cut short.  Each delivery of a message that is not *)
(* acknowledged is either in the hands of a consumer at work or was cut by *)
(* a fault of its own; a fault concerns one consumer, so it cuts one.      *)
(***************************************************************************)
Working(i) == {r \in Replicas : consumer[r].message = i /\ consumer[r].step # "stuck"}

IdleHoldsNone == \A r \in Replicas : consumer[r].step = "next" => consumer[r].message = Idle

CutBy(i) == i \in acked \/ deliveries[i] <= faults + Cardinality(Working(i))

CutInv == IdleHoldsNone /\ \A i \in MessageIds : CutBy(i)

LEMMA WorkingFinite ==
    ASSUME NEW i
    PROVE  IsFiniteSet(Working(i)) /\ Cardinality(Working(i)) \in Nat
BY DeliveryAssumption, FS_Subset, FS_CardinalityType DEF Working

\* What a step of one consumer can do to those at work on a message.
LEMMA OneStops ==
    ASSUME TypeOK, NEW r \in Replicas, NEW state,
           consumer' = [consumer EXCEPT ![r] = state], NEW i
    PROVE  /\ Working(i) \ {r} \subseteq Working(i)'
           /\ Cardinality(Working(i)') \in Nat
           /\ Cardinality(Working(i)) <= Cardinality(Working(i)') + 1
           /\ consumer[r].message # i \/ consumer[r].step = "stuck"
                => Cardinality(Working(i)) <= Cardinality(Working(i)')
<1>1. \A s \in Replicas : s # r => consumer'[s] = consumer[s]
  BY DEF TypeOK
<1>2. Working(i) \ {r} \subseteq Working(i)'
  BY <1>1 DEF Working
<1>3. IsFiniteSet(Working(i)') /\ Cardinality(Working(i)') \in Nat
  <2>1. Working(i)' \subseteq Replicas
    BY DEF Working
  <2>2. QED
    BY <2>1, DeliveryAssumption, FS_Subset, FS_CardinalityType
<1>4. /\ IsFiniteSet(Working(i) \ {r})
      /\ Cardinality(Working(i) \ {r}) = IF r \in Working(i) THEN Cardinality(Working(i)) - 1
                                         ELSE Cardinality(Working(i))
  BY WorkingFinite, FS_RemoveElement
<1>5. Cardinality(Working(i) \ {r}) <= Cardinality(Working(i)')
  BY <1>2, <1>3, FS_Subset
<1>6. Cardinality(Working(i)) \in Nat
  BY WorkingFinite
<1>7. consumer[r].message # i \/ consumer[r].step = "stuck" => r \notin Working(i)
  BY DEF Working
<1>8. QED
  BY <1>2, <1>3, <1>4, <1>5, <1>6, <1>7

\* A consumer goes on with its message.
LEMMA StaysAtWork ==
    ASSUME TypeOK, CutInv, NEW r \in Replicas, NEW state,
           consumer' = [consumer EXCEPT ![r] = state],
           state.message = consumer[r].message,
           state.step \notin {"next", "stuck"}, consumer[r].step \notin {"next", "stuck"},
           UNCHANGED <<deliveries, acked, faults>>
    PROVE  CutInv'
<1>1. \A s \in Replicas : consumer'[s] = IF s = r THEN state ELSE consumer[s]
  BY DEF TypeOK
<1>2. \A i : Working(i)' = Working(i)
  BY <1>1 DEF Working
<1>3. IdleHoldsNone'
  BY <1>1 DEF CutInv, IdleHoldsNone
<1>4. QED
  BY <1>2, <1>3 DEF CutInv, CutBy

\* A fault of its own cuts a delivery short.
LEMMA CutShort ==
    ASSUME TypeOK, CutInv, NEW r \in Replicas, NEW state,
           consumer' = [consumer EXCEPT ![r] = state],
           state.step = "next" => state.message = Idle,
           acked \subseteq acked', deliveries' = deliveries, faults' = faults + 1
    PROVE  CutInv'
<1>1. \A s \in Replicas : consumer'[s] = IF s = r THEN state ELSE consumer[s]
  BY DEF TypeOK
<1>2. IdleHoldsNone'
  BY <1>1 DEF CutInv, IdleHoldsNone
<1>3. ASSUME NEW i \in MessageIds
      PROVE  CutBy(i)'
  <2>1. CutBy(i) /\ deliveries[i] \in Nat /\ faults \in Nat
    BY DeliveryAssumption DEF CutInv, TypeOK
  <2>2. /\ Cardinality(Working(i)') \in Nat
        /\ Cardinality(Working(i)) <= Cardinality(Working(i)') + 1
    BY OneStops
  <2>3. Cardinality(Working(i)) \in Nat
    BY WorkingFinite
  <2>4. QED
    BY <2>1, <2>2, <2>3 DEF CutBy
<1>4. QED
  BY <1>2, <1>3 DEF CutInv

\* The consumers stay where they are.
LEMMA NobodyMoves ==
    ASSUME CutInv, UNCHANGED <<consumer, deliveries, acked>>,
           TypeOK, faults' \in {faults, faults + 1}
    PROVE  CutInv'
<1>1. \A i : Working(i)' = Working(i)
  BY DEF Working
<1>2. IdleHoldsNone'
  BY DEF CutInv, IdleHoldsNone
<1>3. ASSUME NEW i \in MessageIds
      PROVE  CutBy(i)'
  <2>1. CutBy(i) /\ deliveries[i] \in Nat /\ faults \in Nat
    BY DeliveryAssumption DEF CutInv, TypeOK
  <2>2. Cardinality(Working(i)) \in Nat
    BY WorkingFinite
  <2>3. QED
    BY <1>1, <2>1, <2>2 DEF CutBy
<1>4. QED
  BY <1>2, <1>3 DEF CutInv

\* A delivery puts one more consumer to work.
LEMMA OneMoreDelivered ==
    ASSUME TypeOK, CutInv, NEW r \in Replicas, NextMessage(r)
    PROVE  CutInv'
<1>1. PICK i \in 1 .. Len(stream) :
        /\ deliveries' = [deliveries EXCEPT ![i] = @ + 1]
        /\ consumer' = [consumer EXCEPT ![r] = Holding("list", i, 1)]
  BY DEF NextMessage
<1>2. i \in MessageIds /\ i \in Nat
  BY <1>1, DeliveryAssumption DEF TypeOK, MessageIds
<1>3. consumer[r].message = Idle /\ Idle \notin MessageIds
  BY DeliveryAssumption DEF NextMessage, CutInv, IdleHoldsNone, MessageIds
<1>4. \A s \in Replicas : consumer'[s] = IF s = r THEN Holding("list", i, 1) ELSE consumer[s]
  BY <1>1 DEF TypeOK
<1>5. IdleHoldsNone'
  BY <1>4 DEF CutInv, IdleHoldsNone, Holding
<1>6. ASSUME NEW j \in MessageIds
      PROVE  CutBy(j)'
  <2>1. CutBy(j) /\ deliveries[j] \in Nat /\ faults \in Nat /\ UNCHANGED <<faults, acked>>
    BY DeliveryAssumption DEF CutInv, TypeOK, NextMessage
  <2>2. Cardinality(Working(j)) \in Nat /\ r \notin Working(j)
    BY <1>3, WorkingFinite DEF Working
  <2>3. CASE j = i
    <3>1. Working(j)' = Working(j) \cup {r}
      BY <1>4, <2>3 DEF Working, Holding
    <3>2. Cardinality(Working(j)') = Cardinality(Working(j)) + 1
      BY <2>2, <3>1, WorkingFinite, FS_AddElement
    <3>3. deliveries'[j] = deliveries[j] + 1
      BY <1>1, <1>2, <2>3 DEF TypeOK
    <3>4. QED
      BY <2>1, <2>2, <3>2, <3>3 DEF CutBy
  <2>4. CASE j # i
    <3>1. Working(j)' = Working(j)
      BY <1>3, <1>4, <2>4 DEF Working, Holding
    <3>2. deliveries'[j] = deliveries[j]
      BY <1>1, <1>2, <2>4 DEF TypeOK
    <3>3. QED
      BY <2>1, <3>1, <3>2 DEF CutBy
  <2>5. QED
    BY <2>3, <2>4
<1>7. QED
  BY <1>5, <1>6 DEF CutInv

\* An acknowledged message needs no delivery.
LEMMA DeliveredForGood ==
    ASSUME TypeOK, CutInv, NEW r \in Replicas, Acknowledge(r)
    PROVE  CutInv'
<1>1. /\ consumer' = [consumer EXCEPT ![r] = Ready]
      /\ acked' = acked \cup {consumer[r].message}
      /\ UNCHANGED <<deliveries, faults>>
  BY DEF Acknowledge
<1>2. \A s \in Replicas : consumer'[s] = IF s = r THEN Ready ELSE consumer[s]
  BY <1>1 DEF TypeOK
<1>3. IdleHoldsNone'
  BY <1>2 DEF CutInv, IdleHoldsNone, Ready, Holding
<1>4. ASSUME NEW i \in MessageIds, i # consumer[r].message
      PROVE  CutBy(i)'
  <2>1. CutBy(i) /\ deliveries[i] \in Nat /\ faults \in Nat
    BY DeliveryAssumption DEF CutInv, TypeOK
  <2>2. /\ Cardinality(Working(i)') \in Nat
        /\ Cardinality(Working(i)) <= Cardinality(Working(i)')
    BY <1>1, <1>4, OneStops
  <2>3. Cardinality(Working(i)) \in Nat
    BY WorkingFinite
  <2>4. QED
    BY <1>1, <2>1, <2>2, <2>3 DEF CutBy
<1>5. ASSUME NEW i \in MessageIds, i = consumer[r].message
      PROVE  CutBy(i)'
  BY <1>1, <1>5 DEF CutBy
<1>6. QED
  BY <1>3, <1>4, <1>5 DEF CutInv

LEMMA CutInvKept == TypeOK /\ CutInv /\ [Next]_vars => CutInv'
<1> SUFFICES ASSUME TypeOK, CutInv, [Next]_vars PROVE CutInv'
  OBVIOUS
<1>0. ConsumersOK
  BY TypeOKConsumers
<1>1. ASSUME NEW r \in Replicas, Consumer(r)
      PROVE  CutInv'
  <2>1. CASE NextMessage(r)
    BY <2>1, OneMoreDelivered
  <2>2. CASE Acknowledge(r)
    BY <2>2, DeliveredForGood
  <2>3. ASSUME NEW step \in {"list", "settle", "deadLetter", "ack"}, consumer' = Moved(r, step),
               consumer[r].step \notin {"next", "stuck"}, UNCHANGED <<deliveries, acked, faults>>
        PROVE  CutInv'
    <3>1. MovedState(r, step).message = consumer[r].message
          /\ MovedState(r, step).step = step
      BY DEF MovedState, Holding
    <3>2. QED
      BY <2>3, <3>1, MovedIs, StaysAtWork
  <2>4. ASSUME NEW markets, NEW skipped, consumer' = Visiting(r, markets, skipped),
               consumer[r].step \notin {"next", "stuck"}, UNCHANGED <<deliveries, acked, faults>>
        PROVE  CutInv'
    <3>1. /\ VisitingState(r, markets, skipped).message = consumer[r].message
          /\ VisitingState(r, markets, skipped).step \notin {"next", "stuck"}
      BY DEF VisitingState, MovedState, Holding
    <3>2. QED
      BY <1>0, <2>4, <3>1, VisitingIs, StaysAtWork
  <2>5. CASE ListUnsettled(r)
    <3>1. consumer[r].step = "list" /\ UNCHANGED <<deliveries, acked, faults>>
      BY <2>5 DEF ListUnsettled, broker
    <3>2. QED
      BY <2>3, <2>4, <2>5, <3>1 DEF ListUnsettled
  <2>6. ASSUME NEW m \in Markets, SettleMarket(r, m)
        PROVE  CutInv'
    BY <2>4, <2>6 DEF SettleMarket, broker
  <2>7. CASE TransientError(r)
    <3>1. consumer[r].step \in {"list", "settle"} /\ UNCHANGED <<deliveries, acked, faults>>
      BY <2>7 DEF TransientError, broker
    <3>2. CASE consumer' = Again(r)
      <4> DEFINE state == Holding("list", consumer[r].message, consumer[r].attempt + 1)
      <4>1. consumer' = [consumer EXCEPT ![r] = state]
        BY <3>2 DEF Again
      <4>2. state.message = consumer[r].message /\ state.step = "list"
        BY DEF Holding
      <4>3. QED
        BY <3>1, <4>1, <4>2, StaysAtWork
    <3>3. QED
      BY <2>3, <2>7, <3>1, <3>2 DEF TransientError
  <2>8. CASE PublishDeadLetter(r)
    BY <2>3, <2>8 DEF PublishDeadLetter
  <2>9. QED
    BY <1>1, <2>1, <2>2, <2>5, <2>6, <2>7, <2>8 DEF Consumer
<1>2. ASSUME NEW r \in Replicas, Failure(r)
      PROVE  CutInv'
  <2>1. CASE DispatchFails(r)
    BY <2>1, NobodyMoves DEF DispatchFails, Fault
  <2>2. CASE DeadLetterFails(r) \/ AckFails(r)
    <3>1. MovedState(r, "stuck").step = "stuck"
      BY DEF MovedState, Holding
    <3>2. consumer' = [consumer EXCEPT ![r] = MovedState(r, "stuck")]
      BY <2>2, MovedIs DEF DeadLetterFails, AckFails
    <3>3. acked \subseteq acked' /\ deliveries' = deliveries /\ faults' = faults + 1
      BY <2>2 DEF DeadLetterFails, AckFails, Fault
    <3>4. QED
      BY <3>1, <3>2, <3>3, CutShort
  <2>3. CASE Restart(r)
    <3>1. /\ consumer' = [consumer EXCEPT ![r] = Ready] /\ Ready.message = Idle
          /\ acked \subseteq acked' /\ deliveries' = deliveries /\ faults' = faults + 1
      BY <2>3 DEF Restart, Fault, Ready, Holding, broker
    <3>2. QED
      BY <3>1, CutShort
  <2>4. QED
    BY <1>2, <2>1, <2>2, <2>3 DEF Failure
<1>3. CASE \/ \E e \in Events : Resolve(e) \/ Replay(e)
           \/ \E r \in Replicas : Dispatcher(r)
           \/ \E i \in MessageIds : AckWaitExpires(i)
           \/ UNCHANGED vars
  <2>1. UNCHANGED <<consumer, deliveries, acked, faults>>
    BY <1>3 DEF Resolve, Replay, Dispatcher, LockPendingMessages, PublishOutbox,
           CommitDispatch, AckWaitExpires, vars, broker
  <2>2. QED
    BY <2>1, NobodyMoves
<1>4. QED
  BY <1>1, <1>2, <1>3 DEF Next

\* Retries, slow settlements and repeated deliveries never use up a message:
\* one the durable consumer drops had each of its maxDeliveries deliveries cut
\* by a fault of its own.
THEOREM DroppedByFaultsOnly == SafeSpec => []AbandonedByFaults
<1>1. Init => CutInv
  <2> SUFFICES ASSUME Init PROVE CutInv
    OBVIOUS
  <2>1. IdleHoldsNone
    BY DEF Init, IdleHoldsNone, Ready, Holding
  <2>2. ASSUME NEW i \in MessageIds
        PROVE  CutBy(i)
    BY WorkingFinite DEF Init, CutBy
  <2>3. QED
    BY <2>1, <2>2 DEF CutInv
<1>2. TypeOK /\ CutInv => AbandonedByFaults
  <2> SUFFICES ASSUME TypeOK, CutInv, NEW i \in 1 .. Len(stream), Abandoned(i)
               PROVE  faults >= MaxDeliver
    BY DEF AbandonedByFaults
  <2>1. i \in MessageIds
    BY DeliveryAssumption DEF TypeOK, MessageIds
  <2>2. Working(i) = {}
    BY DEF Working, Abandoned
  <2>3. Cardinality(Working(i)) = 0
    BY <2>2, FS_EmptySet
  <2>4. QED
    BY <2>1, <2>3, DeliveryAssumption DEF CutInv, CutBy, Abandoned, TypeOK
<1>3. QED
  BY <1>1, <1>2, CutInvKept, DeliveryTypeCorrect, PTL DEF SafeSpec
=============================================================================
