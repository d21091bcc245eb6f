SPECIFICATION Spec
CONSTANTS
    e1 = e1  m1 = m1  m2 = m2
    Events <- MCEvents
    Markets <- MCMarkets
    EventOf <- MCEventOf
    Doubtful = {m2}
    Replicas = {r1, r2}
    BatchSize = 1
    RetryAttempts = 2
    MaxDeliver = 2
    MaxMessages = 2
    MaxFaults = 2
    Idle = Idle

INVARIANTS TypeOK ResolutionKept AbandonedByFaults
PROPERTIES KeepsPromise ResolutionDelivered
CHECK_DEADLOCK FALSE

