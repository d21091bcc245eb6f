SPECIFICATION MonitorSpec
CONSTANTS
    e1 = e1  m1 = m1
    Events = {e1}
    Markets = {m1}
    EventOf <- MCEventOf
    Doubtful = {m1}
    Replicas = {r1}
    BatchSize = 1
    RetryAttempts = 2
    MaxDeliver = 2
    MaxMessages = 2
    MaxFaults = 1
    Idle = Idle
PROPERTIES DeadLettersReported
CHECK_DEADLOCK FALSE
