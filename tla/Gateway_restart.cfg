\* One replica that restarts after committing an ack; the TTL outlives the clock.
CONSTANTS
    Gateways = {g1}
    Traces = {t1}
    Clients = {c1}
    None = None
    TTL = 10
    PollTimeout = 1
    MaxTime = 3
    MaxAcks = 1
    MaxFaults = 1
SPECIFICATION Spec
PROPERTY PendingMeansNoAck
\* The clock stops at MaxTime: a behaviour ends once it is spent.
CHECK_DEADLOCK FALSE
