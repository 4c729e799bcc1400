\* One replica, no faults, an ack that expires before the client polls.
CONSTANTS
    Gateways = {g1}
    Traces = {t1}
    Clients = {c1}
    None = None
    TTL = 1
    PollTimeout = 1
    MaxTime = 3
    MaxAcks = 1
    MaxFaults = 0
SPECIFICATION Spec
PROPERTY PendingMeansNoAck
\* The clock stops at MaxTime: a behaviour ends once it is spent.
CHECK_DEADLOCK FALSE
