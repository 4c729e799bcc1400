\* One replica that may crash once; a TTL shorter than the clock's horizon.
CONSTANTS
    Gateways = {g1}
    Traces = {t1, t2}
    Clients = {c1}
    None = None
    TTL = 1
    PollTimeout = 1
    MaxTime = 3
    MaxAcks = 3
    MaxFaults = 1
SPECIFICATION Spec
INVARIANTS TypeOK
PROPERTIES AnswerIsLatestLiveAck PollTerminates AckConsumed CacheSpec
\* The clock stops at MaxTime: a behaviour ends once it is spent.
CHECK_DEADLOCK FALSE
