\* One group member that crashes and restarts; DB faults on.
CONSTANTS
    Workers = {w1}
    Contents = {"a", "b"}
    Commands <- MCCommandsMixed
    NoRow = NoRow
    None = None
    DbFaults = TRUE
    MaxFaults = 3
SPECIFICATION Spec
INVARIANTS TypeOK EffectOnce CommittedOnlyHandled
PROPERTIES AllConsumed CommandLogSpec
\* The commands partition is finite: once it is consumed the member waits.
CHECK_DEADLOCK FALSE
