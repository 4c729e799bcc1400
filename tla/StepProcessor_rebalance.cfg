\* Two members; rebalances, expulsions and crashes move the partition.
CONSTANTS
    Workers = {w1, w2}
    Contents = {"a", "b"}
    Commands <- MCCommandsCrud
    NoRow = NoRow
    None = None
    DbFaults = FALSE
    MaxFaults = 2
SPECIFICATION Spec
INVARIANTS TypeOK CommittedOnlyHandled
PROPERTIES AllConsumed
\* The commands partition is finite: once it is consumed the members wait.
CHECK_DEADLOCK FALSE
