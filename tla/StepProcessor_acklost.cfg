\* The ack produce fails and the message is marked anyway.
CONSTANTS
    Workers = {w1}
    Contents = {"a", "b"}
    Commands <- MCCommandsCreate
    NoRow = NoRow
    None = None
    DbFaults = FALSE
    MaxFaults = 1
SPECIFICATION Spec
INVARIANT AckBeforeCommit
\* The commands partition is finite: once it is consumed the members wait.
CHECK_DEADLOCK FALSE
