\* An expelled member finishes its message while the new owner re-reads it.
CONSTANTS
    Workers = {w1, w2}
    Contents = {"a", "b"}
    Commands <- MCCommandsCreate
    NoRow = NoRow
    None = None
    DbFaults = FALSE
    MaxFaults = 1
SPECIFICATION Spec
INVARIANT EffectOnce
\* The commands partition is finite: once it is consumed the members wait.
CHECK_DEADLOCK FALSE
