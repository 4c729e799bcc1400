\* An Update that writes the content the row already holds.
CONSTANTS
    Workers = {w1}
    Contents = {"a", "b"}
    Commands <- MCCommandsSameUpdate
    NoRow = NoRow
    None = None
    DbFaults = FALSE
    MaxFaults = 0
SPECIFICATION Spec
PROPERTY NotFoundOnlyForAbsent
\* The commands partition is finite: once it is consumed the members wait.
CHECK_DEADLOCK FALSE
