\* A crash before the auto-commit re-delivers an Update that failed NOT_FOUND.
CONSTANTS
    Workers = {w1}
    Contents = {"a", "b"}
    Commands <- MCCommandsMixed
    NoRow = NoRow
    None = None
    DbFaults = FALSE
    MaxFaults = 1
SPECIFICATION Spec
INVARIANT OneOutcomePerCommand
\* The commands partition is finite: once it is consumed the members wait.
CHECK_DEADLOCK FALSE
