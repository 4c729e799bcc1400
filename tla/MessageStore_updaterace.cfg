\* Two concurrent requests, no aborts: an update racing a delete.
CONSTANTS
    Clients = {c1, c2}
    Texts = {"hello", "namaste"}
    MaxId = 2
    None = None
    MaxFaults = 0
SPECIFICATION Spec
PROPERTY UpdateNeverResurrects
CHECK_DEADLOCK FALSE
