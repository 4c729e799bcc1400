\* One client at a time, no aborts: createMessage's id after a delete.
CONSTANTS
    Clients = {c1}
    Texts = {"hello", "namaste"}
    MaxId = 3
    None = None
    MaxFaults = 0
SPECIFICATION Spec
PROPERTY CreateNeverOverwrites
CHECK_DEADLOCK FALSE
