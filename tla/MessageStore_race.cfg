\* Two concurrent requests, ids up to 4, one runtime abort.
CONSTANTS
    Clients = {c1, c2}
    Texts = {"hello", "namaste"}
    MaxId = 4
    None = None
    MaxFaults = 1
SPECIFICATION Spec
INVARIANTS TypeOK
\* Once every id is taken and every request answered, only deletes remain;
\* with the store empty and full of requests the server idles.
CHECK_DEADLOCK FALSE
