-------------------------- MODULE MCStepProcessor --------------------------
(* Small instances of StepProcessor for TLC.                               *)
EXTENDS StepProcessor

\* A command record as enqueueCommand builds it: fresh key and trace.
Cmd(k, t, op, id, c) ==
    [key |-> k, trace |-> t, op |-> op, id |-> id, content |-> c]

(* An Update racing ahead of the Create it depends on, then an Update and *)
(* a Delete of the created row: NOT_FOUND, success and re-execution paths. *)
MCCommandsMixed ==
    << Cmd("k1", "t1", "Update", 1, "b"),
       Cmd("k2", "t2", "Create", 0, "a"),
       Cmd("k3", "t3", "Update", 1, "b"),
       Cmd("k4", "t4", "Delete", 1, "a") >>

(* One Create: enough for two members to race on one message.              *)
MCCommandsCreate == << Cmd("k1", "t1", "Create", 0, "a") >>

(* Create, then an Update to the content the row already holds.            *)
MCCommandsSameUpdate ==
    << Cmd("k1", "t1", "Create", 0, "a"),
       Cmd("k2", "t2", "Update", 1, "a") >>

(* Create, Read and Delete of one row.                                      *)
MCCommandsCrud ==
    << Cmd("k1", "t1", "Create", 0, "a"),
       Cmd("k2", "t2", "Read", 1, "a"),
       Cmd("k3", "t3", "Delete", 1, "a") >>

=============================================================================
