--------------------------- MODULE StepProcessor ---------------------------
(***************************************************************************)
(* The message worker of rest-go-webservice (pkg/kafka/kafka.go, the      *)
(* second file of it): a sarama consumer-group member that reads the      *)
(* commands topic, runs each command in one MySQL transaction             *)
(* (checkIdempotent, the CRUD statement, logSaga, markIdempotent),        *)
(* produces an ack and marks the message.                                 *)
(*                                                                         *)
(* One partition of the commands topic is modelled; its content is the    *)
(* constant sequence Commands.  Several Workers (group members) may own   *)
(* the partition one after the other.  Marks are committed to Kafka by a  *)
(* separate auto-commit step, so a crash re-delivers everything after the *)
(* last committed offset.  A member expelled by the session timeout keeps *)
(* running its in-flight message while another member takes over.        *)
(***************************************************************************)
EXTENDS Naturals, Sequences, FiniteSets

CONSTANTS
    Workers,       \* consumer-group members of the "message-worker" group
    Contents,      \* message texts
    Commands,      \* the commands partition: a sequence of command records
    NoRow,         \* a deleted row of the messages table
    None,          \* no owner / no idempotency record
    DbFaults,      \* TRUE when DB statements and commits may fail
    MaxFaults      \* bound on the faults of one behaviour

Ops == {"Create", "Read", "Update", "Delete"}
Statuses == {"SUCCESS", "FAILURE"}
Codes == {"NONE", "DB_ERROR", "NOT_FOUND", "INTERNAL"}
\* NoEvent stands for the empty event string the worker leaves unset.
Events == {"NoEvent", "Error", "MessageCreated", "MessageRead",
           "MessageUpdated", "MessageDeleted"}

Offsets == 1 .. Len(Commands)
Keys == {Commands[i].key : i \in Offsets}
Traces == {Commands[i].trace : i \in Offsets}

CommandType == [key : Keys, trace : Traces, op : Ops, id : Nat,
                content : Contents]

ASSUME CommandsAssumption == Commands \in Seq(CommandType)
ASSUME NoRowAssumption == NoRow \notin Contents
ASSUME NoneAssumption == None \notin Workers \cup Statuses
ASSUME DbFaultsAssumption == DbFaults \in BOOLEAN
ASSUME MaxFaultsAssumption == MaxFaults \in Nat

AckType == [trace : Traces, key : Keys, status : Statuses, code : Codes,
            event : Events, payload : BOOLEAN]
ResultType == [status : Statuses, code : Codes, event : Events,
               payload : BOOLEAN]
SagaType == [trace : Traces, step : Ops, status : Statuses, code : Codes,
             id : Nat]

VARIABLES
    msgs,        \* the messages table by id (NoRow: deleted or never written)
    idem,        \* idempotency_keys: key -> last_status or None
    saga,        \* saga_log rows, in insertion order
    ackLog,      \* the acks topic
    committed,   \* committed offset of the group (next offset to read)
    owner,       \* member the partition is assigned to, or None
    pos,         \* fetch position of each member's claim
    marked,      \* offset marked by each member's session (not committed)
    pc,          \* where each member is in its ConsumeClaim loop
    cur,         \* offset of the message a member is handling
    processed,   \* result of checkIdempotent in the open transaction
    res,         \* status/event/payload/error to put in the ack
    handled,     \* history: offsets whose transaction has ended
    effects,     \* history: committed DB mutations per idempotency key
    faults       \* faults so far: crashes, expulsions, rebalances, failed
                 \* DB calls and failed produces

dbVars == <<msgs, idem, saga>>
groupVars == <<committed, owner, pos, marked>>
workerVars == <<pc, cur, processed, res>>
vars == <<dbVars, ackLog, groupVars, workerVars, handled, effects, faults>>

-----------------------------------------------------------------------------
(* Helpers over the messages table.                                        *)

(* messages.id is AUTO_INCREMENT: the next id is one past every id handed *)
(* out, including those of rolled-back inserts, which stay NoRow.          *)
RowIds == DOMAIN msgs

\* SELECT/UPDATE/DELETE ... WHERE id=? find a live row.
RowExists(id) == id \in RowIds /\ msgs[id] # NoRow

Result(s, c, e, p) == [status |-> s, code |-> c, event |-> e, payload |-> p]

Internal(p) == Result("FAILURE", "INTERNAL", "Error", p)

SagaRow(c, s, code) ==
    [trace |-> c.trace, step |-> c.op, status |-> s, code |-> code,
     id |-> c.id]

(***************************************************************************)
(* The body of the transaction after checkIdempotent found no record: the *)
(* CRUD statement for c.op, its saga_log row, and whether the function    *)
(* reaches markIdempotent (only the success paths do: the DB_ERROR and    *)
(* NOT_FOUND paths return nil before it).  ok is FALSE when the statement *)
(* returns an error.  RowsAffected follows MySQL: an UPDATE that writes   *)
(* the value a row already holds affects no row.                          *)
(***************************************************************************)
Outcome(r, rows, sg, mark, eff) ==
    [res |-> r, rows |-> rows, saga |-> sg, mark |-> mark, effect |-> eff]

Failed(c, code) ==
    Outcome(Result("FAILURE", code, "NoEvent", FALSE), msgs,
            <<SagaRow(c, "FAILURE", code)>>, FALSE, FALSE)

\* Mutant: a success path that returns before markIdempotent.
SucceededNoMark(c, ev, rows, eff) ==
    Outcome(Result("SUCCESS", "NONE", ev, TRUE), rows,
            <<SagaRow(c, "SUCCESS", "NONE")>>, FALSE, eff)

Succeeded(c, ev, rows, eff) ==
    Outcome(Result("SUCCESS", "NONE", ev, TRUE), rows,
            <<SagaRow(c, "SUCCESS", "NONE")>>, TRUE, eff)

CreateMessage(c, ok) ==
    IF ~ok THEN Failed(c, "DB_ERROR")
    ELSE Succeeded(c, "MessageCreated", Append(msgs, c.content), TRUE)

ReadMessage(c, ok) ==
    IF ok /\ RowExists(c.id)
    THEN Succeeded(c, "MessageRead", msgs, FALSE)
    ELSE Failed(c, "NOT_FOUND")

UpdateMessage(c, ok) ==
    IF ~ok THEN Failed(c, "DB_ERROR")
    ELSE IF ~RowExists(c.id) \/ msgs[c.id] = c.content
         THEN Failed(c, "NOT_FOUND")
         ELSE Succeeded(c, "MessageUpdated",
                        [msgs EXCEPT ![c.id] = c.content], TRUE)

DeleteMessage(c, ok) ==
    IF ~ok THEN Failed(c, "DB_ERROR")
    ELSE IF ~RowExists(c.id) THEN Failed(c, "NOT_FOUND")
         ELSE Succeeded(c, "MessageDeleted",
                        [msgs EXCEPT ![c.id] = NoRow], TRUE)

\* A rolled-back transaction keeps the AUTO_INCREMENT value it consumed.
RolledBack(c, ok) ==
    IF c.op = "Create" /\ ok THEN Append(msgs, NoRow) ELSE msgs

Dispatch(c, ok) ==
    CASE c.op = "Create" -> CreateMessage(c, ok)
      [] c.op = "Read"   -> ReadMessage(c, ok)
      [] c.op = "Update" -> UpdateMessage(c, ok)
      [] c.op = "Delete" -> DeleteMessage(c, ok)

(* A DB call may fail only when the configuration lets it and the fault  *)
(* budget is not spent; each failure costs one fault.                     *)
DbResults == {TRUE} \cup {ok \in {FALSE} : DbFaults /\ faults < MaxFaults}

Cost(ok) == IF ok THEN 0 ELSE 1

-----------------------------------------------------------------------------
Init ==
    /\ msgs = <<>>
    /\ idem = [k \in Keys |-> None]
    /\ saga = <<>>
    /\ ackLog = <<>>
    /\ committed = 1
    /\ owner = None
    /\ pos = [w \in Workers |-> 1]
    /\ marked = [w \in Workers |-> 1]
    /\ pc = [w \in Workers |-> "idle"]
    /\ cur = [w \in Workers |-> 0]
    /\ processed = [w \in Workers |-> FALSE]
    /\ res = [w \in Workers |-> Result("SUCCESS", "NONE", "NoEvent", FALSE)]
    /\ handled = {}
    /\ effects = [k \in Keys |-> 0]
    /\ faults = 0

\* Mutant: MarkMessage as soon as the message is received.
FetchMarks(w) ==
    /\ owner = w
    /\ pc[w] = "idle"
    /\ pos[w] \in Offsets
    /\ cur' = [cur EXCEPT ![w] = pos[w]]
    /\ pos' = [pos EXCEPT ![w] = pos[w] + 1]
    /\ marked' = [marked EXCEPT ![w] = pos[w] + 1]
    /\ pc' = [pc EXCEPT ![w] = "check"]
    /\ UNCHANGED <<dbVars, ackLog, committed, owner, processed, res,
                   handled, effects, faults>>

(* The owner's claim hands over the next message (for msg := range).      *)
Fetch(w) ==
    /\ owner = w
    /\ pc[w] = "idle"
    /\ pos[w] \in Offsets
    /\ cur' = [cur EXCEPT ![w] = pos[w]]
    /\ pos' = [pos EXCEPT ![w] = pos[w] + 1]
    /\ pc' = [pc EXCEPT ![w] = "check"]
    /\ UNCHANGED <<dbVars, ackLog, committed, owner, marked, processed, res,
                   handled, effects, faults>>

(* db.Begin and checkIdempotent: SELECT 1 FROM idempotency_keys.  An       *)
(* error of either ends withTx, and the ack reports INTERNAL.             *)
TxCheck(w) ==
    /\ pc[w] = "check"
    /\ \E ok \in DbResults :
         \/ /\ ok
            /\ processed' = [processed EXCEPT
                               ![w] = idem[Commands[cur[w]].key] # None]
            /\ pc' = [pc EXCEPT ![w] = "tx"]
            /\ UNCHANGED <<res, handled>>
            /\ UNCHANGED faults
         \/ /\ ~ok
            /\ res' = [res EXCEPT ![w] = Internal(FALSE)]
            /\ handled' = handled \cup {cur[w]}
            /\ pc' = [pc EXCEPT ![w] = "ack"]
            /\ faults' = faults + 1
            /\ UNCHANGED processed
    /\ UNCHANGED <<dbVars, ackLog, groupVars, cur, effects>>

(* The key was processed: the function returns nil, the empty transaction *)
(* commits, and the ack is SUCCESS with no event and an empty payload.     *)
TxSkip(w) ==
    /\ pc[w] = "tx"
    /\ processed[w]
    /\ \E ok \in DbResults :
         /\ res' = [res EXCEPT ![w] = IF ok THEN Result("SUCCESS", "NONE", "NoEvent", FALSE)
                                             ELSE Internal(FALSE)]
         /\ faults' = faults + Cost(ok)
    /\ handled' = handled \cup {cur[w]}
    /\ pc' = [pc EXCEPT ![w] = "ack"]
    /\ UNCHANGED <<dbVars, ackLog, groupVars, cur, processed, effects>>

(* No record was found: run the statement, log the saga row, reach        *)
(* markIdempotent (INSERT IGNORE) on the success paths, and commit.  When *)
(* markIdempotent or Commit fails the transaction rolls back; a consumed  *)
(* AUTO_INCREMENT value is not given back.                                *)
TxApply(w) ==
    /\ pc[w] = "tx"
    /\ ~processed[w]
    /\ LET c == Commands[cur[w]] IN
       \E ok \in DbResults, commitOk \in DbResults :
         LET o == Dispatch(c, ok) IN
         /\ faults' = faults + Cost(ok) + Cost(commitOk)
         /\ faults' <= MaxFaults
         /\ \/ /\ commitOk
               /\ msgs' = o.rows
               /\ saga' = saga \o o.saga
               /\ idem' = IF o.mark /\ idem[c.key] = None
                            THEN [idem EXCEPT ![c.key] = o.res.status]
                            ELSE idem
               /\ effects' = IF o.effect THEN [effects EXCEPT ![c.key] = @ + 1]
                                         ELSE effects
               /\ res' = [res EXCEPT ![w] = o.res]
            \/ /\ ~commitOk
               /\ msgs' = RolledBack(c, ok)
               /\ res' = [res EXCEPT ![w] = Internal(o.res.payload)]
               /\ UNCHANGED <<saga, idem, effects>>
    /\ handled' = handled \cup {cur[w]}
    /\ pc' = [pc EXCEPT ![w] = "ack"]
    /\ UNCHANGED <<ackLog, groupVars, cur, processed>>

(* SendMessage of the ack, keyed by the command's key.  An error is only  *)
(* logged: the loop goes on to MarkMessage either way.                    *)
ProduceAck(w) ==
    /\ pc[w] = "ack"
    /\ LET c == Commands[cur[w]]
           a == [trace |-> c.trace, key |-> c.key, status |-> res[w].status,
                 code |-> res[w].code, event |-> res[w].event,
                 payload |-> res[w].payload]
       IN \/ /\ ackLog' = Append(ackLog, a)
             /\ UNCHANGED faults
          \/ /\ faults < MaxFaults
             /\ faults' = faults + 1
             /\ UNCHANGED ackLog
    /\ pc' = [pc EXCEPT ![w] = "mark"]
    /\ UNCHANGED <<dbVars, groupVars, cur, processed, res, handled, effects>>

\* Mutant: the mark names the message itself, not the offset after it.
MarkCur(w) ==
    /\ pc[w] = "mark"
    /\ marked' = [marked EXCEPT ![w] = cur[w]]
    /\ pc' = [pc EXCEPT ![w] = "idle"]
    /\ UNCHANGED <<dbVars, ackLog, committed, owner, pos, cur, processed, res,
                   handled, effects, faults>>

(* sess.MarkMessage: the session's offset moves past the message.         *)
Mark(w) ==
    /\ pc[w] = "mark"
    /\ marked' = [marked EXCEPT ![w] = cur[w] + 1]
    /\ pc' = [pc EXCEPT ![w] = "idle"]
    /\ UNCHANGED <<dbVars, ackLog, committed, owner, pos, cur, processed, res,
                   handled, effects, faults>>

(* sarama's auto-commit flushes the owner's marked offset.  A member that *)
(* lost the partition has its commit refused for a stale generation.      *)
AutoCommit(w) ==
    /\ owner = w
    /\ marked[w] # committed
    /\ committed' = marked[w]
    /\ UNCHANGED <<dbVars, ackLog, owner, pos, marked, workerVars, handled,
                   effects, faults>>

(* A cooperative rebalance: ConsumeClaim returns once the in-flight       *)
(* message is done, the session flushes its marks and leaves.             *)
Revoke(w) ==
    /\ owner = w
    /\ pc[w] = "idle"
    /\ faults < MaxFaults
    /\ committed' = marked[w]
    /\ owner' = None
    /\ faults' = faults + 1
    /\ UNCHANGED <<dbVars, ackLog, pos, marked, workerVars, handled, effects>>

(* The session timeout expires while the member is still inside its       *)
(* handler: the group moves on without it, and it finishes the message    *)
(* as a zombie whose offset commits are refused.                          *)
Expel(w) ==
    /\ owner = w
    /\ pc[w] # "idle"
    /\ faults < MaxFaults
    /\ owner' = None
    /\ faults' = faults + 1
    /\ UNCHANGED <<dbVars, ackLog, committed, pos, marked, workerVars,
                   handled, effects>>

(* The process dies: the open transaction is rolled back by MySQL, marks  *)
(* not yet committed are lost, and the partition is released.             *)
Crash(w) ==
    /\ owner = w \/ pc[w] # "idle"
    /\ faults < MaxFaults
    /\ pc' = [pc EXCEPT ![w] = "idle"]
    /\ owner' = IF owner = w THEN None ELSE owner
    /\ faults' = faults + 1
    /\ UNCHANGED <<dbVars, ackLog, committed, pos, marked, cur, processed,
                   res, handled, effects>>

\* Mutant: the claim resumes one past the committed offset.
JoinSkip(w) ==
    /\ owner = None
    /\ pc[w] = "idle"
    /\ owner' = w
    /\ pos' = [pos EXCEPT ![w] = committed + 1]
    /\ marked' = [marked EXCEPT ![w] = committed + 1]
    /\ UNCHANGED <<dbVars, ackLog, committed, workerVars, handled, effects,
                   faults>>

(* A member joins the group and is assigned the partition: its claim      *)
(* starts at the committed offset (Offsets.Initial only matters before    *)
(* the first commit, and it is OffsetOldest).                             *)
Join(w) ==
    /\ owner = None
    /\ pc[w] = "idle"
    /\ owner' = w
    /\ pos' = [pos EXCEPT ![w] = committed]
    /\ marked' = [marked EXCEPT ![w] = committed]
    /\ UNCHANGED <<dbVars, ackLog, committed, workerVars, handled, effects,
                   faults>>

Step(w) ==
    \/ Fetch(w) \/ TxCheck(w) \/ TxSkip(w) \/ TxApply(w)
    \/ ProduceAck(w) \/ Mark(w) \/ AutoCommit(w)

Next ==
    \E w \in Workers :
        Step(w) \/ Join(w) \/ Revoke(w) \/ Expel(w) \/ Crash(w)

(* Every member keeps running its loop, sarama's auto-commit ticker keeps *)
(* firing, and a free partition is eventually assigned.  Faults are not   *)
(* fair: they happen at most MaxFaults times.                             *)
Fairness ==
    /\ \A w \in Workers : WF_vars(Step(w))
    /\ WF_vars(\E w \in Workers : Join(w))

Spec == Init /\ [][Next]_vars /\ Fairness

-----------------------------------------------------------------------------
(* Properties.                                                             *)

TypeOK ==
    /\ msgs \in Seq(Contents \cup {NoRow})
    /\ idem \in [Keys -> Statuses \cup {None}]
    /\ saga \in Seq(SagaType)
    /\ ackLog \in Seq(AckType)
    /\ committed \in 1 .. Len(Commands) + 1
    /\ owner \in Workers \cup {None}
    /\ pos \in [Workers -> 1 .. Len(Commands) + 1]
    /\ marked \in [Workers -> 1 .. Len(Commands) + 1]
    /\ pc \in [Workers -> {"idle", "check", "tx", "ack", "mark"}]
    /\ cur \in [Workers -> 0 .. Len(Commands)]
    /\ processed \in [Workers -> BOOLEAN]
    /\ res \in [Workers -> ResultType]
    /\ handled \subseteq Offsets
    /\ effects \in [Keys -> Nat]
    /\ faults \in 0 .. MaxFaults

(* Exactly-once effect (spec section 8): however often the commands topic *)
(* redelivers a command, its INSERT/UPDATE/DELETE commits at most once.   *)
(* It rests on checkIdempotent and markIdempotent running in the same     *)
(* transaction as the statement.                                          *)
EffectOnce == \A k \in Keys : effects[k] <= 1

(* The group never commits an offset past a message whose transaction has *)
(* not ended: MarkMessage comes after withTx, and only the owner's marks  *)
(* are committed.  A crash therefore never loses a command unprocessed.   *)
CommittedOnlyHandled == \A i \in 1 .. committed - 1 : i \in handled

(* Every command of the partition is eventually consumed and its offset   *)
(* committed for good, despite crashes, expulsions and rebalances.        *)
AllConsumed == <>[](committed = Len(Commands) + 1)

(* Spec section 4.4: one terminal outcome per command.  Two acks carrying *)
(* the same idempotency key never disagree on SUCCESS/FAILURE (INTERNAL   *)
(* acks report a failed transaction, not an outcome, and are left out).   *)
OneOutcomePerCommand ==
    \A i, j \in DOMAIN ackLog :
        /\ ackLog[i].key = ackLog[j].key
        /\ ackLog[i].code # "INTERNAL"
        /\ ackLog[j].code # "INTERNAL"
        => ackLog[i].status = ackLog[j].status

(* Spec sections 4.4 and 8: the consumer offset is committed only after   *)
(* the ack produce succeeded, so every committed command has an ack.      *)
AckBeforeCommit ==
    \A i \in 1 .. committed - 1 :
        \E j \in DOMAIN ackLog : ackLog[j].key = Commands[i].key

(* Spec section 7: NOT_FOUND is reported for an Update/Read/Delete whose  *)
(* row does not exist.  Each saga_log row written with code NOT_FOUND     *)
(* names an id that had no live row when its transaction ran.             *)
NotFoundOnlyForAbsent ==
    [][\A i \in (Len(saga) + 1) .. Len(saga') :
          saga'[i].code = "NOT_FOUND" => ~RowExists(saga'[i].id)]_vars

\* The refinement mapping onto the command log of CommandLog.
Log == INSTANCE CommandLog WITH
           N <- Len(Commands),
           KeyOf <- [i \in Offsets |-> Commands[i].key],
           done <- handled,
           eff <- effects,
           acks <- [j \in DOMAIN ackLog |-> ackLog[j].key]

(* The worker implements the command log: the ended transactions are the  *)
(* log's handled offsets, the committed effects its effects, the acks     *)
(* topic's keys its acks, and the group's committed offset its own.  With *)
(* one member, every step of the ConsumeClaim loop, of the group and of   *)
(* the faults is a step of the log or leaves it unchanged, and a commit   *)
(* the log allows is eventually made.                                      *)
CommandLogSpec == Log!Spec

=============================================================================
