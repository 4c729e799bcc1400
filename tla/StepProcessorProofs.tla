------------------------ MODULE StepProcessorProofs ------------------------
(* Machine-checked proofs about StepProcessor, for every value of its     *)
(* constants that satisfies the module's assumptions.                     *)
EXTENDS StepProcessor, TLAPS

USE CommandsAssumption, NoRowAssumption, NoneAssumption, DbFaultsAssumption,
    MaxFaultsAssumption

(* A member that is inside its loop body handles an offset of the         *)
(* partition, and its fetch position is just past it.                     *)
Busy ==
    \A w \in Workers :
        pc[w] # "idle" => cur[w] \in Offsets /\ pos[w] = cur[w] + 1

TypeInv == TypeOK /\ Busy

-----------------------------------------------------------------------------
(* Lemmas about the helpers the actions are built from.                   *)

LEMMA CommandTyped ==
    ASSUME NEW i \in Offsets
    PROVE  /\ Commands[i] \in CommandType
           /\ Commands[i].key \in Keys
           /\ Commands[i].trace \in Traces
  BY DEF Offsets, Keys, Traces

\* What TypeOK needs of the outcome of a transaction body.
OutcomeTyped(o) ==
    /\ o.rows \in Seq(Contents \cup {NoRow})
    /\ o.saga \in Seq(SagaType)
    /\ o.res \in ResultType
    /\ o.mark \in BOOLEAN
    /\ o.effect \in BOOLEAN

LEMMA DispatchTyped ==
    ASSUME TypeOK, NEW c \in CommandType, NEW ok \in BOOLEAN
    PROVE  OutcomeTyped(Dispatch(c, ok))
  <1>1. /\ SagaRow(c, "SUCCESS", "NONE") \in SagaType
        /\ \A code \in Codes : SagaRow(c, "FAILURE", code) \in SagaType
    BY DEF SagaRow, SagaType, CommandType, Ops, Statuses, Codes
  <1>2. ASSUME NEW code \in Codes
        PROVE  OutcomeTyped(Failed(c, code))
    <2>1. Result("FAILURE", code, "NoEvent", FALSE) \in ResultType
      BY DEF Result, ResultType, Statuses, Events
    <2>2. <<SagaRow(c, "FAILURE", code)>> \in Seq(SagaType)
      BY <1>1
    <2>3. QED
      BY <2>1, <2>2 DEF OutcomeTyped, Failed, Outcome, TypeOK
  <1>3. ASSUME NEW ev \in Events, NEW rows \in Seq(Contents \cup {NoRow}),
               NEW eff \in BOOLEAN
        PROVE  OutcomeTyped(Succeeded(c, ev, rows, eff))
    <2>1. Result("SUCCESS", "NONE", ev, TRUE) \in ResultType
      BY DEF Result, ResultType, Statuses, Codes
    <2>2. <<SagaRow(c, "SUCCESS", "NONE")>> \in Seq(SagaType)
      BY <1>1
    <2>3. QED
      BY <2>1, <2>2 DEF OutcomeTyped, Succeeded, Outcome
  <1>4. Append(msgs, c.content) \in Seq(Contents \cup {NoRow})
    BY DEF TypeOK, CommandType
  <1>5. ASSUME RowExists(c.id)
        PROVE  /\ [msgs EXCEPT ![c.id] = c.content] \in Seq(Contents \cup {NoRow})
               /\ [msgs EXCEPT ![c.id] = NoRow] \in Seq(Contents \cup {NoRow})
    BY <1>5 DEF TypeOK, CommandType, RowExists, RowIds
  <1>6. msgs \in Seq(Contents \cup {NoRow})
    BY DEF TypeOK
  <1>7. /\ "NOT_FOUND" \in Codes /\ "DB_ERROR" \in Codes
        /\ {"MessageCreated", "MessageRead", "MessageUpdated",
            "MessageDeleted"} \subseteq Events
    BY DEF Codes, Events
  <1>8. CASE c.op = "Create"
    BY <1>2, <1>3, <1>4, <1>7, <1>8 DEF Dispatch, CreateMessage
  <1>9. CASE c.op = "Read"
    BY <1>2, <1>3, <1>6, <1>7, <1>9 DEF Dispatch, ReadMessage
  <1>10. CASE c.op = "Update"
    BY <1>2, <1>3, <1>5, <1>7, <1>10 DEF Dispatch, UpdateMessage
  <1>11. CASE c.op = "Delete"
    BY <1>2, <1>3, <1>5, <1>7, <1>11 DEF Dispatch, DeleteMessage
  <1>12. QED
    BY <1>8, <1>9, <1>10, <1>11 DEF CommandType, Ops

-----------------------------------------------------------------------------
(* Type correctness.                                                       *)

LEMMA InitTypeInv == Init => TypeInv
  BY DEF Init, TypeInv, TypeOK, Busy, Result, ResultType, Statuses, Codes,
         Events

\* The values of a member's program counter.
PcVals == {"idle", "check", "tx", "ack", "mark"}

\* A DB call either succeeds, or fails when the budget allows a fault.
LEMMA DbResultsFacts ==
    ASSUME NEW ok \in DbResults
    PROVE  ok \in BOOLEAN /\ (~ok => faults < MaxFaults)
  BY DEF DbResults

LEMMA NextTypeInv == TypeInv /\ [Next]_vars => TypeInv'
  <1> SUFFICES ASSUME TypeInv, [Next]_vars PROVE TypeInv'
    OBVIOUS
  <1> USE DEF dbVars, groupVars, workerVars, Offsets, PcVals
  <1>a. /\ msgs \in Seq(Contents \cup {NoRow})
        /\ idem \in [Keys -> Statuses \cup {None}]
        /\ saga \in Seq(SagaType)
        /\ ackLog \in Seq(AckType)
        /\ committed \in 1 .. Len(Commands) + 1
        /\ owner \in Workers \cup {None}
    BY DEF TypeInv, TypeOK
  <1>b. /\ pos \in [Workers -> 1 .. Len(Commands) + 1]
        /\ marked \in [Workers -> 1 .. Len(Commands) + 1]
        /\ pc \in [Workers -> PcVals]
        /\ cur \in [Workers -> 0 .. Len(Commands)]
        /\ processed \in [Workers -> BOOLEAN]
        /\ res \in [Workers -> ResultType]
    BY DEF TypeInv, TypeOK
  <1>c. /\ handled \subseteq Offsets
        /\ effects \in [Keys -> Nat]
        /\ faults \in 0 .. MaxFaults
    BY DEF TypeInv, TypeOK
  <1>d. Busy
    BY DEF TypeInv
  <1>e. TypeInv' <=> TypeOK' /\ Busy'
    BY DEF TypeInv
  <1>1. ASSUME NEW w \in Workers, Fetch(w) PROVE TypeInv'
    <2>1. /\ cur' \in [Workers -> 0 .. Len(Commands)]
          /\ pos' \in [Workers -> 1 .. Len(Commands) + 1]
          /\ pc' \in [Workers -> PcVals]
      BY <1>1, <1>b DEF Fetch
    <2>2. Busy'
      BY <1>1, <1>b, <1>d DEF Busy, Fetch
    <2>3. QED
      BY <1>1, <1>a, <1>b, <1>c, <1>e, <2>1, <2>2 DEF TypeOK, Fetch
  <1>2. ASSUME NEW w \in Workers, TxCheck(w) PROVE TypeInv'
    <2>1. PICK ok \in DbResults :
            \/ /\ ok
               /\ processed' = [processed EXCEPT
                                  ![w] = idem[Commands[cur[w]].key] # None]
               /\ pc' = [pc EXCEPT ![w] = "tx"]
               /\ UNCHANGED <<res, handled, faults>>
            \/ /\ ~ok
               /\ res' = [res EXCEPT ![w] = Internal(FALSE)]
               /\ handled' = handled \cup {cur[w]}
               /\ pc' = [pc EXCEPT ![w] = "ack"]
               /\ faults' = faults + 1
               /\ UNCHANGED processed
      BY <1>2 DEF TxCheck
    <2>2. UNCHANGED <<msgs, idem, saga, ackLog, committed, owner, pos,
                      marked, cur, effects>>
      BY <1>2 DEF TxCheck
    <2>3. ok \in BOOLEAN /\ (~ok => faults < MaxFaults)
      BY DbResultsFacts
    <2>4. Busy'
      BY <1>2, <1>b, <1>d, <2>1, <2>2 DEF Busy, TxCheck
    <2>5. CASE ok
      <3>1. /\ processed' \in [Workers -> BOOLEAN]
            /\ pc' \in [Workers -> PcVals]
            /\ UNCHANGED <<res, handled, faults>>
        BY <1>b, <2>1, <2>3, <2>5
      <3>2. QED
        BY <1>a, <1>b, <1>c, <1>e, <2>2, <2>4, <3>1 DEF TypeOK
    <2>6. CASE ~ok
      <3>0. /\ res' = [res EXCEPT ![w] = Internal(FALSE)]
            /\ handled' = handled \cup {cur[w]}
            /\ pc' = [pc EXCEPT ![w] = "ack"]
            /\ faults' = faults + 1
            /\ UNCHANGED processed
        BY <2>1, <2>6, Zenon
      <3>1. res' \in [Workers -> ResultType]
        <4>1. Internal(FALSE) \in ResultType
          BY DEF Internal, Result, ResultType, Statuses, Codes, Events
        <4>2. QED
          BY <1>b, <3>0, <4>1
      <3>2. cur[w] \in Offsets
        BY <1>2, <1>d DEF Busy, TxCheck
      <3>3. handled' \subseteq Offsets
        BY <1>c, <3>0, <3>2
      <3>4. faults' \in 0 .. MaxFaults
        BY <1>c, <2>3, <2>6, <3>0
      <3>5. pc' \in [Workers -> PcVals] /\ UNCHANGED processed
        BY <1>b, <3>0
      <3>6. QED
        BY <1>a, <1>b, <1>c, <1>e, <2>2, <2>4, <3>1, <3>3, <3>4, <3>5
        DEF TypeOK
    <2>7. QED
      BY <2>3, <2>5, <2>6
  <1>3. ASSUME NEW w \in Workers, TxSkip(w) PROVE TypeInv'
    <2>1. PICK ok \in DbResults :
            /\ res' = [res EXCEPT ![w] =
                         IF ok THEN Result("SUCCESS", "NONE", "NoEvent", FALSE)
                               ELSE Internal(FALSE)]
            /\ faults' = faults + Cost(ok)
      BY <1>3 DEF TxSkip
    <2>2. ok \in BOOLEAN /\ (~ok => faults < MaxFaults)
      BY DbResultsFacts
    <2>3. res' \in [Workers -> ResultType]
      <3>1. /\ Internal(FALSE) \in ResultType
            /\ Result("SUCCESS", "NONE", "NoEvent", FALSE) \in ResultType
        BY DEF Internal, Result, ResultType, Statuses, Codes, Events
      <3>2. QED
        BY <1>b, <2>1, <2>2, <3>1
    <2>4. faults' \in 0 .. MaxFaults
      BY <1>c, <2>1, <2>2 DEF Cost
    <2>5. cur[w] \in Offsets
      BY <1>3, <1>d DEF Busy, TxSkip
    <2>6. handled' \subseteq Offsets /\ pc' \in [Workers -> PcVals]
      BY <1>3, <1>b, <1>c, <2>5 DEF TxSkip
    <2>7. UNCHANGED <<msgs, idem, saga, ackLog, committed, owner, pos,
                      marked, cur, processed, effects>>
      BY <1>3 DEF TxSkip
    <2>8. Busy'
      BY <1>3, <1>b, <1>d, <2>7 DEF Busy, TxSkip
    <2>9. QED
      BY <1>a, <1>b, <1>c, <1>e, <2>3, <2>4, <2>6, <2>7, <2>8 DEF TypeOK
  <1>4. ASSUME NEW w \in Workers, TxApply(w) PROVE TypeInv'
    <2> DEFINE c == Commands[cur[w]]
    <2>1. c \in CommandType /\ c.key \in Keys
      BY <1>4, <1>d, CommandTyped DEF Busy, TxApply
    <2>2. PICK ok \in DbResults, commitOk \in DbResults :
               LET o == Dispatch(c, ok) IN
               /\ faults' = faults + Cost(ok) + Cost(commitOk)
               /\ faults' <= MaxFaults
               /\ \/ /\ commitOk
                     /\ msgs' = o.rows
                     /\ saga' = saga \o o.saga
                     /\ idem' = IF o.mark /\ idem[c.key] = None
                                  THEN [idem EXCEPT ![c.key] = o.res.status]
                                  ELSE idem
                     /\ effects' = IF o.effect
                                     THEN [effects EXCEPT ![c.key] = @ + 1]
                                     ELSE effects
                     /\ res' = [res EXCEPT ![w] = o.res]
                  \/ /\ ~commitOk
                     /\ msgs' = RolledBack(c, ok)
                     /\ res' = [res EXCEPT ![w] = Internal(o.res.payload)]
                     /\ UNCHANGED <<saga, idem, effects>>
      BY <1>4 DEF TxApply
    <2> DEFINE o == Dispatch(c, ok)
    <2>3. ok \in BOOLEAN /\ commitOk \in BOOLEAN
      BY DbResultsFacts
    <2>4. OutcomeTyped(o)
      BY <1>a, <1>b, <1>c, <2>1, <2>3, DispatchTyped DEF TypeOK
    <2>5. faults' \in 0 .. MaxFaults
      BY <1>c, <2>2, <2>3 DEF Cost
    <2>6. cur[w] \in Offsets
      BY <1>4, <1>d DEF Busy, TxApply
    <2>7. /\ handled' \subseteq Offsets
          /\ pc' \in [Workers -> PcVals]
          /\ UNCHANGED <<ackLog, committed, owner, pos, marked, cur, processed>>
      BY <1>4, <1>b, <1>c, <2>6 DEF TxApply
    <2>8. Busy'
      BY <1>4, <1>b, <1>d, <2>7 DEF Busy, TxApply
    <2>9. CASE commitOk
      <3>0. /\ msgs' = o.rows
            /\ saga' = saga \o o.saga
            /\ idem' = IF o.mark /\ idem[c.key] = None
                         THEN [idem EXCEPT ![c.key] = o.res.status]
                         ELSE idem
            /\ effects' = IF o.effect THEN [effects EXCEPT ![c.key] = @ + 1]
                                      ELSE effects
            /\ res' = [res EXCEPT ![w] = o.res]
        BY <2>2, <2>9, Zenon
      <3>1. /\ msgs' \in Seq(Contents \cup {NoRow})
            /\ saga' \in Seq(SagaType)
            /\ res' \in [Workers -> ResultType]
        BY <1>a, <1>b, <2>4, <3>0 DEF OutcomeTyped
      <3>2. o.res.status \in Statuses
        BY <2>4 DEF OutcomeTyped, ResultType
      <3>3. idem' \in [Keys -> Statuses \cup {None}]
        BY <1>a, <2>1, <3>0, <3>2
      <3>4. effects' \in [Keys -> Nat]
        BY <1>c, <2>1, <3>0
      <3>5. QED
        BY <1>a, <1>b, <1>c, <1>e, <2>5, <2>7, <2>8, <3>1, <3>3, <3>4
        DEF TypeOK
    <2>10. CASE ~commitOk
      <3>0. /\ msgs' = RolledBack(c, ok)
            /\ res' = [res EXCEPT ![w] = Internal(o.res.payload)]
            /\ UNCHANGED <<saga, idem, effects>>
        BY <2>2, <2>10, Zenon
      <3>1. msgs' \in Seq(Contents \cup {NoRow})
        BY <1>a, <3>0 DEF RolledBack
      <3>2. res' \in [Workers -> ResultType]
        <4>1. Internal(o.res.payload) \in ResultType
          BY <2>4 DEF OutcomeTyped, ResultType, Internal, Result, Statuses,
                      Codes, Events
        <4>2. QED
          BY <1>b, <3>0, <4>1
      <3>3. QED
        BY <1>a, <1>b, <1>c, <1>e, <2>5, <2>7, <2>8, <3>0, <3>1, <3>2
        DEF TypeOK
    <2>11. QED
      BY <2>3, <2>9, <2>10
  <1>5. ASSUME NEW w \in Workers, ProduceAck(w) PROVE TypeInv'
    <2> DEFINE c == Commands[cur[w]]
               a == [trace |-> c.trace, key |-> c.key, status |-> res[w].status,
                     code |-> res[w].code, event |-> res[w].event,
                     payload |-> res[w].payload]
    <2>1. c.key \in Keys /\ c.trace \in Traces
      BY <1>5, <1>d, CommandTyped DEF Busy, ProduceAck
    <2>2. a \in AckType
      BY <1>b, <2>1 DEF AckType, ResultType
    <2>3. \/ ackLog' = Append(ackLog, a) /\ faults' = faults
          \/ faults < MaxFaults /\ faults' = faults + 1 /\ ackLog' = ackLog
      BY <1>5 DEF ProduceAck
    <2>4. ackLog' \in Seq(AckType) /\ faults' \in 0 .. MaxFaults
      <3>1. CASE ackLog' = Append(ackLog, a) /\ faults' = faults
        BY <1>a, <1>c, <2>2, <3>1
      <3>2. CASE faults < MaxFaults /\ faults' = faults + 1 /\ ackLog' = ackLog
        BY <1>a, <1>c, <3>2
      <3>3. QED
        BY <2>3, <3>1, <3>2
    <2>5. /\ pc' \in [Workers -> PcVals]
          /\ UNCHANGED <<msgs, idem, saga, committed, owner, pos, marked, cur,
                         processed, res, handled, effects>>
      BY <1>5, <1>b DEF ProduceAck
    <2>6. Busy'
      BY <1>5, <1>b, <1>d, <2>5 DEF Busy, ProduceAck
    <2>7. QED
      BY <1>a, <1>b, <1>c, <1>e, <2>4, <2>5, <2>6 DEF TypeOK
  <1>6. ASSUME NEW w \in Workers, Mark(w) PROVE TypeInv'
    BY <1>6 DEF TypeInv, TypeOK, Busy, Mark, Offsets
  <1>7. ASSUME NEW w \in Workers, AutoCommit(w) PROVE TypeInv'
    BY <1>7 DEF TypeInv, TypeOK, Busy, AutoCommit
  <1>8. ASSUME NEW w \in Workers, Revoke(w) PROVE TypeInv'
    BY <1>8 DEF TypeInv, TypeOK, Busy, Revoke
  <1>9. ASSUME NEW w \in Workers, Expel(w) PROVE TypeInv'
    BY <1>9 DEF TypeInv, TypeOK, Busy, Expel
  <1>10. ASSUME NEW w \in Workers, Crash(w) PROVE TypeInv'
    <2>1. /\ pc' \in [Workers -> PcVals]
          /\ owner' \in Workers \cup {None}
          /\ faults' \in 0 .. MaxFaults
      BY <1>10, <1>a, <1>b, <1>c DEF Crash
    <2>2. Busy'
      BY <1>10, <1>b, <1>d DEF Busy, Crash
    <2>3. QED
      BY <1>10, <1>a, <1>b, <1>c, <1>e, <2>1, <2>2 DEF TypeOK, Crash
  <1>11. ASSUME NEW w \in Workers, Join(w) PROVE TypeInv'
    BY <1>11 DEF TypeInv, TypeOK, Busy, Join
  <1>12. CASE UNCHANGED vars
    BY <1>12 DEF TypeInv, TypeOK, Busy, vars, dbVars, groupVars, workerVars
  <1>13. QED
    BY <1>1, <1>2, <1>3, <1>4, <1>5, <1>6, <1>7, <1>8, <1>9, <1>10, <1>11,
       <1>12 DEF Next, Step

(* TypeOK holds in every state the worker reaches, for any number of      *)
(* members, any partition content and any fault budget.                   *)
THEOREM TypeCorrect == Spec => []TypeOK
  <1>1. TypeInv => TypeOK
    BY DEF TypeInv
  <1>2. QED
    BY <1>1, InitTypeInv, NextTypeInv, PTL DEF Spec


-----------------------------------------------------------------------------
(* No committed offset passes an unhandled message, for any number of     *)
(* members.  CommittedOnlyHandled is not inductive on its own: AutoCommit *)
(* and Revoke copy a member's marked offset, Join copies the committed    *)
(* offset into the member's claim, Fetch moves the claim forward and Mark *)
(* moves the mark to the fetched message.  The invariant says the same    *)
(* of each of these offsets.                                              *)

\* Every offset below a member's mark has been handled.
MarkedHandled ==
    \A w \in Workers : \A i \in 1 .. marked[w] - 1 : i \in handled

\* Every offset below the claim of the owner, or of a member still inside
\* its loop body, is handled or is the one in its open transaction.
ClaimHandled ==
    \A w \in Workers :
        (owner = w \/ pc[w] # "idle") =>
            \A i \in 1 .. pos[w] - 1 :
                i \in handled \/ (i = cur[w] /\ pc[w] \in {"check", "tx"})

CommitInv == CommittedOnlyHandled /\ MarkedHandled /\ ClaimHandled

LEMMA InitCommitInv == Init => CommitInv
  BY DEF Init, CommitInv, CommittedOnlyHandled, MarkedHandled, ClaimHandled

\* The end of withTx, on any of its paths: the message is handled and the
\* member goes on to produce its ack.
LEMMA EndTxCommitInv ==
    ASSUME CommitInv,
           pc \in [Workers -> PcVals], pos \in [Workers -> Nat],
           NEW w \in Workers,
           pc[w] \in {"check", "tx"},
           handled' = handled \cup {cur[w]},
           pc' = [pc EXCEPT ![w] = "ack"],
           UNCHANGED <<committed, marked, owner, pos, cur>>
    PROVE  CommitInv'
  <1>1. CommittedOnlyHandled' /\ MarkedHandled'
    BY DEF CommitInv, CommittedOnlyHandled, MarkedHandled
  <1>2. ClaimHandled'
    BY DEF CommitInv, ClaimHandled, PcVals
  <1>3. QED
    BY <1>1, <1>2 DEF CommitInv

LEMMA NextCommitInv == TypeInv /\ CommitInv /\ [Next]_vars => CommitInv'
  <1> SUFFICES ASSUME TypeInv, CommitInv, [Next]_vars PROVE CommitInv'
    OBVIOUS
  <1> USE DEF dbVars, groupVars, workerVars, Offsets, PcVals
  <1>a. /\ committed \in 1 .. Len(Commands) + 1
        /\ owner \in Workers \cup {None}
        /\ pos \in [Workers -> 1 .. Len(Commands) + 1]
        /\ marked \in [Workers -> 1 .. Len(Commands) + 1]
        /\ pc \in [Workers -> PcVals]
        /\ cur \in [Workers -> 0 .. Len(Commands)]
        /\ handled \subseteq Offsets
    BY DEF TypeInv, TypeOK
  <1>b. Busy
    BY DEF TypeInv
  <1>c. CommittedOnlyHandled /\ MarkedHandled /\ ClaimHandled
    BY DEF CommitInv
  <1>d. CommitInv' <=> CommittedOnlyHandled' /\ MarkedHandled' /\ ClaimHandled'
    BY DEF CommitInv
  <1>e. pos \in [Workers -> Nat]
    BY <1>a
  <1>1. ASSUME NEW w \in Workers, Fetch(w) PROVE CommitInv'
    <2>1. /\ UNCHANGED <<committed, marked, handled, owner>>
          /\ cur' = [cur EXCEPT ![w] = pos[w]]
          /\ pos' = [pos EXCEPT ![w] = pos[w] + 1]
          /\ pc' = [pc EXCEPT ![w] = "check"]
          /\ owner = w /\ pc[w] = "idle"
      BY <1>1 DEF Fetch
    <2>2. ClaimHandled'
      BY <1>a, <1>c, <2>1 DEF ClaimHandled
    <2>3. QED
      BY <1>c, <1>d, <2>1, <2>2 DEF CommittedOnlyHandled, MarkedHandled
  <1>2. ASSUME NEW w \in Workers, TxCheck(w) PROVE CommitInv'
    <2>1. PICK ok \in DbResults :
            \/ /\ ok
               /\ pc' = [pc EXCEPT ![w] = "tx"]
               /\ UNCHANGED handled
            \/ /\ ~ok
               /\ handled' = handled \cup {cur[w]}
               /\ pc' = [pc EXCEPT ![w] = "ack"]
      BY <1>2, Zenon DEF TxCheck
    <2>2. /\ UNCHANGED <<committed, marked, owner, pos, cur>>
          /\ pc[w] = "check"
      BY <1>2 DEF TxCheck
    <2>3. CASE ok
      <3>1. pc' = [pc EXCEPT ![w] = "tx"] /\ UNCHANGED handled
        BY <2>1, <2>3, Zenon
      <3>2. CommittedOnlyHandled' /\ MarkedHandled'
        BY <1>c, <2>2, <3>1 DEF CommittedOnlyHandled, MarkedHandled
      <3>3. ClaimHandled'
        BY <1>a, <1>c, <2>2, <3>1 DEF ClaimHandled
      <3>4. QED
        BY <1>d, <3>2, <3>3
    <2>4. CASE ~ok
      <3>1. handled' = handled \cup {cur[w]} /\ pc' = [pc EXCEPT ![w] = "ack"]
        BY <2>1, <2>4, Zenon
      <3>2. QED
        BY <1>a, <1>e, <2>2, <3>1, EndTxCommitInv
    <2>5. QED
      BY <2>3, <2>4
  <1>3. ASSUME NEW w \in Workers, TxSkip(w) PROVE CommitInv'
    <2>1. /\ pc[w] \in {"check", "tx"}
          /\ handled' = handled \cup {cur[w]}
          /\ pc' = [pc EXCEPT ![w] = "ack"]
          /\ UNCHANGED <<committed, marked, owner, pos, cur>>
      BY <1>3 DEF TxSkip
    <2>2. QED
      BY <1>a, <1>e, <2>1, EndTxCommitInv
  <1>4. ASSUME NEW w \in Workers, TxApply(w) PROVE CommitInv'
    <2>1. /\ pc[w] \in {"check", "tx"}
          /\ handled' = handled \cup {cur[w]}
          /\ pc' = [pc EXCEPT ![w] = "ack"]
          /\ UNCHANGED <<committed, marked, owner, pos, cur>>
      BY <1>4 DEF TxApply
    <2>2. QED
      BY <1>a, <1>e, <2>1, EndTxCommitInv
  <1>5. ASSUME NEW w \in Workers, ProduceAck(w) PROVE CommitInv'
    <2>1. /\ UNCHANGED <<committed, marked, handled, owner, pos, cur>>
          /\ pc' = [pc EXCEPT ![w] = "mark"]
          /\ pc[w] = "ack"
      BY <1>5 DEF ProduceAck
    <2>2. QED
      BY <1>a, <1>c, <1>d, <2>1
      DEF CommittedOnlyHandled, MarkedHandled, ClaimHandled
  <1>6. ASSUME NEW w \in Workers, Mark(w) PROVE CommitInv'
    <2>1. /\ UNCHANGED <<committed, handled, owner, pos, cur>>
          /\ marked' = [marked EXCEPT ![w] = cur[w] + 1]
          /\ pc' = [pc EXCEPT ![w] = "idle"]
          /\ pc[w] = "mark"
      BY <1>6 DEF Mark
    <2>2. \A i \in 1 .. cur[w] : i \in handled
      <3>1. pos[w] = cur[w] + 1
        BY <1>b, <2>1 DEF Busy
      <3>2. \A i \in 1 .. pos[w] - 1 :
               i \in handled \/ (i = cur[w] /\ pc[w] \in {"check", "tx"})
        BY <1>c, <2>1 DEF ClaimHandled
      <3>3. QED
        BY <1>a, <2>1, <3>1, <3>2
    <2>3. MarkedHandled'
      BY <1>a, <1>c, <2>1, <2>2 DEF MarkedHandled
    <2>4. ClaimHandled'
      BY <1>a, <1>c, <2>1 DEF ClaimHandled
    <2>5. QED
      BY <1>c, <1>d, <2>1, <2>3, <2>4 DEF CommittedOnlyHandled
  <1>7. ASSUME NEW w \in Workers, AutoCommit(w) PROVE CommitInv'
    BY <1>7, <1>a, <1>c, <1>d
    DEF AutoCommit, CommittedOnlyHandled, MarkedHandled, ClaimHandled
  <1>8. ASSUME NEW w \in Workers, Revoke(w) PROVE CommitInv'
    BY <1>8, <1>a, <1>c, <1>d
    DEF Revoke, CommittedOnlyHandled, MarkedHandled, ClaimHandled
  <1>9. ASSUME NEW w \in Workers, Expel(w) PROVE CommitInv'
    BY <1>9, <1>a, <1>c, <1>d
    DEF Expel, CommittedOnlyHandled, MarkedHandled, ClaimHandled
  <1>10. ASSUME NEW w \in Workers, Crash(w) PROVE CommitInv'
    BY <1>10, <1>a, <1>c, <1>d
    DEF Crash, CommittedOnlyHandled, MarkedHandled, ClaimHandled
  <1>11. ASSUME NEW w \in Workers, Join(w) PROVE CommitInv'
    BY <1>11, <1>a, <1>c, <1>d
    DEF Join, CommittedOnlyHandled, MarkedHandled, ClaimHandled
  <1>12. CASE UNCHANGED vars
    BY <1>12, <1>c, <1>d
    DEF vars, CommittedOnlyHandled, MarkedHandled, ClaimHandled
  <1>13. QED
    BY <1>1, <1>2, <1>3, <1>4, <1>5, <1>6, <1>7, <1>8, <1>9, <1>10, <1>11,
       <1>12 DEF Next, Step

(* A crash, an expulsion or a rebalance never makes the group skip a      *)
(* command whose transaction has not ended: MarkMessage follows withTx in *)
(* ConsumeClaim, and only the owner's marks reach the committed offset.   *)
THEOREM CommittedOnlyHandledHolds == Spec => []CommittedOnlyHandled
  <1>1. TypeInv /\ CommitInv /\ [Next]_vars => (TypeInv /\ CommitInv)'
    BY NextTypeInv, NextCommitInv
  <1>2. Init => TypeInv /\ CommitInv
    BY InitTypeInv, InitCommitInv
  <1>3. CommitInv => CommittedOnlyHandled
    BY DEF CommitInv
  <1>4. QED
    BY <1>1, <1>2, <1>3, PTL DEF Spec


-----------------------------------------------------------------------------
(* Exactly-once effect with one group member.  With two members the       *)
(* property fails (run zombie): the check of idempotency_keys and the     *)
(* INSERT IGNORE of markIdempotent are not serialised across members.     *)
(* With one member, crashes, redeliveries, failed statements and rolled   *)
(* back commits still never apply a command twice.                        *)

\* Only the success paths of the transaction body mutate the table, and
\* they all reach markIdempotent.
LEMMA DispatchEffectMarks ==
    ASSUME NEW c \in CommandType, NEW ok \in BOOLEAN
    PROVE  Dispatch(c, ok).effect => Dispatch(c, ok).mark
  <1>1. /\ \A code : Failed(c, code).effect = FALSE
        /\ \A ev, rows, eff : Succeeded(c, ev, rows, eff).mark = TRUE
    BY DEF Failed, Succeeded, Outcome
  <1>2. QED
    BY <1>1 DEF Dispatch, CreateMessage, ReadMessage, UpdateMessage,
                DeleteMessage, CommandType, Ops

\* A key with a committed effect has its idempotency record, and a member
\* about to run the body of a transaction has found none for its key.
EffInv ==
    /\ EffectOnce
    /\ \A k \in Keys : effects[k] # 0 => idem[k] # None
    /\ \A w \in Workers :
           pc[w] = "tx" /\ ~processed[w] => idem[Commands[cur[w]].key] = None

LEMMA InitEffInv == Init => EffInv
  BY NoneAssumption DEF Init, EffInv, EffectOnce

LEMMA NextEffInv ==
    ASSUME NEW w0, Workers = {w0}
    PROVE  TypeInv /\ EffInv /\ [Next]_vars => EffInv'
  <1> SUFFICES ASSUME TypeInv, EffInv, [Next]_vars PROVE EffInv'
    OBVIOUS
  <1> USE DEF dbVars, groupVars, workerVars, Offsets, PcVals
  <1>a. /\ idem \in [Keys -> Statuses \cup {None}]
        /\ pc \in [Workers -> PcVals]
        /\ cur \in [Workers -> 0 .. Len(Commands)]
        /\ processed \in [Workers -> BOOLEAN]
        /\ effects \in [Keys -> Nat]
    BY DEF TypeInv, TypeOK
  <1>b. Busy
    BY DEF TypeInv
  <1>c. /\ \A k \in Keys : effects[k] <= 1
        /\ \A k \in Keys : effects[k] # 0 => idem[k] # None
        /\ pc[w0] = "tx" /\ ~processed[w0] => idem[Commands[cur[w0]].key] = None
    BY DEF EffInv, EffectOnce
  <1>d. EffInv' <=>
          /\ \A k \in Keys : effects'[k] <= 1
          /\ \A k \in Keys : effects'[k] # 0 => idem'[k] # None
          /\ pc'[w0] = "tx" /\ ~processed'[w0]
               => idem'[Commands[cur'[w0]].key] = None
    BY DEF EffInv, EffectOnce
  <1>e. \A w \in Workers : w = w0
    OBVIOUS
  \* The steps that leave idem, effects, and the member's check untouched.
  <1>1. ASSUME UNCHANGED <<idem, effects, processed, cur>>,
               pc'[w0] = "tx" => pc[w0] = "tx"
        PROVE  EffInv'
    BY <1>1, <1>c, <1>d
  <1>2. ASSUME NEW w \in Workers, TxCheck(w) PROVE EffInv'
    <2>1. PICK ok \in DbResults :
            \/ /\ ok
               /\ processed' = [processed EXCEPT
                                  ![w] = idem[Commands[cur[w]].key] # None]
               /\ pc' = [pc EXCEPT ![w] = "tx"]
            \/ /\ ~ok
               /\ pc' = [pc EXCEPT ![w] = "ack"]
               /\ UNCHANGED processed
      BY <1>2, Zenon DEF TxCheck
    <2>2. UNCHANGED <<idem, effects, cur>> /\ w = w0
      BY <1>2, <1>e DEF TxCheck
    <2>3. QED
      BY <1>a, <1>c, <1>d, <2>1, <2>2
  <1>3. ASSUME NEW w \in Workers, TxApply(w) PROVE EffInv'
    <2> DEFINE c == Commands[cur[w]]
    <2>1. c \in CommandType /\ c.key \in Keys /\ w = w0
      BY <1>3, <1>b, <1>e, CommandTyped DEF Busy, TxApply
    <2>2. idem[c.key] = None /\ effects[c.key] = 0
      BY <1>3, <1>a, <1>c, <2>1 DEF TxApply
    <2>3. PICK ok \in DbResults, commitOk \in DbResults :
               LET o == Dispatch(c, ok) IN
               \/ /\ idem' = IF o.mark /\ idem[c.key] = None
                               THEN [idem EXCEPT ![c.key] = o.res.status]
                               ELSE idem
                  /\ effects' = IF o.effect
                                  THEN [effects EXCEPT ![c.key] = @ + 1]
                                  ELSE effects
               \/ UNCHANGED <<idem, effects>>
      BY <1>3, Zenon DEF TxApply
    <2> DEFINE o == Dispatch(c, ok)
    <2>4. /\ ok \in BOOLEAN
          /\ o.effect => o.mark
          /\ o.res.status \in Statuses
      <3>1. ok \in BOOLEAN
        BY DbResultsFacts
      <3>2. OutcomeTyped(o)
        BY <1>a, <2>1, <3>1, DispatchTyped DEF TypeInv
      <3>3. QED
        BY <2>1, <3>1, <3>2, DispatchEffectMarks DEF OutcomeTyped, ResultType
    <2>5. pc'[w0] = "ack" /\ UNCHANGED <<processed, cur>>
      BY <1>3, <1>a, <2>1 DEF TxApply
    <2>6. /\ \A k \in Keys : effects'[k] <= 1
          /\ \A k \in Keys : effects'[k] # 0 => idem'[k] # None
      BY <1>a, <1>c, <2>1, <2>2, <2>3, <2>4, NoneAssumption
    <2>7. QED
      BY <1>d, <2>5, <2>6
  <1>4. ASSUME NEW w \in Workers, Crash(w) PROVE EffInv'
    BY <1>4, <1>1, <1>a, <1>e DEF Crash
  <1>5. QED
    <2>1. ASSUME NEW w \in Workers, Fetch(w) \/ TxSkip(w) \/ ProduceAck(w)
          PROVE  EffInv'
      <3>1. /\ UNCHANGED <<idem, effects, processed>>
            /\ pc' = [pc EXCEPT ![w] = "check"] \/ pc' = [pc EXCEPT ![w] = "ack"]
               \/ pc' = [pc EXCEPT ![w] = "mark"]
            /\ UNCHANGED cur \/ pc' = [pc EXCEPT ![w] = "check"]
        BY <2>1 DEF Fetch, TxSkip, ProduceAck
      <3>2. CASE pc' = [pc EXCEPT ![w] = "check"]
        BY <1>a, <1>c, <1>d, <1>e, <3>1, <3>2
      <3>3. CASE pc' # [pc EXCEPT ![w] = "check"]
        BY <1>1, <1>a, <1>e, <3>1, <3>3
      <3>4. QED
        BY <3>2, <3>3
    <2>2. ASSUME NEW w \in Workers,
                 \/ Mark(w) \/ AutoCommit(w) \/ Join(w) \/ Revoke(w)
                 \/ Expel(w)
          PROVE  EffInv'
      <3>1. /\ UNCHANGED <<idem, effects, processed, cur>>
            /\ pc' = pc \/ pc' = [pc EXCEPT ![w] = "idle"]
        BY <2>2 DEF Mark, AutoCommit, Join, Revoke, Expel
      <3>2. QED
        BY <1>1, <1>a, <1>e, <3>1
    <2>3. CASE UNCHANGED vars
      BY <2>3, <1>1 DEF vars
    <2>4. QED
      BY <1>2, <1>3, <1>4, <2>1, <2>3, <2>2 DEF Next, Step

(* With a single consumer-group member, checkIdempotent and              *)
(* markIdempotent in one transaction make every command's mutation commit *)
(* at most once, across crashes, redeliveries and failed DB calls.        *)
THEOREM EffectOnceSingleMember ==
    ASSUME NEW w0, Workers = {w0}
    PROVE  Spec => []EffectOnce
  <1>1. TypeInv /\ EffInv /\ [Next]_vars => (TypeInv /\ EffInv)'
    BY NextTypeInv, NextEffInv
  <1>2. Init => TypeInv /\ EffInv
    BY InitTypeInv, InitEffInv
  <1>3. EffInv => EffectOnce
    BY DEF EffInv
  <1>4. QED
    BY <1>1, <1>2, <1>3, PTL DEF Spec

=============================================================================
