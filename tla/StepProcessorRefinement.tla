--------------------- MODULE StepProcessorRefinement ---------------------
(***************************************************************************)
(* Proof that the message worker with one consumer-group member           *)
(* implements the command log of CommandLog under the mapping Log of     *)
(* StepProcessor (the safety part, Log!SafetySpec; the fairness of the    *)
(* log's commits is checked by TLC in run crash).                          *)
(*                                                                         *)
(* The step proof needs, besides the invariants of StepProcessorProofs,   *)
(* two facts about the owner's offsets and the ack step: the owner's mark *)
(* is never behind the committed offset (so a commit never moves back),  *)
(* and a member about to produce its ack has ended the transaction of    *)
(* its message (so every ack names a handled command).  Both hold for     *)
(* any number of members; only the effect step needs a single member.     *)
(***************************************************************************)
EXTENDS StepProcessorProofs

\* The owner's mark lies between the committed offset and its claim, and
\* inside the loop body it is not past the message being handled.
OwnerOffsets ==
    \A w \in Workers :
        owner = w =>
            /\ committed <= marked[w]
            /\ marked[w] <= pos[w]
            /\ pc[w] # "idle" => marked[w] <= cur[w]

\* A member producing its ack, or about to mark, has ended its transaction.
AckHandled ==
    \A w \in Workers : pc[w] \in {"ack", "mark"} => cur[w] \in handled

LEMMA InitOwnerAck == Init => OwnerOffsets /\ AckHandled
  BY NoneAssumption DEF Init, OwnerOffsets, AckHandled

LEMMA NextOwnerAck ==
    TypeInv /\ OwnerOffsets /\ AckHandled /\ [Next]_vars
        => OwnerOffsets' /\ AckHandled'
  <1> SUFFICES ASSUME TypeInv, OwnerOffsets, AckHandled, [Next]_vars
               PROVE  OwnerOffsets' /\ AckHandled'
    OBVIOUS
  <1> USE DEF dbVars, groupVars, workerVars, Offsets, PcVals
  <1>a. /\ committed \in 1 .. Len(Commands) + 1
        /\ owner \in Workers \cup {None}
        /\ pos \in [Workers -> 1 .. Len(Commands) + 1]
        /\ marked \in [Workers -> 1 .. Len(Commands) + 1]
        /\ pc \in [Workers -> PcVals]
        /\ cur \in [Workers -> 0 .. Len(Commands)]
    BY DEF TypeInv, TypeOK
  <1>b. Busy
    BY DEF TypeInv
  <1>c. None \notin Workers
    BY NoneAssumption
  \* Steps that keep the group's offsets and only move a busy member's pc
  \* between non-idle values.
  <1>1. ASSUME NEW w \in Workers,
               UNCHANGED <<committed, owner, pos, marked, cur>>,
               pc[w] # "idle",
               \/ pc' = [pc EXCEPT ![w] = "tx"] /\ UNCHANGED handled
               \/ pc' = [pc EXCEPT ![w] = "ack"] /\ handled' = handled \cup {cur[w]}
               \/ /\ pc[w] = "ack"
                  /\ pc' = [pc EXCEPT ![w] = "mark"] /\ UNCHANGED handled
        PROVE  OwnerOffsets' /\ AckHandled'
    <2>1. /\ pc'[w] # "idle"
          /\ \A v \in Workers \ {w} : pc'[v] = pc[v]
          /\ handled \subseteq handled'
      BY <1>1, <1>a
    <2>2. OwnerOffsets'
      BY <1>1, <2>1 DEF OwnerOffsets
    <2>3. pc'[w] \in {"ack", "mark"} => cur[w] \in handled'
      <3>1. CASE pc' = [pc EXCEPT ![w] = "tx"] /\ UNCHANGED handled
        BY <3>1, <1>a
      <3>2. CASE pc' = [pc EXCEPT ![w] = "ack"] /\ handled' = handled \cup {cur[w]}
        BY <3>2
      <3>3. CASE pc[w] = "ack" /\ pc' = [pc EXCEPT ![w] = "mark"]
                 /\ UNCHANGED handled
        BY <3>3 DEF AckHandled
      <3>4. QED
        BY <1>1, <3>1, <3>2, <3>3
    <2>4. AckHandled'
      BY <1>1, <2>1, <2>3 DEF AckHandled
    <2>5. QED
      BY <2>2, <2>4
  <1>2. ASSUME NEW w \in Workers, Fetch(w) PROVE OwnerOffsets' /\ AckHandled'
    <2>1. OwnerOffsets'
      BY <1>2, <1>a DEF OwnerOffsets, Fetch
    <2>2. AckHandled'
      BY <1>2, <1>a DEF AckHandled, Fetch
    <2>3. QED
      BY <2>1, <2>2
  <1>3. ASSUME NEW w \in Workers, TxCheck(w) PROVE OwnerOffsets' /\ AckHandled'
    <2>1. PICK ok \in DbResults :
            \/ ok /\ pc' = [pc EXCEPT ![w] = "tx"] /\ UNCHANGED handled
            \/ ~ok /\ pc' = [pc EXCEPT ![w] = "ack"]
                   /\ handled' = handled \cup {cur[w]}
      BY <1>3, Zenon DEF TxCheck
    <2>2. UNCHANGED <<committed, owner, pos, marked, cur>> /\ pc[w] # "idle"
      BY <1>3 DEF TxCheck
    <2>3. QED
      BY <2>1, <2>2, <1>1
  <1>4. ASSUME NEW w \in Workers, TxSkip(w) \/ TxApply(w)
        PROVE  OwnerOffsets' /\ AckHandled'
    <2>1. /\ UNCHANGED <<committed, owner, pos, marked, cur>>
          /\ pc[w] # "idle"
          /\ pc' = [pc EXCEPT ![w] = "ack"]
          /\ handled' = handled \cup {cur[w]}
      BY <1>4 DEF TxSkip, TxApply
    <2>2. QED
      BY <2>1, <1>1
  <1>5. ASSUME NEW w \in Workers, ProduceAck(w) PROVE OwnerOffsets' /\ AckHandled'
    <2>1. /\ UNCHANGED <<committed, owner, pos, marked, cur, handled>>
          /\ pc[w] = "ack"
          /\ pc' = [pc EXCEPT ![w] = "mark"]
      BY <1>5 DEF ProduceAck
    <2>2. QED
      BY <2>1, <1>1
  <1>6. ASSUME NEW w \in Workers, Mark(w) PROVE OwnerOffsets' /\ AckHandled'
    <2>1. pos[w] = cur[w] + 1
      BY <1>6, <1>b DEF Busy, Mark
    <2>2. OwnerOffsets'
      BY <1>6, <1>a, <2>1 DEF OwnerOffsets, Mark
    <2>3. AckHandled'
      BY <1>6, <1>a DEF AckHandled, Mark
    <2>4. QED
      BY <2>2, <2>3
  <1>7. ASSUME NEW w \in Workers, AutoCommit(w) PROVE OwnerOffsets' /\ AckHandled'
    BY <1>7, <1>a DEF OwnerOffsets, AckHandled, AutoCommit
  <1>8. ASSUME NEW w \in Workers, Revoke(w) \/ Expel(w)
        PROVE  OwnerOffsets' /\ AckHandled'
    <2>1. owner' = None /\ UNCHANGED <<pc, cur, handled>>
      BY <1>8 DEF Revoke, Expel
    <2>2. QED
      BY <2>1, <1>c DEF OwnerOffsets, AckHandled
  <1>9. ASSUME NEW w \in Workers, Crash(w) PROVE OwnerOffsets' /\ AckHandled'
    <2>1. OwnerOffsets'
      BY <1>9, <1>a, <1>c DEF OwnerOffsets, Crash
    <2>2. AckHandled'
      BY <1>9, <1>a DEF AckHandled, Crash
    <2>3. QED
      BY <2>1, <2>2
  <1>10. ASSUME NEW w \in Workers, Join(w) PROVE OwnerOffsets' /\ AckHandled'
    BY <1>10, <1>a DEF OwnerOffsets, AckHandled, Join
  <1>11. CASE UNCHANGED vars
    BY <1>11 DEF vars, OwnerOffsets, AckHandled
  <1>12. QED
    BY <1>2, <1>3, <1>4, <1>5, <1>6, <1>7, <1>8, <1>9, <1>10, <1>11
    DEF Next, Step
-----------------------------------------------------------------------------
(* The refinement.                                                         *)

\* The invariant the step proof rests on.
RefInv == TypeInv /\ CommitInv /\ EffInv /\ OwnerOffsets /\ AckHandled

\* Appending an ack to the acks topic appends its key to the log's acks.
LEMMA AckKeysAppend ==
    ASSUME NEW s \in Seq(AckType), NEW a \in AckType
    PROVE  [j \in DOMAIN Append(s, a) |-> Append(s, a)[j].key]
             = Append([j \in DOMAIN s |-> s[j].key], a.key)
  OBVIOUS

LEMMA InitLog == Init => Log!Init
  BY DEF Init, Log!Init

LEMMA NextLog ==
    ASSUME NEW w0, Workers = {w0}
    PROVE  RefInv /\ [Next]_vars => [Log!Next]_Log!vars
  <1> SUFFICES ASSUME RefInv, [Next]_vars PROVE [Log!Next]_Log!vars
    OBVIOUS
  <1> USE DEF dbVars, groupVars, workerVars, PcVals
  <1>a. /\ ackLog \in Seq(AckType)
        /\ committed \in 1 .. Len(Commands) + 1
        /\ owner \in Workers \cup {None}
        /\ marked \in [Workers -> 1 .. Len(Commands) + 1]
        /\ pc \in [Workers -> PcVals]
        /\ cur \in [Workers -> 0 .. Len(Commands)]
        /\ res \in [Workers -> ResultType]
        /\ effects \in [Keys -> Nat]
    BY DEF RefInv, TypeInv, TypeOK
  <1>b. Busy /\ MarkedHandled /\ OwnerOffsets /\ AckHandled
    BY DEF RefInv, TypeInv, CommitInv
  <1>c. EffInv
    BY DEF RefInv
  \* A step that leaves the log's variables alone.
  <1>1. ASSUME UNCHANGED <<handled, effects, ackLog, committed>>
        PROVE  [Log!Next]_Log!vars
    BY <1>1 DEF Log!vars
  \* A step that ends the transaction of the message at i, with no effect.
  <1>2. ASSUME NEW i \in Offsets, handled' = handled \cup {i},
               UNCHANGED <<effects, ackLog, committed>>
        PROVE  [Log!Next]_Log!vars
    BY <1>2 DEF Log!Next, Log!Handle, Log!Offsets, Offsets
  \* A step that moves the committed offset to a member's mark.
  <1>3. ASSUME NEW w \in Workers, owner = w, committed' = marked[w],
               UNCHANGED <<handled, effects, ackLog>>
        PROVE  [Log!Next]_Log!vars
    <2>1. CASE marked[w] = committed
      BY <1>3, <2>1, <1>1
    <2>2. CASE marked[w] # committed
      <3>1. committed < marked[w]
        BY <1>3, <2>2, <1>a, <1>b DEF OwnerOffsets
      <3>2. \A i \in committed .. marked[w] - 1 : i \in handled
        BY <1>a, <1>b DEF MarkedHandled
      <3>3. Log!Commit(marked[w])
        BY <1>3, <3>1, <3>2 DEF Log!Commit
      <3>4. QED
        BY <3>3, <1>a DEF Log!Next
    <2>3. QED
      BY <2>1, <2>2
  <1>4. ASSUME NEW w \in Workers, TxCheck(w) PROVE [Log!Next]_Log!vars
    <2>1. PICK ok \in DbResults :
            \/ ok /\ UNCHANGED handled
            \/ ~ok /\ handled' = handled \cup {cur[w]}
      BY <1>4, Zenon DEF TxCheck
    <2>2. UNCHANGED <<effects, ackLog, committed>> /\ cur[w] \in Offsets
      BY <1>4, <1>a, <1>b DEF TxCheck, Busy
    <2>3. QED
      BY <2>1, <2>2, <1>1, <1>2
  <1>5. ASSUME NEW w \in Workers, TxSkip(w) PROVE [Log!Next]_Log!vars
    <2>1. /\ handled' = handled \cup {cur[w]}
          /\ UNCHANGED <<effects, ackLog, committed>>
          /\ cur[w] \in Offsets
      BY <1>5, <1>a, <1>b DEF TxSkip, Busy
    <2>2. QED
      BY <2>1, <1>2
  <1>6. ASSUME NEW w \in Workers, TxApply(w) PROVE [Log!Next]_Log!vars
    <2> DEFINE c == Commands[cur[w]]
    <2>1. /\ cur[w] \in Offsets
          /\ c.key \in Keys
          /\ handled' = handled \cup {cur[w]}
          /\ UNCHANGED <<ackLog, committed>>
      BY <1>6, <1>a, <1>b, CommandTyped DEF TxApply, Busy
    <2>2. effects[c.key] = 0
      <3>1. pc[w0] = "tx" /\ ~processed[w0] /\ w = w0
        BY <1>6 DEF TxApply
      <3>2. idem[c.key] = None
        BY <1>c, <3>1 DEF EffInv
      <3>3. QED
        BY <1>c, <2>1, <3>2, NoneAssumption DEF EffInv
    <2>3. \/ effects' = [effects EXCEPT ![c.key] = @ + 1]
          \/ UNCHANGED effects
      BY <1>6, Zenon DEF TxApply
    <2>4. CASE effects' = [effects EXCEPT ![c.key] = @ + 1]
      <3>1. effects' = [effects EXCEPT ![c.key] = 1]
        BY <2>1, <2>2, <2>4, <1>a
      <3>2. Log!Apply(cur[w])
        BY <2>1, <2>2, <3>1 DEF Log!Apply, Offsets
      <3>3. QED
        BY <2>1, <3>2 DEF Log!Next, Log!Offsets, Offsets
    <2>5. CASE UNCHANGED effects
      BY <2>1, <2>5, <1>2
    <2>6. QED
      BY <2>3, <2>4, <2>5
  <1>7. ASSUME NEW w \in Workers, ProduceAck(w) PROVE [Log!Next]_Log!vars
    <2> DEFINE c == Commands[cur[w]]
               a == [trace |-> c.trace, key |-> c.key, status |-> res[w].status,
                     code |-> res[w].code, event |-> res[w].event,
                     payload |-> res[w].payload]
    <2>1. /\ ackLog' = Append(ackLog, a) \/ UNCHANGED ackLog
          /\ UNCHANGED <<handled, effects, committed>>
          /\ pc[w] = "ack"
      BY <1>7 DEF ProduceAck
    <2>2. cur[w] \in Offsets /\ cur[w] \in handled
      BY <1>a, <1>b, <2>1 DEF Busy, AckHandled
    <2>3. CASE ackLog' = Append(ackLog, a)
      <3>1. a \in AckType
        BY <2>2, <1>a, CommandTyped DEF AckType, ResultType, Offsets, Traces, Keys
      <3>2. cur[w] \in Log!Offsets
        BY <2>2 DEF Log!Offsets, Offsets
      <3>3. ASSUME NEW i \in Log!Offsets, i = cur[w] PROVE Log!Ack(i)
        BY <3>3, <1>a, <2>1, <2>2, <2>3, <3>1, AckKeysAppend DEF Log!Ack
      <3>4. QED
        BY <3>2, <3>3 DEF Log!Next
    <2>4. CASE UNCHANGED ackLog
      BY <2>1, <2>4, <1>1
    <2>5. QED
      BY <2>1, <2>3, <2>4
  <1>8. ASSUME NEW w \in Workers, AutoCommit(w) \/ Revoke(w)
        PROVE  [Log!Next]_Log!vars
    <2>1. owner = w /\ committed' = marked[w] /\ UNCHANGED <<handled, effects, ackLog>>
      BY <1>8 DEF AutoCommit, Revoke
    <2>2. QED
      BY <2>1, <1>3
  <1>9. ASSUME NEW w \in Workers,
               \/ Fetch(w) \/ Mark(w) \/ Expel(w) \/ Crash(w) \/ Join(w)
        PROVE  [Log!Next]_Log!vars
    BY <1>9, <1>1 DEF Fetch, Mark, Expel, Crash, Join
  <1>10. CASE UNCHANGED vars
    BY <1>10, <1>1 DEF vars
  <1>11. QED
    BY <1>4, <1>5, <1>6, <1>7, <1>8, <1>9, <1>10 DEF Next, Step

(* The message worker with one consumer-group member implements the       *)
(* command log: every behaviour of StepProcessor, across crashes,         *)
(* expulsions, rebalances, failed statements, commits and produces, is a *)
(* behaviour of CommandLog under the mapping Log.  A command's effect     *)
(* commits once per key, acks name handled commands, and the committed    *)
(* offset only moves forward over handled commands.                       *)
THEOREM WorkerImplementsCommandLog ==
    ASSUME NEW w0, Workers = {w0}
    PROVE  Spec => Log!SafetySpec
  <1>1. Init => RefInv
    BY InitTypeInv, InitCommitInv, InitEffInv, InitOwnerAck DEF RefInv
  <1>2. RefInv /\ [Next]_vars => RefInv'
    BY NextTypeInv, NextCommitInv, NextEffInv, NextOwnerAck DEF RefInv
  <1>3. Init => Log!Init
    BY InitLog
  <1>4. RefInv /\ [Next]_vars => [Log!Next]_Log!vars
    BY NextLog
  <1>5. QED
    BY <1>1, <1>2, <1>3, <1>4, PTL DEF Spec, Log!SafetySpec

=============================================================================
