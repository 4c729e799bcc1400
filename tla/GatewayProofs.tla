--------------------------- MODULE GatewayProofs ---------------------------
(***************************************************************************)
(* Proofs about Gateway, for every number of replicas, traces and clients *)
(* and every TTL and poll budget: the type invariant, and that a 200 of   *)
(* the long poll reports the last ack put for its trace, no older than    *)
(* the TTL.                                                                *)
(*                                                                         *)
(* The action property rests on an invariant of the cache: an entry is   *)
(* exactly the last putAck of its trace (same status, expiry at the put's *)
(* time plus the TTL).  Crash and sweep only delete entries, so they keep *)
(* it; putAck writes the entry and the history together.                  *)
(***************************************************************************)
EXTENDS Gateway, TLAPS

USE NoneAssumption, TimeAssumption, BoundsAssumption

\* Every cache entry is the last put of its trace.
CacheMatchesPut ==
    \A g \in Gateways, t \in Traces :
        cache[g][t] # None =>
            /\ lastPut[g][t] # None
            /\ cache[g][t].status = lastPut[g][t].status
            /\ cache[g][t].exp = lastPut[g][t].at + TTL

\* A waiting poll names a replica and a trace.
PollsTyped ==
    \A c \in Clients :
        poll[c].state = "waiting" => poll[c].gw \in Gateways /\ poll[c].trace \in Traces

\* A command on the topic has the partition of its key.
PartsSet == \A t \in cmdTopic : ackPart[t] \in Gateways

IInv == TypeOK /\ CacheMatchesPut /\ PollsTyped /\ PartsSet

\* The step of AnswerIsLatestLiveAck.
LatestLiveAnswer ==
    \A c \in Clients :
        Answered(c, "200") =>
            LET p == lastPut[poll[c].gw][poll[c].trace] IN
                /\ p # None
                /\ p.status = poll'[c].status
                /\ now <= p.at + TTL

-----------------------------------------------------------------------------
LEMMA InitIInv == Init => IInv
BY DEF Init, IInv, TypeOK, CacheMatchesPut, PollsTyped, PartsSet, IdlePoll,
       PollType, Times

LEMMA NextIInv == IInv /\ [Next]_vars => IInv'
<1> SUFFICES ASSUME IInv, [Next]_vars PROVE IInv'
    OBVIOUS
<1>a. now \in Times
    BY DEF IInv, TypeOK
<1>b. reply \in [Traces -> {"none", "202", "503"}]
    BY DEF IInv, TypeOK
<1>c. cmdTopic \subseteq Traces /\ ackPart \in [Traces -> Gateways \cup {None}]
    BY DEF IInv, TypeOK
<1>d. acks \in [Gateways -> Seq(AckType)]
    BY DEF IInv, TypeOK
<1>e. /\ \A g \in Gateways : /\ committed[g] <= marked[g]
                             /\ marked[g] <= pos[g]
                             /\ pos[g] <= Len(acks[g]) + 1
      /\ {pos, marked, committed} \subseteq [Gateways -> Nat \ {0}]
    BY DEF IInv, TypeOK
<1>f. cache \in [Gateways -> [Traces -> EntryType \cup {None}]]
    BY DEF IInv, TypeOK
<1>g. lastPut \in [Gateways -> [Traces -> PutType \cup {None}]]
    BY DEF IInv, TypeOK
<1>h. poll \in [Clients -> PollType]
    BY DEF IInv, TypeOK
<1>i. faults \in 0 .. MaxFaults
    BY DEF IInv, TypeOK
<1>j. CacheMatchesPut /\ PollsTyped /\ PartsSet
    BY DEF IInv
\* The conjuncts of IInv, for the steps that change few variables.
<1> DEFINE OffsetsOK ==
        /\ \A g \in Gateways : /\ committed[g] <= marked[g]
                               /\ marked[g] <= pos[g]
                               /\ pos[g] <= Len(acks[g]) + 1
        /\ {pos, marked, committed} \subseteq [Gateways -> Nat \ {0}]
<1>k. IInv' = /\ now' \in Times
              /\ reply' \in [Traces -> {"none", "202", "503"}]
              /\ cmdTopic' \subseteq Traces
              /\ ackPart' \in [Traces -> Gateways \cup {None}]
              /\ acks' \in [Gateways -> Seq(AckType)]
              /\ OffsetsOK'
              /\ cache' \in [Gateways -> [Traces -> EntryType \cup {None}]]
              /\ lastPut' \in [Gateways -> [Traces -> PutType \cup {None}]]
              /\ poll' \in [Clients -> PollType]
              /\ faults' \in 0 .. MaxFaults
              /\ CacheMatchesPut' /\ PollsTyped' /\ PartsSet'
    BY DEF IInv, TypeOK
<1>l. OffsetsOK
    BY <1>e
<1>1. ASSUME NEW t \in Traces, NEW g \in Gateways, Submit(t, g) PROVE IInv'
    <2>1. PICK r \in SendResults :
             /\ reply' = [reply EXCEPT ![t] = IF r = "ok" THEN "202" ELSE "503"]
             /\ cmdTopic' = IF r = "failed" THEN cmdTopic ELSE cmdTopic \cup {t}
             /\ faults' = IF r = "ok" THEN faults ELSE faults + 1
        BY <1>1 DEF Submit
    <2>2. r = "ok" \/ faults < MaxFaults
        BY DEF SendResults
    <2>3. /\ reply' \in [Traces -> {"none", "202", "503"}]
          /\ cmdTopic' \subseteq Traces
          /\ faults' \in 0 .. MaxFaults
        BY <2>1, <2>2, <1>b, <1>c, <1>i
    <2>4. ackPart' \in [Traces -> Gateways \cup {None}] /\ PartsSet'
        BY <1>1, <2>1, <1>c, <1>j DEF Submit, PartsSet
    <2>5. QED
        BY <1>1, <2>3, <2>4, <1>a, <1>d, <1>l, <1>f, <1>g, <1>h, <1>j, <1>k
        DEF Submit, groupVars, CacheMatchesPut, PollsTyped
<1>2. ASSUME NEW t \in Traces, NEW s \in Statuses, WorkerAck(t, s) PROVE IInv'
    <2> DEFINE g == ackPart[t]
    <2>1. g \in Gateways
        BY <1>2, <1>j DEF WorkerAck, PartsSet
    <2>2. acks' = [acks EXCEPT ![g] = Append(acks[g], [trace |-> t, status |-> s])]
        BY <1>2 DEF WorkerAck
    <2>x. [trace |-> t, status |-> s] \in AckType
        BY DEF AckType
    <2>3. acks' \in [Gateways -> Seq(AckType)]
        BY <2>1, <2>2, <2>x, <1>d
    <2>4. \A h \in Gateways : Len(acks'[h]) >= Len(acks[h])
        BY <2>1, <2>2, <1>d
    <2>5. OffsetsOK'
        BY <1>2, <2>3, <2>4, <1>l DEF WorkerAck, groupVars
    <2>6. QED
        BY <1>2, <2>3, <2>5, <1>a, <1>b, <1>c, <1>f, <1>g, <1>h, <1>i, <1>j, <1>k
        DEF WorkerAck, groupVars, CacheMatchesPut, PollsTyped, PartsSet
<1>3. ASSUME NEW g \in Gateways, ConsumeAck(g) PROVE IInv'
    <2> DEFINE a == acks[g][pos[g]]
    <2>1. a \in AckType
        BY <1>3, <1>d, <1>e DEF ConsumeAck
    <2>2. now + TTL \in 0 .. MaxTime + TTL /\ now \in Times
        BY <1>a DEF Times
    <2>3. /\ cache' = [cache EXCEPT ![g][a.trace] = [status |-> a.status, exp |-> now + TTL]]
          /\ lastPut' = [lastPut EXCEPT ![g][a.trace] = [status |-> a.status, at |-> now]]
        BY <1>3 DEF ConsumeAck, PutAck
    <2>4. /\ cache' \in [Gateways -> [Traces -> EntryType \cup {None}]]
          /\ lastPut' \in [Gateways -> [Traces -> PutType \cup {None}]]
        BY <2>1, <2>2, <2>3, <1>f, <1>g DEF EntryType, PutType, AckType
    <2>5. CacheMatchesPut'
        <3> DEFINE e == [status |-> a.status, exp |-> now + TTL]
                   q == [status |-> a.status, at |-> now]
        <3>1. e \in EntryType /\ q \in PutType /\ a.trace \in Traces
            BY <2>1, <2>2 DEF EntryType, PutType, AckType
        <3>2. e # None /\ q # None
            BY <3>1, NoneAssumption
        <3>3. SUFFICES ASSUME NEW h \in Gateways, NEW u \in Traces, cache'[h][u] # None
                       PROVE  /\ lastPut'[h][u] # None
                              /\ cache'[h][u].status = lastPut'[h][u].status
                              /\ cache'[h][u].exp = lastPut'[h][u].at + TTL
            BY DEF CacheMatchesPut
        <3>4. CASE h = g /\ u = a.trace
            BY <3>4, <3>1, <3>2, <2>3, <1>f, <1>g
        <3>5. CASE ~(h = g /\ u = a.trace)
            <4>1. cache'[h][u] = cache[h][u] /\ lastPut'[h][u] = lastPut[h][u]
                BY <3>5, <3>1, <2>3, <1>f, <1>g
            <4>2. QED
                BY <3>3, <4>1, <1>j DEF CacheMatchesPut
        <3>6. QED
            BY <3>4, <3>5
    <2>6. OffsetsOK'
        <3>1. pos[g] \in Nat /\ pos[g] <= Len(acks[g])
            BY <1>3, <1>e DEF ConsumeAck
        <3>2. /\ pos' = [pos EXCEPT ![g] = pos[g] + 1]
              /\ marked' = [marked EXCEPT ![g] = pos[g] + 1]
              /\ committed' = committed /\ acks' = acks
            BY <1>3 DEF ConsumeAck
        <3>3. /\ pos' \in [Gateways -> Nat \ {0}]
              /\ marked' \in [Gateways -> Nat \ {0}]
              /\ committed' \in [Gateways -> Nat \ {0}]
            BY <3>1, <3>2, <1>e
        <3>4. \A h \in Gateways : /\ committed'[h] <= marked'[h]
                                 /\ marked'[h] <= pos'[h]
                                 /\ pos'[h] <= Len(acks'[h]) + 1
            BY <3>1, <3>2, <1>e, <1>d
        <3>5. QED
            BY <3>3, <3>4
    <2>7. QED
        BY <1>3, <2>4, <2>5, <2>6, <1>a, <1>b, <1>c, <1>d, <1>h, <1>i, <1>j, <1>k
        DEF ConsumeAck, PollsTyped, PartsSet
<1>4. ASSUME NEW g \in Gateways, AckAutoCommit(g) PROVE IInv'
    <2>1. OffsetsOK'
        BY <1>4, <1>l DEF AckAutoCommit
    <2>2. QED
        BY <1>4, <2>1, <1>a, <1>b, <1>c, <1>d, <1>f, <1>g, <1>h, <1>i, <1>j, <1>k
        DEF AckAutoCommit, CacheMatchesPut, PollsTyped, PartsSet
<1>5. ASSUME NEW g \in Gateways, Sweep(g) PROVE IInv'
    <2>1. cache' = [cache EXCEPT ![g] =
                      [t \in Traces |-> IF cache[g][t] # None /\ Expired(cache[g][t])
                                        THEN None ELSE cache[g][t]]]
        BY <1>5 DEF Sweep
    <2>2. cache' \in [Gateways -> [Traces -> EntryType \cup {None}]]
        BY <2>1, <1>f
    <2>3. \A h \in Gateways, t \in Traces : cache'[h][t] # None => cache'[h][t] = cache[h][t]
        BY <2>1, <1>f
    <2>4. CacheMatchesPut'
        BY <1>5, <2>3, <1>j DEF Sweep, CacheMatchesPut
    <2>5. QED
        BY <1>5, <2>2, <2>4, <1>a, <1>b, <1>c, <1>d, <1>l, <1>g, <1>h, <1>i, <1>j, <1>k
        DEF Sweep, groupVars, PollsTyped, PartsSet
<1>6. ASSUME NEW g \in Gateways, GatewayCrash(g) PROVE IInv'
    <2>1. cache' = [cache EXCEPT ![g] = [t \in Traces |-> None]]
        BY <1>6 DEF GatewayCrash
    <2>2. cache' \in [Gateways -> [Traces -> EntryType \cup {None}]] /\ CacheMatchesPut'
        BY <2>1, <1>6, <1>f, <1>j DEF GatewayCrash, CacheMatchesPut
    <2>3. OffsetsOK'
        <3>1. /\ pos' = [pos EXCEPT ![g] = committed[g]]
              /\ marked' = [marked EXCEPT ![g] = committed[g]]
              /\ committed' = committed /\ acks' = acks
            BY <1>6 DEF GatewayCrash
        <3>2. /\ pos' \in [Gateways -> Nat \ {0}]
              /\ marked' \in [Gateways -> Nat \ {0}]
              /\ committed' \in [Gateways -> Nat \ {0}]
            BY <3>1, <1>e
        <3>3. \A h \in Gateways : /\ committed'[h] <= marked'[h]
                                 /\ marked'[h] <= pos'[h]
                                 /\ pos'[h] <= Len(acks'[h]) + 1
            BY <3>1, <1>e, <1>d
        <3>4. QED
            BY <3>2, <3>3
    <2>4. poll' \in [Clients -> PollType] /\ PollsTyped'
        <3>1. IdlePoll \in PollType
            BY DEF IdlePoll, PollType
        <3>2. QED
            BY <1>6, <3>1, <1>h, <1>j DEF GatewayCrash, PollsTyped, IdlePoll
    <2>5. faults' \in 0 .. MaxFaults
        BY <1>6, <1>i DEF GatewayCrash
    <2>6. QED
        BY <1>6, <2>2, <2>3, <2>4, <2>5, <1>a, <1>b, <1>c, <1>d, <1>g, <1>j, <1>k
        DEF GatewayCrash, PartsSet
<1>7. ASSUME NEW c \in Clients, NEW g \in Gateways, NEW t \in Traces,
             PollStart(c, g, t)
      PROVE IInv'
    <2>1. poll' \in [Clients -> PollType] /\ PollsTyped'
        BY <1>7, <1>a, <1>h, <1>j DEF PollStart, PollType, PollsTyped, Times
    <2>2. QED
        BY <1>7, <2>1, <1>a, <1>b, <1>c, <1>d, <1>l, <1>f, <1>g, <1>i, <1>j, <1>k
        DEF PollStart, groupVars, CacheMatchesPut, PartsSet
<1>8. ASSUME NEW c \in Clients, PollFound(c) PROVE IInv'
    <2>1. poll[c].gw \in Gateways /\ poll[c].trace \in Traces
        BY <1>8, <1>j DEF PollFound, PollsTyped
    <2>2. cache[poll[c].gw][poll[c].trace] \in EntryType
        BY <1>8, <2>1, <1>f DEF PollFound, GetAck
    <2>3. poll' = [poll EXCEPT ![c] = [poll[c] EXCEPT !.state = "idle", !.code = "200",
                      !.status = cache[poll[c].gw][poll[c].trace].status]]
        BY <1>8 DEF PollFound
    <2>4. poll'[c] \in PollType
        BY <2>2, <2>3, <1>h DEF PollType, EntryType
    <2>5. poll' \in [Clients -> PollType] /\ PollsTyped'
        BY <2>3, <2>4, <1>h, <1>j DEF PollsTyped
    <2>6. QED
        BY <1>8, <2>5, <1>a, <1>b, <1>c, <1>d, <1>l, <1>f, <1>g, <1>i, <1>j, <1>k
        DEF PollFound, groupVars, CacheMatchesPut, PartsSet
<1>9. ASSUME NEW c \in Clients, PollGiveUp(c) PROVE IInv'
    <2>a. poll' = [poll EXCEPT ![c] = [poll[c] EXCEPT !.state = "idle", !.code = "204",
                                          !.status = None]]
        BY <1>9 DEF PollGiveUp
    <2>b. poll'[c] \in PollType
        BY <2>a, <1>h DEF PollType
    <2>1. poll' \in [Clients -> PollType] /\ PollsTyped'
        BY <2>a, <2>b, <1>h, <1>j DEF PollsTyped
    <2>2. QED
        BY <1>9, <2>1, <1>a, <1>b, <1>c, <1>d, <1>l, <1>f, <1>g, <1>i, <1>j, <1>k
        DEF PollGiveUp, groupVars, CacheMatchesPut, PartsSet
<1>10. CASE Tick
    <2>1. now' \in Times
        BY <1>10, <1>a DEF Tick, Times
    <2>2. QED
        BY <1>10, <2>1, <1>b, <1>c, <1>d, <1>l, <1>f, <1>g, <1>h, <1>i, <1>j, <1>k
        DEF Tick, groupVars, CacheMatchesPut, PollsTyped, PartsSet
<1>11. CASE UNCHANGED vars
    BY <1>11 DEF vars, IInv, TypeOK, groupVars, CacheMatchesPut, PollsTyped, PartsSet
<1>12. QED
    BY <1>1, <1>2, <1>3, <1>4, <1>5, <1>6, <1>7, <1>8, <1>9, <1>10, <1>11
    DEF Next

(* Replicas, ack consumers, sweepers, polls and restarts keep every       *)
(* variable in its type: offsets stay ordered committed <= marked <= pos   *)
(* <= Len + 1 and every cache entry expires within the clock's horizon    *)
(* plus the TTL.                                                          *)
THEOREM GatewayTypeCorrect == Spec => []TypeOK
<1>1. Init => IInv
    BY InitIInv
<1>2. IInv /\ [Next]_vars => IInv'
    BY NextIInv
<1>3. IInv => TypeOK
    BY DEF IInv
<1>4. QED
    BY <1>1, <1>2, <1>3, PTL DEF Spec

-----------------------------------------------------------------------------
\* Only PollFound answers 200, and it reports the cached entry.
LEMMA NextLatestLiveAnswer == IInv /\ [Next]_vars => LatestLiveAnswer
<1> SUFFICES ASSUME IInv, [Next]_vars, NEW c \in Clients, Answered(c, "200")
             PROVE  LET p == lastPut[poll[c].gw][poll[c].trace] IN
                       /\ p # None
                       /\ p.status = poll'[c].status
                       /\ now <= p.at + TTL
    BY DEF LatestLiveAnswer
<1>a. poll[c].state = "waiting" /\ poll'[c].state = "idle" /\ poll'[c].code = "200"
    BY DEF Answered
<1>b. poll \in [Clients -> PollType]
    BY DEF IInv, TypeOK
<1>1. CASE \E c2 \in Clients : PollFound(c2)
    <2>1. PICK c2 \in Clients : PollFound(c2)
        BY <1>1
    <2>2. c2 = c
        BY <2>1, <1>a, <1>b DEF PollFound
    <2> DEFINE g == poll[c].gw
               t == poll[c].trace
    <2>3. g \in Gateways /\ t \in Traces
        BY <1>a DEF IInv, PollsTyped
    <2>4. /\ cache[g][t] # None
          /\ ~(now > cache[g][t].exp)
          /\ poll'[c].status = cache[g][t].status
        BY <2>1, <2>2, <1>b DEF PollFound, GetAck, Expired
    <2>5. /\ lastPut[g][t] # None
          /\ cache[g][t].status = lastPut[g][t].status
          /\ cache[g][t].exp = lastPut[g][t].at + TTL
        BY <2>3, <2>4 DEF IInv, CacheMatchesPut
    <2>6. /\ now \in Nat
          /\ lastPut[g][t] \in PutType
        BY <2>3, <2>5 DEF IInv, TypeOK, Times
    <2>7. QED
        BY <2>4, <2>5, <2>6 DEF PutType, Times
<1>2. CASE \E c2 \in Clients : PollGiveUp(c2)
    <2>1. PICK c2 \in Clients : PollGiveUp(c2)
        BY <1>2
    <2>2. QED
        BY <2>1, <1>a, <1>b DEF PollGiveUp
<1>3. CASE \E g \in Gateways : GatewayCrash(g)
    BY <1>3, <1>a, <1>b DEF GatewayCrash, IdlePoll
<1>4. CASE \E c2 \in Clients, g \in Gateways, t \in Traces : PollStart(c2, g, t)
    BY <1>4, <1>a, <1>b DEF PollStart
<1>5. CASE UNCHANGED poll
    BY <1>5, <1>a
<1>6. QED
    <2>1. \/ \E c2 \in Clients : PollFound(c2)
          \/ \E c2 \in Clients : PollGiveUp(c2)
          \/ \E g \in Gateways : GatewayCrash(g)
          \/ \E c2 \in Clients, g \in Gateways, t \in Traces : PollStart(c2, g, t)
          \/ UNCHANGED poll
        BY DEF Next, vars, Submit, WorkerAck, ConsumeAck, AckAutoCommit, Sweep, Tick
    <2>2. QED
        BY <2>1, <1>1, <1>2, <1>3, <1>4, <1>5

(* A 200 from the long poll reports the status of the last ack the       *)
(* polled replica put for the trace, put at most TTL ticks before: the    *)
(* sweeper, getAck's expiry test and restarts never let a poll report an  *)
(* overwritten or an expired result.                                       *)
THEOREM AnswerIsLatestLiveAckHolds == Spec => AnswerIsLatestLiveAck
<1>1. Spec => []IInv
    <2>1. Init => IInv
        BY InitIInv
    <2>2. IInv /\ [Next]_vars => IInv'
        BY NextIInv
    <2>3. QED
        BY <2>1, <2>2, PTL DEF Spec
<1>2. IInv /\ [Next]_vars => [LatestLiveAnswer]_vars
    BY NextLatestLiveAnswer
<1>3. QED
    BY <1>1, <1>2, PTL DEF Spec, AnswerIsLatestLiveAck, LatestLiveAnswer
=============================================================================
