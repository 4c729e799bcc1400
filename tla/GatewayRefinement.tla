------------------------- MODULE GatewayRefinement -------------------------
(***************************************************************************)
(* Proof that Gateway implements the result cache contract of ResultCache *)
(* under the mapping live <- LiveView, poll <- PollView, for every number *)
(* of replicas, traces and clients and every TTL and poll budget.          *)
(*                                                                         *)
(* Step by step: a worker's ack is Produce to its key's partition, which  *)
(* needs PartsSet; ConsumeAck is Put, because the fresh entry expires at  *)
(* now + TTL >= now; a tick is Expire of the entries it ages out, since   *)
(* an expired entry stays expired; Sweep deletes only expired entries and *)
(* so is invisible; a crash is Restart, rewinding to the committed offset, *)
(* which lies in 1 .. pos; PollFound and PollGiveUp are Found and Pending  *)
(* because getAck is exactly "the live view has an entry"; the other      *)
(* steps leave the mapped state alone.  All rest on GatewayProofs' IInv.  *)
(***************************************************************************)
EXTENDS GatewayProofs

-----------------------------------------------------------------------------
LEMMA InitCache == Init => Cache!Init
<1> SUFFICES ASSUME Init PROVE Cache!Init
    OBVIOUS
<1>1. LiveView = [g \in Gateways |-> [t \in Traces |-> None]]
    BY DEF Init, LiveView
<1>2. PollView = [c \in Clients |-> Cache!NoPoll]
    BY DEF Init, PollView, IdlePoll, Cache!NoPoll
<1>3. QED
    BY <1>1, <1>2 DEF Init, Cache!Init

\* An entry of the live view, read through the cache.
LEMMA LiveViewAt ==
    ASSUME NEW g \in Gateways, NEW t \in Traces
    PROVE  LiveView[g][t] = IF cache[g][t] # None /\ ~Expired(cache[g][t])
                            THEN cache[g][t].status ELSE None
BY DEF LiveView

\* getAck finds an entry exactly when the live view has one.
LEMMA GetAckLive ==
    ASSUME IInv, NEW g \in Gateways, NEW t \in Traces
    PROVE  /\ GetAck(g, t) => LiveView[g][t] = cache[g][t].status
           /\ GetAck(g, t) => LiveView[g][t] # None
           /\ ~GetAck(g, t) => LiveView[g][t] = None
<1>1. cache[g][t] \in EntryType \cup {None}
    BY DEF IInv, TypeOK
<1>2. cache[g][t] # None => cache[g][t].status \in Statuses
    BY <1>1 DEF EntryType
<1>3. QED
    BY <1>2, NoneAssumption DEF LiveView, GetAck

\* A step that keeps the cache, the clock and the polls keeps both views.
LEMMA ViewsUnchanged ==
    ASSUME UNCHANGED <<cache, now, poll>>
    PROVE  UNCHANGED <<LiveView, PollView>>
BY DEF LiveView, PollView, Expired

-----------------------------------------------------------------------------
LEMMA NextCache == IInv /\ [Next]_vars => [Cache!Next]_Cache!vars
<1> SUFFICES ASSUME IInv, [Next]_vars PROVE [Cache!Next]_Cache!vars
    OBVIOUS
<1>t. /\ now \in Times
      /\ cmdTopic \subseteq Traces /\ ackPart \in [Traces -> Gateways \cup {None}]
      /\ acks \in [Gateways -> Seq(AckType)]
      /\ \A g \in Gateways : /\ committed[g] <= marked[g]
                             /\ marked[g] <= pos[g]
                             /\ pos[g] <= Len(acks[g]) + 1
      /\ {pos, marked, committed} \subseteq [Gateways -> Nat \ {0}]
      /\ cache \in [Gateways -> [Traces -> EntryType \cup {None}]]
      /\ poll \in [Clients -> PollType]
    BY DEF IInv, TypeOK
<1>1. ASSUME NEW t \in Traces, NEW g \in Gateways, Submit(t, g)
      PROVE  UNCHANGED Cache!vars
    <2>1. UNCHANGED <<cache, now, poll>>
        BY <1>1 DEF Submit
    <2>2. QED
        BY <1>1, <2>1, ViewsUnchanged DEF Submit, groupVars, Cache!vars
<1>2. ASSUME NEW t \in Traces, NEW s \in Statuses, WorkerAck(t, s)
      PROVE  Cache!Next
    <2>1. ackPart[t] \in Gateways
        BY <1>2, PartsSet DEF WorkerAck, IInv, PartsSet
    <2>2. [trace |-> t, status |-> s] \in Cache!AckType
        BY DEF Cache!AckType
    <2>3. UNCHANGED <<LiveView, PollView>>
        BY <1>2, ViewsUnchanged DEF WorkerAck
    <2>4. ASSUME NEW h \in Gateways, h = ackPart[t],
                 NEW a \in Cache!AckType, a = [trace |-> t, status |-> s]
          PROVE  Cache!Produce(h, a)
        BY <1>2, <2>3, <2>4 DEF WorkerAck, Cache!Produce, groupVars
    <2>5. QED
        BY <2>1, <2>2, <2>4 DEF Cache!Next
<1>3. ASSUME NEW g \in Gateways, ConsumeAck(g) PROVE Cache!Put(g)
    <2> DEFINE a == acks[g][pos[g]]
    <2>1. pos[g] \in 1 .. Len(acks[g])
        BY <1>3, <1>t DEF ConsumeAck
    <2>2. a \in AckType
        BY <2>1, <1>t
    <2>3. cache' = [cache EXCEPT ![g][a.trace] = [status |-> a.status, exp |-> now + TTL]]
        BY <1>3 DEF ConsumeAck, PutAck
    <2>4. now' = now /\ now \in Nat
        BY <1>3, <1>t DEF ConsumeAck, Times
    <2>5. LiveView' = [LiveView EXCEPT ![g][a.trace] = a.status]
        <3>1. a.trace \in Traces /\ a.status \in Statuses
            BY <2>2 DEF AckType
        <3>2. ~(now > now + TTL)
            BY <2>4, TimeAssumption
        <3>3. ASSUME NEW h \in Gateways, NEW u \in Traces
              PROVE  LiveView'[h][u] = IF h = g /\ u = a.trace THEN a.status
                                       ELSE LiveView[h][u]
            <4>1. CASE h = g /\ u = a.trace
                <5>1. cache'[h][u] = [status |-> a.status, exp |-> now + TTL]
                    BY <4>1, <3>1, <2>3, <1>t
                <5>2. [status |-> a.status, exp |-> now + TTL] \in EntryType
                    BY <3>1, <1>t, TimeAssumption DEF EntryType, Times
                <5>3. QED
                    BY <4>1, <5>1, <5>2, <3>2, <2>4, NoneAssumption DEF LiveView, Expired
            <4>2. CASE ~(h = g /\ u = a.trace)
                <5>1. cache'[h][u] = cache[h][u]
                    BY <4>2, <3>1, <2>3, <1>t
                <5>2. QED
                    BY <4>2, <5>1, <2>4 DEF LiveView, Expired
            <4>3. QED
                BY <4>1, <4>2
        <3>4. LiveView' = [h \in Gateways |-> [u \in Traces |->
                              IF h = g /\ u = a.trace THEN a.status ELSE LiveView[h][u]]]
            BY <3>3 DEF LiveView
        <3>5. [LiveView EXCEPT ![g][a.trace] = a.status]
                 = [h \in Gateways |-> [u \in Traces |->
                       IF h = g /\ u = a.trace THEN a.status ELSE LiveView[h][u]]]
            BY <3>1 DEF LiveView
        <3>6. QED
            BY <3>4, <3>5
    <2>6. QED
        BY <1>3, <2>1, <2>5 DEF ConsumeAck, Cache!Put, PollView
<1>4. ASSUME NEW g \in Gateways, AckAutoCommit(g) PROVE UNCHANGED Cache!vars
    BY <1>4, ViewsUnchanged DEF AckAutoCommit, Cache!vars
<1>5. ASSUME NEW g \in Gateways, Sweep(g) PROVE UNCHANGED Cache!vars
    <2>1. \A h \in Gateways, t \in Traces :
             cache'[h][t] = IF h = g /\ cache[h][t] # None /\ Expired(cache[h][t])
                            THEN None ELSE cache[h][t]
        BY <1>5, <1>t DEF Sweep
    <2>2. LiveView' = LiveView
        BY <1>5, <2>1, <1>t DEF Sweep, LiveView, Expired
    <2>3. QED
        BY <1>5, <2>2 DEF Sweep, Cache!vars, PollView, groupVars
<1>6. ASSUME NEW g \in Gateways, GatewayCrash(g) PROVE Cache!Restart(g)
    <2>1. committed[g] \in 1 .. pos[g]
        BY <1>t
    <2>2. pos' = [pos EXCEPT ![g] = committed[g]]
        BY <1>6 DEF GatewayCrash
    <2>3. LiveView' = [LiveView EXCEPT ![g] = [t \in Traces |-> None]]
        BY <1>6, <1>t DEF GatewayCrash, LiveView, Expired
    <2>4. PollView' = [c \in Clients |->
                          IF PollView[c].state = "waiting" /\ PollView[c].gw = g
                          THEN Cache!NoPoll ELSE PollView[c]]
        BY <1>6, <1>t DEF GatewayCrash, PollView, IdlePoll, Cache!NoPoll
    <2>5. QED
        BY <1>6, <2>1, <2>2, <2>3, <2>4 DEF GatewayCrash, Cache!Restart
<1>7. ASSUME NEW c \in Clients, NEW g \in Gateways, NEW t \in Traces,
             PollStart(c, g, t)
      PROVE  Cache!Start(c, g, t)
    <2>1. PollView' = [PollView EXCEPT ![c] = [state |-> "waiting", gw |-> g,
                          trace |-> t, code |-> "none", status |-> None]]
        BY <1>7, <1>t DEF PollStart, PollView
    <2>2. UNCHANGED LiveView
        BY <1>7 DEF PollStart, LiveView, Expired
    <2>3. QED
        BY <1>7, <2>1, <2>2, <1>t DEF PollStart, Cache!Start, PollView, groupVars
<1>8. ASSUME NEW c \in Clients, PollFound(c) PROVE Cache!Found(c)
    <2> DEFINE g == poll[c].gw
               t == poll[c].trace
    <2>1. poll[c].state = "waiting" /\ g \in Gateways /\ t \in Traces
        BY <1>8 DEF PollFound, IInv, PollsTyped
    <2>2. LiveView[g][t] = cache[g][t].status /\ LiveView[g][t] # None
        BY <1>8, <2>1, GetAckLive DEF PollFound
    <2>3. PollView' = [PollView EXCEPT ![c].state = "idle", ![c].code = "200",
                          ![c].status = LiveView[g][t]]
        <3>1. /\ poll'[c].state = "idle" /\ poll'[c].gw = g /\ poll'[c].trace = t
              /\ poll'[c].code = "200" /\ poll'[c].status = cache[g][t].status
              /\ \A d \in Clients \ {c} : poll'[d] = poll[d]
            BY <1>8, <1>t DEF PollFound, PollType
        <3>2. PollView'[c] = [state |-> "idle", gw |-> g, trace |-> t, code |-> "200",
                              status |-> LiveView[g][t]]
            BY <3>1, <2>2 DEF PollView
        <3>3. \A d \in Clients \ {c} : PollView'[d] = PollView[d]
            BY <3>1 DEF PollView
        <3>4. PollView' = [PollView EXCEPT ![c] = [state |-> "idle", gw |-> g, trace |-> t,
                                                   code |-> "200", status |-> LiveView[g][t]]]
            BY <3>2, <3>3 DEF PollView
        <3>5. PollView[c] = [state |-> "waiting", gw |-> g, trace |-> t,
                             code |-> poll[c].code, status |-> poll[c].status]
            BY <2>1 DEF PollView
        <3>6. QED
            BY <3>4, <3>5, Zenon DEF PollView
    <2>4. UNCHANGED LiveView
        BY <1>8 DEF PollFound, LiveView, Expired
    <2>5. QED
        BY <1>8, <2>1, <2>2, <2>3, <2>4, <1>t DEF PollFound, Cache!Found, PollView, groupVars
<1>9. ASSUME NEW c \in Clients, PollGiveUp(c) PROVE Cache!Pending(c)
    <2> DEFINE g == poll[c].gw
               t == poll[c].trace
    <2>1. poll[c].state = "waiting" /\ g \in Gateways /\ t \in Traces
        BY <1>9 DEF PollGiveUp, IInv, PollsTyped
    <2>2. LiveView[g][t] = None
        BY <1>9, <2>1, GetAckLive DEF PollGiveUp
    <2>3. PollView' = [PollView EXCEPT ![c].state = "idle", ![c].code = "204",
                          ![c].status = None]
        <3>1. /\ poll'[c].state = "idle" /\ poll'[c].gw = g /\ poll'[c].trace = t
              /\ poll'[c].code = "204" /\ poll'[c].status = None
              /\ \A d \in Clients \ {c} : poll'[d] = poll[d]
            BY <1>9, <1>t DEF PollGiveUp, PollType
        <3>2. PollView'[c] = [state |-> "idle", gw |-> g, trace |-> t, code |-> "204",
                              status |-> None]
            BY <3>1, <2>2 DEF PollView
        <3>3. \A d \in Clients \ {c} : PollView'[d] = PollView[d]
            BY <3>1 DEF PollView
        <3>4. PollView' = [PollView EXCEPT ![c] = [state |-> "idle", gw |-> g, trace |-> t,
                                                   code |-> "204", status |-> None]]
            BY <3>2, <3>3 DEF PollView
        <3>5. PollView[c] = [state |-> "waiting", gw |-> g, trace |-> t,
                             code |-> poll[c].code, status |-> poll[c].status]
            BY <2>1 DEF PollView
        <3>6. QED
            BY <3>4, <3>5, Zenon DEF PollView
    <2>4. UNCHANGED LiveView
        BY <1>9 DEF PollGiveUp, LiveView, Expired
    <2>5. QED
        BY <1>9, <2>1, <2>2, <2>3, <2>4, <1>t DEF PollGiveUp, Cache!Pending, PollView, groupVars
<1>10. CASE Tick
    <2> DEFINE E == {x \in Gateways \X Traces : LiveView'[x[1]][x[2]] = None}
    <2>1. now \in Nat /\ now' = now + 1 /\ UNCHANGED cache
        BY <1>10, <1>t DEF Tick, Times
    <2>2. ASSUME NEW g \in Gateways, NEW t \in Traces, LiveView'[g][t] # None
          PROVE  LiveView'[g][t] = LiveView[g][t]
        <3>1. cache[g][t] # None /\ cache[g][t].exp \in Nat /\ ~(now + 1 > cache[g][t].exp)
            BY <2>1, <2>2, <1>t DEF LiveView, Expired, EntryType
        <3>2. ~(now > cache[g][t].exp)
            BY <3>1, <2>1
        <3>3. QED
            BY <3>1, <3>2, <2>1 DEF LiveView, Expired
    <2>3. LiveView' = [g \in Gateways |-> [t \in Traces |->
                          IF <<g, t>> \in E THEN None ELSE LiveView[g][t]]]
        BY <2>2 DEF LiveView
    <2>4. Cache!Expire
        BY <1>10, <2>3 DEF Tick, Cache!Expire, PollView, groupVars
    <2>5. QED
        BY <2>4 DEF Cache!Next
<1>11. CASE UNCHANGED vars
    BY <1>11, ViewsUnchanged DEF vars, groupVars, Cache!vars
<1>12. QED
    BY <1>1, <1>2, <1>3, <1>4, <1>5, <1>6, <1>7, <1>8, <1>9, <1>10, <1>11
    DEF Next, Cache!Next, Cache!vars
-----------------------------------------------------------------------------
(* The gateway implements the timeless result cache contract: every      *)
(* ack produce, putAck, tick, sweep, restart and long-poll answer of any  *)
(* number of replicas is a step of ResultCache or leaves its view alone,  *)
(* so a poll answers 200 only with the status of the replica's live entry *)
(* and 204 only when that replica holds no live entry.                     *)
THEOREM GatewayImplementsResultCache == Spec => CacheSpec
<1>1. Spec => []IInv
    <2>1. Init => IInv
        BY InitIInv
    <2>2. IInv /\ [Next]_vars => IInv'
        BY NextIInv
    <2>3. QED
        BY <2>1, <2>2, PTL DEF Spec
<1>2. Init => Cache!Init
    BY InitCache
<1>3. IInv /\ [Next]_vars => [Cache!Next]_Cache!vars
    BY NextCache
<1>4. QED
    BY <1>1, <1>2, <1>3, PTL DEF Spec, CacheSpec, Cache!Spec
=============================================================================
