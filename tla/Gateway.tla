------------------------------ MODULE Gateway ------------------------------
(***************************************************************************)
(* The API gateway of rest-go-webservice (pkg/kafka/kafka.go, the third   *)
(* file of it).  enqueueCommand produces a command under a fresh uuid     *)
(* trace id and answers 202 or 503.  A background "api-acks" consumer     *)
(* puts every ack of the acks topic into the in-memory result cache with  *)
(* an expiry (putAck), a sweeper drops expired entries, and               *)
(* GET /v1/operations/{trace} long-polls the cache (getAck) until a       *)
(* 15-second deadline.                                                     *)
(*                                                                         *)
(* Every replica (Gateways) runs the same program.  The acks topic has    *)
(* one partition per replica and the range strategy gives each replica's  *)
(* ack consumer one of them.  An ack goes to the partition of the key of  *)
(* its command, which is a fresh uuid, so the partition is an arbitrary   *)
(* choice made once, at enqueue.  The message workers are the             *)
(* environment: they ack a command of the commands topic zero or more     *)
(* times (StepProcessor shows why).  Time is a clock of ticks, and the     *)
(* TTL and the poll budget are counted in ticks.                           *)
(***************************************************************************)
EXTENDS Naturals, Sequences, FiniteSets

CONSTANTS
    Gateways,     \* API replicas, each owning one partition of the acks topic
    Traces,       \* the uuids enqueueCommand draws as trace ids
    Clients,      \* HTTP clients of GET /v1/operations/{trace}
    None,         \* absent cache entry, unset field
    TTL,          \* cacheTTL, in ticks
    PollTimeout,  \* the long-poll budget of operationResultHandler, in ticks
    MaxTime,      \* last tick of a behaviour
    MaxAcks,      \* bound on the acks the workers produce
    MaxFaults     \* bound on failed sends and replica crashes

ASSUME TimeAssumption == {TTL, PollTimeout, MaxTime} \subseteq Nat
ASSUME BoundsAssumption == {MaxAcks, MaxFaults} \subseteq Nat

Statuses == {"SUCCESS", "FAILURE"}
Times == 0 .. MaxTime
\* The ack fields the gateway reads: the trace id it keys the cache by and
\* the status a poll reports.
AckType == [trace : Traces, status : Statuses]
\* resultCache[id] and resultExpires[id], written together under cacheMu.
EntryType == [status : Statuses, exp : 0 .. MaxTime + TTL]
PutType == [status : Statuses, at : Times]
PollType == [state : {"idle", "waiting"}, gw : Gateways \cup {None},
             trace : Traces \cup {None}, deadline : Nat,
             code : {"none", "200", "204"}, status : Statuses \cup {None}]

ASSUME NoneAssumption ==
    None \notin Gateways \cup Traces \cup Statuses \cup EntryType \cup PutType

VARIABLES
    now,        \* the clock
    reply,      \* trace -> answer of the enqueue that drew it
    cmdTopic,   \* traces whose command is on the commands topic
    ackPart,    \* trace -> replica owning the acks partition of its key
    acks,       \* replica -> its partition of the acks topic
    pos,        \* replica -> next offset its ack consumer reads
    marked,     \* replica -> offset after the last marked ack
    committed,  \* replica -> committed offset of its partition
    cache,      \* replica -> trace -> cache entry or None
    lastPut,    \* history: replica -> trace -> last putAck (status, time)
    poll,       \* client -> its long poll
    faults      \* faults so far

groupVars == <<pos, marked, committed>>
vars == <<now, reply, cmdTopic, ackPart, acks, groupVars, cache, lastPut,
          poll, faults>>

IdlePoll == [state |-> "idle", gw |-> None, trace |-> None, deadline |-> 0,
             code |-> "none", status |-> None]

Init ==
    /\ now = 0
    /\ reply = [t \in Traces |-> "none"]
    /\ cmdTopic = {}
    /\ ackPart = [t \in Traces |-> None]
    /\ acks = [g \in Gateways |-> << >>]
    \* Offsets.Initial = OffsetOldest: with no committed offset the consumer
    \* starts at the first ack.
    /\ pos = [g \in Gateways |-> 1]
    /\ marked = [g \in Gateways |-> 1]
    /\ committed = [g \in Gateways |-> 1]
    /\ cache = [g \in Gateways |-> [t \in Traces |-> None]]
    /\ lastPut = [g \in Gateways |-> [t \in Traces |-> None]]
    /\ poll = [c \in Clients |-> IdlePoll]
    /\ faults = 0

\* time.Now().After(exp)
Expired(e) == now > e.exp

\* Mutant: getAck without its expiry test.
GetAckNoExpiry(g, t) == cache[g][t] # None

\* getAck(id): a cached, unexpired entry.
GetAck(g, t) == cache[g][t] # None /\ ~Expired(cache[g][t])

\* The outcomes of p.SendMessage: written, not written, or an error
\* returned for a command the broker did append (a timed-out produce).
SendResults == {"ok"} \cup {r \in {"failed", "unknown"} : faults < MaxFaults}

\* enqueueCommand under a fresh trace id t, with the key's partition g.
Submit(t, g) ==
    /\ reply[t] = "none"
    /\ \E r \in SendResults :
          /\ reply' = [reply EXCEPT ![t] = IF r = "ok" THEN "202" ELSE "503"]
          /\ cmdTopic' = IF r = "failed" THEN cmdTopic ELSE cmdTopic \cup {t}
          /\ faults' = IF r = "ok" THEN faults ELSE faults + 1
    /\ ackPart' = [ackPart EXCEPT ![t] = g]
    /\ UNCHANGED <<now, acks, groupVars, cache, lastPut, poll>>

AckCount == Cardinality(UNION {{<<g, i>> : i \in DOMAIN acks[g]} : g \in Gateways})

\* A worker's ack produce for a command of the commands topic, keyed by the
\* command's key and so sent to that key's partition.
WorkerAck(t, s) ==
    /\ t \in cmdTopic
    /\ AckCount < MaxAcks
    /\ acks' = [acks EXCEPT ![ackPart[t]] = Append(@, [trace |-> t, status |-> s])]
    /\ UNCHANGED <<now, reply, cmdTopic, ackPart, groupVars, cache, lastPut,
                   poll, faults>>

\* putAck(a): the entry and its expiry, under cacheMu; lastPut records it.
PutAck(g, a) ==
    /\ cache' = [cache EXCEPT ![g][a.trace] = [status |-> a.status, exp |-> now + TTL]]
    /\ lastPut' = [lastPut EXCEPT ![g][a.trace] = [status |-> a.status, at |-> now]]

\* Mutant: an off-by-one that never reads the partition's last ack.
ConsumeAckSkipLast(g) ==
    /\ pos[g] < Len(acks[g])
    /\ PutAck(g, acks[g][pos[g]])
    /\ marked' = [marked EXCEPT ![g] = pos[g] + 1]
    /\ pos' = [pos EXCEPT ![g] = pos[g] + 1]
    /\ UNCHANGED <<now, reply, cmdTopic, ackPart, acks, committed, poll, faults>>

\* One iteration of ackHandler.ConsumeClaim: putAck, then MarkMessage.
ConsumeAck(g) ==
    /\ pos[g] <= Len(acks[g])
    /\ PutAck(g, acks[g][pos[g]])
    /\ marked' = [marked EXCEPT ![g] = pos[g] + 1]
    /\ pos' = [pos EXCEPT ![g] = pos[g] + 1]
    /\ UNCHANGED <<now, reply, cmdTopic, ackPart, acks, committed, poll, faults>>

\* sarama's auto-commit of the marked offset.
AckAutoCommit(g) ==
    /\ committed[g] # marked[g]
    /\ committed' = [committed EXCEPT ![g] = marked[g]]
    /\ UNCHANGED <<now, reply, cmdTopic, ackPart, acks, pos, marked, cache,
                   lastPut, poll, faults>>

\* One pass of sweeper: delete every expired entry.
Sweep(g) ==
    /\ \E t \in Traces : cache[g][t] # None /\ Expired(cache[g][t])
    /\ cache' = [cache EXCEPT ![g] =
                    [t \in Traces |-> IF cache[g][t] # None /\ Expired(cache[g][t])
                                      THEN None ELSE cache[g][t]]]
    /\ UNCHANGED <<now, reply, cmdTopic, ackPart, acks, groupVars, lastPut,
                   poll, faults>>

\* Mutant: the handler waits on r.Context() with no 15-second timeout.
PollStartNoDeadline(c, g, t) ==
    /\ poll[c].state = "idle"
    /\ reply[t] = "202"
    /\ now + PollTimeout <= MaxTime
    /\ poll' = [poll EXCEPT ![c] = [state |-> "waiting", gw |-> g, trace |-> t,
                                    deadline |-> MaxTime + 1,
                                    code |-> "none", status |-> None]]
    /\ UNCHANGED <<now, reply, cmdTopic, ackPart, acks, groupVars, cache,
                   lastPut, faults>>

\* operationResultHandler: a client that got 202 for t polls replica g.
PollStart(c, g, t) ==
    /\ poll[c].state = "idle"
    /\ reply[t] = "202"
    /\ now + PollTimeout <= MaxTime
    /\ poll' = [poll EXCEPT ![c] = [state |-> "waiting", gw |-> g, trace |-> t,
                                    deadline |-> now + PollTimeout,
                                    code |-> "none", status |-> None]]
    /\ UNCHANGED <<now, reply, cmdTopic, ackPart, acks, groupVars, cache,
                   lastPut, faults>>

\* A check of the poll loop that finds the ack: 200 with the ack.
PollFound(c) ==
    /\ poll[c].state = "waiting"
    /\ GetAck(poll[c].gw, poll[c].trace)
    /\ poll' = [poll EXCEPT ![c].state = "idle", ![c].code = "200",
                    ![c].status = cache[poll[c].gw][poll[c].trace].status]
    /\ UNCHANGED <<now, reply, cmdTopic, ackPart, acks, groupVars, cache,
                   lastPut, faults>>

\* A check that finds nothing after ctx.Done(): 204.
PollGiveUp(c) ==
    /\ poll[c].state = "waiting"
    /\ ~GetAck(poll[c].gw, poll[c].trace)
    /\ now >= poll[c].deadline
    /\ poll' = [poll EXCEPT ![c].state = "idle", ![c].code = "204",
                    ![c].status = None]
    /\ UNCHANGED <<now, reply, cmdTopic, ackPart, acks, groupVars, cache,
                   lastPut, faults>>

\* Nothing is due within a tick.  The poll loop checks getAck at once and
\* every 200 ms, and the ack consumer reads an ack within milliseconds, while
\* a tick stands for seconds (the TTL is 2 minutes, the poll budget 15 s):
\* time only moves on once no waiting poll can find its ack and every
\* replica's consumer has read its partition.
Settled ==
    /\ \A c \in Clients :
          poll[c].state = "waiting" => ~GetAck(poll[c].gw, poll[c].trace)
    /\ \A g \in Gateways : pos[g] = Len(acks[g]) + 1

Tick ==
    /\ now < MaxTime
    /\ Settled
    /\ now' = now + 1
    /\ UNCHANGED <<reply, cmdTopic, ackPart, acks, groupVars, cache, lastPut,
                   poll, faults>>

\* Mutant: the restart rewinds the read position but keeps the old mark.
GatewayCrashKeepMark(g) ==
    /\ faults < MaxFaults
    /\ cache' = [cache EXCEPT ![g] = [t \in Traces |-> None]]
    /\ pos' = [pos EXCEPT ![g] = committed[g]]
    /\ poll' = [c \in Clients |-> IF poll[c].state = "waiting" /\ poll[c].gw = g
                                  THEN IdlePoll ELSE poll[c]]
    /\ faults' = faults + 1
    /\ UNCHANGED <<now, reply, cmdTopic, ackPart, acks, marked, committed, lastPut>>

\* A replica's process dies and main starts again: the cache maps are new
\* and empty, the ack consumer rejoins "api-acks" at the committed offset,
\* and the open long polls lose their connection.
GatewayCrash(g) ==
    /\ faults < MaxFaults
    /\ cache' = [cache EXCEPT ![g] = [t \in Traces |-> None]]
    /\ pos' = [pos EXCEPT ![g] = committed[g]]
    /\ marked' = [marked EXCEPT ![g] = committed[g]]
    /\ poll' = [c \in Clients |-> IF poll[c].state = "waiting" /\ poll[c].gw = g
                                  THEN IdlePoll ELSE poll[c]]
    /\ faults' = faults + 1
    /\ UNCHANGED <<now, reply, cmdTopic, ackPart, acks, committed, lastPut>>

Next ==
    \/ \E t \in Traces, g \in Gateways : Submit(t, g)
    \/ \E t \in Traces, s \in Statuses : WorkerAck(t, s)
    \/ \E g \in Gateways : ConsumeAck(g) \/ AckAutoCommit(g) \/ Sweep(g)
                           \/ GatewayCrash(g)
    \/ \E c \in Clients, g \in Gateways, t \in Traces : PollStart(c, g, t)
    \/ \E c \in Clients : PollFound(c) \/ PollGiveUp(c)
    \/ Tick

\* The clock runs, each replica's ack consumer and auto-commit ticker keep
\* going, and a waiting poll loop checks the cache every 200 ms.  Clients,
\* workers, the sweeper and faults get no fairness.
Fairness ==
    /\ WF_vars(Tick)
    /\ \A g \in Gateways : WF_vars(ConsumeAck(g)) /\ WF_vars(AckAutoCommit(g))
    /\ \A c \in Clients : WF_vars(PollFound(c) \/ PollGiveUp(c))

Spec == Init /\ [][Next]_vars /\ Fairness
-----------------------------------------------------------------------------
TypeOK ==
    /\ now \in Times
    /\ reply \in [Traces -> {"none", "202", "503"}]
    /\ cmdTopic \subseteq Traces
    /\ ackPart \in [Traces -> Gateways \cup {None}]
    /\ acks \in [Gateways -> Seq(AckType)]
    /\ \A g \in Gateways : /\ committed[g] <= marked[g]
                            /\ marked[g] <= pos[g]
                            /\ pos[g] <= Len(acks[g]) + 1
    /\ {pos, marked, committed} \subseteq [Gateways -> Nat \ {0}]
    /\ cache \in [Gateways -> [Traces -> EntryType \cup {None}]]
    /\ lastPut \in [Gateways -> [Traces -> PutType \cup {None}]]
    /\ poll \in [Clients -> PollType]
    /\ faults \in 0 .. MaxFaults

\* Client c's poll ends in this step with the given HTTP code.
Answered(c, code) ==
    /\ poll[c].state = "waiting"
    /\ poll'[c].state = "idle"
    /\ poll'[c].code = code

(* A 200 from operationResultHandler reports the status of the last ack  *)
(* the polled replica's ack consumer put for that trace, and that put is *)
(* at most TTL ticks old: putAck, getAck's expiry test, the sweeper and a *)
(* replica restart that re-reads acks from the committed offset never    *)
(* make a poll report an overwritten or an expired ack.                   *)
AnswerIsLatestLiveAck ==
    [][\A c \in Clients :
          Answered(c, "200") =>
             LET p == lastPut[poll[c].gw][poll[c].trace] IN
                /\ p # None
                /\ p.status = poll'[c].status
                /\ now <= p.at + TTL]_vars

(* Every long poll ends, with 200 or 204 or a reset connection: the       *)
(* handler's context deadline bounds the wait (spec section 5: no task    *)
(* blocks indefinitely without a timeout).                                 *)
PollTerminates ==
    \A c \in Clients : poll[c].state = "waiting" ~> poll[c].state = "idle"

(* Every ack the workers produce is eventually read by the ack consumer   *)
(* that owns its partition, also after a replica restart rewinds it to    *)
(* the committed offset.                                                   *)
AckConsumed == <>[](\A g \in Gateways : pos[g] = Len(acks[g]) + 1)

(* Result cache contract (spec 4.7, 4.8): a poll answers 204, "pending",  *)
(* only for a trace no ack of which has reached a result cache; an ack    *)
(* that arrived and then expired must be answered 410, "expired".          *)
PendingMeansNoAck ==
    [][\A c \in Clients :
          Answered(c, "204") =>
             \A g \in Gateways : lastPut[g][poll[c].trace] = None]_vars
\* The live view of a replica: its cache entries within their TTL.
LiveView ==
    [g \in Gateways |-> [t \in Traces |->
        IF cache[g][t] # None /\ ~Expired(cache[g][t])
        THEN cache[g][t].status ELSE None]]

\* A client's poll without its deadline, which the contract has no clock for.
PollView ==
    [c \in Clients |->
        [state |-> poll[c].state, gw |-> poll[c].gw, trace |-> poll[c].trace,
         code |-> poll[c].code, status |-> poll[c].status]]

\* The refinement mapping onto the result cache contract of ResultCache.
Cache == INSTANCE ResultCache WITH live <- LiveView, poll <- PollView

(* The gateway implements the timeless result cache contract: its live    *)
(* view changes only when the ack consumer reads the next ack of its      *)
(* partition, when entries expire, or when the replica restarts and       *)
(* rewinds; the sweeper changes nothing visible; and a long poll answers  *)
(* 200 with the live entry or 204 when, at that moment, there is none.    *)
CacheSpec == Cache!Spec

=============================================================================
