# TLA+ models of the golang-interview-questions message pipeline

This directory holds TLA+ models of the message pipeline in this repository. They are
checked with TLC, and the main invariants are proved with TLAPS.

## 1. The system

Most of the repository is interview material. The part with real concurrency is the
**rest-go-webservice** pipeline in
`src/slb-uk/rest-go-webservice/project/pkg/kafka/kafka.go`. That file holds three
programs; the two that matter here are:

- **API gateway** (lines 276-561). HTTP handlers validate a request. `enqueueCommand`
  then produces a command to the `messages.commands` topic: a fresh uuid trace id, a
  fresh uuid Kafka key, status 202 PENDING. A background consumer group, `api-acks`,
  reads the `messages.acks` topic into an in-memory result cache (`putAck`, with a
  2-minute TTL). A sweeper goroutine removes expired entries every 30 s.
  `GET /v1/operations/{trace}` long-polls that cache for 15 s and returns the ack or
  204.
- **Message worker** (lines 47-268). It runs the sarama consumer group
  `message-worker`, one `ConsumeClaim` loop per claimed partition. For each command it:
  1. opens a MySQL transaction (`withTx`);
  2. checks `idempotency_keys` (`checkIdempotent`);
  3. runs the CRUD statement on `messages`;
  4. writes a `saga_log` row;
  5. inserts the idempotency record (`markIdempotent`, `INSERT IGNORE`) on the success
     paths, and commits;
  6. produces an ack keyed by the command's key;
  7. marks the message.

  Sarama's auto-commit later commits the marked offsets.

They interact only through Kafka. The gateway writes commands and reads acks; the worker
does the opposite.

The other Go code is small and independent:
- a retry worker that requeues after a delay (`src/unnamed/part_015`);
- a retry/DLQ processor with attempt headers (`saga-choreo-lab/temp.md`);
- the saga-lab step services and DLQ replayer on kafka-go (`saga-choreo-lab/README.md`);
- the swagger demo's in-memory message store (`go-swagger-demo/main.go`), a package map
  that concurrent gin handlers read and write without a lock;
- gRPC and pprof demos;
- a word counter and gomock examples;
- a data-race demo (`part_007`).

### Inventory

| component | state | operations | hard behaviour |
|---|---|---|---|
| message worker | the `messages`, `idempotency_keys` and `saga_log` tables; committed offset; group owner; per-member claim position, marked offset and in-flight message | fetch, begin + check, skip, apply + commit/rollback, produce ack, mark, auto-commit, join, revoke, expel, crash | zombie members after a session timeout, crash between commit and offset commit, failing statements/commits/produces, MySQL RowsAffected, AUTO_INCREMENT not rolled back |
| gateway enqueue | none (a fresh uuid per request) | create, update, delete, read | key per command, so no per-row ordering across partitions |
| ack consumer + result cache | `resultCache`, `resultExpires` | putAck, getAck, sweep, long poll | TTL race with a late poll; overwrite by trace id; acks split across gateway instances |
| retry worker | consumer offsets | requeue after delay | a skipped mark followed by a later mark loses the message |
| retry/DLQ processor | attempt headers | process, publish next retry, DLQ | first-header parse makes the attempt count stick at 1 |
| saga lab services | kafka-go reader offsets | step, emit, replay | commit on read: at-most-once |

The properties that make the worker correct:
- every command's mutation commits at most once (exactly-once effect);
- no offset is committed past a message that was not handled;
- every message is eventually consumed;
- one outcome per command;
- an ack exists for every committed command;
- NOT_FOUND only for a row that does not exist.

## 2. Modules

| module | models | state ↔ code |
|---|---|---|
| `StepProcessor` | the message worker on one partition of `messages.commands`, with the consumer group around it | see below |
| `MCStepProcessor` | the command sequences TLC runs on | `Cmd` builds a command the way `enqueueCommand` does |
| `StepProcessorProofs` | TLAPS proofs about `StepProcessor` | |
| `Gateway` | the API gateway's enqueue, the `api-acks` consumer, the result cache, the sweeper and the long poll, over several replicas | see below |
| `GatewayProofs` | TLAPS proofs about `Gateway` | |
| `CommandLog` | the worker's promise about one partition, with no group, transactions or faults: transactions end, one effect per key, acks of ended commands, commits over ended commands | abstract; `StepProcessor` maps onto it as `Log` |
| `StepProcessorRefinement` | TLAPS proof that one member implements `CommandLog` | |
| `ResultCache` | the result cache's promise to a long-polling client, without time: a live view per replica that changes by reading the next ack, expiring or restarting; 200 with the live entry, 204 without | abstract; `Gateway` maps onto it as `Cache` |
| `GatewayRefinement` | TLAPS proof that `Gateway` implements `ResultCache` | |
| `MessageStore` | the swagger demo's create/update/delete handlers on the unlocked map | see below |
| `MessageStoreProofs` | TLAPS proofs about `MessageStore` | |

### StepProcessor

**Variables:**

| variable | models |
|---|---|
| `msgs` | the `messages` table (a sequence indexed by the AUTO_INCREMENT id; `NoRow` marks a deleted row or the burnt id of a rolled-back insert) |
| `idem` | `idempotency_keys` |
| `saga` | `saga_log` |
| `ackLog` | the acks topic |
| `committed` | the group's committed offset |
| `owner` | the member the partition is assigned to |
| `pos`, `marked` | each member's claim position and session mark |
| `pc`, `cur`, `processed`, `res` | where a member is in the `ConsumeClaim` loop body, and its locals |
| `handled`, `effects`, `faults` | history and bound variables |

**Actions:**

| action | code |
|---|---|
| `Fetch` | `for msg := range claim.Messages()` (102-104) |
| `TxCheck` | `db.Begin` and `checkIdempotent` (115-123, 250-259); an error gives an INTERNAL ack (209-214) |
| `TxSkip` | the processed-key early return and its commit (124-126) |
| `TxApply` | the switch over Create/Read/Update/Delete (128-204), `markIdempotent` (206), and `Commit` or rollback (243-247) |
| `ProduceAck` | build and send the ack, where an error is only logged (216-226) |
| `Mark` | `sess.MarkMessage` (228) |
| `AutoCommit` | sarama's periodic commit of the marked offset, by the owner only (a stale generation's commit is refused) |
| `Join`, `Revoke`, `Expel`, `Crash` | the group's lifecycle around `consumerGroup.Consume` (85-90) |

Three points about the actions:
- **Inputs:** the DB outcomes `ok`/`commitOk` come from `DbResults` and are charged to
  the fault budget `MaxFaults`.
- **Dispatch:** `Dispatch` returns the result of the transaction body as a record. The
  DB_ERROR and NOT_FOUND paths return before `markIdempotent`, as in the code.
- **Row checks:** `UpdateMessage` uses MySQL's changed-rows count. `ReadMessage`
  reports any `Scan` error as NOT_FOUND.

**Not modelled in the worker:**
- the unmarshal-error `continue` (105-108). No command in the model is malformed.
- the `UNSUPPORTED` default branch (201-203).
- payload contents. The payload is a Boolean: empty or not.
- texts and trace/key strings. They are model values or short strings.

### Gateway

The replicas (`Gateways`) run the same program. The acks topic has one partition per
replica, and the range strategy gives each replica's ack consumer one of them. An ack
goes to the partition of its command's key, a fresh uuid, so `Submit` chooses the
partition once. The message workers are the environment: `WorkerAck` appends an ack for
any command on the commands topic, any number of times (`StepProcessor` shows why a
command can be acked twice, with different statuses). Time is a tick counter `now`;
`TTL` and `PollTimeout` are counted in ticks, and `MaxTime` ends the clock.

| variable | models |
|---|---|
| `reply`, `cmdTopic`, `ackPart` | each trace's enqueue answer, the commands written, the acks partition of each command's key |
| `acks` | each partition of `messages.acks` |
| `pos`, `marked`, `committed` | each replica's claim position, session mark and committed offset |
| `cache` | each replica's `resultCache` with `resultExpires` |
| `lastPut` | history: the last ack each replica put per trace, and when |
| `poll` | each client's open `GET /v1/operations/{trace}` and its answer |

| action | code |
|---|---|
| `Submit` | `enqueueCommand` (456-486); `SendMessage` may write the command and answer 202, not write it (503), or write it and still fail (503, a timed-out produce) |
| `WorkerAck` | the worker's ack produce, keyed by the command's key (216-226) |
| `ConsumeAck` | one iteration of `ackHandler.ConsumeClaim`: `putAck`, then `MarkMessage` (515-524, 333-338) |
| `AckAutoCommit` | sarama's auto-commit of the mark (`startAckConsumer`, 488-499) |
| `Sweep` | one pass of `sweeper` (351-361) |
| `PollStart`, `PollFound`, `PollGiveUp` | `operationResultHandler`'s 15 s context, a `getAck` hit (200), and `ctx.Done()` (204) (435-454) |
| `GatewayCrash` | the process restarts (`main`, 533-561): empty cache, the consumer rejoins at the committed offset, open polls are cut |
| `Tick` | time passing, once nothing is due within a tick (`Settled`): no waiting poll can find its ack and every replica's consumer has read its partition. The handler checks `getAck` at once and every 200 ms (441-450), and the consumer reads within milliseconds, while a tick stands for seconds (TTL 2 min, poll budget 15 s) |

The request validation of `createMessageHandler` and `messageByIDHandler` (373-433) is
left out: its 400 and 405 answers change no state.

### MessageStore

`store` is the package map (`None` for an absent key); `req` is where each client's
handler is between its read and its write; `faults` bounds runtime aborts.

| action | code |
|---|---|
| `CreateBegin`, `CreateEnd` | `createMessage`: bind, `next := len(store) + 1` (106-112); `in.ID = next; store[next] = in` (113-115) |
| `UpdateBegin`, `UpdateEnd` | `updateMessage`: the existence check (130-140); `in.ID = id; store[id] = in` (141-144) |
| `Delete` | `deleteMessage` (156-164) |
| `Abort` | Go's "concurrent map writes" fatal error while a request is open, and a restart with the seed store (19-22) |

Each handler is cut at its read, because only the read and the write touch the map.
The read-only handlers and the 400/404 answers change nothing and are left out.

## 3. Runs

### StepProcessor runs

All runs use `MCStepProcessor` with `Contents = {"a","b"}`. `CHECK_DEADLOCK FALSE` is
set in every run because the partition is finite: when it is fully consumed the
members wait, which is the program's real idle state.

| run | cfg | expect | what it shows |
|---|---|---|---|
| crash | `StepProcessor_crash.cfg` | pass | 1 member, 4 commands (Update before Create, Create, Update, Delete), DB faults on, 3 faults. TypeOK, EffectOnce, CommittedOnlyHandled and AllConsumed hold through crashes, failed statements, commits and produces, and so does CommandLogSpec: the member implements `CommandLog`, its fairness (a commit that is possible is eventually made) included. 311,160 distinct states. |
| rebalance | `StepProcessor_rebalance.cfg` | pass | 2 members, Create/Read/Delete, 2 faults among revoke, expel and crash. TypeOK, CommittedOnlyHandled and AllConsumed hold. 164,611 distinct states. |
| zombie | `StepProcessor_zombie.cfg` | violation | EffectOnce fails with 2 members and 1 Create: w1 is expelled mid-transaction, w2 re-reads the message, and both commit. |
| redelivery | `StepProcessor_redelivery.cfg` | violation | OneOutcomePerCommand fails: an Update answered NOT_FOUND leaves no record; after the Create and a crash it is redelivered and succeeds. |
| acklost | `StepProcessor_acklost.cfg` | violation | AckBeforeCommit fails: a failed ack produce is followed by a mark and a commit. |
| sameupdate | `StepProcessor_sameupdate.cfg` | violation | NotFoundOnlyForAbsent fails: an Update to the current value gets NOT_FOUND. |

Why the bounds are enough:
- **Fault budget:** three faults allow a crash between commit and auto-commit, a failed
  DB call and a lost ack in one behaviour.
- **Commands:** four commands cover an Update arriving before its Create, success, and
  NOT_FOUND. The same-key double apply needs only one command.
- **Members:** two members are enough for every hand-over: revoke, expulsion while
  busy, and crash of a zombie.

Each property of a passing run has a mutant the run catches (PROJECT.json):

| mutant | the bug it plants | property it breaks |
|---|---|---|
| `SucceededNoMark` | the success paths skip `markIdempotent` | EffectOnce, CommandLogSpec |
| `FetchMarks` | mark on receipt | CommittedOnlyHandled |
| `MarkCur` | mark the message itself instead of the next offset | AllConsumed |
| `JoinSkip` | resume one past the committed offset | TypeOK (the claim leaves the partition) |

### Gateway and MessageStore runs

| run | cfg | expect | what it shows |
|---|---|---|---|
| gateway_cache | `Gateway_cache.cfg` | pass | 1 replica, 2 traces, 1 client, TTL 1, poll budget 1, clock 0..3, 3 acks, 1 fault (a failed or timed-out enqueue, or a restart). TypeOK, AnswerIsLatestLiveAck, PollTerminates and AckConsumed hold, and so does CacheSpec: the gateway implements `ResultCache`. 695,200 distinct states. |
| gateway_expired | `Gateway_expired.cfg` | violation | PendingMeansNoAck fails in 9 states: the ack is consumed at time 0, expires, the client starts its poll at time 2, after the expiry, and gets 204 where the spec says 410. |
| gateway_restart | `Gateway_restart.cfg` | violation | PendingMeansNoAck fails in 9 states: the ack is consumed and its offset auto-committed, the replica restarts at the committed offset, past the ack, and the poll gets 204 though the ack will never be read again. Without the commit the consumer re-reads the ack before time moves on, and the poll gets 200. |
| store_race | `MessageStore_race.cfg` | pass | 2 clients, ids 1..4, 1 abort. TypeOK holds. 721,882 distinct states. |
| store_idreuse | `MessageStore_idreuse.cfg` | violation | CreateNeverOverwrites fails: delete 1, then create takes id `len(store)+1 = 2` and overwrites "namaste". |
| store_updaterace | `MessageStore_updaterace.cfg` | violation | UpdateNeverResurrects fails: an update checks id 1, a delete removes it, and the update writes it back. |

Why the bounds are enough:
- **Gateway:** TTL 1 with a clock of 3 ticks lets an ack be put, expire, be swept and be
  put again by a second ack for the same trace. Three acks for two traces let one
  trace be acked twice, an overwrite. One fault allows a restart after a commit.
  The clock stops at `MaxTime`, so `CHECK_DEADLOCK FALSE`.
- **MessageStore:** ids 1..4 with the seed at 1 and 2 leave room for two creates after a
  delete. Two clients give every interleaving of two read-then-write handlers. The store
  may be idle with no id left, so `CHECK_DEADLOCK FALSE`.

| mutant | the bug it plants | property it breaks |
|---|---|---|
| `GetAckNoExpiry` | `getAck` without the expiry test | AnswerIsLatestLiveAck, CacheSpec |
| `PollStartNoDeadline` | the long poll without its 15 s context | PollTerminates |
| `ConsumeAckSkipLast` | the consumer never reads a partition's last ack | AckConsumed |
| `GatewayCrashKeepMark` | a restart that keeps the old session mark | TypeOK (mark past the position) |
| `CreateBeginLen` | `next := len(store)` | TypeOK (id 0 in flight) |

### Fairness

- **Step:** weak fairness on each member's `Step`. A member's loop never blocks except
  on `claim.Messages()`, and sarama's auto-commit ticker keeps firing.
- **Join:** weak fairness on `Join`. The group coordinator assigns a free partition to a
  live member, and `main` calls `Consume` again in a loop.
- **Faults:** crash, expel, revoke and DB or produce failures get no fairness. They are
  bounded by `MaxFaults`.
- **Gateway:** weak fairness on `Tick` (time passes), on each replica's `ConsumeAck` and
  `AckAutoCommit` (the consumer goroutine loops on `Consume` forever, and the commit
  ticker keeps firing), and on each client's `PollFound \/ PollGiveUp` (the loop checks
  the cache every 200 ms). Clients, workers, the sweeper and restarts get none.
  `Tick` is also guarded by `Settled`: a poll never waits a tick blind to a live ack,
  and a consumer never lags a tick behind its partition.
- **MessageStore:** no fairness; only safety is checked.

## 4. Findings

1. **Zombie double effect** (`kafka.go:120`). The idempotency check is a plain SELECT,
   and the record is inserted at the end of the same transaction. Two members of the
   group, one of them expelled by the session timeout, can both apply a command.
2. **Failure outcomes are not recorded** (`kafka.go:136,153,169,175,189,195`).
   Redelivery re-executes the command, and an outcome can flip from FAILURE to SUCCESS.
   The spec (4.4) re-emits the recorded outcome instead.
3. **Lost ack** (`kafka.go:224-228`). A produce error is only logged before
   MarkMessage.
4. **RowsAffected** (`kafka.go:171`). An Update to the same value is reported as
   NOT_FOUND.
5. **Expired answered as pending** (`kafka.go:345`). `getAck` treats an expired entry
   like a missing one, so the poll answers 204 where the spec (section on the HTTP API)
   says 410.
6. **Acks lost on restart** (`kafka.go:327`). The cache is in memory, while the
   `api-acks` offsets are committed to Kafka; after a restart the consumed acks are
   never read again.
7. **Id reuse** (`go-swagger-demo/main.go:112`). `len(store) + 1` is an id in use after
   a delete, and the create overwrites that message.
8. **Update resurrects a deleted message** (`go-swagger-demo/main.go:143`). The update's
   check and write are not atomic with a delete.

## 5. Proofs, checked by `tlapm`

### `StepProcessorProofs`

The constants are assumed to satisfy the ASSUMEs of `StepProcessor`:
- `Commands` is a sequence of well-formed commands;
- `NoRow` is not a content;
- `None` is neither a member nor a status;
- `DbFaults` is Boolean;
- `MaxFaults` is a natural number.

TLC evaluates these ASSUMEs on every run.

- **`TypeCorrect`: `Spec => []TypeOK`.**
  - *Why TypeOK needs strengthening:* `Fetch` stores `pos[w]` in `cur[w]`, and the
    later steps index `Commands` with `cur[w]`. So `TypeOK` alone is not inductive.
  - *The strengthening:* `Busy` says that a member inside its loop body holds an offset
    of the partition, and that its claim position is one past it.
  - *Lemmas:*
    - `DispatchTyped` types every outcome of the transaction body.
    - `DbResultsFacts` gives the shape of a DB result.
- **`CommittedOnlyHandledHolds`: `Spec => []CommittedOnlyHandled`**, for any number of
  members.
  - *The inductive invariant:* `CommitInv` adds two conjuncts:
    - `MarkedHandled`: below every member's mark, all messages are handled.
    - `ClaimHandled`: below the claim position of the owner, or of any member still in
      its loop body, every message is handled or is the one in its open transaction.
  - *Why they are needed:* `AutoCommit` and `Revoke` copy a mark into `committed`. `Join`
    copies `committed` into a claim. `Mark` moves the mark to the fetched message.
  - *Lemma:* `EndTxCommitInv` covers the three ways `withTx` ends.
- **`EffectOnceSingleMember`: `Workers = {w0} => (Spec => []EffectOnce)`.**
  - *The invariant:* `EffInv` adds two conjuncts:
    - a key with a committed effect has an idempotency record;
    - a member about to run the body has found no record for its key.
  - *Lemma:* `DispatchEffectMarks` says that only the success paths mutate, and they
    all reach `markIdempotent`.
  - *Why the hypothesis is needed:* with two members the property is false (run
    zombie). The hypothesis is what the proof needs: nobody else writes `idempotency_keys`
    between a member's check and its commit.

### `GatewayProofs`

Assumptions: `TTL`, `PollTimeout`, `MaxTime`, `MaxAcks` and `MaxFaults` are natural
numbers; `None` is not a replica, a trace, a status or a record.

- **`GatewayTypeCorrect`: `Spec => []TypeOK`.** TypeOK includes the ordering
  `committed <= marked <= pos <= Len(acks[g]) + 1` of each replica's offsets, which
  `GatewayCrash` must restore.
  - *The strengthening:* `IInv` adds three conjuncts. `CacheMatchesPut` says that a cache
    entry holds the status of the last put and expires `TTL` after it. `PollsTyped` says
    that a waiting poll names a replica and a trace. `PartsSet` says that a written
    command has a partition, which `WorkerAck` needs.
- **`AnswerIsLatestLiveAckHolds`: `Spec => AnswerIsLatestLiveAck`.** `PollFound` reads
  the cache; `CacheMatchesPut` turns that read into a fact about `lastPut`, and the
  expiry test of `getAck` gives `now <= at + TTL`. The step lemma
  `NextLatestLiveAnswer` proves the action from `IInv`, and PTL lifts it.

### `MessageStoreProofs`

Assumptions: `MaxId >= 2`, the seed texts are texts, and `MaxFaults` is a natural number.

- **`StoreTypeCorrect`: `Spec => []TypeOK`.** `TypeOK` is inductive as it stands:
  both writes store a bound body with its ID set to an id (lemma `WriteTyped`), and the
  seed is typed (lemma `SeedTyped`). `CreateBegin` needs `len(store) + 1` to be an id;
  the guard and the finiteness of `Ids` (FiniteSetTheorems) give it.

### Refinements: `StepProcessorRefinement` and `GatewayRefinement`

Each proof has the same shape: `Init` maps to the abstract `Init`, and under an
invariant every step maps to an abstract step or a stutter; PTL combines the two.

- **`WorkerImplementsCommandLog`: `Workers = {w0} => (Spec => Log!SafetySpec)`.** The
  mapping: `done <- handled`, `eff <- effects`, `acks` the keys of the acks produced,
  and `N`, `KeyOf` read from `Commands`.
  - A transaction's end (`TxCheck`, `TxSkip`, a failed `TxApply`) is `Handle`; a
    successful `TxApply` is `Apply`, which needs `EffInv` (no effect yet for the key).
  - `ProduceAck` is `Ack`; it needs `AckHandled`: a member about to ack or mark holds
    a handled offset.
  - `AutoCommit` and `Revoke` are `Commit`; they need `OwnerOffsets`
    (`committed <= marked <= pos` for the owner) and `MarkedHandled`.
  - Everything else (fetch, join, crash, expulsion, mark) is a stutter.
  - The invariant `RefInv` is `TypeInv /\ CommitInv /\ EffInv /\ OwnerOffsets /\
    AckHandled`; lemmas `InitOwnerAck`, `NextOwnerAck` (any number of members),
    `InitLog`, `NextLog`.
  - *Why one member:* with two, `Apply` is not allowed twice for a key, and the
    zombie run shows the worker does it; the hypothesis is the same as that of
    `EffectOnceSingleMember`.
- **`GatewayImplementsResultCache`: `Spec => CacheSpec`**, for any replicas, traces,
  clients, TTL and poll budget. The mapping: `live <- LiveView`, the entries not yet
  expired; `poll <- PollView`, the poll without its deadline.
  - `WorkerAck` is `Produce` to the key's partition (needs `PartsSet`).
  - `ConsumeAck` is `Put`: the fresh entry expires at `now + TTL >= now`.
  - `Tick` is `Expire` of the entries it ages out: an expired entry stays expired.
  - `Sweep` is a stutter: it deletes only entries the view already hides.
  - `GatewayCrash` is `Restart`, back to `committed`, which lies in `1 .. pos`.
  - `PollFound` and `PollGiveUp` are `Found` and `Pending`: lemma `GetAckLive` says
    `getAck` succeeds exactly when the view has an entry.
  - `PollStart` is `Start`; `Submit` and `AckAutoCommit` change no mapped state.
  - The invariant is `GatewayProofs`' `IInv`.

**Only model-checked:**
- the fairness part of `CommandLogSpec` (`WF` on `Commit`): liveness.
- `AllConsumed`, `PollTerminates` and `AckConsumed`: liveness under fairness is out of
  TLAPS's reach.
- the violations.

## 6. Not modelled yet, and the plan

Not modelled:
- **The gateway handlers' validation** (`kafka.go:373-433`). Their 400 and 405 answers
  change no state.
- **Several gateway replicas as a run.** `Gateway` allows any number of replicas, and
  with two of them a poll at the replica that does not own the ack's partition answers
  204. The spec confines the in-memory cache to one replica, so no run checks this.
- **The enqueue-503 ambiguity** (`kafka.go:479`). `Submit` writes the command on a
  timed-out produce, but no property checks it: the code keeps nothing tying a resend
  to the first command, and the spec states no contract.
- **The small demos** (gRPC, pprof, gomock examples, the word counter). Each is one
  request-response call with no state between calls. The `part_007` race is a
  textbook lost update.
- **The interview documents.** They are prose.

Planned, in order:
1. **RetryProcessor.** `parseAttempt`/`publishNextRetry`/`retry.Next` with headers as a
   sequence. Liveness: a message that always fails reaches the DLQ. Expected violation:
   the first-header parse. Also the retry worker's skipped mark.
2. **Saga lab services.** Commit on read (kafka-go), and the DLQ replayer's target
   selection.
3. **An abstract exactly-once command log**, refined by `StepProcessor` under the
   single-member hypothesis, with a refinement mapping from `effects`, `idem` and
   `ackLog`.
4. **Composition.** `StepProcessor`'s ack log as the input of `Gateway`'s partitions.
