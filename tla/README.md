# sdkwork-discovery: TLA+ models and proofs

sdkwork-discovery is a gRPC control plane for service discovery and configuration.
Processes register instances under leases, clients discover them and watch a
revision-ordered event log, operators draft, publish and roll back configuration.

## The system

| part | code (`src/crates/sdkwork-discovery-*`) | module |
|---|---|---|
| revision counter, id sequence, watch log | `storage-memory/src/{store,watch}.rs` | `EventLog` |
| service registry (leases, compare-and-set, expiry) | `storage-memory/src/registry.rs` | `RegistryStore` |
| what watchers of a registry may rely on | the promise, not a file | `ServiceRegistry` (abstract) |
| config registry (drafts, releases, rollback, idempotency, effective config) | `storage-memory/src/config.rs`, `core/src/policy.rs` | `ConfigStore` |
| the memory store as a whole, its snapshot | `storage-memory/src/snapshot.rs` | `MemoryStore` |
| Redis store | `storage-redis/src/` | `RedisStore` |
| PostgreSQL store | `storage-postgres/src/{registry,config,watch,sql}.rs` | `PostgresStore`, `PostgresWatch` |
| active health checks | `health-checker/`, `rpc/src/health_probes.rs` | `HealthChecker` |
| runtime actor, its queue, timers and the handlers that wait for it | `rpc/src/{actor,services}.rs` | `RpcRuntime` |
| watch streams and their clients | `rpc/src/{services,watch}.rs` | `WatchStream` |
| rate limit, breaker, degradation, stale reads, health cell | `rpc/src/{resilience,circuit_breaker,degradation,rate_limiter,stale_read_cache,health}.rs` | `Resilience` |
| server: health sync task, stream permits and gauge, shutdown | `rpc/src/{server,health,services,metrics}.rs` | `Server` |
| control plane policies | `core/src/{control_plane,policy}.rs` | guards of the commands |

How they interact: RPC handlers read the time, validate, and send a command to the
runtime actor over a bounded channel. The actor owns the store, so commands are
handled one at a time; its `select!` also runs the expiry scan, the event collector
and the health checks. Before a command the actor asks `RuntimeResilience` for
admission, afterwards it records the result, refreshes the health cell, and broadcasts
the new events. Each watch stream is a task of its own: it subscribes to the broadcast,
replays the log, and then polls the log whenever the broadcast or a timer wakes it.
What it sends is always read from the durable log; the broadcast only wakes it. Several
processes, each with its own actor, may share one PostgreSQL database; the Redis store
is for one.

## Modules

**EventLog** has `revision`, `nextSequence` and `events`. The code's `Vec` of events
is a set: a position in the `Vec` is the event's revision, because events are only
pushed, in revision order (`NewEventsAreNewest`). `gc_watch_events`,
`compact_watch_events`, `matches_event` and `watch_events` are the code's functions.
Compaction has no caller in the runtime today, only the store's interface; it is
included so that the log's guarantees hold once it is scheduled.

**RegistryStore** adds `instances`, `leaseIndex` and `clock`. One action per command
of the store. A command's time is any time up to now, because its handler read it
before the command waited in the actor's queue. Failures that change state are
actions too: `RegisterOverflow` (the expiry overflows after revision and id were
taken) and `RenewLapsed` (forgets the lease, keeps the row). Failures that change
nothing are the absence of a step. A row is what the properties tell apart: lease,
expiry, revision, status; endpoint, weight and metadata are left out, health-check
state is in `HealthChecker`. `MaxU64` is the expiry of persistent rows and the limit of
`checked_add`.

**ServiceRegistry** is the abstract registry: rows with a revision and a liveness
flag, an `Upsert`, a `Remove` of several rows, each at a new revision of its own, `Lapse`,
`OtherChange` (configuration, or a failed registration) and a `Trim` that keeps, with
an event, all later events of its resource. `RegistryStore` implements it
(`KeepsPromise`), so does each scope of `PostgresStore` (`PgKeepsPromise`), and
`WatchStream` is built on it: streams are checked against everything the promise allows
and not only against one store.

**ConfigStore** has `drafts`, `releases` and `idempotency` over the same log. A
config body is a record of what the policy tells apart. `EffectiveOver` is the
code's single pass over the releases, as a recursive function whose step is
`EffectiveStep`; `EffectiveIsNarrowestLatest` compares it with the declarative rule. A replayed
request changes nothing; a request whose key is known is therefore not a step.

**MemoryStore** composes registry and config over one log and says what a snapshot
holds (`to_snapshot`, `from_snapshot`) and when `serde_json` can write it (`Encodable`).

**RedisStore** is a `MemoryStore` in a process, read from one Redis key before the first
command (`hydrate_once`) and written back after every command that succeeded in memory.
A command is its change (`Apply*`), then the end of its save: `Persist`, `EncodeFails`
or `SetFails`, where Redis may have done as it was told. `Crash` may come before, during
or after the write. `persisted` is the key: empty until the first write, then a sequence
of the one snapshot; `Stored` is what a process would read from it. A command that fails
in memory (`ApplyFails`) writes nothing though it may have changed something. `acked` is
a history variable: what the last `Ok` vouched for.

**PostgresStore** is the database shared by `Procs`, each with one transaction at a time.
A transaction reads without a lock (`Read*`), then `NEXT_REVISION` locks its scope's
counter to the commit, so the rest is one step (`Commit`) whose UPDATEs see the rows as
they are by then; in between it may fail. Operators in capitals are the statements of
`sql.rs`. Idempotency records are looked up by operation and key, so a draft, a publish
and a rollback may use one key without meeting. A draft and its idempotency record are
two statements without a transaction, and two steps. All processes read one `clock`: skew
between their hosts is not modelled, and a process that is ahead would reap rows that are
live for the others. Soft-deleted rows count as absent, except in **PostgresWatch**, the
stream's poll: a join that includes them, limited before `matches_event` filters it.

**HealthChecker** and **RpcRuntime** are one composition. A handler is `Call` (time read,
liveness by that time carried along as `alive`), `send` (waits for room), then the
answer; `Deadline` drops it at either wait. `dispatch_command` takes the head of the
queue, is admitted or not, applies it and answers whoever still listens. Timers are
`run_health_checks` (probe what is due, count, judge), `Reap` and `Tick`. For each row the
store may fail to save the counts, or to take the status, or both; the code logs that and
goes on, and judges by counts that were not saved. `streak` and `left` are histories: the
saved verdicts of the current registration, and the instances whose process has been
answered that they are gone.

**WatchStream** is one stream, the broadcast receiver that belongs to it, its bounded
buffer, and one client with a cache. `Respond` looks the row up and makes the
response, `Send` waits for room: rows change in between, as in the code. With
`ReadOnlyOnFailure`, which the configuration demands in production, a look-up that storage
fails is answered from the runtime's read cache: the response then carries `Stale`, some
earlier answer, which may be an older row or none at all, under the revision of the new
event. Nothing corrects it until the next event of the instance. Reads of the log may be
stale too; those are cached by cursor and give a part of the log that a fresh read from
the same cursor would start with, as an early poll does. `Change`
may or may not be broadcast, because batch registrations and other processes'
changes are not. `Fault` stands for a dropped connection, a storage error or a
restart. `gap` is a history variable: the collector dropped the last event of an
instance before the client saw it.

**Resilience** is the actor's handling of one command around the storage call:
`Rejected` by the gate, or `Handled` with a result the storage gives, including
refusals such as not-found or a failed compare-and-set, which are neither success
nor failure to the breaker. Ages and the token bucket move with `Tick`. Gate, storage
call, record and health refresh of a command are one step, as the actor does nothing else
in between. A reader of the health cell during the call sees it as the last command left
it, so no property relates the cell to the breaker within a step.

**Server** adds the health sync task, the permits and the gauge of streams, and the
phases of shutdown; the actor goes on with commands until the end, so the health cell
may change while the server shuts down.

`MC*` modules give constants their values. `*Proofs` hold the proofs. Operators
commented `Faulty:` are deliberate variants of the definition that follows them; no
specification uses them. Substituting one for that definition must make the property
it was written for fail, which shows that the property depends on the code.

## Runs

`tlc -config X.cfg M`, with the modules and configurations below.

| cfg | module | result | shows |
|---|---|---|---|
| `RegistryStore` | `MCRegistryStore` | holds | leases, index, rows and log agree; the store implements `ServiceRegistry` |
| `ConfigStore` | `MCConfigStore` | holds | releases, rollback, retries and effective config |
| `WatchStream` | `MCWatchStream` | holds | ordered, complete delivery; the cache converges, but for rows that stale reads answered for |
| `Server` | `Server` | holds | the breaker closes only on fresh answers; a lasting outage is noticed in spite of stale ones; the runtime recovers; permits are kept; shutdown ends and has the last word |
| `Runtime` | `MCRpcRuntime` | holds | commands cut off by a deadline do not bring a deregistered instance back; probes do not flap and are followed |
| `Postgres` | `MCPostgresStore` | holds | racing processes honour leases and retries; each scope implements `ServiceRegistry` |
| `Redis` | `MCRedisStore` | holds | what was acknowledged survives crashes and failed writes; the key never goes back; an expired row is reaped unless every scan is filled by keys before it |
| `ConfigWatchScope` | `MCConfigStore` | violated | namespace-scoped releases reach no config watch |
| `WatchReconnect` | `MCWatchStream` | violated | reconnecting below the collector's horizon loses deregistrations silently |
| `HalfOpen` | `Resilience` | violated | refused probes exhaust the half-open allowance and nothing resets it |
| `PostgresWatch` | `MCPostgresWatch` | violated | a full batch of other services' events stops a stream for ever |
| `RedisDurable` | `MCRedisStore` | violated | a store with an instance in it cannot be written as JSON, so it is never persisted |

The violated properties state what a document or a comment of the repository says;
`PROJECT.json` quotes each line. `Redis` holds with that limitation in the model: what
it says of crashes is about stores that can be written, which are those with drafts and
releases made without idempotency keys and without instances.

### Bounds

- Registry: two services of one scope with an instance under the same id, since
  compaction groups by id alone; clock up to 2 with TTLs 0 (refused), 1 and 3; four
  revisions; `MaxU64 = 4`, so that overflow happens; GC retention 2, batch 1; scan batch
  2, so that a scan numbers several removals. Client commands stop at `MaxRevision`; the
  scan may go beyond it.
- Config: one key and group, three scopes, two drafts and three releases (publish,
  publish, rollback and rollback of a rollback), one idempotency key over three
  operations, retention 1.
- Watch: a watched and another service with the same instance id, broadcast capacity
  1 and replay batch 1 (so lag and partial replays happen), buffer 2, three revisions.
- Server: two cached queries; failure threshold, recovery time, probes and burst 2;
  stale answers up to age 1; two permits. Refill 2, so that a read is still admitted by
  the rate limiter while the breaker is open and stale answers happen. `MaxDrift` stops
  the gauge's drift below zero at -1. The rest is finite by saturation.
- Runtime: one instance, its process and an operator, channel of 2, both thresholds 2,
  interval 1. Counters and ages saturate where the code stops telling them apart.
- Postgres: two symmetric processes, two services of one scope and one of another under
  one instance id, so that races within a scope and between scopes happen; one
  idempotency key, one draft, clock up to 1, two revisions before new transactions
  stop, scan batch 2, collector and compaction at 1. `PostgresWatch` has one process,
  two services and replay batch 1, retention high enough that nothing is collected.
- Redis: two instances, scan batch 1 (truncation), two revisions, one draft, two
  releases, one idempotency key, `MaxU64 = 3` for an overflow that changes the memory
  and is not written.

### Fairness

- Stream: `Replay`, `Respond`, `Send`, `Poll`, `EndLagged` weakly fair, as tasks of a
  live runtime with an interval timer; `Open`, `Receive`, `Finish` weakly fair, for a
  client that reads and reconnects. Wake-ups by broadcast are not assumed. `Converges`
  further supposes that faults stop.
- Server: `Tick` and the sync task weakly fair; a read that gets through to storage
  (`StorageRead`: answered if it is up, failed if it is not) strongly fair, because
  other commands may take the tokens again and again: some client keeps reading. The
  steps of shutdown are weakly fair; streams are not assumed to end. `RecoversWhileUp`
  supposes that storage stays up and nothing is refused; without the latter `HalfOpen`
  shows that it fails. `OutageIsNoticed` supposes that storage stays down, a breaker that
  is on, read-only mode and nothing refused.
- Runtime: dispatch and `Tick` weakly fair: `select!` picks at random among the arms that
  are ready. A health scan of which the store saves and takes everything is strongly fair:
  the store may fail any number of scans, not all from some time on. Callers and
  deadlines are not assumed to do anything.
- Redis: hydration and the end of a save weakly fair; the scan strongly fair, since a
  command in hand disables it and the random `select!` does not pass it over for ever.
- PostgresWatch: `Poll` weakly fair, an interval timer; nothing else.

`ExpiredRowsGo` (run `Redis`) is stated with the alternative that the code has.
`expire_instances` sorts what is expired and truncates it to a batch, so rows sorted before
a row can keep it waiting for ever, if at every scan a whole batch of them has lapsed again
(`FullBefore`). That takes clients who register for ever; here they stop at `MaxRevision`,
so in the run the alternative cannot go on and the row does go.

Deadlock is checked in every run.

## Proofs

Each holds for every value of the constants that the named assumptions allow.

**RegistryStoreProofs**: `TypeCorrect`, `LeaseIndexIsSound`, `LiveLeasesAreRenewable`,
`EventRevisionsAreUnique`, `LogIsTruthful` (invariants), `LogIsOrdered`,
`ChangesAreLogged`, `LeasesAreHonoured` (action properties). The inductive invariant
`IInv` is the conjunction of the five invariants and `RowsBounded`: every lease in use
was handed out by `next_id` and no row's revision is ahead of the counter. Without it a
fresh lease might collide with one in use, and a new event with an old one.

- trimming (`TrimPreserves`): a log cut down to a later part, resource by resource,
  has the same newest events; the collector drops a prefix (`OldestIsPrefix`) and
  compaction keeps a suffix per resource id, which is one of each key as well;
- one-row changes (`AppendPreserves`, `RowUpdatePreserves`, `RegisterPreserves`): the
  new event is the newest of its key and carries the row's revision;
- the scan (`ScanNumbering`, `ScanEvents`): ranking the reaped keys by `KeyRank`
  numbers them without repeats from `revision + 1` to `revision + Cardinality`;
- `LiveLeaseRenewable` survives `RenewLapsed` because a row that is lapsed at a
  command's time is lapsed at the clock's, which is no earlier: this is where
  `CommandTimes` matters.

**ServerProofs**: `ServerTypeCorrect`, `CountersAgree`, `ShutdownHasLastWord`,
`PermitsAreKept`, `ClosingIsEarned`. The invariant `ServerInv`
adds two facts to the properties: a half-open breaker has its failure count at the
threshold (`HalfOpenAtThreshold`), and a breaker that is turned off stays closed
(`ClosedWhenOff`). With the first the count is at the threshold again when a failed
probe opens the breaker, as `BreakerCounters` says of an open one; with the second a
breaker that records nothing never has to leave a state.

**PostgresStoreProofs**: `PgTypeCorrect`, `RetriesMakeOneRelease`,
`RecordsNameResources` (invariants), `PgLeasesAreHonoured` (action property). A commit
works with what an earlier step read, so `PgInv` says of every open transaction what
stays true of it while others commit (`TxnsOK`): the time a scan began at is past, the
draft that the first statement wrote is still there for the record of the second.
`ReleasesRecorded` ties every release with a key to the record that the same commit
wrote for its operation; a second commit of that operation under the key runs into the
record and makes nothing. A row
that a scan listed is checked again by the UPDATE, at a time no later than now, which
gives the lease property.

**Refinement**, at the end of `RegistryStoreProofs` and `PostgresStoreProofs`:
`StoreKeepsPromise` and `PgStoreKeepsPromise`, that both stores implement
`ServiceRegistry`. The mapping keeps of a row its revision and whether it is live at the
clock, and for PostgreSQL only the rows and events of `WatchScope`. Each action is shown
to be one step of the promise or none:

- a register, renewal or report is `Upsert`; a deregistration and a scan are `Remove`,
  in which the scanned rows' ranks give different new revisions (`Places`), those of rows
  that turned out not to be expired staying unused;
- collection and compaction are `Trim`: both leave a later part of the log, resource by
  resource. This compares cardinalities, so it needs the log to be finite
  (`EventsFinite`, an invariant of its own beside `PgInv`);
- the configuration's changes, and a deregistration that finds its row gone, are
  `OtherChange`; the clock is `Lapse`; reads, drafts and aborts are stutters
  (`SilentSteps`), as is whatever happens in another scope (`ElsewhereIsUnseen`).

**RpcRuntimeProofs**: `LeavingIsFinal`, that `LeftStaysLeft`. `LeftInv` says that an
instance in `left` is not alive and that no command, queued or waiting for room, would
revive it (`Gone`); that a process whose answer is still awaited has nothing queued
behind it (`OneCallEach`); and that the commands of a process other than reports are
about its own instances. When a deregistration is answered, the second gives that
nothing older of the process is left in the queue, the third that no other process's
command matters. `StatusIsDamped`, that `FlapDamped`, rests on `DampInv`: a row's counter
is never ahead of the verdicts its registration has had in a row, and the counter of the
other verdict is at zero. Counter and history advance together, with a save, so a save that
fails keeps the relation. A verdict that changes the status has brought its counter to the
threshold, so as many verdicts agree. Thresholds may be zero, which
`health_check_from_proto` lets pass: such a threshold asks for no verdicts, and a first
healthy verdict may then be reported as unhealthy.

**ConfigStoreProofs**: `ConfigTypeCorrect`, `ReplaysAreAnswered`, `ReleasesAreFaithful`
(invariants), `RecordsStayBound` (action property). `ConfigInv` adds `IdsBounded`: every
draft, release and record in use was named by `next_id`, so a new id is free and a new
record shares its resource with none. One lemma about the record (`RecordFacts`) serves
all three operations, and one about the common tail (`ReleasePreserves`) both publish and
rollback: a rollback's source stems from a draft, which by the invariant says the same
and is already marked.

On what is effective: `EffectiveIsRight` (`EffectiveIsNarrowestLatest`),
`RevisionStandsForValues` (`EffectiveRevisionTells`) and `RollbackTakesEffect`
(`RollbackRestores`), for any number of releases.

- the pass is a recursive function of its length. `PassesAgree` and `OneMoreRelease` say
  that a pass over one more release is one more `EffectiveStep`; the induction
  (`SetInduction`) takes a least counterexample of a set of numbers, so that no theorem
  with an operator as parameter is needed;
- `Summarises` is what the loop keeps: each key's value comes from the release that
  `Prevails`, narrowest and then latest, and the revision is the largest of an applicable
  one. `StepSummarises` shows it for one turn, `LoopSummarises` for the whole pass;
- `OrderInvariance` is the fact about the store that this needs: releases are appended in
  the order of their revisions (`ReleasesOrdered`), so the `>=` with which the code
  replaces a value of equal specificity never has a tie to decide;
- a step that makes a release which applies to a query gives that answer the release's
  revision, which is above all earlier ones (`EffectiveRevisionBounded`); any other step
  leaves the whole answer.

**WatchStreamProofs**: `DeliveryIsOrdered` and `DeliveryIsComplete`, that
`DeliveryInOrder` and `NothingSkipped` hold for every batch size, buffer and capacity.
`StreamInv` adds that revisions are unique over the log and the batch in hand, that the
cursor is between what the client saw and the counter, and `BatchIsPrefix`: an event of
the service between the cursor and one that waits is waiting too. A read establishes it
because `watch_events` returns a prefix of what matches (`ReadIsPrefix`), new events are
newer than anything read, and the collector only drops. So when the oldest event of a
batch moves the cursor, nothing lies in between.

**WatchCacheProofs**: `WatchTypeCorrect`, and `CacheIsRight`, that `CaughtUpAgrees`: a
client that has everything holds the registry's rows, but for the payload of those that a
stale read answered for, and holds none that is gone. A response carries the row as it
was when it was made and the revision of an older event, so what the client holds may be
ahead of or behind the log. `FollowInv` says, as long as the collector has not made a gap:

- a row's revision is that of its newest event, which is no removal (`RowIsNewest`), and
  while the client has not seen that event the log still has it (`RowIsTold`);
- what the client holds of a key, and what each response on its way will make it hold,
  is the row as it is, or a stale answer about a row that is there, or is followed in the
  log by a later event of the key (`CacheFollows`, `ResponsesFollow`);
- an event that the client has yet to see, of an instance that is gone by now, is followed
  by the removal (`GoneIsTold`). A stale answer may be given to any event but a removal, so
  one that tells of an instance that is gone is corrected by the removal to come;
- any two responses on their way are in order (`AllInOrder`), so that the one the client
  takes next is older than the rest.

A change puts its event behind everything (`ChangeFollows`); the collector either leaves
the last event that is still to come, or makes the gap (`CollectFollows`, from a largest
element, `LastToCome`); a response made by `Respond` shows the row as it is
(`RespondFollows`); `Receive` turns what was promised of a response into what is promised
of the cache (`ReceiveFollows`). With nothing to come the second alternative is void, and
the cache is right. The types need that every revision of a change has its event
(`ChangeTells`), since `publish_events_for_revision` looks them up one by one.

**RedisStoreProofs**: `AcknowledgementsHold` (`AcknowledgedSurvives`), `KeyGoesForward`
(`KeyNeverGoesBack`), and `StoreStaysSound`: after any crashes, failed writes and lost
answers the memory again has a sound lease index, a truthful log, faithful releases and
the right effective configuration, as a memory store has that never stopped. `RedisInv`
is made of

- `MemoryInv`, the inductive invariants of both registries. Each command is a step of one
  of them and leaves the other's variables (`RegistryStep`, `ConfigStep`), but they share
  counter, ids and log; `ConfigKeepsRegistry` and `RegistryKeepsConfig` show that each
  invariant survives the other's steps;
- `Restorable(Stored)`: a memory made from the key has these invariants again
  (`RestoredIsSound`). Only a snapshot without instances and without records is ever
  written, so its log must end every instance with a removal;
- `Outgrows`: the memory of a process that has read the key holds everything the key
  holds under the same ids, so that a write takes nothing back (`WritePreserves`). A
  memory not yet hydrated is new and writes nothing. Both registries give it, as they
  only add to what callers refer to and only count upward (`StepGrows`);
- the key holds what was acknowledged, since an answer comes after the write.

Assumptions: `None` is no name, number, key or response; keys are a finite set with an
injective rank; TTL bounds, batches, clocks and thresholds are natural numbers, not
zero where the code validates that or uses them as a size; the registry's clock stays
below `MaxU64`; the processes of the runtime do not share instances. TLC evaluates them in
the runs.

Every inductive invariant was also model-checked, on the bounds above.

Only model-checked: liveness (`Converges`, `RecoversWhileUp`, `OutageIsNoticed`,
`ShutdownEnds`, `StatusFollowsProbes`, `ExpiredRowsGo`), because fairness and ENABLED
are outside what the proof system handles. Every other property of a run that holds is a theorem.

## Observations

Met while modelling; no run is about them.

- Renewing a persistent instance gives it a finite expiry (`storage-memory/src/registry.rs:185`),
  and the scan then reaps it, where `specs/implementation-plan-registry-alignment.md:919-923`
  plans persistent instances as independent of leases and skipped by the scan.
- A read answered from the stale cache counts as a success, resets the count of failures
  and ends read-only mode during an outage (`rpc/src/resilience.rs:80`). `OutageIsNoticed`
  shows that this does not last.
- A watch response may carry a stale row, or a tombstone from a cached absence, under the
  revision of a new event (`rpc/src/services.rs:1993`); the client cannot tell.
- A stream that ends while it drains returns its place of the gauge twice, so the gauge
  may tell fewer streams than there are.
- Probes use the registered endpoint as it is; one with a scheme cannot be connected to.
- Health thresholds of zero pass validation; with an unhealthy threshold of zero a healthy
  verdict takes a serving instance out.
- Registering again resets the probe counters; probes of a healthy endpoint override an
  operator's `NotServing`.
- After a crash with an unpersisted change a Redis process restarts at an older revision,
  behind the cursors of its watchers.
- Two publishes of one draft under different idempotency keys on two processes may both
  pass the unlocked `published` check.
- A PostgreSQL process that stops between a draft and its idempotency record makes the
  retry create a second draft. The model has that step; no property forbids it.
- `NEXT_REVISION` (`storage-postgres/src/sql.rs:8-10`) increments an unqualified
  `current_revision` in `ON CONFLICT DO UPDATE`, where PostgreSQL has two columns of that
  name to choose from and rejects the statement as ambiguous. Every transaction that
  registers, renews, deregisters, reports or expires an instance, or makes a release, takes
  a revision, so as it stands all of these fail and change nothing. `PostgresStore` models
  the statement as the increment it is meant to be: everything said of the PostgreSQL
  store, `PostgresWatch` included, is about the store with that column qualified. Drafts
  and their records take no revision.
- The comment of `spawn_health_sync` has the task aborted after the last report; the
  code aborts it first, which is what `ShutdownIsFinal` needs.
- The repository's README names an sqlite provider; there is no crate for it.
- `LeftStaysLeft` is about processes that hear of a deadline from the server. One that
  gives up by itself, while the server does not, may call again before it is answered.

## Not modelled

- Ranking, weighted shuffle, pagination and listings (`contract/src/{registry,pagination}.rs`):
  reads without state; a page token carries its position.
- Effective configuration of the PostgreSQL store: one query over the releases; the
  memory store's pass is modelled.
- Conversion of messages and errors, tokens, permissions and the manifest: no state, and
  every modelled caller is permitted.
- The protocols of HTTP, TCP and gRPC probes: a verdict is the endpoint's state.
- Loading and overlaying configuration, migrations and pools, service host, transport
  set-up, generated SDKs: parsing and I/O around the parts above.
- Counters and histograms other than the gauge: nothing reads them back.
