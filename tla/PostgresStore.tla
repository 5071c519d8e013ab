--------------------------- MODULE PostgresStore ---------------------------
(***************************************************************************)
(* The PostgreSQL store, shared by several runtime processes.  Each        *)
(* process has one actor and so one transaction at a time; the             *)
(* transactions of different processes interleave under READ COMMITTED.    *)
(*                                                                         *)
(* A transaction is two steps.  Its first SELECT is a read without a lock, *)
(* whose result it carries along.  Then NEXT_REVISION takes the row lock   *)
(* of the scope's counter and holds it to the commit, so everything after  *)
(* it happens, for the other writers of the scope, at one instant: its     *)
(* UPDATEs find the rows as they are by then.  A draft and its idempotency *)
(* record are written outside any transaction, one statement each.         *)
(*                                                                         *)
(* Soft-deleted rows are found by no statement but the upsert and the join *)
(* of the watch query (PostgresWatch); here a deleted row is no row.  The  *)
(* ids that new_prefixed_id makes are unique; a lease and a release are    *)
(* named by the revision they came with, a draft by its place.             *)
(***************************************************************************)
EXTENDS Integers, FiniteSets, Functions

CONSTANTS
    Procs,          \* runtime processes on the database
    Scopes, Services, InstanceIds, Keys, Applications, Groups, None,
    Retention, GcBatch, CompactKeep,    \* as in EventLog
    KeyRank,        \* the order of SELECT_EXPIRED_INSTANCES
    Ttls,           \* lease TTLs that pass the policy
    Persistence,    \* the values of `persistent` that clients send
    MaxI64,         \* i64::MAX, the expiry of a persistent instance
    ScanBatch,      \* expiry scan batch size
    IdempotencyKeys,
    WatchScope,     \* the scope the promise is checked for
    MaxClock,       \* bound: the clock stops here
    MaxRevision,    \* bound: no new transaction once so many revisions are taken
    MaxDrafts       \* bound: drafts in the table

ASSUME PostgresAssumption ==
    /\ WatchScope \in Scopes
    /\ Keys \subseteq [scope : Scopes, service_name : Services, instance_id : InstanceIds]
    /\ IsFiniteSet(Keys) /\ KeyRank \in [Keys -> Nat]
    /\ \A j, k \in Keys : KeyRank[j] = KeyRank[k] => j = k
    /\ Retention \in Nat /\ GcBatch \in Nat /\ CompactKeep \in Nat
    /\ Ttls \subseteq Nat \ {0}
    /\ Persistence \subseteq BOOLEAN
    /\ MaxClock \in Nat /\ MaxI64 \in Nat /\ MaxClock < MaxI64
    /\ ScanBatch \in Nat \ {0}

VARIABLES
    counter,        \* discovery_revision_counter
    instances,      \* discovery_service_instance, the rows with deleted_at NULL
    events,         \* discovery_watch_event
    drafts,         \* discovery_config_draft: draft id |-> published
    releases,       \* discovery_config_release
    idempotency,    \* discovery_idempotency_record: (operation, key) |-> resource id
    txn,            \* what each process has read and not yet committed
    clock           \* now_millis()

tables == <<counter, instances, events, drafts, releases, idempotency>>
pgVars == <<tables, txn, clock>>

\* All of the configuration is of one scope; the registry has them all.
ConfigScopeOf == WatchScope

ServiceInstance == [lease_id : Nat, expires_at_ms : Nat, revision : Nat]

\* Which operation made a release, and under which key, is history.
ConfigRelease ==
    [release_id : Nat, draft_id : Nat, revision : Nat,
     op : {"publish", "rollback"}, idem : IdempotencyKeys \cup {None}]

PgTypeOK ==
    /\ counter \in [Scopes -> Nat]
    /\ DOMAIN instances \subseteq Keys
    /\ instances \in [DOMAIN instances -> ServiceInstance]
    /\ \A e \in events : e.revision \in 1 .. counter[e.scope]
    /\ drafts \in [DOMAIN drafts -> BOOLEAN]
    /\ releases \subseteq ConfigRelease
    /\ DOMAIN idempotency \subseteq {"draft", "publish", "rollback"} \X IdempotencyKeys
    /\ \A p \in Procs : txn[p] # None => txn[p].op \in
          {"register", "renew", "report", "deregister", "expire", "draft", "publish", "rollback", "gc"}
    /\ clock \in 0 .. MaxClock

PgInit ==
    /\ counter = [s \in Scopes |-> 0]
    /\ instances = << >>
    /\ events = {}
    /\ drafts = << >>
    /\ releases = {}
    /\ idempotency = << >>
    /\ txn = [p \in Procs |-> None]
    /\ clock = 0

-----------------------------------------------------------------------------
(* Statements. *)

Put(f, x, v) == [y \in DOMAIN f \cup {x} |-> IF y = x THEN v ELSE f[y]]
Without(f, S) == [y \in DOMAIN f \ S |-> f[y]]

LiveAt(k, now) == k \in DOMAIN instances /\ instances[k].expires_at_ms > now

\* A new row of discovery_watch_event.  The service is not a column: the watch
\* query finds it by a join.
Event(k, kind, rev) ==
    [revision |-> rev, kind |-> kind, scope |-> k.scope,
     service_name |-> k.service_name, resource_id |-> k.instance_id,
     config_application |-> None, config_group |-> None]

ConfigEvent(kind, release_id, rev) ==
    [revision |-> rev, kind |-> kind, scope |-> ConfigScopeOf, service_name |-> None,
     resource_id |-> release_id, config_application |-> None, config_group |-> None]

\* The counter of a scope is made on first use; the lock on its row is held from here.
NEXT_REVISION(scope) == counter[scope] + 1

\* A revision of one scope is taken, with the events that go with it.
Advance(scope, new) ==
    /\ counter' = [counter EXCEPT ![scope] = NEXT_REVISION(scope)]
    /\ events' = events \cup new

\* Faulty: the event is stamped with the revision before.
insert_event_late(k, kind) == Advance(k.scope, {Event(k, kind, counter[k.scope])})

insert_event(k, kind) == Advance(k.scope, {Event(k, kind, NEXT_REVISION(k.scope))})

\* lease_expires_at_ms, before the transaction begins.
Expiry(now, ttl, persistent) == IF persistent THEN MaxI64 ELSE now + ttl

CommandTimes == 0 .. clock

\* The compare-and-set, of the row as the SELECT found it.  The transaction does
\* not carry the expected revision any further.
CasPasses(k) ==
    \E expected \in {None} \cup 0 .. counter[k.scope] :
        expected # None => instances[k].revision = expected

Begin(p, t) ==
    /\ txn[p] = None
    /\ txn' = [txn EXCEPT ![p] = t]
    /\ UNCHANGED <<tables, clock>>

Done(p) == txn' = [txn EXCEPT ![p] = None] /\ UNCHANGED clock

\* An error, a lost connection or a crash before the commit: PostgreSQL rolls back.
Abort(p) == txn[p] # None /\ Done(p) /\ UNCHANGED tables

\* The bound on the revisions of all scopes together.
Open == FoldFunction(LAMBDA n, m : n + m, 0, counter) < MaxRevision

-----------------------------------------------------------------------------
(* The registry's transactions: what they read, and what they commit. *)

\* SELECT_EXISTING_INSTANCE_LEASE finds live rows only.  A fresh lease id is made
\* up when it found none.
ReadRegister(p, k, now, ttl, persistent) ==
    /\ Open
    /\ LiveAt(k, now) => CasPasses(k)
    /\ Begin(p, [op |-> "register", key |-> k, expires_at_ms |-> Expiry(now, ttl, persistent),
                 lease_id |-> IF LiveAt(k, now) THEN instances[k].lease_id ELSE None])

\* REGISTER_INSTANCE: the upsert takes the place of whatever row is there by now,
\* a deleted one or another process's included.
REGISTER_INSTANCE(t, rev) ==
    instances' = Put(instances, t.key,
                     [lease_id |-> IF t.lease_id = None THEN rev ELSE t.lease_id,
                      expires_at_ms |-> t.expires_at_ms, revision |-> rev])

CommitRegister(p) ==
    LET t == txn[p]
    IN  /\ REGISTER_INSTANCE(t, NEXT_REVISION(t.key.scope))
        /\ insert_event(t.key, IF t.lease_id = None THEN "InstanceRegistered" ELSE "InstanceUpdated")
        /\ UNCHANGED <<drafts, releases, idempotency>>

ReadRenew(p, k, now, ttl) ==
    /\ Open
    /\ LiveAt(k, now)
    /\ Begin(p, [op |-> "renew", key |-> k, lease_id |-> instances[k].lease_id,
                 now |-> now, expires_at_ms |-> now + ttl])

\* The WHERE of RENEW_LEASE: by lease, which may have passed to nobody meanwhile.
Renewable(t) == LiveAt(t.key, t.now) /\ instances[t.key].lease_id = t.lease_id

CommitRenew(p) ==
    LET t == txn[p]
    IN  /\ Renewable(t)
        /\ instances' = [instances EXCEPT ![t.key].expires_at_ms = t.expires_at_ms,
                                          ![t.key].revision = NEXT_REVISION(t.key.scope)]
        /\ insert_event(t.key, "InstanceRenewed")
        /\ UNCHANGED <<drafts, releases, idempotency>>

ReadReport(p, k, now) ==
    /\ Open
    /\ LiveAt(k, now)
    /\ CasPasses(k)
    /\ Begin(p, [op |-> "report", key |-> k, now |-> now])

\* Faulty: the UPDATE's row count is not looked at.
AnyRow(t) == TRUE

\* The WHERE of REPORT_INSTANCE_STATUS.
Reportable(t) == LiveAt(t.key, t.now)

CommitReport(p) ==
    LET t == txn[p]
    IN  /\ Reportable(t)
        /\ instances' = [k \in DOMAIN instances |->
                IF k = t.key THEN [instances[k] EXCEPT !.revision = NEXT_REVISION(k.scope)]
                ELSE instances[k]]
        /\ insert_event(t.key, "InstanceStatusReported")
        /\ UNCHANGED <<drafts, releases, idempotency>>

ReadDeregister(p, k, now) ==
    /\ Open
    /\ LiveAt(k, now)
    /\ Begin(p, [op |-> "deregister", key |-> k, now |-> now])

\* The WHERE of DEREGISTER_INSTANCE.
Deregisterable(t) == LiveAt(t.key, t.now)

\* A row gone since the read leaves the revision taken and no event.
CommitDeregister(p) ==
    LET t == txn[p]
    IN  /\ IF Deregisterable(t)
           THEN /\ instances' = Without(instances, {t.key})
                /\ insert_event(t.key, "InstanceDeregistered")
           ELSE /\ Advance(t.key.scope, {})
                /\ UNCHANGED instances
        /\ UNCHANGED <<drafts, releases, idempotency>>

\* Ordered and limited.
SELECT_EXPIRED_INSTANCES(now, limit) ==
    LET expired == {k \in DOMAIN instances : instances[k].expires_at_ms <= now}
    IN  {k \in expired : Cardinality({j \in expired : KeyRank[j] <= KeyRank[k]}) <= limit}

ReadExpired(p) ==
    LET found == SELECT_EXPIRED_INSTANCES(clock, ScanBatch)
    IN  /\ found # {}
        /\ Begin(p, [op |-> "expire", found |-> found, now |-> clock])

\* Faulty: EXPIRE_INSTANCE trusts the SELECT before it.
WasExpired(k, now) == k \in DOMAIN instances

\* The WHERE of EXPIRE_INSTANCE.
StillExpired(k, now) == k \in DOMAIN instances /\ instances[k].expires_at_ms <= now

\* Every row found takes a revision of its scope, in order; those that are no
\* longer expired leave it unused.
CommitExpired(p) ==
    LET t == txn[p]
        ofScope(s) == {k \in t.found : k.scope = s}
        upTo(k) == {j \in ofScope(k.scope) : KeyRank[j] <= KeyRank[k]}
        gone == {k \in t.found : StillExpired(k, t.now)}
    IN  /\ counter' = [s \in Scopes |-> counter[s] + Cardinality(ofScope(s))]
        /\ events' = events \cup
                {Event(k, "InstanceDeregistered", counter[k.scope] + Cardinality(upTo(k))) : k \in gone}
        /\ instances' = Without(instances, gone)
        /\ UNCHANGED <<drafts, releases, idempotency>>

-----------------------------------------------------------------------------
(* Configuration. *)

Contexts == IdempotencyKeys \cup {None}

\* SELECT_IDEMPOTENCY_RECORD, by operation and key; a request found there is answered
\* from the record.
Replayed(op, idem) == idem # None /\ <<op, idem>> \in DOMAIN idempotency

\* Faulty: an upsert that leaves an existing record alone.
RecordOrIgnore(op, idem, id) ==
    idempotency' = IF idem = None \/ Replayed(op, idem) THEN idempotency
                   ELSE Put(idempotency, <<op, idem>>, id)

\* The unique constraint on operation and key refuses a second record.
INSERT_IDEMPOTENCY_RECORD(op, idem, id) ==
    ~Replayed(op, idem) /\ idempotency' = Put(idempotency, <<op, idem>>, id)

record_idempotency(op, idem, id) ==
    IF idem = None THEN UNCHANGED idempotency ELSE INSERT_IDEMPOTENCY_RECORD(op, idem, id)

ReadDraft(p, idem) ==
    /\ Cardinality(DOMAIN drafts) < MaxDrafts
    /\ ~Replayed("draft", idem)
    /\ Begin(p, [op |-> "draft", idem |-> idem, draft_id |-> None])

NewDraftId == Cardinality(DOMAIN drafts) + 1

INSERT_CONFIG_DRAFT(id) == drafts' = Put(drafts, id, FALSE)

InsertDraft(p) ==
    /\ txn[p].draft_id = None
    /\ INSERT_CONFIG_DRAFT(NewDraftId)
    /\ txn' = [txn EXCEPT ![p] = IF @.idem = None THEN None ELSE [@ EXCEPT !.draft_id = NewDraftId]]
    /\ UNCHANGED <<counter, instances, events, releases, idempotency, clock>>

RecordDraft(p) ==
    /\ txn[p].draft_id # None
    /\ record_idempotency("draft", txn[p].idem, txn[p].draft_id)
    /\ Done(p)
    /\ UNCHANGED <<counter, instances, events, drafts, releases>>

\* Faulty: the record first, then the draft it names.
RecordThenDraft(p) ==
    \/ /\ txn[p].draft_id = None
       /\ record_idempotency("draft", txn[p].idem, NewDraftId)
       /\ txn' = [txn EXCEPT ![p].draft_id = NewDraftId]
       /\ UNCHANGED <<counter, instances, events, drafts, releases, clock>>
    \/ /\ txn[p].draft_id # None
       /\ drafts' = Put(drafts, txn[p].draft_id, FALSE)
       /\ Done(p)
       /\ UNCHANGED <<counter, instances, events, releases, idempotency>>

\* create_config_draft's two statements, each committed by itself.
DraftStatement(p) == InsertDraft(p) \/ RecordDraft(p)

ReadPublish(p, draft_id, idem) ==
    /\ Open
    /\ ~Replayed("publish", idem)
    /\ ~drafts[draft_id]
    /\ Begin(p, [op |-> "publish", draft_id |-> draft_id, idem |-> idem])

ReadRollback(p, release, idem) ==
    /\ Open
    /\ ~Replayed("rollback", idem)
    /\ Begin(p, [op |-> "rollback", draft_id |-> release.draft_id, idem |-> idem])

\* The content of a release is its draft's, named by the draft's id.
ReleaseRow(t, rev) ==
    [release_id |-> rev, draft_id |-> t.draft_id, revision |-> rev, op |-> t.op, idem |-> t.idem]

INSERT_CONFIG_RELEASE_FROM_DRAFT(t, rev) == releases' = releases \cup {ReleaseRow(t, rev)}

INSERT_CONFIG_RELEASE_FROM_RELEASE(t, rev) == releases' = releases \cup {ReleaseRow(t, rev)}

MARK_DRAFT_PUBLISHED(id) == drafts' = [drafts EXCEPT ![id] = TRUE]

CommitPublish(p) ==
    LET t == txn[p]
        rev == NEXT_REVISION(ConfigScopeOf)
    IN  /\ INSERT_CONFIG_RELEASE_FROM_DRAFT(t, rev)
        /\ MARK_DRAFT_PUBLISHED(t.draft_id)
        /\ Advance(ConfigScopeOf, {ConfigEvent("ConfigPublished", rev, rev)})
        /\ record_idempotency(t.op, t.idem, rev)
        /\ UNCHANGED instances

CommitRollback(p) ==
    LET t == txn[p]
        rev == NEXT_REVISION(ConfigScopeOf)
    IN  /\ INSERT_CONFIG_RELEASE_FROM_RELEASE(t, rev)
        /\ Advance(ConfigScopeOf, {ConfigEvent("ConfigRolledBack", rev, rev)})
        /\ record_idempotency(t.op, t.idem, rev)
        /\ UNCHANGED <<instances, drafts>>

-----------------------------------------------------------------------------
(* Trimming the log. *)

\* The rows GC_WATCH_EVENTS deletes: all that share a revision with one of the
\* first n, whatever their scope.
OldestRows(n, horizon) ==
    {e \in events : e.revision <= horizon
        /\ Cardinality({f \in events : f.revision <= horizon /\ f.revision < e.revision}) < n}

\* SELECT_CURRENT_REVISION: one revision for all scopes, the largest counter.
current_revision(r) == (\E s \in Scopes : r = counter[s]) /\ \A s \in Scopes : counter[s] <= r

ReadHorizon(p) ==
    \E s \in Scopes :
        /\ current_revision(counter[s])
        /\ counter[s] > Retention
        /\ Begin(p, [op |-> "gc", horizon |-> counter[s] - Retention])

CommitGc(p) ==
    /\ events' = events \ OldestRows(GcBatch, txn[p].horizon)
    /\ UNCHANGED <<counter, instances, drafts, releases, idempotency>>

\* What is left when the rows of each resource id are ranked, newest first.
COMPACT_WATCH_EVENTS(scope, keep) ==
    {e \in events : e.scope = scope =>
        Cardinality({f \in events : f.scope = scope /\ f.resource_id = e.resource_id
                                     /\ f.revision > e.revision}) < keep}

Compact(scope) ==
    /\ events' = COMPACT_WATCH_EVENTS(scope, CompactKeep)
    /\ UNCHANGED <<counter, instances, drafts, releases, idempotency, txn, clock>>

Tick == clock < MaxClock /\ clock' = clock + 1 /\ UNCHANGED <<tables, txn>>

-----------------------------------------------------------------------------

ReadStep(p) ==
    \/ \E k \in Keys, now \in CommandTimes :
          \/ \E ttl \in Ttls, persistent \in Persistence :
                ReadRegister(p, k, now, ttl, persistent)
          \/ \E ttl \in Ttls : ReadRenew(p, k, now, ttl)
          \/ ReadReport(p, k, now)
          \/ ReadDeregister(p, k, now)
    \/ ReadExpired(p)
    \/ \E idem \in Contexts :
          \/ ReadDraft(p, idem)
          \/ \E d \in DOMAIN drafts : ReadPublish(p, d, idem)
          \/ \E r \in releases : ReadRollback(p, r, idem)
    \/ ReadHorizon(p)

Commit(p) ==
    /\ \/ txn[p].op = "register" /\ CommitRegister(p)
       \/ txn[p].op = "renew" /\ CommitRenew(p)
       \/ txn[p].op = "report" /\ CommitReport(p)
       \/ txn[p].op = "deregister" /\ CommitDeregister(p)
       \/ txn[p].op = "expire" /\ CommitExpired(p)
       \/ txn[p].op = "publish" /\ CommitPublish(p)
       \/ txn[p].op = "rollback" /\ CommitRollback(p)
       \/ txn[p].op = "gc" /\ CommitGc(p)
    /\ Done(p)

PgNext ==
    \/ \E p \in Procs :
          \/ ReadStep(p)
          \/ txn[p] # None /\ Commit(p)
          \/ txn[p] # None /\ txn[p].op = "draft" /\ DraftStatement(p)
          \/ Abort(p)
    \/ \E scope \in Scopes : Compact(scope)
    \/ Tick

PgSpec == PgInit /\ [][PgNext]_pgVars

-----------------------------------------------------------------------------
(* Safety. *)

\* A lease is honoured on a shared database: a row not expired by the clock goes
\* only when some process deregisters it, although a scan works from a list that
\* another process's renewal may have made stale.
PgLeaseHonoured ==
    [][\A k \in DOMAIN instances : LiveAt(k, clock) /\ k \notin DOMAIN instances'
         => \E p \in Procs : txn[p] # None /\ txn[p].op = "deregister" /\ txn[p].key = k]_pgVars

\* A publish or a rollback retried while its first attempt still runs, even on
\* another process, makes one release: no two releases of one operation bear the same
\* key.  A publish and a rollback may share one.
OneReleasePerKey ==
    \A r, q \in releases : r.idem # None /\ r.op = q.op /\ r.idem = q.idem => r = q

\* An idempotency record names a draft that is there, whatever crashes between the two
\* statements of create_config_draft, or the release of its own operation and key.
PgReplayTargetsExist ==
    \A i \in DOMAIN idempotency :
        IF i[1] = "draft" THEN idempotency[i] \in DOMAIN drafts
        ELSE \E r \in releases : r.release_id = idempotency[i] /\ <<r.op, r.idem>> = i

-----------------------------------------------------------------------------
(* Refinement. *)

OfScope(S) == {x \in S : x.scope = WatchScope}

Registry == INSTANCE ServiceRegistry WITH
    revision <- counter[WatchScope],
    nextSequence <- 0,
    events <- OfScope(events),
    rows <- [k \in OfScope(DOMAIN instances) |->
               [revision |-> instances[k].revision, live |-> LiveAt(k, clock)]]

\* What one process's memory store promises its watchers, the database promises
\* for each scope: changes of racing processes appear in the log one at a time, in
\* revision order, and tell the rows as they are.
PgKeepsPromise == Registry!Promise
=============================================================================
