------------------------ MODULE PostgresStoreProofs ------------------------
(***************************************************************************)
(* Proofs about the PostgreSQL store: what any number of processes can do  *)
(* to the shared tables, for every set of keys and every bound.            *)
(***************************************************************************)
EXTENDS PostgresStore, FiniteSetTheorems, TLAPS

Ops == {"register", "renew", "report", "deregister", "expire", "draft", "publish", "rollback", "gc"}

\* What a transaction carries from its reads to its commit: an expiry scan the time it
\* began at, which is past by now, a draft's second statement a draft that is there.
TxnOK(t) ==
    /\ t.op \in Ops
    /\ t.op \in {"register", "renew"} => t.key \in Keys /\ t.expires_at_ms \in Nat
    /\ t.op = "register" => t.lease_id \in Nat \cup {None}
    /\ t.op \in {"report", "deregister"} => t.key \in Keys
    /\ t.op = "expire" => t.found \in SUBSET Keys /\ t.now \in 0 .. clock
    /\ t.op = "draft" =>
          t \in [op : {"draft"}, idem : Contexts, draft_id : {None} \cup DOMAIN drafts]
    /\ t.op \in {"publish", "rollback"} => t.idem \in Contexts /\ t.draft_id \in Nat
    /\ t.op = "gc" => t.horizon \in Int

TxnsOK ==
    /\ txn = [p \in Procs |-> txn[p]]
    /\ \A p \in Procs : txn[p] # None => TxnOK(txn[p])

EventsScoped == \A e \in events : e.scope \in Scopes

DraftsOK == DOMAIN drafts \subseteq Nat /\ IsFiniteSet(DOMAIN drafts)

\* A release made under an idempotency key left its record in the same transaction.
ReleasesRecorded ==
    \A r \in releases : r.idem # None => <<r.op, r.idem>> \in DOMAIN idempotency

\* The inductive invariant.
PgInv ==
    /\ PgTypeOK
    /\ TxnsOK
    /\ EventsScoped
    /\ DraftsOK
    /\ ReleasesRecorded
    /\ OneReleasePerKey
    /\ PgReplayTargetsExist

-----------------------------------------------------------------------------
(* Reads. *)

\* A transaction begins, leaving the tables alone.
LEMMA BeginPreserves ==
    ASSUME PgInv, NEW p \in Procs, NEW t, TxnOK(t), Begin(p, t)
    PROVE  PgInv'
<1> USE DEF Begin, tables
<1>1. TxnsOK'
    <2>1. txn' = [q \in Procs |-> txn'[q]] /\ \A q \in Procs : txn'[q] = IF q = p THEN t ELSE txn[q]
        BY DEF PgInv, TxnsOK
    <2> QED BY <2>1 DEF PgInv, TxnsOK, TxnOK
<1>2. PgTypeOK'
    <2>1. \A q \in Procs : txn'[q] # None => txn'[q].op \in Ops
        BY <1>1 DEF TxnsOK, TxnOK
    <2> QED BY <2>1 DEF PgInv, PgTypeOK, Ops
<1> QED BY <1>1, <1>2
        DEF PgInv, EventsScoped, DraftsOK, ReleasesRecorded, OneReleasePerKey, PgReplayTargetsExist

\* Every transaction's reads.
LEMMA ReadPreserves ==
    ASSUME PgInv, NEW p \in Procs, ReadStep(p)
    PROVE  PgInv'
<1> USE PostgresAssumption DEF PgInv, PgTypeOK, ServiceInstance, Ops
<1>0. clock \in Nat /\ \A now \in CommandTimes : now \in Nat
    BY DEF CommandTimes
<1>1. ASSUME NEW k \in Keys, NEW now \in CommandTimes, NEW ttl \in Ttls,
             NEW persistent \in Persistence, ReadRegister(p, k, now, ttl, persistent)
      PROVE  PgInv'
    <2> DEFINE t == [op |-> "register", key |-> k, expires_at_ms |-> Expiry(now, ttl, persistent),
                     lease_id |-> IF LiveAt(k, now) THEN instances[k].lease_id ELSE None]
    <2>1. Expiry(now, ttl, persistent) \in Nat
        BY <1>0 DEF Expiry
    <2>2. t.lease_id \in Nat \cup {None}
        BY DEF LiveAt
    <2>3. TxnOK(t)
        BY <2>1, <2>2 DEF TxnOK
    <2> QED BY <1>1, <2>3, BeginPreserves DEF ReadRegister
<1>2. ASSUME NEW k \in Keys, NEW now \in CommandTimes, NEW ttl \in Ttls, ReadRenew(p, k, now, ttl)
      PROVE  PgInv'
    <2> DEFINE t == [op |-> "renew", key |-> k, lease_id |-> instances[k].lease_id,
                     now |-> now, expires_at_ms |-> now + ttl]
    <2>1. TxnOK(t)
        BY <1>0 DEF TxnOK
    <2> QED BY <1>2, <2>1, BeginPreserves DEF ReadRenew
<1>3. ASSUME NEW k \in Keys, NEW now \in CommandTimes, ReadReport(p, k, now) PROVE PgInv'
    <2>1. TxnOK([op |-> "report", key |-> k, now |-> now])
        BY DEF TxnOK
    <2> QED BY <1>3, <2>1, BeginPreserves DEF ReadReport
<1>4. ASSUME NEW k \in Keys, NEW now \in CommandTimes, ReadDeregister(p, k, now) PROVE PgInv'
    <2>1. TxnOK([op |-> "deregister", key |-> k, now |-> now])
        BY DEF TxnOK
    <2> QED BY <1>4, <2>1, BeginPreserves DEF ReadDeregister
<1>5. CASE ReadExpired(p)
    <2> DEFINE found == SELECT_EXPIRED_INSTANCES(clock, ScanBatch)
    <2>1. found \in SUBSET Keys
        BY DEF SELECT_EXPIRED_INSTANCES
    <2>2. TxnOK([op |-> "expire", found |-> found, now |-> clock])
        BY <1>0, <2>1 DEF TxnOK
    <2> QED BY <1>5, <2>2, BeginPreserves DEF ReadExpired
<1>6. ASSUME NEW idem \in Contexts, ReadDraft(p, idem) PROVE PgInv'
    <2>1. TxnOK([op |-> "draft", idem |-> idem, draft_id |-> None])
        BY DEF TxnOK
    <2> QED BY <1>6, <2>1, BeginPreserves DEF ReadDraft
<1>7. ASSUME NEW idem \in Contexts, NEW d \in DOMAIN drafts, ReadPublish(p, d, idem) PROVE PgInv'
    <2>1. TxnOK([op |-> "publish", draft_id |-> d, idem |-> idem])
        BY DEF TxnOK, DraftsOK
    <2> QED BY <1>7, <2>1, BeginPreserves DEF ReadPublish
<1>8. ASSUME NEW idem \in Contexts, NEW r \in releases, ReadRollback(p, r, idem) PROVE PgInv'
    <2>1. TxnOK([op |-> "rollback", draft_id |-> r.draft_id, idem |-> idem])
        BY DEF TxnOK, ConfigRelease
    <2> QED BY <1>8, <2>1, BeginPreserves DEF ReadRollback
<1>9. CASE ReadHorizon(p)
    <2>1. PICK s \in Scopes : Begin(p, [op |-> "gc", horizon |-> counter[s] - Retention])
        BY <1>9 DEF ReadHorizon
    <2>2. TxnOK([op |-> "gc", horizon |-> counter[s] - Retention])
        BY DEF TxnOK
    <2> QED BY <2>1, <2>2, BeginPreserves
<1> QED BY <1>1, <1>2, <1>3, <1>4, <1>5, <1>6, <1>7, <1>8, <1>9 DEF ReadStep

-----------------------------------------------------------------------------
(* Commits. *)

\* A transaction that ends leaves the others as they were.
LEMMA DoneKeepsTxns ==
    ASSUME PgInv, NEW p \in Procs, Done(p), DOMAIN drafts \subseteq DOMAIN drafts'
    PROVE  TxnsOK' /\ clock' = clock
<1>1. clock' = clock
    BY DEF Done
<1>2. txn' = [q \in Procs |-> txn'[q]] /\ \A q \in Procs : txn'[q] = IF q = p THEN None ELSE txn[q]
    BY DEF Done, PgInv, TxnsOK
<1> QED BY <1>1, <1>2 DEF PgInv, TxnsOK, TxnOK

\* A revision of one scope is taken: the events stay within their scopes' counters.
LEMMA AdvanceFacts ==
    ASSUME PgInv, NEW scope \in Scopes, NEW new, Advance(scope, new),
           \A e \in new : e.scope = scope /\ e.revision = counter[scope] + 1
    PROVE  /\ counter' \in [Scopes -> Nat]
           /\ \A e \in events' : e.scope \in Scopes /\ e.revision \in 1 .. counter'[e.scope]
<1>1. /\ counter \in [Scopes -> Nat]
      /\ \A e \in events : e.scope \in Scopes /\ e.revision \in 1 .. counter[e.scope]
    BY DEF PgInv, PgTypeOK, EventsScoped
<1>2. counter' = [counter EXCEPT ![scope] = counter[scope] + 1] /\ events' = events \cup new
    BY DEF Advance, NEXT_REVISION
<1>3. counter' \in [Scopes -> Nat] /\ \A s \in Scopes : counter'[s] \in Nat /\ counter[s] <= counter'[s]
    BY <1>1, <1>2
<1>4. ASSUME NEW e \in events PROVE e.scope \in Scopes /\ e.revision \in 1 .. counter'[e.scope]
    BY <1>1, <1>3
<1>5. ASSUME NEW e \in new PROVE e.scope \in Scopes /\ e.revision \in 1 .. counter'[e.scope]
    BY <1>1, <1>2
<1> QED BY <1>2, <1>3, <1>4, <1>5

\* A transaction of the registry, or one that only trims the log, commits.
LEMMA RegistryCommit ==
    ASSUME PgInv, NEW p \in Procs, Done(p), UNCHANGED <<drafts, releases, idempotency>>,
           DOMAIN instances' \subseteq Keys,
           instances' \in [DOMAIN instances' -> ServiceInstance],
           counter' \in [Scopes -> Nat],
           \A e \in events' : e.scope \in Scopes /\ e.revision \in 1 .. counter'[e.scope]
    PROVE  PgInv'
<1>1. TxnsOK' /\ clock' = clock
    BY DoneKeepsTxns
<1>2. \A q \in Procs : txn'[q] # None => txn'[q].op \in Ops
    BY <1>1 DEF TxnsOK, TxnOK
<1>3. PgTypeOK'
    BY <1>1, <1>2 DEF PgInv, PgTypeOK, Ops
<1> QED BY <1>1, <1>3
        DEF PgInv, EventsScoped, DraftsOK, ReleasesRecorded, OneReleasePerKey, PgReplayTargetsExist

\* insert_event, for a key of the registry.
LEMMA InsertEventFacts ==
    ASSUME PgInv, NEW k \in Keys, NEW kind, insert_event(k, kind)
    PROVE  /\ counter' \in [Scopes -> Nat]
           /\ \A e \in events' : e.scope \in Scopes /\ e.revision \in 1 .. counter'[e.scope]
<1>1. k.scope \in Scopes
    BY PostgresAssumption
<1>2. Advance(k.scope, {Event(k, kind, counter[k.scope] + 1)})
    BY DEF insert_event, NEXT_REVISION
<1> QED BY <1>1, <1>2, AdvanceFacts DEF Event

\* The registry's commits keep the tables well formed, whatever was changed between
\* their reads and now.
LEMMA RowCommits ==
    ASSUME PgInv, NEW p \in Procs, txn[p] # None, Done(p),
           \/ txn[p].op = "register" /\ CommitRegister(p)
           \/ txn[p].op = "renew" /\ CommitRenew(p)
           \/ txn[p].op = "report" /\ CommitReport(p)
           \/ txn[p].op = "deregister" /\ CommitDeregister(p)
    PROVE  PgInv'
<1> DEFINE t == txn[p]
<1>1. TxnOK(t) /\ t.op \in {"register", "renew", "report", "deregister"}
    BY DEF PgInv, TxnsOK
<1>2. t.key \in Keys /\ t.key.scope \in Scopes
    BY <1>1, PostgresAssumption DEF TxnOK
<1>3. /\ DOMAIN instances \subseteq Keys
      /\ instances \in [DOMAIN instances -> ServiceInstance]
      /\ counter[t.key.scope] + 1 \in Nat
    BY <1>2 DEF PgInv, PgTypeOK
<1>4. CASE t.op = "register" /\ CommitRegister(p)
    <2> DEFINE rev == counter[t.key.scope] + 1
               row == [lease_id |-> IF t.lease_id = None THEN rev ELSE t.lease_id,
                       expires_at_ms |-> t.expires_at_ms, revision |-> rev]
    <2>1. row \in ServiceInstance
        BY <1>1, <1>3, <1>4 DEF TxnOK, ServiceInstance
    <2>2. instances' = Put(instances, t.key, row)
        BY <1>4 DEF CommitRegister, REGISTER_INSTANCE, NEXT_REVISION
    <2>3. DOMAIN instances' \subseteq Keys /\ instances' \in [DOMAIN instances' -> ServiceInstance]
        BY <1>2, <1>3, <2>1, <2>2 DEF Put
    <2>4. /\ counter' \in [Scopes -> Nat]
          /\ \A e \in events' : e.scope \in Scopes /\ e.revision \in 1 .. counter'[e.scope]
        BY <1>2, <1>4, InsertEventFacts DEF CommitRegister
    <2> QED BY <1>4, <2>3, <2>4, RegistryCommit DEF CommitRegister
<1>5. CASE t.op = "renew" /\ CommitRenew(p)
    <2>1. t.key \in DOMAIN instances /\ t.expires_at_ms \in Nat
        BY <1>1, <1>5 DEF CommitRenew, Renewable, LiveAt, TxnOK
    <2>2. instances' = [instances EXCEPT ![t.key] =
              [instances[t.key] EXCEPT !.expires_at_ms = t.expires_at_ms,
                                       !.revision = counter[t.key.scope] + 1]]
        BY <1>5, <1>3, <2>1, Zenon DEF CommitRenew, NEXT_REVISION, ServiceInstance
    <2>3. DOMAIN instances' \subseteq Keys /\ instances' \in [DOMAIN instances' -> ServiceInstance]
        BY <1>3, <2>1, <2>2, Zenon DEF ServiceInstance
    <2>4. /\ counter' \in [Scopes -> Nat]
          /\ \A e \in events' : e.scope \in Scopes /\ e.revision \in 1 .. counter'[e.scope]
        BY <1>2, <1>5, InsertEventFacts DEF CommitRenew
    <2> QED BY <1>5, <2>3, <2>4, RegistryCommit DEF CommitRenew
<1>6. CASE t.op = "report" /\ CommitReport(p)
    <2>1. t.key \in DOMAIN instances
        BY <1>6 DEF CommitReport, Reportable, LiveAt
    <2>2. instances' = [k \in DOMAIN instances |->
                IF k = t.key THEN [instances[k] EXCEPT !.revision = counter[k.scope] + 1]
                ELSE instances[k]]
        BY <1>6 DEF CommitReport, NEXT_REVISION
    <2>3. DOMAIN instances' \subseteq Keys /\ instances' \in [DOMAIN instances' -> ServiceInstance]
        BY <1>3, <2>1, <2>2 DEF ServiceInstance
    <2>4. /\ counter' \in [Scopes -> Nat]
          /\ \A e \in events' : e.scope \in Scopes /\ e.revision \in 1 .. counter'[e.scope]
        BY <1>2, <1>6, InsertEventFacts DEF CommitReport
    <2> QED BY <1>6, <2>3, <2>4, RegistryCommit DEF CommitReport
<1>7. CASE t.op = "deregister" /\ CommitDeregister(p)
    <2>1. instances' = instances \/ instances' = Without(instances, {t.key})
        BY <1>7 DEF CommitDeregister
    <2>2. DOMAIN instances' \subseteq Keys /\ instances' \in [DOMAIN instances' -> ServiceInstance]
        BY <1>3, <2>1 DEF Without
    <2>3. /\ counter' \in [Scopes -> Nat]
          /\ \A e \in events' : e.scope \in Scopes /\ e.revision \in 1 .. counter'[e.scope]
        <3>1. CASE insert_event(t.key, "InstanceDeregistered")
            BY <1>2, <3>1, InsertEventFacts
        <3>2. CASE Advance(t.key.scope, {})
            BY <1>2, <3>2, AdvanceFacts
        <3> QED BY <1>7, <3>1, <3>2 DEF CommitDeregister
    <2> QED BY <1>7, <2>2, <2>3, RegistryCommit DEF CommitDeregister
<1> QED BY <1>4, <1>5, <1>6, <1>7

\* expire_instances: each row found has its own place among those of its scope.
LEMMA ExpiredCommits ==
    ASSUME PgInv, NEW p \in Procs, txn[p] # None, txn[p].op = "expire", CommitExpired(p), Done(p)
    PROVE  PgInv'
<1> DEFINE t == txn[p]
           ofScope(s) == {k \in t.found : k.scope = s}
           upTo(k) == {j \in ofScope(k.scope) : KeyRank[j] <= KeyRank[k]}
           gone == {k \in t.found : StillExpired(k, t.now)}
<1>1. t.found \in SUBSET Keys
    BY DEF PgInv, TxnsOK, TxnOK
<1>2. /\ counter' = [s \in Scopes |-> counter[s] + Cardinality(ofScope(s))]
      /\ events' = events \cup
            {Event(k, "InstanceDeregistered", counter[k.scope] + Cardinality(upTo(k))) : k \in gone}
      /\ instances' = Without(instances, gone)
      /\ UNCHANGED <<drafts, releases, idempotency>>
    BY DEF CommitExpired
<1>3. ASSUME NEW s \in Scopes
      PROVE  IsFiniteSet(ofScope(s)) /\ Cardinality(ofScope(s)) \in Nat
    BY <1>1, PostgresAssumption, FS_Subset, FS_CardinalityType
<1>4. ASSUME NEW k \in t.found
      PROVE  /\ k.scope \in Scopes
             /\ Cardinality(upTo(k)) \in 1 .. Cardinality(ofScope(k.scope))
    <2>1. k \in Keys /\ k.scope \in Scopes
        BY <1>1, PostgresAssumption
    <2>2. k \in upTo(k) /\ upTo(k) \in SUBSET ofScope(k.scope)
        BY <2>1, PostgresAssumption
    <2>3. IsFiniteSet(ofScope(k.scope)) /\ Cardinality(ofScope(k.scope)) \in Nat
        BY <1>3, <2>1
    <2> HIDE DEF upTo, ofScope
    <2>4. /\ IsFiniteSet(upTo(k)) /\ Cardinality(upTo(k)) \in Nat
          /\ Cardinality(upTo(k)) <= Cardinality(ofScope(k.scope))
        BY <2>2, <2>3, FS_Subset, FS_CardinalityType
    <2>5. Cardinality(upTo(k)) # 0
        BY <2>2, <2>4, FS_EmptySet
    <2> QED BY <2>1, <2>3, <2>4, <2>5
<1>5. counter \in [Scopes -> Nat]
    BY DEF PgInv, PgTypeOK
<1> HIDE DEF ofScope, upTo
<1>6. counter' \in [Scopes -> Nat]
      /\ \A s \in Scopes : counter'[s] = counter[s] + Cardinality(ofScope(s))
    BY <1>2, <1>3, <1>5
<1>7. ASSUME NEW e \in events'
      PROVE  e.scope \in Scopes /\ e.revision \in 1 .. counter'[e.scope]
    <2>1. CASE e \in events
        BY <1>3, <1>5, <1>6, <2>1 DEF PgInv, PgTypeOK, EventsScoped
    <2>2. CASE \E k \in gone :
                  e = Event(k, "InstanceDeregistered", counter[k.scope] + Cardinality(upTo(k)))
        <3>1. PICK k \in t.found :
                  e = Event(k, "InstanceDeregistered", counter[k.scope] + Cardinality(upTo(k)))
            BY <2>2
        <3>2. e.scope = k.scope /\ e.revision = counter[k.scope] + Cardinality(upTo(k))
            BY <3>1 DEF Event
        <3>3. counter[k.scope] \in Nat /\ counter'[k.scope] = counter[k.scope] + Cardinality(ofScope(k.scope))
            BY <1>4, <1>5, <1>6
        <3>4. Cardinality(ofScope(k.scope)) \in Nat
            BY <1>3, <1>4
        <3> QED BY <1>4, <3>2, <3>3, <3>4
    <2> QED BY <1>2, <2>1, <2>2
<1>8. DOMAIN instances' \subseteq Keys /\ instances' \in [DOMAIN instances' -> ServiceInstance]
    BY <1>2 DEF Without, PgInv, PgTypeOK
<1> QED BY <1>2, <1>6, <1>7, <1>8, RegistryCommit

\* A publish or a rollback adds one release and, under a key, the key's only record.
LEMMA ReleaseCommits ==
    ASSUME PgInv, NEW p \in Procs, txn[p] # None, Done(p),
           \/ txn[p].op = "publish" /\ CommitPublish(p)
           \/ txn[p].op = "rollback" /\ CommitRollback(p)
    PROVE  PgInv'
<1> DEFINE t == txn[p]
           rev == counter[ConfigScopeOf] + 1
           row == [release_id |-> rev, draft_id |-> t.draft_id, revision |-> rev, op |-> t.op, idem |-> t.idem]
<1> USE DEF CommitPublish, CommitRollback
<1>1. t.idem \in Contexts /\ t.draft_id \in Nat
    BY DEF PgInv, TxnsOK, TxnOK
<1>2. ConfigScopeOf \in Scopes /\ rev \in Nat
    BY PostgresAssumption DEF ConfigScopeOf, PgInv, PgTypeOK
<1>3. /\ releases' = releases \cup {row}
      /\ record_idempotency(t.op, t.idem, rev)
      /\ instances' = instances
    BY DEF INSERT_CONFIG_RELEASE_FROM_DRAFT, INSERT_CONFIG_RELEASE_FROM_RELEASE, ReleaseRow, NEXT_REVISION
<1>4. drafts' \in [DOMAIN drafts' -> BOOLEAN] /\ DOMAIN drafts' = DOMAIN drafts
    BY Zenon DEF MARK_DRAFT_PUBLISHED, PgInv, PgTypeOK
<1>5. TxnsOK' /\ clock' = clock
    BY <1>4, DoneKeepsTxns
<1>6. /\ counter' \in [Scopes -> Nat]
      /\ \A e \in events' : e.scope \in Scopes /\ e.revision \in 1 .. counter'[e.scope]
    <2>1. PICK kind : Advance(ConfigScopeOf, {ConfigEvent(kind, rev, rev)})
        BY DEF NEXT_REVISION
    <2>2. \A e \in {ConfigEvent(kind, rev, rev)} :
              e.scope = ConfigScopeOf /\ e.revision = counter[ConfigScopeOf] + 1
        BY DEF ConfigEvent
    <2> QED BY <1>2, <2>1, <2>2, AdvanceFacts
<1>7. row \in ConfigRelease /\ row.idem = t.idem /\ row.op = t.op /\ row.release_id = rev
    BY <1>1, <1>2 DEF ConfigRelease, Contexts
<1> HIDE DEF row, rev
<1>8. CASE t.idem = None
    <2>1. idempotency' = idempotency
        BY <1>3, <1>8 DEF record_idempotency
    <2>2. ReleasesRecorded' /\ OneReleasePerKey' /\ PgReplayTargetsExist'
        BY <1>3, <1>4, <1>7, <1>8, <2>1
           DEF PgInv, ReleasesRecorded, OneReleasePerKey, PgReplayTargetsExist
    <2>3. PgTypeOK'
        BY <1>3, <1>4, <1>5, <1>6, <1>7, <2>1 DEF PgInv, PgTypeOK, TxnsOK, TxnOK, Ops
    <2> QED BY <1>4, <1>5, <1>6, <2>2, <2>3 DEF PgInv, EventsScoped, DraftsOK
<1>9. CASE t.idem # None
    <2> DEFINE i == <<t.op, t.idem>>
    <2>1. /\ i \notin DOMAIN idempotency
          /\ idempotency' = Put(idempotency, i, rev)
        BY <1>3, <1>9 DEF record_idempotency, INSERT_IDEMPOTENCY_RECORD, Replayed
    <2>2. /\ DOMAIN idempotency' = DOMAIN idempotency \cup {i}
          /\ \A j \in DOMAIN idempotency : idempotency'[j] = idempotency[j]
          /\ idempotency'[i] = rev
        BY <2>1 DEF Put
    <2>3. ReleasesRecorded'
        BY <1>3, <1>7, <2>2 DEF PgInv, ReleasesRecorded
    <2>4. OneReleasePerKey'
        BY <1>3, <1>7, <2>1 DEF PgInv, ReleasesRecorded, OneReleasePerKey
    <2>5. PgReplayTargetsExist'
        BY <1>3, <1>4, <1>7, <2>2 DEF PgInv, PgReplayTargetsExist
    <2>6. DOMAIN idempotency' \subseteq {"draft", "publish", "rollback"} \X IdempotencyKeys
        BY <1>1, <1>9, <2>2 DEF PgInv, PgTypeOK, Contexts
    <2>7. PgTypeOK'
        BY <1>3, <1>4, <1>5, <1>6, <1>7, <2>6 DEF PgInv, PgTypeOK, TxnsOK, TxnOK, Ops
    <2> QED BY <1>4, <1>5, <1>6, <2>3, <2>4, <2>5, <2>7 DEF PgInv, EventsScoped, DraftsOK
<1> QED BY <1>8, <1>9

\* The two statements of create_config_draft: the draft is there before its record.
LEMMA DraftStatements ==
    ASSUME PgInv, NEW p \in Procs, txn[p] # None, txn[p].op = "draft", DraftStatement(p)
    PROVE  PgInv'
<1> DEFINE t == txn[p]
<1>1. /\ TxnOK(t) /\ t.idem \in Contexts /\ t.draft_id \in {None} \cup DOMAIN drafts
      /\ txn = [q \in Procs |-> txn[q]]
    BY DEF PgInv, TxnsOK, TxnOK
<1>2. CASE InsertDraft(p)
    <2> DEFINE n == Cardinality(DOMAIN drafts) + 1
    <2>1. n \in Nat
        BY FS_CardinalityType DEF PgInv, DraftsOK
    <2>2. drafts' = Put(drafts, n, FALSE) /\ UNCHANGED <<counter, instances, events, releases, idempotency, clock>>
        BY <1>2 DEF InsertDraft, INSERT_CONFIG_DRAFT, NewDraftId
    <2>3. DOMAIN drafts' = DOMAIN drafts \cup {n} /\ drafts' \in [DOMAIN drafts' -> BOOLEAN]
        BY <2>2, Zenon DEF Put, PgInv, PgTypeOK
    <2>4. DraftsOK'
        BY <2>1, <2>3, FS_AddElement DEF PgInv, DraftsOK
    <2>5. txn' = [txn EXCEPT ![p] = IF t.idem = None THEN None ELSE [t EXCEPT !.draft_id = n]]
        BY <1>2 DEF InsertDraft, NewDraftId
    <2>6. TxnsOK'
        <3>1. PICK u : u = [t EXCEPT !.draft_id = n]
            BY Zenon
        <3>2. TxnOK(u)'
            <4>1. t \in [op : {"draft"}, idem : Contexts, draft_id : {None} \cup DOMAIN drafts]
                BY <1>1 DEF TxnOK
            <4>2. u \in [op : {"draft"}, idem : Contexts, draft_id : {None} \cup DOMAIN drafts']
                BY <2>3, <3>1, <4>1
            <4> QED BY <4>2 DEF TxnOK, Ops, Contexts
        <3>3. ASSUME NEW q \in Procs, q # p, txn'[q] # None PROVE TxnOK(txn[q])'
            <4>1. txn'[q] = txn[q]
                BY <1>1, <2>5, <3>3
            <4> QED BY <2>2, <2>3, <3>3, <4>1, Zenon DEF PgInv, TxnsOK, TxnOK
        <3>4. txn' = [q \in Procs |-> txn'[q]] /\ (txn'[p] # None => txn'[p] = u)
            BY <1>1, <2>5, <3>1
        <3> QED BY <3>2, <3>3, <3>4 DEF TxnsOK, TxnOK
    <2>7. PgTypeOK'
        BY <2>2, <2>3, <2>6, Zenon DEF PgInv, PgTypeOK, TxnsOK, TxnOK, Ops
    <2> QED BY <2>2, <2>3, <2>4, <2>6, <2>7, Zenon
            DEF PgInv, EventsScoped, ReleasesRecorded, OneReleasePerKey, PgReplayTargetsExist
<1>3. CASE RecordDraft(p)
    <2>1. /\ t.draft_id \in DOMAIN drafts
          /\ record_idempotency("draft", t.idem, t.draft_id)
          /\ Done(p)
          /\ UNCHANGED <<counter, instances, events, drafts, releases>>
        BY <1>1, <1>3 DEF RecordDraft
    <2>2. TxnsOK' /\ clock' = clock
        BY <2>1, DoneKeepsTxns
    <2>3. /\ DOMAIN idempotency \subseteq DOMAIN idempotency'
          /\ DOMAIN idempotency' \subseteq {"draft", "publish", "rollback"} \X IdempotencyKeys
          /\ PgReplayTargetsExist'
        <3>1. CASE t.idem = None
            BY <2>1, <3>1 DEF record_idempotency, PgInv, PgTypeOK, PgReplayTargetsExist
        <3>2. CASE t.idem # None
            <4> DEFINE i == <<"draft", t.idem>>
            <4>1. /\ DOMAIN idempotency' = DOMAIN idempotency \cup {i}
                  /\ \A j \in DOMAIN idempotency' :
                        idempotency'[j] = IF j = i THEN t.draft_id ELSE idempotency[j]
                BY <2>1, <3>2 DEF record_idempotency, INSERT_IDEMPOTENCY_RECORD, Put
            <4> QED BY <1>1, <2>1, <3>2, <4>1 DEF PgInv, PgTypeOK, Contexts, PgReplayTargetsExist
        <3> QED BY <3>1, <3>2
    <2>4. PgTypeOK'
        BY <2>1, <2>2, <2>3 DEF PgInv, PgTypeOK, TxnsOK, TxnOK, Ops
    <2> QED BY <2>1, <2>2, <2>3, <2>4
            DEF PgInv, EventsScoped, DraftsOK, ReleasesRecorded, OneReleasePerKey
<1> QED BY <1>2, <1>3 DEF DraftStatement

-----------------------------------------------------------------------------
(* The theorems. *)

\* Every step of every process keeps the invariant.
LEMMA PgStep ==
    ASSUME PgInv, PgNext
    PROVE  PgInv'
<1>1. ASSUME NEW p \in Procs, ReadStep(p) PROVE PgInv'
    BY <1>1, ReadPreserves
<1>2. ASSUME NEW p \in Procs, txn[p] # None, Commit(p) PROVE PgInv'
    <2>1. Done(p)
        BY <1>2 DEF Commit
    <2>2. CASE txn[p].op = "gc" /\ CommitGc(p)
        <3>1. events' \subseteq events /\ UNCHANGED <<counter, instances, drafts, releases, idempotency>>
            BY <2>2 DEF CommitGc
        <3> QED BY <1>2, <2>1, <3>1, RegistryCommit DEF PgInv, PgTypeOK, EventsScoped
    <2> QED BY <1>2, <2>1, <2>2, RowCommits, ExpiredCommits, ReleaseCommits DEF Commit
<1>3. ASSUME NEW p \in Procs, txn[p] # None, txn[p].op = "draft", DraftStatement(p) PROVE PgInv'
    BY <1>3, DraftStatements
<1>4. ASSUME NEW p \in Procs, Abort(p) PROVE PgInv'
    BY <1>4, RegistryCommit DEF Abort, tables, PgInv, PgTypeOK, EventsScoped
<1>5. ASSUME NEW scope \in Scopes, Compact(scope) PROVE PgInv'
    <2>1. /\ events' \subseteq events
          /\ UNCHANGED <<counter, instances, drafts, releases, idempotency, txn, clock>>
        BY <1>5 DEF Compact, COMPACT_WATCH_EVENTS
    <2> QED BY <2>1 DEF PgInv, PgTypeOK, EventsScoped, TxnsOK, TxnOK, DraftsOK, ReleasesRecorded,
                        OneReleasePerKey, PgReplayTargetsExist
<1>6. CASE Tick
    <2>1. clock' \in 0 .. MaxClock /\ clock <= clock' /\ clock \in Nat /\ UNCHANGED <<tables, txn>>
        BY <1>6, PostgresAssumption DEF Tick, PgInv, PgTypeOK
    <2>2. TxnsOK'
        BY <2>1 DEF PgInv, TxnsOK, TxnOK, tables
    <2> QED BY <2>1, <2>2 DEF PgInv, PgTypeOK, EventsScoped, DraftsOK, ReleasesRecorded,
                        OneReleasePerKey, PgReplayTargetsExist, tables
<1> QED BY <1>1, <1>2, <1>3, <1>4, <1>5, <1>6 DEF PgNext

\* The inductive invariant of the shared database, for any number of processes whose
\* transactions interleave between their reads and their commits, or fail there.
THEOREM PgInvariance == PgSpec => []PgInv
<1>1. PgInit => PgInv
    <2> SUFFICES ASSUME PgInit PROVE PgInv
        OBVIOUS
    <2>1. DOMAIN << >> = {}
        OBVIOUS
    <2>2. DOMAIN instances = {} /\ DOMAIN drafts = {} /\ DOMAIN idempotency = {}
        BY <2>1 DEF PgInit
    <2>3. PgTypeOK
        BY <2>2, PostgresAssumption DEF PgInit, PgTypeOK
    <2> QED BY <2>2, <2>3, FS_EmptySet
            DEF PgInit, PgInv, TxnsOK, EventsScoped, DraftsOK, ReleasesRecorded, OneReleasePerKey,
                PgReplayTargetsExist
<1>2. PgInv /\ [PgNext]_pgVars => PgInv'
    <2> SUFFICES ASSUME PgInv, [PgNext]_pgVars PROVE PgInv'
        OBVIOUS
    <2>1. CASE PgNext
        BY <2>1, PgStep
    <2>2. CASE UNCHANGED pgVars
        BY <2>2 DEF pgVars, tables, PgInv, PgTypeOK, EventsScoped, TxnsOK, TxnOK, DraftsOK,
                    ReleasesRecorded, OneReleasePerKey, PgReplayTargetsExist
    <2> QED BY <2>1, <2>2
<1> QED BY <1>1, <1>2, PTL DEF PgSpec

\* The tables keep their types, and no event is ahead of its scope's counter.
THEOREM PgTypeCorrect == PgSpec => []PgTypeOK
BY PgInvariance, PTL DEF PgInv

\* The idempotency table's unique constraint, checked in the transaction that makes the
\* release, is enough: retries racing on any number of processes make one release.
THEOREM RetriesMakeOneRelease == PgSpec => []OneReleasePerKey
BY PgInvariance, PTL DEF PgInv

\* A record never names what is not there, because create_config_draft writes the draft
\* before its record and a release commits together with its own.
THEOREM RecordsNameResources == PgSpec => []PgReplayTargetsExist
BY PgInvariance, PTL DEF PgInv

\* EXPIRE_INSTANCE looks at the row again, so a list of expired rows that a renewal has
\* made stale takes no live row away: only deregister_instance does.
THEOREM PgLeasesAreHonoured == PgSpec => PgLeaseHonoured
<1> DEFINE Honoured == \A k \in DOMAIN instances : LiveAt(k, clock) /\ k \notin DOMAIN instances'
              => \E p \in Procs : txn[p] # None /\ txn[p].op = "deregister" /\ txn[p].key = k
<1>1. PgInv /\ [PgNext]_pgVars => [Honoured]_pgVars
    <2> SUFFICES ASSUME PgInv, PgNext, NEW k \in DOMAIN instances, LiveAt(k, clock),
                        k \notin DOMAIN instances'
                 PROVE  \E p \in Procs : txn[p] # None /\ txn[p].op = "deregister" /\ txn[p].key = k
        OBVIOUS
    <2>1. instances' # instances
        OBVIOUS
    <2>2. PICK p \in Procs : txn[p] # None /\ Commit(p)
        BY <2>1 DEF PgNext, ReadStep, ReadRegister, ReadRenew, ReadReport, ReadDeregister, ReadExpired,
                    ReadDraft, ReadPublish, ReadRollback, ReadHorizon, Begin, Abort, Done, tables,
                    DraftStatement, InsertDraft, RecordDraft, Compact, Tick
    <2>3. CASE txn[p].op = "register" /\ CommitRegister(p)
        BY <2>3 DEF CommitRegister, REGISTER_INSTANCE, Put
    <2>4. CASE txn[p].op = "renew" /\ CommitRenew(p)
        BY <2>4 DEF CommitRenew
    <2>5. CASE txn[p].op = "report" /\ CommitReport(p)
        BY <2>5 DEF CommitReport
    <2>6. CASE txn[p].op = "deregister" /\ CommitDeregister(p)
        BY <2>1, <2>2, <2>6 DEF CommitDeregister, Without
    <2>7. CASE txn[p].op = "expire" /\ CommitExpired(p)
        <3>1. StillExpired(k, txn[p].now)
            BY <2>7 DEF CommitExpired, Without
        <3>2. txn[p].now \in 0 .. clock /\ clock \in Nat
            BY <2>2, <2>7, PostgresAssumption DEF PgInv, TxnsOK, TxnOK, PgTypeOK
        <3>3. instances[k].expires_at_ms \in Nat
            BY DEF PgInv, PgTypeOK, ServiceInstance
        <3> QED BY <3>1, <3>2, <3>3 DEF StillExpired, LiveAt
    <2> QED BY <2>1, <2>2, <2>3, <2>4, <2>5, <2>6, <2>7, Zenon
            DEF Commit, CommitPublish, CommitRollback, CommitGc
<1> QED BY <1>1, PgInvariance, PTL DEF PgSpec, PgLeaseHonoured

-----------------------------------------------------------------------------
(***************************************************************************)
(* The store implements ServiceRegistry for each scope: a commit is one    *)
(* step of the promise, whatever other processes committed since its       *)
(* reads.                                                                  *)
(***************************************************************************)

\* The refinement mapping.
Rows ==
    [k \in OfScope(DOMAIN instances) |->
        [revision |-> instances[k].revision, live |-> LiveAt(k, clock)]]

\* What watchers of the scope see, or nothing of it, changes.
Maps == Registry!PromiseNext \/ UNCHANGED Registry!promiseVars

-----------------------------------------------------------------------------
(* The steps of the promise. *)

\* Nothing of the scope changes.
LEMMA ElsewhereIsUnseen ==
    ASSUME counter'[WatchScope] = counter[WatchScope], OfScope(events') = OfScope(events),
           UNCHANGED clock,
           \A k : k.scope = WatchScope =>
              /\ k \in DOMAIN instances' <=> k \in DOMAIN instances
              /\ k \in DOMAIN instances => instances'[k] = instances[k]
    PROVE  UNCHANGED Registry!promiseVars
<1>1. OfScope(DOMAIN instances') = OfScope(DOMAIN instances)
    BY DEF OfScope
<1>2. \A k \in OfScope(DOMAIN instances) : k \in DOMAIN instances /\ k \in DOMAIN instances' /\ instances'[k] = instances[k]
    BY DEF OfScope
<1>3. Rows' = Rows
    BY <1>1, <1>2 DEF Rows, LiveAt
<1>4. OfScope(events)' = OfScope(events)
    BY DEF OfScope
<1> QED BY <1>3, <1>4 DEF Registry!promiseVars, Rows

\* insert_event, for watchers of the scope.
LEMMA InsertedEvent ==
    ASSUME PgInv, NEW k \in Keys, NEW kind, insert_event(k, kind)
    PROVE  IF k.scope = WatchScope
           THEN /\ counter'[WatchScope] = counter[WatchScope] + 1
                /\ OfScope(events') = OfScope(events) \cup {Event(k, kind, counter[WatchScope] + 1)}
           ELSE /\ counter'[WatchScope] = counter[WatchScope]
                /\ OfScope(events') = OfScope(events)
<1>1. /\ counter' = [counter EXCEPT ![k.scope] = counter[k.scope] + 1]
      /\ events' = events \cup {Event(k, kind, counter[k.scope] + 1)}
    BY DEF insert_event, Advance, NEXT_REVISION
<1>2. counter \in [Scopes -> Nat] /\ WatchScope \in Scopes /\ k.scope \in Scopes
    BY PostgresAssumption DEF PgInv, PgTypeOK
<1>3. Event(k, kind, counter[k.scope] + 1).scope = k.scope
    BY DEF Event
<1> QED BY <1>1, <1>2, <1>3 DEF OfScope

\* One row is written, one event logged: registering, renewing, reporting.
LEMMA OneRowMaps ==
    ASSUME PgInv, NEW k \in Keys, NEW kind \in {"InstanceRegistered", "InstanceUpdated", "InstanceRenewed",
               "InstanceStatusReported"},
           insert_event(k, kind), UNCHANGED clock,
           DOMAIN instances' = DOMAIN instances \cup {k},
           instances'[k].revision = counter[k.scope] + 1,
           \A j \in DOMAIN instances \ {k} : instances'[j] = instances[j]
    PROVE  Maps
<1>1. CASE k.scope # WatchScope
    BY <1>1, InsertedEvent, ElsewhereIsUnseen DEF Maps
<1>2. CASE k.scope = WatchScope
    <2>1. PICK live \in BOOLEAN : live = (k \in DOMAIN instances' /\ instances'[k].expires_at_ms > clock')
        BY Zenon
    <2>2. OfScope(DOMAIN instances') = OfScope(DOMAIN instances) \cup {k}
        BY <1>2 DEF OfScope
    <2>3. \A j \in OfScope(DOMAIN instances) \ {k} :
              j \in DOMAIN instances /\ j \in DOMAIN instances' /\ instances'[j] = instances[j]
        BY DEF OfScope
    <2>4. Rows' = [j \in OfScope(DOMAIN instances) \cup {k} |->
                     IF j = k THEN [revision |-> counter[WatchScope] + 1, live |-> live] ELSE Rows[j]]
        BY <1>2, <2>1, <2>2, <2>3, Zenon DEF Rows, LiveAt
    <2>5. DOMAIN Rows = OfScope(DOMAIN instances)
        BY DEF Rows
    <2>6. /\ counter'[WatchScope] = counter[WatchScope] + 1
          /\ OfScope(events') = OfScope(events) \cup {Event(k, kind, counter[WatchScope] + 1)}
        BY <1>2, InsertedEvent
    <2>7. OfScope(events)' = OfScope(events) \cup {Event(k, kind, counter[WatchScope] + 1)}
        BY <2>6 DEF OfScope
    <2>8. Registry!Upsert(k, kind, live)
        BY <2>4, <2>5, <2>6, <2>7, Zenon DEF Registry!Upsert, Registry!next_revision, Registry!InstanceEvent,
                                                Event, Rows
    <2> QED BY <2>8 DEF Maps, Registry!PromiseNext, Registry!InstanceKinds
<1> QED BY <1>1, <1>2

\* Rows of the scope go, numbered one by one; numbers may be left over.
LEMMA RemovalMaps ==
    ASSUME PgInv, NEW S \in SUBSET OfScope(DOMAIN instances), NEW number \in [S -> Nat \ {0}],
           NEW n \in Nat, \A k \in S : number[k] <= n,
           \A j, k \in S : number[j] = number[k] => j = k,
           counter'[WatchScope] = counter[WatchScope] + n,
           OfScope(events') = OfScope(events) \cup
               {Event(k, "InstanceDeregistered", counter[WatchScope] + number[k]) : k \in S},
           OfScope(DOMAIN instances') = OfScope(DOMAIN instances) \ S,
           \A j \in OfScope(DOMAIN instances) \ S : instances'[j] = instances[j],
           UNCHANGED clock
    PROVE  Maps
<1> DEFINE revisionOf == [k \in S |-> counter[WatchScope] + number[k]]
<1>1. counter[WatchScope] \in Nat
    BY PostgresAssumption DEF PgInv, PgTypeOK
<1>2. revisionOf \in [S -> counter[WatchScope] + 1 .. counter'[WatchScope]]
    BY <1>1
<1>3. \A j, k \in S : revisionOf[j] = revisionOf[k] => j = k
    BY <1>1
<1>4. Rows' = [j \in OfScope(DOMAIN instances) \ S |-> Rows[j]]
    <2>1. \A j \in OfScope(DOMAIN instances) \ S : j \in DOMAIN instances /\ j \in DOMAIN instances'
        BY DEF OfScope
    <2> QED BY <2>1 DEF Rows, LiveAt
<1>5. DOMAIN Rows = OfScope(DOMAIN instances)
    BY DEF Rows
<1>6. OfScope(events)' = OfScope(events) \cup {Event(k, "InstanceDeregistered", revisionOf[k]) : k \in S}
    BY DEF OfScope
<1> HIDE DEF revisionOf
<1>7. Registry!Remove(S, revisionOf, counter'[WatchScope])
    <2>1. S \subseteq DOMAIN Rows /\ counter'[WatchScope] >= counter[WatchScope]
        BY <1>1, <1>5
    <2>2. OfScope(events)' = OfScope(events)
              \cup {Registry!InstanceEvent(k, "InstanceDeregistered", revisionOf[k]) : k \in S}
        BY <1>6 DEF Registry!InstanceEvent, Event
    <2>3. Rows' = [j \in DOMAIN Rows \ S |-> Rows[j]]
        BY <1>4, <1>5
    <2>4. revisionOf \in [S -> Registry!next_revision .. counter'[WatchScope]]
        BY <1>2 DEF Registry!next_revision
    <2> QED BY <1>3, <2>1, <2>2, <2>3, <2>4, Zenon DEF Registry!Remove, Rows
<1>8. \E f \in [S -> counter[WatchScope] + 1 .. counter'[WatchScope]] :
          Registry!Remove(S, f, counter'[WatchScope])
    BY <1>2, <1>7
<1> QED BY <1>5, <1>8, Zenon DEF Maps, Registry!PromiseNext, Registry!next_revision, Rows

\* The log is cut down, resource by resource, to its later part.
LEMMA CutMaps ==
    ASSUME UNCHANGED <<counter, instances, clock>>, events' \subseteq events,
           \A e \in events', f \in events :
              e.scope = f.scope /\ e.resource_id = f.resource_id /\ e.revision < f.revision
                => f \in events'
    PROVE  Maps
<1>1. OfScope(events)' = OfScope(events')
    BY DEF OfScope
<1>2. Rows' = Rows
    BY DEF Rows, OfScope, LiveAt
<1>3. Registry!Trim
    BY <1>1, <1>2 DEF Registry!Trim, OfScope, Rows
<1> QED BY <1>3 DEF Maps, Registry!PromiseNext

\* A revision is taken for the configuration, or for a row that has gone meanwhile.
LEMMA OtherMaps ==
    ASSUME PgInv, NEW scope \in Scopes, NEW new, Advance(scope, new), UNCHANGED <<instances, clock>>,
           \A e \in new : /\ e.kind \in {"ConfigPublished", "ConfigRolledBack"}
                          /\ e.scope = scope /\ e.revision = counter[scope] + 1
    PROVE  Maps
<1>1. /\ counter' = [counter EXCEPT ![scope] = counter[scope] + 1] /\ events' = events \cup new
      /\ counter \in [Scopes -> Nat] /\ WatchScope \in Scopes
    BY PostgresAssumption DEF Advance, NEXT_REVISION, PgInv, PgTypeOK
<1>2. CASE scope # WatchScope
    <2>1. OfScope(events') = OfScope(events)
        BY <1>1, <1>2 DEF OfScope
    <2> QED BY <1>1, <1>2, <2>1, ElsewhereIsUnseen DEF Maps
<1>3. CASE scope = WatchScope
    <2>1. /\ OfScope(events)' = OfScope(events) \cup (OfScope(events)' \ OfScope(events))
          /\ \A e \in OfScope(events)' \ OfScope(events) : e \in new
        BY <1>1 DEF OfScope
    <2>2. Rows' = Rows
        BY DEF Rows, OfScope, LiveAt
    <2>3. counter'[WatchScope] = counter[WatchScope] + 1
        BY <1>1, <1>3
    <2>4. Registry!OtherChange(OfScope(events)' \ OfScope(events))
        BY <1>3, <2>1, <2>2, <2>3
           DEF Registry!OtherChange, Registry!next_revision, Registry!ConfigKinds, Rows
    <2> QED BY <2>4, Zenon DEF Maps, Registry!PromiseNext
<1> QED BY <1>2, <1>3

\* The clock moves on, and leases run out under it.
LEMMA TickMaps ==
    ASSUME PgInv, Tick
    PROVE  Maps
<1> DEFINE D == OfScope(DOMAIN instances)
<1>1. UNCHANGED <<counter, events, instances>> /\ clock \in Nat /\ clock' = clock + 1
    BY PostgresAssumption DEF Tick, tables, PgInv, PgTypeOK
<1>2. PICK S \in SUBSET D : S = {k \in D : instances[k].expires_at_ms <= clock'}
    BY Zenon
<1>3. \A k \in D : k \in DOMAIN instances /\ instances[k].expires_at_ms \in Nat
    BY DEF PgInv, PgTypeOK, ServiceInstance, OfScope
<1>4. /\ \A k \in S : (instances[k].expires_at_ms > clock') = FALSE
      /\ \A k \in D \ S : /\ (instances[k].expires_at_ms > clock') = TRUE
                          /\ LiveAt(k, clock) = TRUE
    BY <1>1, <1>2, <1>3 DEF LiveAt
<1>5. Rows = [k \in D |-> [revision |-> instances[k].revision, live |-> LiveAt(k, clock)]]
    BY DEF Rows
<1>6. Rows' = [k \in D |-> [revision |-> instances[k].revision, live |-> instances[k].expires_at_ms > clock']]
    BY <1>1, <1>3 DEF Rows, LiveAt, OfScope
<1> HIDE DEF D
<1>7. Rows' = [j \in D |-> IF j \in S THEN [revision |-> Rows[j].revision, live |-> FALSE] ELSE Rows[j]]
    <2>1. \A k \in S : Rows'[k] = [revision |-> Rows[k].revision, live |-> FALSE]
        BY <1>4, <1>5, <1>6, Zenon
    <2>2. \A k \in D \ S : Rows'[k] = Rows[k]
        BY <1>4, <1>5, <1>6, Zenon
    <2>3. Rows' = [k \in D |-> Rows'[k]]
        BY <1>6
    <2> QED BY <2>1, <2>2, <2>3, Zenon
<1>8. DOMAIN Rows = D /\ OfScope(events)' = OfScope(events)
    BY <1>1, <1>5 DEF OfScope
<1>9. Registry!Lapse(S)
    BY <1>1, <1>7, <1>8 DEF Registry!Lapse, Rows
<1> QED BY <1>8, <1>9 DEF Maps, Registry!PromiseNext, Rows

-----------------------------------------------------------------------------
(* The commits. *)

\* Registering, renewing and reporting.
LEMMA WritesMap ==
    ASSUME PgInv, NEW p \in Procs, txn[p] # None, Done(p),
           \/ txn[p].op = "register" /\ CommitRegister(p)
           \/ txn[p].op = "renew" /\ CommitRenew(p)
           \/ txn[p].op = "report" /\ CommitReport(p)
    PROVE  Maps
<1>1. PICK k \in Keys : k = txn[p].key
    BY DEF PgInv, TxnsOK, TxnOK
<1>2. UNCHANGED clock /\ instances \in [DOMAIN instances -> ServiceInstance]
    BY DEF Done, PgInv, PgTypeOK
<1>3. CASE txn[p].op = "register" /\ CommitRegister(p)
    <2>1. PICK kind \in {"InstanceRegistered", "InstanceUpdated"} : insert_event(k, kind)
        BY <1>1, <1>3 DEF CommitRegister
    <2>2. /\ DOMAIN instances' = DOMAIN instances \cup {k}
          /\ instances'[k].revision = counter[k.scope] + 1
          /\ \A j \in DOMAIN instances \ {k} : instances'[j] = instances[j]
        BY <1>1, <1>3 DEF CommitRegister, REGISTER_INSTANCE, Put, NEXT_REVISION
    <2> QED BY <1>2, <2>1, <2>2, OneRowMaps
<1>4. CASE txn[p].op = "renew" /\ CommitRenew(p)
    <2>1. k \in DOMAIN instances /\ insert_event(k, "InstanceRenewed")
        BY <1>1, <1>4 DEF CommitRenew, Renewable, LiveAt
    <2>2. /\ DOMAIN instances' = DOMAIN instances \cup {k}
          /\ instances'[k].revision = counter[k.scope] + 1
          /\ \A j \in DOMAIN instances \ {k} : instances'[j] = instances[j]
        BY <1>1, <1>2, <1>4, <2>1, Zenon DEF CommitRenew, NEXT_REVISION, ServiceInstance
    <2> QED BY <1>2, <2>1, <2>2, OneRowMaps
<1>5. CASE txn[p].op = "report" /\ CommitReport(p)
    <2>1. k \in DOMAIN instances /\ insert_event(k, "InstanceStatusReported")
        BY <1>1, <1>5 DEF CommitReport, Reportable, LiveAt
    <2>2. /\ DOMAIN instances' = DOMAIN instances \cup {k}
          /\ instances'[k].revision = counter[k.scope] + 1
          /\ \A j \in DOMAIN instances \ {k} : instances'[j] = instances[j]
        BY <1>1, <1>2, <1>5, <2>1, Zenon DEF CommitReport, NEXT_REVISION, ServiceInstance
    <2> QED BY <1>2, <2>1, <2>2, OneRowMaps
<1> QED BY <1>3, <1>4, <1>5

\* Deregistering: the row goes, or has gone and a revision stays unused.
LEMMA DeregisterMaps ==
    ASSUME PgInv, NEW p \in Procs, txn[p] # None, Done(p), txn[p].op = "deregister", CommitDeregister(p)
    PROVE  Maps
<1>1. PICK k \in Keys : k = txn[p].key
    BY DEF PgInv, TxnsOK, TxnOK
<1>2. UNCHANGED clock /\ k.scope \in Scopes
    BY PostgresAssumption DEF Done
<1>3. CASE ~Deregisterable(txn[p])
    <2>1. Advance(k.scope, {}) /\ UNCHANGED instances
        BY <1>1, <1>3 DEF CommitDeregister
    <2> QED BY <1>2, <2>1, OtherMaps
<1>4. CASE Deregisterable(txn[p])
    <2>1. insert_event(k, "InstanceDeregistered") /\ instances' = Without(instances, {k}) /\ k \in DOMAIN instances
        BY <1>1, <1>4 DEF CommitDeregister, Deregisterable, LiveAt
    <2>2. DOMAIN instances' = DOMAIN instances \ {k} /\ \A j \in DOMAIN instances \ {k} : instances'[j] = instances[j]
        BY <2>1 DEF Without
    <2>3. CASE k.scope # WatchScope
        BY <1>2, <2>1, <2>2, <2>3, InsertedEvent, ElsewhereIsUnseen DEF Maps
    <2>4. CASE k.scope = WatchScope
        <3>1. PICK number : number = [j \in {k} |-> 1]
            BY Zenon
        <3>2. /\ number \in [{k} -> Nat \ {0}] /\ \A j \in {k} : number[j] <= 1
              /\ \A i, j \in {k} : number[i] = number[j] => i = j
            BY <3>1
        <3>3. /\ {k} \in SUBSET OfScope(DOMAIN instances)
              /\ OfScope(DOMAIN instances') = OfScope(DOMAIN instances) \ {k}
              /\ \A j \in OfScope(DOMAIN instances) \ {k} : instances'[j] = instances[j]
            BY <2>1, <2>2, <2>4 DEF OfScope
        <3>4. /\ counter'[WatchScope] = counter[WatchScope] + 1
              /\ OfScope(events') = OfScope(events) \cup
                    {Event(j, "InstanceDeregistered", counter[WatchScope] + number[j]) : j \in {k}}
            BY <2>1, <2>4, <3>1, InsertedEvent
        <3> QED BY <1>2, <3>2, <3>3, <3>4, RemovalMaps
    <2> QED BY <2>3, <2>4
<1> QED BY <1>3, <1>4

\* The place of a key among those of S.
Place(S, k) == Cardinality({j \in S : KeyRank[j] <= KeyRank[k]})

\* Places are different, and run from one to the number of keys.
LEMMA Places ==
    ASSUME NEW S \in SUBSET Keys
    PROVE  /\ Cardinality(S) \in Nat
           /\ \A k \in S : Place(S, k) \in Nat \ {0} /\ Place(S, k) <= Cardinality(S)
           /\ \A j, k \in S : Place(S, j) = Place(S, k) => j = k
<1> DEFINE below(k) == {j \in S : KeyRank[j] <= KeyRank[k]}
<1>1. IsFiniteSet(S) /\ Cardinality(S) \in Nat
    BY PostgresAssumption, FS_Subset, FS_CardinalityType
<1>2. ASSUME NEW k \in S
      PROVE  below(k) \in SUBSET S /\ k \in below(k)
    BY PostgresAssumption
<1>3. ASSUME NEW j \in S, NEW k \in S, KeyRank[j] < KeyRank[k]
      PROVE  below(j) \in SUBSET below(k) /\ k \notin below(j)
    BY <1>3, PostgresAssumption
<1>4. \A k \in S : Place(S, k) = Cardinality(below(k))
    BY DEF Place
<1> HIDE DEF below
<1>5. ASSUME NEW k \in S
      PROVE  /\ IsFiniteSet(below(k)) /\ Cardinality(below(k)) \in Nat \ {0}
             /\ Cardinality(below(k)) <= Cardinality(S)
    BY <1>1, <1>2, FS_Subset, FS_CardinalityType, FS_EmptySet
<1>6. ASSUME NEW j \in S, NEW k \in S, KeyRank[j] < KeyRank[k]
      PROVE  Cardinality(below(j)) # Cardinality(below(k))
    <2>1. below(j) # below(k)
        BY <1>2, <1>3, <1>6
    <2> QED BY <1>3, <1>5, <1>6, <2>1, FS_Subset
<1>7. ASSUME NEW j \in S, NEW k \in S, Place(S, j) = Place(S, k)
      PROVE  j = k
    <2>1. ~(KeyRank[j] < KeyRank[k]) /\ ~(KeyRank[k] < KeyRank[j])
        BY <1>4, <1>6, <1>7
    <2>2. KeyRank[j] \in Nat /\ KeyRank[k] \in Nat
        BY PostgresAssumption
    <2> QED BY <2>1, <2>2, PostgresAssumption
<1> QED BY <1>1, <1>4, <1>5, <1>7

\* The expiry scan: rows of the scope that are still expired go, each at its place
\* among those of the scope that the scan found.
LEMMA ExpireMaps ==
    ASSUME PgInv, NEW p \in Procs, txn[p] # None, Done(p), txn[p].op = "expire", CommitExpired(p)
    PROVE  Maps
<1>1. PICK found \in SUBSET Keys : found = txn[p].found
    BY DEF PgInv, TxnsOK, TxnOK
<1>2. PICK mine \in SUBSET Keys : mine = {k \in found : k.scope = WatchScope}
    BY <1>1, Zenon
<1>3. PICK gone \in SUBSET found : gone = {k \in found : StillExpired(k, txn[p].now)}
    BY <1>1, Zenon
<1>4. PICK S \in SUBSET mine : S = {k \in gone : k.scope = WatchScope}
    BY <1>2, <1>3, Zenon
<1>5. PICK number : number = [k \in S |-> Place(mine, k)]
    BY Zenon
<1>6. /\ number \in [S -> Nat \ {0}] /\ Cardinality(mine) \in Nat
      /\ \A k \in S : number[k] <= Cardinality(mine)
      /\ \A j, k \in S : number[j] = number[k] => j = k
    BY <1>5, Places, Zenon
<1>7. counter'[WatchScope] = counter[WatchScope] + Cardinality(mine)
    BY <1>1, <1>2, PostgresAssumption DEF CommitExpired
<1>8. events' = events \cup
        {Event(k, "InstanceDeregistered",
               counter[k.scope] + Cardinality({j \in {i \in found : i.scope = k.scope} : KeyRank[j] <= KeyRank[k]}))
            : k \in gone}
    BY <1>1, <1>3, Zenon DEF CommitExpired
<1>9. OfScope(events') = OfScope(events) \cup
        {Event(k, "InstanceDeregistered", counter[WatchScope] + number[k]) : k \in S}
    <2> DEFINE at(k) == Cardinality({j \in {i \in found : i.scope = k.scope} : KeyRank[j] <= KeyRank[k]})
               told(k) == Event(k, "InstanceDeregistered", counter[k.scope] + at(k))
    <2>1. \A k \in S : at(k) = number[k] /\ k.scope = WatchScope
        BY <1>2, <1>4, <1>5 DEF Place
    <2>2. \A k \in S : told(k) = Event(k, "InstanceDeregistered", counter[WatchScope] + number[k])
        BY <2>1
    <2>3. \A k \in gone : told(k).scope = k.scope
        BY DEF Event
    <2>4. events' = events \cup {told(k) : k \in gone}
        BY <1>8
    <2> HIDE DEF told
    <2>5. OfScope(events') = OfScope(events) \cup {told(k) : k \in S}
        BY <1>4, <2>3, <2>4 DEF OfScope
    <2> QED BY <2>2, <2>5
<1>10. instances' = Without(instances, gone) /\ UNCHANGED clock /\ gone \subseteq DOMAIN instances
    BY <1>1, <1>3 DEF CommitExpired, Done, StillExpired
<1>11. /\ S \in SUBSET OfScope(DOMAIN instances)
       /\ OfScope(DOMAIN instances') = OfScope(DOMAIN instances) \ S
       /\ \A j \in OfScope(DOMAIN instances) \ S : instances'[j] = instances[j]
    BY <1>4, <1>10 DEF OfScope, Without
<1> QED BY <1>6, <1>7, <1>9, <1>10, <1>11, RemovalMaps

\* The collector deletes a prefix of the whole table, and so of every scope.
LEMMA GcMaps ==
    ASSUME PgInv, IsFiniteSet(events), NEW p \in Procs, txn[p] # None, Done(p), txn[p].op = "gc", CommitGc(p)
    PROVE  Maps
<1>1. PICK horizon \in Int : horizon = txn[p].horizon
    BY DEF PgInv, TxnsOK, TxnOK
<1> DEFINE low == {e \in events : e.revision <= horizon}
           before(e) == {f \in low : f.revision < e.revision}
<1>2. /\ events' = events \ {e \in low : Cardinality(before(e)) < GcBatch}
      /\ UNCHANGED <<counter, instances, clock>>
    <2>1. \A e : before(e) = {f \in events : f.revision <= horizon /\ f.revision < e.revision}
        OBVIOUS
    <2> QED BY <1>1, <2>1 DEF CommitGc, OldestRows, Done
<1>3. ASSUME NEW e \in events', NEW f \in events, e.revision < f.revision, f \notin events'
      PROVE  FALSE
    <2>1. e \in events /\ \A g \in events : g.revision \in Nat
        BY <1>2 DEF PgInv, PgTypeOK, EventsScoped
    <2>2. f \in low /\ Cardinality(before(f)) < GcBatch
        BY <1>2, <1>3
    <2>3. e \in low /\ before(e) \in SUBSET before(f) /\ before(f) \in SUBSET events
        BY <1>3, <2>1, <2>2
    <2>4. ~(Cardinality(before(e)) < GcBatch)
        BY <1>2, <2>3
    <2> HIDE DEF before
    <2>5. /\ Cardinality(before(e)) <= Cardinality(before(f))
          /\ Cardinality(before(e)) \in Nat /\ Cardinality(before(f)) \in Nat
        BY <2>3, FS_Subset, FS_CardinalityType
    <2> QED BY <2>2, <2>4, <2>5, PostgresAssumption
<1> QED BY <1>2, <1>3, CutMaps

\* Compaction keeps the later events of each resource id of a scope.
LEMMA CompactMaps ==
    ASSUME PgInv, IsFiniteSet(events), NEW scope \in Scopes, Compact(scope)
    PROVE  Maps
<1> DEFINE later(e) == {f \in events : f.scope = scope /\ f.resource_id = e.resource_id
                                         /\ f.revision > e.revision}
<1>1. /\ events' = {e \in events : e.scope = scope => Cardinality(later(e)) < CompactKeep}
      /\ UNCHANGED <<counter, instances, clock>>
    BY DEF Compact, COMPACT_WATCH_EVENTS
<1>2. ASSUME NEW e \in events', NEW f \in events, e.scope = f.scope, e.resource_id = f.resource_id,
             e.revision < f.revision, f.scope = scope
      PROVE  Cardinality(later(f)) < CompactKeep
    <2>1. e \in events /\ \A g \in events : g.revision \in Nat
        BY <1>1 DEF PgInv, PgTypeOK, EventsScoped
    <2>2. Cardinality(later(e)) < CompactKeep
        BY <1>1, <1>2
    <2>3. later(f) \in SUBSET later(e) /\ later(e) \in SUBSET events
        BY <1>2, <2>1
    <2> HIDE DEF later
    <2>4. /\ Cardinality(later(f)) <= Cardinality(later(e))
          /\ Cardinality(later(f)) \in Nat /\ Cardinality(later(e)) \in Nat
        BY <2>3, FS_Subset, FS_CardinalityType
    <2> QED BY <2>2, <2>4, PostgresAssumption
<1> HIDE DEF later
<1> QED BY <1>1, <1>2, CutMaps

\* Publishing and rolling back.
LEMMA ReleasesMap ==
    ASSUME PgInv, NEW p \in Procs, Done(p), CommitPublish(p) \/ CommitRollback(p)
    PROVE  Maps
<1>1. PICK kind \in {"ConfigPublished", "ConfigRolledBack"} :
          Advance(ConfigScopeOf, {ConfigEvent(kind, counter[ConfigScopeOf] + 1, counter[ConfigScopeOf] + 1)})
    BY DEF CommitPublish, CommitRollback, NEXT_REVISION
<1>2. UNCHANGED <<instances, clock>> /\ ConfigScopeOf \in Scopes
    BY PostgresAssumption DEF CommitPublish, CommitRollback, Done, ConfigScopeOf
<1> QED BY <1>1, <1>2, OtherMaps DEF ConfigEvent

\* Reads, the statements of a draft and failed transactions change nothing of the registry.
LEMMA SilentSteps ==
    ASSUME NEW p \in Procs, ReadStep(p) \/ DraftStatement(p) \/ Abort(p)
    PROVE  Maps
<1>1. UNCHANGED <<counter, instances, events, clock>>
    BY DEF ReadStep, ReadRegister, ReadRenew, ReadReport, ReadDeregister, ReadExpired, ReadDraft,
           ReadPublish, ReadRollback, ReadHorizon, Begin, Abort, Done, tables, DraftStatement,
           InsertDraft, RecordDraft
<1> QED BY <1>1, ElsewhereIsUnseen, Zenon DEF Maps

-----------------------------------------------------------------------------
(* The theorem. *)

EventsFinite == IsFiniteSet(events)

\* A commit adds finitely many events.
LEMMA EventsStayFinite ==
    ASSUME PgInv, EventsFinite, PgNext
    PROVE  EventsFinite'
<1>1. ASSUME NEW scope, NEW new, Advance(scope, new), new = {} \/ \E e : new = {e} PROVE EventsFinite'
    BY <1>1, FS_AddElement DEF Advance, EventsFinite
<1>2. ASSUME events' \subseteq events PROVE EventsFinite'
    BY <1>2, FS_Subset DEF EventsFinite
<1>3. ASSUME NEW p \in Procs, txn[p] # None, txn[p].op = "expire", CommitExpired(p) PROVE EventsFinite'
    <2> DEFINE upTo(k) == {j \in {i \in txn[p].found : i.scope = k.scope} : KeyRank[j] <= KeyRank[k]}
               told(k) == Event(k, "InstanceDeregistered", counter[k.scope] + Cardinality(upTo(k)))
    <2>1. PICK gone \in SUBSET Keys : gone = {k \in txn[p].found : StillExpired(k, txn[p].now)}
        BY <1>3, Zenon DEF PgInv, TxnsOK, TxnOK
    <2>2. events' = events \cup {told(k) : k \in gone}
        BY <1>3, <2>1 DEF CommitExpired
    <2> HIDE DEF told
    <2>3. IsFiniteSet(gone)
        BY <2>1, PostgresAssumption, FS_Subset
    <2>4. PICK image : image = {told(k) : k \in gone}
        BY Zenon
    <2>5. PICK f : f = [k \in gone |-> told(k)]
        BY Zenon
    <2>6. f \in Surjection(gone, image)
        BY <2>4, <2>5 DEF Surjection
    <2>7. IsFiniteSet(image)
        BY <2>3, <2>6, FS_Surjection
    <2> QED BY <2>2, <2>4, <2>7, FS_Union, Zenon DEF EventsFinite
<1>4. ASSUME NEW p \in Procs, txn[p] # None, Commit(p) PROVE EventsFinite'
    <2>1. CASE txn[p].op = "gc" /\ CommitGc(p)
        BY <1>2, <2>1 DEF CommitGc
    <2>2. CASE txn[p].op = "expire" /\ CommitExpired(p)
        BY <1>3, <1>4, <2>2
    <2>3. CASE CommitRegister(p) \/ CommitRenew(p) \/ CommitReport(p) \/ CommitDeregister(p)
        BY <1>1, <2>3, Zenon DEF CommitRegister, CommitRenew, CommitReport, CommitDeregister, insert_event
    <2>4. CASE CommitPublish(p) \/ CommitRollback(p)
        BY <1>1, <2>4, Zenon DEF CommitPublish, CommitRollback
    <2> QED BY <1>4, <2>1, <2>2, <2>3, <2>4 DEF Commit
<1>5. ASSUME NEW p \in Procs, ReadStep(p) \/ DraftStatement(p) \/ Abort(p) PROVE events' = events
    BY <1>5 DEF ReadStep, ReadRegister, ReadRenew, ReadReport, ReadDeregister, ReadExpired, ReadDraft,
           ReadPublish, ReadRollback, ReadHorizon, Begin, Abort, Done, tables, DraftStatement,
           InsertDraft, RecordDraft
<1>6. ASSUME NEW scope \in Scopes, Compact(scope) PROVE events' \subseteq events
    BY <1>6 DEF Compact, COMPACT_WATCH_EVENTS
<1>7. CASE Tick
    BY <1>2, <1>7 DEF Tick, tables
<1> QED BY <1>2, <1>4, <1>5, <1>6, <1>7 DEF PgNext

\* Every step of every process is a step of the promise, or none.
LEMMA StepsMap ==
    ASSUME PgInv, EventsFinite, PgNext
    PROVE  Maps
<1>1. ASSUME NEW p \in Procs, txn[p] # None, Commit(p) PROVE Maps
    BY <1>1, WritesMap, DeregisterMaps, ExpireMaps, ReleasesMap, GcMaps, Zenon DEF Commit, EventsFinite
<1> QED BY <1>1, SilentSteps, CompactMaps, TickMaps DEF PgNext, EventsFinite

\* The PostgreSQL store keeps the registry's promise to the watchers of every scope,
\* for any number of processes: what they commit appears in the scope's log one change
\* at a time, in revision order, although each decided on rows it read before.
THEOREM PgStoreKeepsPromise == PgSpec => PgKeepsPromise
<1>1. PgInit => EventsFinite
    BY FS_EmptySet DEF PgInit, EventsFinite
<1>2. PgInv /\ EventsFinite /\ [PgNext]_pgVars => EventsFinite'
    BY EventsStayFinite DEF pgVars, tables, EventsFinite
<1>3. PgInit => Registry!PromiseInit
    <2> SUFFICES ASSUME PgInit PROVE Registry!PromiseInit
        OBVIOUS
    <2>1. counter[WatchScope] = 0 /\ OfScope(events) = {} /\ OfScope(DOMAIN instances) = {}
        BY PostgresAssumption DEF PgInit, OfScope
    <2> QED BY <2>1 DEF Registry!PromiseInit
<1>4. PgInv /\ EventsFinite /\ [PgNext]_pgVars => [Registry!PromiseNext]_(Registry!promiseVars)
    <2> SUFFICES ASSUME PgInv, EventsFinite, [PgNext]_pgVars PROVE Maps
        BY DEF Maps
    <2>1. CASE UNCHANGED pgVars
        BY <2>1, ElsewhereIsUnseen DEF pgVars, tables, Maps
    <2> QED BY <2>1, StepsMap
<1> QED BY <1>1, <1>2, <1>3, <1>4, PgInvariance, PTL DEF PgSpec, PgKeepsPromise, Registry!Promise
=============================================================================
