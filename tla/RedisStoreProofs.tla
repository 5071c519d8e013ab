-------------------------- MODULE RedisStoreProofs --------------------------
(***************************************************************************)
(* Proofs about the memory store as a whole and the Redis store over it:   *)
(* the two registries keep each other's invariants over the counter, the   *)
(* ids and the log they share; a restored store satisfies them again; and  *)
(* what was acknowledged survives crashes, failed writes and lost answers. *)
(***************************************************************************)
EXTENDS RedisStore, RegistryStoreProofs, ConfigStoreProofs

\* The invariants of both registries over the memory store.
MemoryInv == IInv /\ ConfigInv /\ ReleasesOrdered

\* A snapshot from which a sound store can be made.  Only one without rows and without
\* idempotency records can be written, so its log must have every instance deregistered.
Restorable(s) ==
    /\ s.revision \in Nat /\ s.nextSequence \in Nat
    /\ s.events \in SUBSET DiscoveryEvent /\ IsFiniteSet(s.events)
    /\ \A e \in s.events : e.revision <= s.revision
    /\ \A e, f \in s.events : e.revision = f.revision => e = f
    /\ \A e \in s.events :
          /\ e.kind \in InstanceKinds
          /\ \A f \in s.events : f.kind \in InstanceKinds /\ KeyOf(f) = KeyOf(e) => f.revision <= e.revision
          => e.kind = "InstanceDeregistered"
    /\ s.instances \in [{} -> ServiceInstance] /\ s.leaseIndex \in [{} -> Keys]
    /\ s.idempotency \in [{} -> IdempotencyRecord]
    /\ DOMAIN s.drafts \subseteq 0 .. s.nextSequence /\ s.drafts \in [DOMAIN s.drafts -> ConfigDraft]
    /\ s.releases \in Seq(ConfigRelease) /\ RevisionsIncrease(s.releases)
    /\ \A n \in DOMAIN s.releases :
          /\ s.releases[n].release_id <= s.nextSequence /\ s.releases[n].revision <= s.revision
          /\ s.releases[n].draft_id \in DOMAIN s.drafts
          /\ s.releases[n].content = s.drafts[s.releases[n].draft_id].content
    /\ \A d \in DOMAIN s.drafts :
          s.drafts[d].published <=> \E n \in DOMAIN s.releases : s.releases[n].draft_id = d

\* s has grown out of a: nothing that callers refer to is gone or means something else.
Outgrows(s, a) == Keeps(s, a) /\ s.nextSequence >= a.nextSequence

\* The inductive invariant.
RedisInv ==
    /\ MemoryInv
    /\ Restorable(Stored)
    /\ hydrated => Outgrows(to_snapshot, Stored)
    /\ ~hydrated => ~saving /\ to_snapshot = NewStore
    /\ Keeps(Stored, acked)
    /\ acked.revision \in Nat
-----------------------------------------------------------------------------
(* The two registries share the counter, the ids and the log. *)

\* A command of the service registry, a scan, a collection or a tick.
RegistryStep == [Next]_vars /\ UNCHANGED configVars

\* A command of the config registry, a collection or a compaction.
ConfigStep == [ConfigNext]_storeVars /\ UNCHANGED registryVars

\* The store only ever takes numbers from its counters.
LEMMA RegistryCounts ==
    ASSUME IInv, [Next]_vars
    PROVE  revision' >= revision /\ nextSequence' >= nextSequence
<1>1. revision \in Nat /\ nextSequence \in Nat /\ IsFiniteSet(DOMAIN instances)
    BY KeyRankAssumption, FS_Subset DEF IInv, TypeOK, LogTypeOK
<1>2. CASE Register \/ FailedRegister
    <2>1. revision' = next_revision /\ nextSequence' \in {nextSequence, next_id}
        <3>1. CASE Register
            BY <3>1 DEF Register, register_instance
        <3>2. CASE FailedRegister
            BY <3>2 DEF FailedRegister, RegisterOverflow
        <3> QED BY <1>2, <3>1, <3>2
    <2> QED BY <1>1, <2>1 DEF next_revision, next_id
<1>3. CASE Renew \/ Report \/ Deregister
    <2>1. revision' \in {revision, next_revision} /\ nextSequence' = nextSequence
        <3>1. CASE Renew
            <4>1. PICK lease, now, ttl : renew_lease(lease, now, ttl) \/ RenewLapsed(lease, now, ttl)
                BY <3>1 DEF Renew
            <4>2. CASE renew_lease(lease, now, ttl)
                BY <4>2 DEF renew_lease
            <4>3. CASE RenewLapsed(lease, now, ttl)
                BY <4>3 DEF RenewLapsed, logVars
            <4> QED BY <4>1, <4>2, <4>3
        <3>2. CASE Report
            BY <3>2 DEF Report, report_instance_status
        <3>3. CASE Deregister
            BY <3>3 DEF Deregister, deregister_instance
        <3> QED BY <1>3, <3>1, <3>2, <3>3
    <2> QED BY <1>1, <2>1 DEF next_revision
<1>4. CASE run_expiry_scan
    <2> DEFINE reaped == ExpiredKeys(clock, ScanBatch)
    <2>1. IsFiniteSet(reaped)
        BY <1>1, FS_Subset, Zenon DEF ExpiredKeys
    <2>2. Cardinality(reaped) \in Nat
        <3> HIDE DEF reaped
        <3> QED BY <2>1, FS_CardinalityType
    <2>3. revision' = revision + Cardinality(reaped) /\ nextSequence' = nextSequence
        BY <1>4 DEF run_expiry_scan, expire_instances
    <2> HIDE DEF reaped
    <2> QED BY <1>1, <2>2, <2>3
<1>5. CASE run_event_gc \/ Compact \/ Tick \/ UNCHANGED vars
    BY <1>1, <1>5 DEF run_event_gc, gc_watch_events, Compact, compact_watch_events, Tick, vars, logVars
<1> QED BY <1>2, <1>3, <1>4, <1>5 DEF Next, Command, Timer

\* A step of the service registry leaves drafts, releases and records alone, and gives
\* out no id of theirs again.
LEMMA RegistryKeepsConfig ==
    ASSUME MemoryInv, RegistryStep
    PROVE  MemoryInv'
<1>1. IInv'
    BY NextIInv DEF MemoryInv, RegistryStep
<1>2. /\ UNCHANGED <<drafts, releases, idempotency>>
      /\ revision \in Nat /\ nextSequence \in Nat
      /\ revision' \in Nat /\ nextSequence' \in Nat
      /\ revision' >= revision /\ nextSequence' >= nextSequence
    BY <1>1, RegistryCounts DEF MemoryInv, RegistryStep, configVars, IInv, TypeOK, LogTypeOK
<1>3. /\ \A n \in DOMAIN releases : releases[n].release_id \in Nat /\ releases[n].revision \in Nat
      /\ \A d \in DOMAIN drafts : d \in Nat
      /\ \A i \in DOMAIN idempotency : idempotency[i].resource_id \in Nat
    BY ReleaseTyped, Zenon DEF MemoryInv, ConfigInv, ConfigTypeOK, ConfigRelease, IdempotencyRecord
<1>4. ConfigTypeOK'
    BY <1>1, <1>2 DEF MemoryInv, ConfigInv, ConfigTypeOK, IInv, TypeOK
<1>5. IdsBounded'
    BY <1>2, <1>3 DEF MemoryInv, ConfigInv, IdsBounded
<1>6. ReplayTargetsExist' /\ ReleasesMatchDrafts'
    BY <1>2 DEF MemoryInv, ConfigInv, ReplayTargetsExist, ReleasesMatchDrafts
<1>7. ReleasesOrdered'
    BY <1>2, <1>3 DEF MemoryInv, ReleasesOrdered
<1> QED BY <1>1, <1>4, <1>5, <1>6, <1>7 DEF MemoryInv, ConfigInv

\* What a command of the config registry does to the counters and the log: it drops
\* events or adds one, newer than all, that is about no instance.
LEMMA ConfigCounts ==
    ASSUME MemoryInv, CreateDraft \/ Publish \/ Rollback
    PROVE  /\ revision' >= revision /\ nextSequence' >= nextSequence
           /\ \/ events' = events
              \/ \E e : /\ events' = events \cup {e}
                        /\ e.kind \notin InstanceKinds
                        /\ e.revision = revision + 1 /\ revision' = revision + 1
<1>1. revision \in Nat /\ nextSequence \in Nat
    BY DEF MemoryInv, ConfigInv, ConfigTypeOK, LogTypeOK
<1>2. CASE CreateDraft
    BY <1>1, <1>2 DEF CreateDraft, create_config_draft, next_id
<1>3. ASSUME NEW operation, NEW kind \in ConfigKinds, NEW d, NEW content, NEW idem,
             Release(operation, kind, d, content, idem)
      PROVE  /\ revision' >= revision /\ nextSequence' >= nextSequence
             /\ \E e : /\ events' = events \cup {e}
                       /\ e.kind \notin InstanceKinds
                       /\ e.revision = revision + 1 /\ revision' = revision + 1
    <2>1. PICK e : e = [revision |-> next_revision, kind |-> kind, scope |-> content.scope,
              service_name |-> content.config_scope.service_name, resource_id |-> next_id,
              config_application |-> content.config_scope.application,
              config_group |-> content.group]
        BY Zenon
    <2>2. e.kind = kind /\ e.revision = revision + 1
        BY <2>1 DEF next_revision
    <2>3. kind \notin InstanceKinds
        BY DEF ConfigKinds, InstanceKinds
    <2>4. events' = events \cup {e} /\ revision' = revision + 1 /\ nextSequence' = nextSequence + 1
        BY <1>3, <2>1 DEF Release, next_revision, next_id
    <2> QED BY <1>1, <2>2, <2>3, <2>4
<1>4. CASE Publish
    BY <1>3, <1>4 DEF Publish, publish_config, ConfigKinds
<1>5. CASE Rollback
    BY <1>3, <1>5 DEF Rollback, rollback_config, ConfigKinds
<1> QED BY <1>2, <1>4, <1>5

\* A command of the config registry touches neither rows nor leases, and what it logs
\* says nothing of an instance.
LEMMA ConfigKeepsRegistry ==
    ASSUME MemoryInv, ConfigStep
    PROVE  MemoryInv'
<1>1. ConfigInv' /\ ReleasesOrdered'
    BY ConfigNextInv, OrderKept DEF MemoryInv, ConfigStep
<1>2. CASE CreateDraft \/ Publish \/ Rollback
    <2>1. /\ UNCHANGED <<instances, leaseIndex, clock>>
          /\ revision \in Nat /\ nextSequence \in Nat
          /\ revision' \in Nat /\ nextSequence' \in Nat
          /\ revision' >= revision /\ nextSequence' >= nextSequence
        BY <1>1, <1>2, ConfigCounts DEF ConfigStep, registryVars, MemoryInv, ConfigInv, ConfigTypeOK, LogTypeOK
    <2>2. /\ events \subseteq events'
          /\ \A e \in events' \ events :
                e.kind \notin InstanceKinds /\ e.revision = revision + 1 /\ revision' = revision + 1
          /\ \A e, f \in events' \ events : e = f
        BY <1>2, ConfigCounts
    <2>3. InstanceEvents' = InstanceEvents
        BY <2>2 DEF InstanceEvents
    <2>4. TypeOK'
        BY <1>1, <2>1 DEF MemoryInv, IInv, TypeOK, ConfigInv, ConfigTypeOK
    <2>5. RowsBounded'
        <3>1. \A k \in DOMAIN instances : instances[k].lease_id \in Nat /\ instances[k].revision \in Nat
            BY DEF MemoryInv, IInv, TypeOK, ServiceInstance
        <3> QED BY <2>1, <3>1 DEF MemoryInv, IInv, RowsBounded
    <2>6. LeaseIndexSound' /\ LiveLeaseRenewable'
        BY <2>1 DEF MemoryInv, IInv, LeaseIndexSound, LiveLeaseRenewable, LiveAt, Registered
    <2>7. EventRevisionsUnique'
        <3>1. \A e \in events : e.revision \in Nat
            BY DEF MemoryInv, IInv, TypeOK, LogTypeOK, DiscoveryEvent
        <3> QED BY <2>1, <2>2, <3>1 DEF MemoryInv, IInv, EventRevisionsUnique
    <2>8. LogTellsPresence'
        BY <2>1, <2>3, Zenon DEF MemoryInv, IInv, LogTellsPresence, NewestOfKey, KeyOf, Registered
    <2> QED BY <1>1, <2>4, <2>5, <2>6, <2>7, <2>8 DEF MemoryInv, IInv
<1>3. CASE Trim \/ UNCHANGED storeVars
    <2>1. [Next]_vars
        BY <1>3 DEF ConfigStep, Trim, Next, Timer, run_event_gc, Compact, storeVars, vars
    <2> QED BY <1>1, <2>1, NextIInv DEF MemoryInv
<1> QED BY <1>2, <1>3 DEF ConfigStep, ConfigNext

-----------------------------------------------------------------------------
(* The memory store only grows. *)

\* What Outgrows says of the store after a step and the store before it.
MemoryGrows ==
    /\ revision' >= revision /\ nextSequence' >= nextSequence
    /\ \A d \in DOMAIN drafts : d \in DOMAIN drafts' /\ drafts'[d].content = drafts[d].content
    /\ \A n \in DOMAIN releases : n \in DOMAIN releases' /\ releases'[n] = releases[n]

\* No command takes a draft or a release away or changes what it says.
LEMMA StepGrows ==
    ASSUME MemoryInv, RegistryStep \/ ConfigStep
    PROVE  MemoryGrows
<1>1. /\ revision \in Nat /\ nextSequence \in Nat
      /\ DOMAIN drafts \subseteq Nat /\ drafts \in [DOMAIN drafts -> ConfigDraft]
      /\ releases \in Seq(ConfigRelease)
      /\ \A d \in DOMAIN drafts : d <= nextSequence
    BY DEF MemoryInv, ConfigInv, ConfigTypeOK, LogTypeOK, IdsBounded
<1>2. CASE RegistryStep
    BY <1>2, RegistryCounts DEF MemoryInv, RegistryStep, configVars, MemoryGrows
<1>3. CASE ConfigStep /\ CreateDraft
    <2>1. UNCHANGED <<revision, releases>> /\ nextSequence' = nextSequence + 1
        BY <1>3 DEF CreateDraft, create_config_draft, next_id
    <2>2. \A d \in DOMAIN drafts : d \in DOMAIN drafts' /\ drafts'[d] = drafts[d]
        BY <1>1, <1>3 DEF CreateDraft, create_config_draft, next_id
    <2> QED BY <1>1, <2>1, <2>2 DEF MemoryGrows
<1>4. CASE ConfigStep /\ (Publish \/ Rollback)
    <2>1. revision' >= revision /\ nextSequence' >= nextSequence
        BY <1>4, ConfigCounts
    <2>2. PICK r \in ConfigRelease : releases' = Append(releases, r)
        BY <1>4, ReleaseAppends DEF MemoryInv
    <2>3. \A n \in DOMAIN releases : n \in DOMAIN releases' /\ releases'[n] = releases[n]
        BY <1>1, <2>2, AppendProperties, LenProperties
    <2>4. \A d \in DOMAIN drafts : d \in DOMAIN drafts' /\ drafts'[d].content = drafts[d].content
        <3>1. CASE Publish
            BY <1>1, <3>1 DEF Publish, publish_config, ConfigDraft
        <3>2. CASE Rollback
            BY <3>2 DEF Rollback, rollback_config
        <3> QED BY <1>4, <3>1, <3>2
    <2> QED BY <2>1, <2>3, <2>4 DEF MemoryGrows
<1>5. CASE ConfigStep /\ (Trim \/ UNCHANGED storeVars)
    BY <1>1, <1>5 DEF Trim, configVars, gc_watch_events, compact_watch_events, storeVars, logVars, MemoryGrows
<1> QED BY <1>2, <1>3, <1>4, <1>5 DEF ConfigStep, ConfigNext

\* A store that has grown keeps what it kept before.
LEMMA GrowthKeeps ==
    ASSUME MemoryInv, MemoryInv', MemoryGrows, NEW a, Outgrows(to_snapshot, a),
           a.revision \in Nat, a.nextSequence \in Nat
    PROVE  Outgrows(to_snapshot', a)
<1>1. /\ revision \in Nat /\ nextSequence \in Nat /\ revision' \in Nat /\ nextSequence' \in Nat
    BY DEF MemoryInv, ConfigInv, ConfigTypeOK, LogTypeOK
<1>2. /\ revision >= a.revision /\ nextSequence >= a.nextSequence
      /\ \A d \in DOMAIN a.drafts : d \in DOMAIN drafts /\ drafts[d].content = a.drafts[d].content
      /\ \A n \in DOMAIN a.releases : n \in DOMAIN releases /\ releases[n] = a.releases[n]
    BY DEF Outgrows, Keeps, to_snapshot
<1>3. /\ revision' >= a.revision /\ nextSequence' >= a.nextSequence
      /\ \A d \in DOMAIN a.drafts : d \in DOMAIN drafts' /\ drafts'[d].content = a.drafts[d].content
      /\ \A n \in DOMAIN a.releases : n \in DOMAIN releases' /\ releases'[n] = a.releases[n]
    BY <1>1, <1>2 DEF MemoryGrows
<1> QED BY <1>3 DEF Outgrows, Keeps, to_snapshot

-----------------------------------------------------------------------------
(* Snapshots. *)

\* What persist_state writes can be restored.
LEMMA SnapshotRestorable ==
    ASSUME MemoryInv, Encodable
    PROVE  Restorable(to_snapshot)
<1> DEFINE s == to_snapshot
<1>1. /\ s.revision = revision /\ s.nextSequence = nextSequence /\ s.events = events
      /\ s.instances = instances /\ s.leaseIndex = leaseIndex
      /\ s.drafts = drafts /\ s.releases = releases /\ s.idempotency = idempotency
    BY DEF to_snapshot
<1> HIDE DEF s
<1>2. /\ s.revision \in Nat /\ s.nextSequence \in Nat
      /\ s.events \in SUBSET DiscoveryEvent /\ IsFiniteSet(s.events)
    BY <1>1 DEF MemoryInv, ConfigInv, ConfigTypeOK, LogTypeOK
<1>3. /\ \A e \in s.events : e.revision <= s.revision
      /\ \A e, f \in s.events : e.revision = f.revision => e = f
    BY <1>1 DEF MemoryInv, IInv, EventRevisionsUnique
<1>4. ASSUME NEW e \in s.events, e.kind \in InstanceKinds,
             \A f \in s.events : f.kind \in InstanceKinds /\ KeyOf(f) = KeyOf(e) => f.revision <= e.revision
      PROVE  e.kind = "InstanceDeregistered"
    <2>1. e \in InstanceEvents /\ NewestOfKey(e)
        BY <1>1, <1>4 DEF InstanceEvents, NewestOfKey
    <2>2. ~Registered(KeyOf(e))
        BY DEF Encodable, Registered
    <2> QED BY <2>1, <2>2 DEF MemoryInv, IInv, LogTellsPresence
<1>5. s.instances \in [{} -> ServiceInstance] /\ s.idempotency \in [{} -> IdempotencyRecord]
    BY <1>1 DEF MemoryInv, IInv, TypeOK, ConfigInv, ConfigTypeOK, Encodable
<1>6. s.leaseIndex \in [{} -> Keys]
    <2>1. DOMAIN leaseIndex = {}
        BY DEF MemoryInv, IInv, LeaseIndexSound, Registered, Encodable
    <2> QED BY <1>1, <2>1 DEF MemoryInv, IInv, TypeOK
<1>7. DOMAIN s.drafts \subseteq 0 .. s.nextSequence /\ s.drafts \in [DOMAIN s.drafts -> ConfigDraft]
    BY <1>1, <1>2 DEF MemoryInv, ConfigInv, ConfigTypeOK, IdsBounded
<1>8. s.releases \in Seq(ConfigRelease) /\ RevisionsIncrease(s.releases)
    BY <1>1 DEF MemoryInv, ConfigInv, ConfigTypeOK, ReleasesOrdered
<1>9. \A n \in DOMAIN s.releases :
         /\ s.releases[n].release_id <= s.nextSequence /\ s.releases[n].revision <= s.revision
         /\ s.releases[n].draft_id \in DOMAIN s.drafts
         /\ s.releases[n].content = s.drafts[s.releases[n].draft_id].content
    BY <1>1 DEF MemoryInv, ConfigInv, IdsBounded, ReleasesOrdered, ReleasesMatchDrafts
<1>10. \A d \in DOMAIN s.drafts :
          s.drafts[d].published <=> \E n \in DOMAIN s.releases : s.releases[n].draft_id = d
    BY <1>1 DEF MemoryInv, ConfigInv, ReleasesMatchDrafts
<1> QED BY <1>2, <1>3, <1>4, <1>5, <1>6, <1>7, <1>8, <1>9, <1>10, Zenon DEF Restorable, s

\* A new store is its own snapshot.
LEMMA NewRestorable == Restorable(NewStore)
<1> DEFINE s == NewStore
<1>1. /\ s.revision = 0 /\ s.nextSequence = 0 /\ s.events = {}
      /\ s.instances = << >> /\ s.leaseIndex = << >>
      /\ s.drafts = << >> /\ s.releases = << >> /\ s.idempotency = << >>
    BY DEF NewStore
<1>2. IsFiniteSet(s.events)
    BY <1>1, FS_EmptySet
<1>3. DOMAIN s.drafts = {} /\ DOMAIN s.releases = {} /\ s.releases \in Seq(ConfigRelease)
    BY <1>1
<1>4. /\ s.instances \in [{} -> ServiceInstance] /\ s.leaseIndex \in [{} -> Keys]
      /\ s.idempotency \in [{} -> IdempotencyRecord] /\ s.drafts \in [{} -> ConfigDraft]
    BY <1>1
<1>5. RevisionsIncrease(s.releases)
    BY <1>3 DEF RevisionsIncrease
<1> HIDE DEF s
<1>6. s.events \in SUBSET DiscoveryEvent /\ s.revision \in Nat /\ s.nextSequence \in Nat
    BY <1>1
<1> QED BY <1>1, <1>2, <1>3, <1>4, <1>5, <1>6 DEF Restorable, s

\* from_snapshot makes a store that satisfies every invariant of the memory store.
LEMMA RestoredIsSound ==
    ASSUME NEW s, Restorable(s), clock \in Nat, clock' = clock, from_snapshot(s)
    PROVE  MemoryInv'
<1>1. /\ revision' = s.revision /\ nextSequence' = s.nextSequence /\ events' = s.events
      /\ instances' = s.instances /\ leaseIndex' = s.leaseIndex
      /\ drafts' = s.drafts /\ releases' = s.releases /\ idempotency' = s.idempotency
    BY DEF from_snapshot
<1>2. /\ DOMAIN instances' = {} /\ DOMAIN leaseIndex' = {} /\ DOMAIN idempotency' = {}
      /\ instances' \in [{} -> ServiceInstance] /\ leaseIndex' \in [{} -> Keys]
      /\ idempotency' \in [{} -> IdempotencyRecord]
    BY <1>1 DEF Restorable
<1>3. LogTypeOK'
    BY <1>1 DEF Restorable, LogTypeOK
<1>4. TypeOK'
    BY <1>2, <1>3 DEF TypeOK
<1>5. RowsBounded' /\ LeaseIndexSound' /\ LiveLeaseRenewable'
    BY <1>2 DEF RowsBounded, LeaseIndexSound, LiveLeaseRenewable
<1>6. EventRevisionsUnique'
    BY <1>1 DEF Restorable, EventRevisionsUnique
<1>7. LogTellsPresence'
    <2> SUFFICES ASSUME NEW e \in InstanceEvents', NewestOfKey(e)'
                 PROVE  e.kind = "InstanceDeregistered" /\ ~Registered(KeyOf(e))'
        BY DEF LogTellsPresence, KeyOf
    <2>1. /\ e \in s.events /\ e.kind \in InstanceKinds
          /\ \A f \in s.events : f.kind \in InstanceKinds /\ KeyOf(f) = KeyOf(e) => f.revision <= e.revision
        BY <1>1 DEF InstanceEvents, NewestOfKey, KeyOf
    <2>2. ~Registered(KeyOf(e))'
        BY <1>2 DEF Registered, KeyOf
    <2> QED BY <2>1, <2>2 DEF Restorable
<1>8. ConfigTypeOK'
    <2>1. /\ DOMAIN s.drafts \subseteq 0 .. s.nextSequence /\ s.drafts \in [DOMAIN s.drafts -> ConfigDraft]
          /\ s.releases \in Seq(ConfigRelease)
        BY DEF Restorable
    <2>2. DOMAIN idempotency' \subseteq IdempotencyKey
        BY <1>2
    <2>3. idempotency' \in [DOMAIN idempotency' -> IdempotencyRecord]
        BY <1>2
    <2>4. DOMAIN s.drafts \subseteq Nat
        BY <2>1
    <2> QED BY <1>1, <1>3, <2>1, <2>2, <2>3, <2>4 DEF ConfigTypeOK
<1>9. IdsBounded'
    <2>1. /\ DOMAIN s.drafts \subseteq 0 .. s.nextSequence
          /\ \A n \in DOMAIN s.releases : s.releases[n].release_id <= s.nextSequence
        BY Zenon DEF Restorable
    <2>2. \A d \in DOMAIN s.drafts : d <= s.nextSequence
        BY <2>1
    <2> QED BY <1>1, <1>2, <2>1, <2>2 DEF IdsBounded
<1>10. ReplayTargetsExist'
    BY <1>2 DEF ReplayTargetsExist
<1>11. ReleasesMatchDrafts'
    BY <1>1 DEF Restorable, ReleasesMatchDrafts
<1>12. ReleasesOrdered'
    BY <1>1 DEF Restorable, ReleasesOrdered
<1> QED BY <1>4, <1>5, <1>6, <1>7, <1>8, <1>9, <1>10, <1>11, <1>12 DEF MemoryInv, IInv, ConfigInv

-----------------------------------------------------------------------------
(* The process and the key. *)

\* A command, whether it succeeds or fails halfway, and the clock: the memory store
\* takes a step, the key stays.
LEMMA CommandPreserves ==
    ASSUME RedisInv,
           \/ Apply
           \/ ApplyFails
           \/ TimePasses /\ UNCHANGED <<hydrated, saving, persisted, acked>>
    PROVE  RedisInv' /\ Stored' = Stored
<1>1. /\ UNCHANGED <<hydrated, persisted, acked>> /\ Stored' = Stored
      /\ ~hydrated => UNCHANGED <<saving, memoryVars>>
    <2>1. CASE Apply
        BY <2>1 DEF Apply, ApplyToRegistry, ApplyToConfig, ApplyToLog, ApplyNothing, Saving, Idle, Stored
    <2>2. CASE ApplyFails
        BY <2>2 DEF ApplyFails, Idle, Stored
    <2>3. CASE TimePasses /\ UNCHANGED <<hydrated, saving, persisted, acked>>
        BY <2>3 DEF TimePasses, Tick, Stored, memoryVars
    <2> QED BY <2>1, <2>2, <2>3
<1>2. RegistryStep \/ ConfigStep
    <2>1. CASE ApplyToRegistry
        BY <2>1 DEF ApplyToRegistry, RegistryCommand, RenewOk, RegistryStep, Next, Command, Timer, Renew
    <2>2. CASE ApplyToConfig
        BY <2>2 DEF ApplyToConfig, ConfigCommand, ConfigStep, ConfigNext
    <2>3. CASE ApplyToLog
        BY <2>3 DEF ApplyToLog, TrimCommand, ConfigStep, ConfigNext
    <2>4. CASE ApplyNothing
        BY <2>4 DEF ApplyNothing, memoryVars, RegistryStep, vars, registryVars
    <2>5. CASE ApplyFails
        BY <2>5 DEF ApplyFails, FailsHalfway, RenewTooLate, RegistryStep, Next, Command, Renew
    <2>6. CASE TimePasses
        BY <2>6 DEF TimePasses, RegistryStep, Next
    <2> QED BY <2>1, <2>2, <2>3, <2>4, <2>5, <2>6 DEF Apply
<1>3. MemoryInv' /\ MemoryGrows
    BY <1>2, RegistryKeepsConfig, ConfigKeepsRegistry, StepGrows DEF RedisInv
<1>4. Restorable(Stored)' /\ Keeps(Stored, acked)' /\ acked'.revision \in Nat
    <2>1. Restorable(Stored) /\ Keeps(Stored, acked) /\ acked.revision \in Nat
        BY DEF RedisInv
    <2> QED BY <1>1, <2>1, Zenon DEF Restorable, Keeps, RevisionsIncrease, DiscoveryEvent
<1>5. hydrated' => Outgrows(to_snapshot', Stored')
    <2> SUFFICES ASSUME hydrated PROVE Outgrows(to_snapshot', Stored)
        BY <1>1
    <2>1. Outgrows(to_snapshot, Stored) /\ Stored.revision \in Nat /\ Stored.nextSequence \in Nat
        BY DEF RedisInv, Restorable
    <2> QED BY <1>3, <2>1, GrowthKeeps DEF RedisInv
<1>6. ~hydrated' => ~saving' /\ to_snapshot' = NewStore
    <2> SUFFICES ASSUME ~hydrated PROVE ~saving' /\ to_snapshot' = NewStore
        BY <1>1
    <2>1. UNCHANGED <<saving, memoryVars>>
        BY <1>1
    <2>2. to_snapshot' = to_snapshot
        BY <2>1 DEF memoryVars, logVars, configVars, to_snapshot
    <2> QED BY <2>1, <2>2 DEF RedisInv
<1> QED BY <1>1, <1>3, <1>4, <1>5, <1>6 DEF RedisInv

\* The process stands still while the key is left alone or is written as a whole.
LEMMA WritePreserves ==
    ASSUME RedisInv, saving, UNCHANGED <<memoryVars, clock, hydrated>>,
           persisted' = persisted \/ (Encodable /\ persisted' = <<to_snapshot>>),
           acked' = acked \/ (persisted' = <<to_snapshot>> /\ acked' = Vouched(to_snapshot))
    PROVE  RedisInv' /\ (Stored' = Stored \/ Stored' = to_snapshot)
<1>1. hydrated /\ hydrated' /\ to_snapshot' = to_snapshot
    BY DEF RedisInv, to_snapshot, memoryVars, logVars, configVars
<1>2. MemoryInv'
    <2>1. RegistryStep
        BY DEF memoryVars, RegistryStep, vars, registryVars
    <2> QED BY <2>1, RegistryKeepsConfig DEF RedisInv
<1>3. Stored' = Stored \/ (Encodable /\ Stored' = to_snapshot)
    <2>1. <<to_snapshot>> # << >> /\ <<to_snapshot>>[1] = to_snapshot
        OBVIOUS
    <2> QED BY <2>1 DEF Stored
<1>4. persisted' = <<to_snapshot>> => Stored' = to_snapshot
    <2>1. <<to_snapshot>> # << >> /\ <<to_snapshot>>[1] = to_snapshot
        OBVIOUS
    <2> QED BY <2>1 DEF Stored
<1>5. PICK now : now = to_snapshot
    OBVIOUS
<1>6. /\ Restorable(Stored) /\ Outgrows(now, Stored) /\ Keeps(Stored, acked) /\ acked.revision \in Nat
      /\ now.revision \in Nat /\ now.nextSequence \in Nat /\ Stored.revision \in Nat
    <2>1. revision \in Nat /\ nextSequence \in Nat
        BY DEF RedisInv, MemoryInv, IInv, TypeOK, LogTypeOK
    <2>2. now.revision \in Nat /\ now.nextSequence \in Nat
        BY <1>5, <2>1 DEF to_snapshot
    <2> QED BY <1>1, <1>5, <2>2, Zenon DEF RedisInv, Restorable
<1>7. Outgrows(now, now) /\ Keeps(now, Vouched(now)) /\ Vouched(now).revision \in Nat
    BY <1>6 DEF Outgrows, Keeps, Vouched
<1>8. Keeps(now, acked)
    BY <1>6 DEF Outgrows, Keeps
<1>9. Restorable(Stored')
    BY <1>3, <1>6, SnapshotRestorable DEF RedisInv
<1>10. Outgrows(now, Stored')
    BY <1>3, <1>5, <1>6, <1>7
<1>11. Keeps(Stored', acked') /\ acked'.revision \in Nat
    BY <1>3, <1>4, <1>5, <1>6, <1>7, <1>8
<1>12. Restorable(Stored)'
    BY <1>9 DEF Restorable, RevisionsIncrease
<1>13. Outgrows(to_snapshot, Stored)'
    <2>1. to_snapshot' = now
        BY <1>1, <1>5 DEF to_snapshot, memoryVars, logVars, configVars
    <2> QED BY <1>10, <2>1 DEF Outgrows, Keeps
<1>14. Keeps(Stored, acked)' /\ acked'.revision \in Nat
    BY <1>11 DEF Keeps
<1> QED BY <1>1, <1>2, <1>3, <1>5, <1>12, <1>13, <1>14 DEF RedisInv

\* hydrate_once: the process now holds what is under the key, or, without a key, the
\* empty store that it was started with.
LEMMA HydratePreserves ==
    ASSUME RedisInv, hydrate_once
    PROVE  RedisInv' /\ Stored' = Stored
<1>1. /\ ~hydrated /\ hydrated' /\ UNCHANGED <<clock, persisted, acked>>
      /\ Stored' = Stored /\ to_snapshot = NewStore
    BY DEF hydrate_once, RedisInv, Stored
<1>2. from_snapshot(Stored)
    <2>1. CASE persisted = << >>
        <3>1. Stored = to_snapshot /\ UNCHANGED memoryVars
            BY <1>1, <2>1 DEF hydrate_once, Stored
        <3> QED BY <3>1 DEF from_snapshot, to_snapshot, memoryVars, logVars, configVars
    <2>2. CASE persisted # << >>
        BY <2>2 DEF hydrate_once, Stored
    <2> QED BY <2>1, <2>2
<1>3. PICK s : s = Stored
    OBVIOUS
<1>4. Restorable(s) /\ Keeps(s, acked) /\ acked.revision \in Nat /\ clock \in Nat
    BY <1>3 DEF RedisInv, MemoryInv, IInv, TypeOK
<1>5. MemoryInv'
    BY <1>1, <1>2, <1>3, <1>4, RestoredIsSound
<1>6. Outgrows(to_snapshot', s)
    <2>1. s.revision \in Nat /\ s.nextSequence \in Nat
        BY <1>4 DEF Restorable
    <2>2. /\ to_snapshot'.revision = s.revision /\ to_snapshot'.nextSequence = s.nextSequence
          /\ to_snapshot'.drafts = s.drafts /\ to_snapshot'.releases = s.releases
        BY <1>2, <1>3 DEF from_snapshot, to_snapshot
    <2> QED BY <2>1, <2>2 DEF Outgrows, Keeps
<1>7. Restorable(Stored)'
    <2>1. Restorable(Stored')
        BY <1>1, <1>3, <1>4
    <2> QED BY <2>1, Zenon DEF Restorable, RevisionsIncrease
<1>8. Keeps(Stored, acked)'
    BY <1>1, <1>3, <1>4 DEF Keeps
<1>9. Outgrows(to_snapshot, Stored)'
    BY <1>1, <1>3, <1>6 DEF Outgrows, Keeps
<1> QED BY <1>1, <1>4, <1>5, <1>7, <1>8, <1>9 DEF RedisInv

\* A crash: the memory is lost, and a SET that was under way has happened or has not.
LEMMA CrashPreserves ==
    ASSUME RedisInv, Crash
    PROVE  RedisInv' /\ (Stored' = Stored \/ (hydrated /\ Stored' = to_snapshot))
<1>1. /\ hydrated /\ ~hydrated' /\ ~saving' /\ UNCHANGED <<clock, acked>>
      /\ from_snapshot(NewStore)
    BY DEF Crash
<1>2. MemoryInv'
    <2>1. clock \in Nat
        BY DEF RedisInv, MemoryInv, IInv, TypeOK
    <2> QED BY <1>1, <2>1, NewRestorable, RestoredIsSound
<1>3. to_snapshot' = NewStore
    BY <1>1 DEF from_snapshot, to_snapshot, NewStore
<1>4. Stored' = Stored \/ (Encodable /\ Stored' = to_snapshot)
    <2>1. persisted' = persisted \/ (Encodable /\ persisted' = <<to_snapshot>>)
        BY DEF Crash, AfterLostSet
    <2>2. <<to_snapshot>> # << >> /\ <<to_snapshot>>[1] = to_snapshot
        OBVIOUS
    <2> QED BY <2>1, <2>2 DEF Stored
<1>5. PICK now : now = to_snapshot
    OBVIOUS
<1>6. /\ Restorable(Stored) /\ Outgrows(now, Stored) /\ Keeps(Stored, acked) /\ acked.revision \in Nat
      /\ now.revision \in Nat /\ Stored.revision \in Nat
    <2>1. revision \in Nat
        BY DEF RedisInv, MemoryInv, IInv, TypeOK, LogTypeOK
    <2>2. now.revision \in Nat
        BY <1>5, <2>1 DEF to_snapshot
    <2> QED BY <1>1, <1>5, <2>2, Zenon DEF RedisInv, Restorable
<1>7. Keeps(now, acked)
    BY <1>6 DEF Outgrows, Keeps
<1>8. Restorable(Stored')
    BY <1>4, <1>6, SnapshotRestorable DEF RedisInv
<1>9. Keeps(Stored', acked)
    BY <1>4, <1>5, <1>6, <1>7
<1>10. Restorable(Stored)'
    BY <1>8 DEF Restorable, RevisionsIncrease
<1>11. Keeps(Stored, acked)'
    BY <1>1, <1>9 DEF Keeps
<1> QED BY <1>1, <1>2, <1>3, <1>4, <1>6, <1>10, <1>11 DEF RedisInv

\* Persist, EncodeFails and SetFails are the ways a SET may end.
LEMMA SaveEnds ==
    ASSUME RedisInv, Persist \/ EncodeFails \/ SetFails
    PROVE  RedisInv' /\ hydrated /\ (Stored' = Stored \/ Stored' = to_snapshot)
<1>1. saving /\ UNCHANGED <<memoryVars, clock, hydrated>>
    BY DEF Persist, EncodeFails, SetFails
<1>2. persisted' = persisted \/ (Encodable /\ persisted' = <<to_snapshot>>)
    BY DEF Persist, EncodeFails, SetFails, AfterLostSet
<1>3. acked' = acked \/ (persisted' = <<to_snapshot>> /\ acked' = Vouched(to_snapshot))
    BY DEF Persist, EncodeFails, SetFails
<1>4. hydrated
    BY <1>1 DEF RedisInv
<1> QED BY <1>1, <1>2, <1>3, <1>4, WritePreserves

-----------------------------------------------------------------------------
(* The theorems. *)

\* An empty store over an empty key.
LEMMA InitRedisInv == RedisInit => RedisInv
<1> SUFFICES ASSUME RedisInit PROVE RedisInv
    OBVIOUS
<1>1. MemoryInv
    BY InitIInv, InitConfigInv, InitOrder DEF RedisInit, MemoryInit, MemoryInv
<1>2. /\ ~hydrated /\ ~saving /\ Stored = NewStore /\ acked = Vouched(NewStore)
    BY DEF RedisInit, Stored
<1>3. to_snapshot = NewStore
    BY DEF RedisInit, MemoryInit, Init, LogInit, ConfigInit, to_snapshot, NewStore
<1>4. Keeps(NewStore, Vouched(NewStore)) /\ Vouched(NewStore).revision \in Nat
    BY DEF Keeps, Vouched, NewStore
<1> QED BY <1>1, <1>2, <1>3, <1>4, NewRestorable DEF RedisInv

\* Every step preserves the invariant, and leaves under the key what was there or what
\* a process that had read it held.
LEMMA NextRedisInv ==
    ASSUME RedisInv, [RedisNext]_redisVars
    PROVE  RedisInv' /\ (Stored' = Stored \/ (hydrated /\ Stored' = to_snapshot))
<1>1. CASE hydrate_once
    BY <1>1, HydratePreserves
<1>2. CASE \/ Apply
           \/ ApplyFails
           \/ TimePasses /\ UNCHANGED <<hydrated, saving, persisted, acked>>
    BY <1>2, CommandPreserves
<1>3. CASE Persist \/ EncodeFails \/ SetFails
    BY <1>3, SaveEnds
<1>4. CASE Crash
    BY <1>4, CrashPreserves
<1>5. CASE UNCHANGED redisVars
    <2>1. UNCHANGED <<memoryVars, clock, hydrated, saving, persisted, acked>> /\ Stored' = Stored
        BY <1>5 DEF redisVars, Stored
    <2>2. RegistryStep
        BY <2>1 DEF memoryVars, RegistryStep, vars, registryVars
    <2>3. MemoryInv'
        BY <2>2, RegistryKeepsConfig DEF RedisInv
    <2>4. to_snapshot' = to_snapshot
        BY <2>1 DEF to_snapshot, memoryVars, logVars, configVars
    <2> QED BY <2>1, <2>3, <2>4, Zenon DEF RedisInv, Outgrows, Restorable, Keeps, RevisionsIncrease
<1> QED BY <1>1, <1>2, <1>3, <1>4, <1>5 DEF RedisNext

\* The inductive invariant of the Redis store.
THEOREM RedisInvariance == RedisSpec => []RedisInv
BY InitRedisInv, NextRedisInv, PTL DEF RedisSpec

\* An Ok of the Redis store is a promise: persist_state wrote all of the memory before
\* the answer, hydrate_once reads it before anything else, and commands only add.
THEOREM AcknowledgementsHold == RedisSpec => []AcknowledgedSurvives
<1>1. RedisInv => AcknowledgedSurvives
    <2> SUFFICES ASSUME RedisInv PROVE AcknowledgedSurvives
        OBVIOUS
    <2>1. PICK now : now = to_snapshot
        OBVIOUS
    <2>2. Keeps(Stored, acked) /\ acked.revision \in Nat /\ Stored.revision \in Nat /\ now.revision \in Nat
        BY <2>1 DEF RedisInv, Restorable, MemoryInv, IInv, TypeOK, LogTypeOK, to_snapshot
    <2>3. hydrated => Outgrows(now, Stored)
        BY <2>1 DEF RedisInv
    <2>4. hydrated => Keeps(now, acked)
        BY <2>2, <2>3 DEF Outgrows, Keeps
    <2> QED BY <2>1, <2>2, <2>4 DEF AcknowledgedSurvives
<1> QED BY <1>1, RedisInvariance, PTL

\* No SET, however late, takes the revision or the id sequence under the key back: the
\* process that sends it has read the key and only counted on from there.
THEOREM KeyGoesForward == RedisSpec => KeyNeverGoesBack
<1> DEFINE Forward == persisted # << >> =>
                        /\ persisted' # << >>
                        /\ persisted'[1].revision >= persisted[1].revision
                        /\ persisted'[1].nextSequence >= persisted[1].nextSequence
<1>1. RedisInv /\ [RedisNext]_redisVars => [Forward]_redisVars
    <2> SUFFICES ASSUME RedisInv, RedisNext, persisted # << >>
                 PROVE  /\ persisted' # << >>
                        /\ persisted'[1].revision >= persisted[1].revision
                        /\ persisted'[1].nextSequence >= persisted[1].nextSequence
        OBVIOUS
    <2>1. persisted' # << >>
        <3>1. persisted' = persisted \/ persisted' = <<to_snapshot>>
            BY DEF RedisNext, hydrate_once, Apply, ApplyToRegistry, ApplyToConfig, ApplyToLog, ApplyNothing,
                   Saving, ApplyFails, Persist, EncodeFails, SetFails, Crash, AfterLostSet
        <3>2. <<to_snapshot>> # << >>
            OBVIOUS
        <3> QED BY <3>1, <3>2
    <2>2. Stored = persisted[1] /\ Stored' = persisted'[1]
        BY <2>1 DEF Stored
    <2>3. Stored' = Stored \/ (hydrated /\ Stored' = to_snapshot)
        BY NextRedisInv
    <2>4. Stored.revision \in Nat /\ Stored.nextSequence \in Nat
        BY Zenon DEF RedisInv, Restorable
    <2>5. hydrated => /\ to_snapshot.revision >= Stored.revision
                      /\ to_snapshot.nextSequence >= Stored.nextSequence
        BY DEF RedisInv, Outgrows, Keeps
    <2> QED BY <2>1, <2>2, <2>3, <2>4, <2>5
<1> QED BY <1>1, RedisInvariance, PTL DEF RedisSpec, KeyNeverGoesBack

\* What RegistryStore and ConfigStore promise each on its own holds of the two together,
\* over one counter, one id sequence and one log, and of every store that a process
\* restores after a crash.
THEOREM StoreStaysSound ==
    RedisSpec => [](/\ LeaseIndexSound /\ LiveLeaseRenewable
                    /\ EventRevisionsUnique /\ LogTellsPresence
                    /\ ReplayTargetsExist /\ ReleasesMatchDrafts
                    /\ EffectiveIsNarrowestLatest)
<1>1. RedisInv => /\ LeaseIndexSound /\ LiveLeaseRenewable
                  /\ EventRevisionsUnique /\ LogTellsPresence
                  /\ ReplayTargetsExist /\ ReleasesMatchDrafts
                  /\ EffectiveIsNarrowestLatest
    BY OrderedIsEffective DEF RedisInv, MemoryInv, IInv, ConfigInv
<1> QED BY <1>1, RedisInvariance, PTL
=============================================================================
