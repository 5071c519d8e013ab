------------------------ MODULE RegistryStoreProofs ------------------------
(***************************************************************************)
(* Proofs, for every set of keys, every policy and every bound, of the     *)
(* safety properties that MCRegistryStore checks on a small instance.      *)
(***************************************************************************)
EXTENDS RegistryStore, FiniteSetTheorems, TLAPS

\* Every lease in use was handed out by next_id, so a fresh lease is new; and
\* no row is ahead of the revision counter.
RowsBounded ==
    \A k \in DOMAIN instances :
        /\ instances[k].lease_id <= nextSequence
        /\ instances[k].revision <= revision

\* The inductive invariant.
IInv ==
    /\ TypeOK
    /\ RowsBounded
    /\ LeaseIndexSound
    /\ LiveLeaseRenewable
    /\ EventRevisionsUnique
    /\ LogTellsPresence

-----------------------------------------------------------------------------
(* The operators the actions are built from. *)

\* The event logged for a key is an instance event of exactly that key.
LEMMA InstanceEventFacts ==
    ASSUME NEW k \in Keys, NEW kind \in InstanceKinds, NEW rev \in Nat
    PROVE  LET e == InstanceEvent(k, kind, rev)
           IN  /\ e \in DiscoveryEvent
               /\ KeyOf(e) = k
               /\ e.revision = rev
               /\ e.kind = kind
BY KeysAssumption DEF InstanceEvent, DiscoveryEvent, KeyOf, InstanceKinds, ConfigKinds

\* Only the log changes, to a later part of itself, resource by resource.
CutsLog ==
    /\ UNCHANGED <<revision, nextSequence, registryVars>>
    /\ events' \subseteq events
    /\ \A e \in events', f \in events :
          e.scope = f.scope /\ e.resource_id = f.resource_id /\ e.revision < f.revision
            => f \in events'

\* A log cut down to its later part, resource by resource, still says of every
\* instance what it said before.
LEMMA TrimPreserves ==
    ASSUME IInv, CutsLog
    PROVE  IInv'
<1> USE DEF IInv, registryVars, CutsLog
<1>1. TypeOK'
    <2>1. IsFiniteSet(events')
        BY FS_Subset DEF TypeOK, LogTypeOK
    <2> QED BY <2>1 DEF TypeOK, LogTypeOK
<1>2. RowsBounded'
    BY DEF RowsBounded
<1>3. LeaseIndexSound'
    BY DEF LeaseIndexSound, Registered
<1>4. LiveLeaseRenewable'
    BY DEF LiveLeaseRenewable, LiveAt, Registered
<1>5. EventRevisionsUnique'
    BY DEF EventRevisionsUnique
<1>6. LogTellsPresence'
    <2> SUFFICES ASSUME NEW e \in InstanceEvents', NewestOfKey(e)'
                 PROVE  IF e.kind = "InstanceDeregistered"
                        THEN ~Registered(KeyOf(e))
                        ELSE Registered(KeyOf(e)) /\ instances[KeyOf(e)].revision = e.revision
        BY DEF LogTellsPresence, Registered, KeyOf
    <2>1. e \in InstanceEvents
        BY DEF InstanceEvents
    <2>2. NewestOfKey(e)
        <3> SUFFICES ASSUME NEW f \in InstanceEvents, KeyOf(f) = KeyOf(e),
                            ~(f.revision <= e.revision)
                     PROVE  FALSE
            BY DEF NewestOfKey
        <3>1. e.revision < f.revision /\ e.scope = f.scope /\ e.resource_id = f.resource_id
            BY <2>1 DEF InstanceEvents, KeyOf, TypeOK, LogTypeOK, DiscoveryEvent
        <3>2. f \in events'
            BY <3>1, <2>1 DEF InstanceEvents
        <3> QED BY <3>2 DEF NewestOfKey, InstanceEvents, KeyOf
    <2> QED BY <2>1, <2>2 DEF LogTellsPresence
<1> QED BY <1>1, <1>2, <1>3, <1>4, <1>5, <1>6

\* The subset of a finite log that lies before an event grows with the event.
LEMMA OldestIsPrefix ==
    ASSUME NEW S \in SUBSET DiscoveryEvent, IsFiniteSet(S), NEW n \in Nat,
           NEW e \in S, NEW f \in S, e.revision < f.revision, f \in Oldest(S, n)
    PROVE  e \in Oldest(S, n)
<1> DEFINE before(x) == {g \in S : g.revision < x.revision}
<1>1. before(e) \subseteq before(f)
    BY DEF DiscoveryEvent
<1>2. IsFiniteSet(before(f)) /\ before(f) \in SUBSET S
    BY FS_Subset
<1>3. Cardinality(before(e)) <= Cardinality(before(f))
    BY <1>1, <1>2, FS_Subset
<1>4. Cardinality(before(e)) \in Nat /\ Cardinality(before(f)) \in Nat
    BY <1>1, <1>2, FS_Subset, FS_CardinalityType
<1>5. Cardinality(before(f)) < n
    BY DEF Oldest
<1> QED BY <1>3, <1>4, <1>5 DEF Oldest

\* gc_watch_events drops a prefix of the log, oldest events first.
LEMMA GcCuts ==
    ASSUME IInv, run_event_gc
    PROVE  CutsLog
<1> DEFINE S == {e \in events : e.revision <= GcHorizon}
<1>1. S \in SUBSET DiscoveryEvent /\ IsFiniteSet(S)
    BY FS_Subset DEF IInv, TypeOK, LogTypeOK
<1>2. events' = events \ Oldest(S, GcBatch) /\ UNCHANGED <<revision, nextSequence, registryVars>>
    BY DEF run_event_gc, gc_watch_events
<1>3. GcHorizon \in Nat
    BY TrimAssumption DEF GcHorizon, IInv, TypeOK, LogTypeOK
<1>4. ASSUME NEW e \in events', NEW f \in events, e.revision < f.revision
      PROVE  f \in events'
    <2> SUFFICES ASSUME f \in Oldest(S, GcBatch) PROVE FALSE
        BY <1>2
    <2>1. e \in events /\ f \in S
        BY <1>2 DEF Oldest
    <2>2. e \in S
        BY <1>3, <1>4, <2>1 DEF IInv, TypeOK, LogTypeOK, DiscoveryEvent
    <2>3. e \in Oldest(S, GcBatch)
        BY <1>1, <1>4, <2>1, <2>2, OldestIsPrefix, TrimAssumption
    <2> QED BY <1>2, <2>3
<1>5. events' \subseteq events
    BY <1>2
<1> QED BY <1>2, <1>4, <1>5 DEF CutsLog

\* compact_watch_events keeps the latest events of each resource.
LEMMA CompactCuts ==
    ASSUME IInv, Compact
    PROVE  CutsLog
<1>1. PICK scope \in Scopes : compact_watch_events(scope, CompactKeep)
    BY DEF Compact
<1>2. UNCHANGED <<revision, nextSequence, registryVars>>
    BY <1>1 DEF Compact, compact_watch_events
<1>3. events' = {e \in events : e.scope = scope => Cardinality(LaterOfResource(e)) < CompactKeep}
    BY <1>1 DEF compact_watch_events
<1>4. ASSUME NEW e \in events', NEW f \in events, e.scope = f.scope,
             e.resource_id = f.resource_id, e.revision < f.revision
      PROVE  f \in events'
    <2> SUFFICES ASSUME f.scope = scope
                 PROVE  Cardinality(LaterOfResource(f)) < CompactKeep
        BY <1>3
    <2>1. e \in events /\ Cardinality(LaterOfResource(e)) < CompactKeep
        BY <1>3, <1>4
    <2>2. LaterOfResource(f) \subseteq LaterOfResource(e)
        BY <1>4, <2>1 DEF LaterOfResource, IInv, TypeOK, LogTypeOK, DiscoveryEvent
    <2>3. IsFiniteSet(LaterOfResource(e))
        <3>1. LaterOfResource(e) \in SUBSET events
            BY DEF LaterOfResource
        <3> QED BY <3>1, FS_Subset DEF IInv, TypeOK, LogTypeOK
    <2>4. /\ Cardinality(LaterOfResource(f)) <= Cardinality(LaterOfResource(e))
          /\ IsFiniteSet(LaterOfResource(f))
        BY <2>2, <2>3, FS_Subset
    <2>5. /\ Cardinality(LaterOfResource(f)) \in Nat
          /\ Cardinality(LaterOfResource(e)) \in Nat
        BY <2>3, <2>4, FS_CardinalityType
    <2> QED BY <2>1, <2>4, <2>5, TrimAssumption
<1>5. events' \subseteq events
    BY <1>3
<1> QED BY <1>2, <1>4, <1>5 DEF CutsLog

-----------------------------------------------------------------------------
(* The commands. *)

\* A command that touches one row and logs one event for it keeps the log in
\* step with the registry.
LEMMA AppendPreserves ==
    ASSUME IInv, NEW k \in Keys, NEW kind \in InstanceKinds,
           revision' = next_revision, LogInstanceEvent(k, kind),
           \A j : j # k =>
               /\ j \in DOMAIN instances' <=> j \in DOMAIN instances
               /\ j \in DOMAIN instances => instances'[j] = instances[j],
           IF kind = "InstanceDeregistered"
           THEN k \notin DOMAIN instances'
           ELSE k \in DOMAIN instances' /\ instances'[k].revision = next_revision
    PROVE  /\ revision' \in Nat
           /\ events' \in SUBSET DiscoveryEvent
           /\ IsFiniteSet(events')
           /\ EventRevisionsUnique'
           /\ LogTellsPresence'
<1> DEFINE new == InstanceEvent(k, kind, next_revision)
<1>1. next_revision \in Nat /\ next_revision > revision /\ revision \in Nat
    BY DEF next_revision, IInv, TypeOK, LogTypeOK
<1>2. new \in DiscoveryEvent /\ KeyOf(new) = k /\ new.revision = next_revision /\ new.kind = kind
    BY <1>1, InstanceEventFacts
<1>3. events' = events \cup {new}
    BY DEF LogInstanceEvent
<1>4. events \in SUBSET DiscoveryEvent /\ IsFiniteSet(events)
    BY DEF IInv, TypeOK, LogTypeOK
<1> HIDE DEF new
<1>5. events' \in SUBSET DiscoveryEvent /\ IsFiniteSet(events')
    BY <1>2, <1>3, <1>4, FS_AddElement
<1>6. \A e \in events : e.revision \in Nat /\ e.revision <= revision
    BY <1>4 DEF DiscoveryEvent, IInv, EventRevisionsUnique
<1>7. EventRevisionsUnique'
    BY <1>1, <1>2, <1>3, <1>6 DEF EventRevisionsUnique, IInv
<1>8. LogTellsPresence'
    <2> SUFFICES ASSUME NEW e \in InstanceEvents', NewestOfKey(e)'
                 PROVE  IF e.kind = "InstanceDeregistered"
                        THEN KeyOf(e) \notin DOMAIN instances'
                        ELSE /\ KeyOf(e) \in DOMAIN instances'
                             /\ instances'[KeyOf(e)].revision = e.revision
        BY DEF LogTellsPresence, Registered, KeyOf
    <2>1. CASE e = new
        BY <1>1, <1>2, <2>1
    <2>2. CASE e # new
        <3>1. e \in InstanceEvents
            BY <1>3, <2>2 DEF InstanceEvents
        <3>2. KeyOf(e) # k
            <4> SUFFICES ASSUME KeyOf(e) = k PROVE FALSE
                OBVIOUS
            <4>1. new \in InstanceEvents'
                BY <1>2, <1>3 DEF InstanceEvents
            <4>2. new.revision <= e.revision
                BY <1>2, <4>1 DEF NewestOfKey, KeyOf
            <4> QED BY <1>1, <1>2, <1>6, <3>1, <4>2 DEF InstanceEvents
        <3>3. NewestOfKey(e)
            BY <1>3 DEF NewestOfKey, InstanceEvents, KeyOf
        <3> QED BY <3>1, <3>2, <3>3 DEF LogTellsPresence, Registered, IInv
    <2> QED BY <2>1, <2>2
<1> QED BY <1>1, <1>5, <1>7, <1>8

\* register_instance hands out a lease nobody holds, or keeps the live row's.
LEMMA RegisterPreserves ==
    ASSUME IInv, NEW k \in Keys, NEW now \in CommandTimes, NEW ttl \in Ttls,
           NEW persistent \in BOOLEAN, NEW status \in Status,
           NEW expected \in ExpectedRevisions,
           register_instance(k, now, ttl, persistent, status, expected)
    PROVE  IInv'
<1> DEFINE L == RegisterLease(k, now)
           R == ReplacedLeases(k, now)
           row == [lease_id      |-> L,
                   expires_at_ms |-> IF persistent THEN MaxU64 ELSE now + ttl,
                   revision      |-> next_revision,
                   status        |-> status]
<1>1. /\ revision \in Nat /\ nextSequence \in Nat /\ clock \in Nat /\ now \in Nat
      /\ next_revision = revision + 1 /\ next_id = nextSequence + 1
      /\ ttl \in Nat /\ MaxU64 \in Nat
    BY PolicyAssumption, BoundsAssumption
    DEF IInv, TypeOK, LogTypeOK, CommandTimes, next_revision, next_id
<1>2. /\ DOMAIN instances \subseteq Keys
      /\ \A j \in DOMAIN instances : instances[j] \in ServiceInstance
      /\ DOMAIN leaseIndex \subseteq Nat
      /\ \A l \in DOMAIN leaseIndex : leaseIndex[l] \in Keys
    BY DEF IInv, TypeOK
<1>3. /\ revision' = next_revision
      /\ nextSequence' = IF LiveAt(k, now) THEN nextSequence ELSE next_id
      /\ instances' = Put(instances, k, row)
      /\ leaseIndex' = Put(Without(leaseIndex, R), L, k)
      /\ clock' = clock
    BY DEF register_instance
<1>4. /\ DOMAIN instances' = DOMAIN instances \cup {k}
      /\ instances'[k] = row
      /\ \A j \in DOMAIN instances : j # k => instances'[j] = instances[j]
      /\ instances' = [j \in DOMAIN instances \cup {k} |-> instances'[j]]
    BY <1>3 DEF Put
<1>5. /\ DOMAIN leaseIndex' = (DOMAIN leaseIndex \ R) \cup {L}
      /\ leaseIndex'[L] = k
      /\ \A l \in DOMAIN leaseIndex \ R : l # L => leaseIndex'[l] = leaseIndex[l]
      /\ leaseIndex' = [l \in (DOMAIN leaseIndex \ R) \cup {L} |-> leaseIndex'[l]]
    BY <1>3 DEF Put, Without
<1>6. /\ L \in Nat
      /\ L <= nextSequence'
      /\ nextSequence <= nextSequence'
      /\ nextSequence' \in Nat
      /\ \A j \in DOMAIN instances : j # k => instances[j].lease_id # L
    <2>1. CASE LiveAt(k, now)
        BY <1>1, <1>2, <1>3, <2>1
        DEF LiveAt, Registered, RegisterLease, ServiceInstance, IInv, RowsBounded, LeaseIndexSound
    <2>2. CASE ~LiveAt(k, now)
        BY <1>1, <1>2, <1>3, <2>2 DEF RegisterLease, ServiceInstance, IInv, RowsBounded
    <2> QED BY <2>1, <2>2
<1>7. R = IF k \in DOMAIN instances THEN {instances[k].lease_id} \ {L} ELSE {}
    BY DEF ReplacedLeases
<1>8. row \in ServiceInstance
    BY <1>1, <1>6 DEF ServiceInstance
<1> HIDE DEF L, R
<1>9. PICK kind \in InstanceKinds : LogInstanceEvent(k, kind) /\ kind # "InstanceDeregistered"
    BY DEF register_instance, InstanceKinds
<1>10. /\ revision' \in Nat
       /\ events' \in SUBSET DiscoveryEvent
       /\ IsFiniteSet(events')
       /\ EventRevisionsUnique'
       /\ LogTellsPresence'
    BY <1>3, <1>4, <1>9, AppendPreserves
<1>11. TypeOK'
    BY <1>1, <1>2, <1>3, <1>4, <1>5, <1>6, <1>8, <1>10 DEF TypeOK, LogTypeOK
<1>12. RowsBounded'
    BY <1>1, <1>2, <1>3, <1>4, <1>6 DEF RowsBounded, IInv, ServiceInstance
<1>13. LeaseIndexSound'
    <2>1. ASSUME NEW l \in DOMAIN leaseIndex', l # L
          PROVE  /\ leaseIndex'[l] \in DOMAIN instances /\ leaseIndex'[l] # k
                 /\ instances[leaseIndex'[l]].lease_id = l
        BY <1>5, <1>7, <2>1 DEF IInv, LeaseIndexSound, Registered
    <2>2. \A l \in DOMAIN leaseIndex' :
             leaseIndex'[l] \in DOMAIN instances' /\ instances'[leaseIndex'[l]].lease_id = l
        BY <1>4, <1>5, <2>1
    <2>3. \A i, j \in DOMAIN instances' :
             instances'[i].lease_id = instances'[j].lease_id => i = j
        BY <1>4, <1>6 DEF IInv, LeaseIndexSound
    <2> QED BY <2>2, <2>3 DEF LeaseIndexSound, Registered
<1>14. LiveLeaseRenewable'
    <2> SUFFICES ASSUME NEW j \in DOMAIN instances', instances'[j].expires_at_ms > clock
                 PROVE  /\ instances'[j].lease_id \in DOMAIN leaseIndex'
                        /\ leaseIndex'[instances'[j].lease_id] = j
        BY <1>3 DEF LiveLeaseRenewable, LiveAt, Registered
    <2>1. CASE j = k
        BY <1>4, <1>5, <2>1
    <2>2. CASE j # k
        <3>1. /\ j \in DOMAIN instances /\ instances'[j] = instances[j]
              /\ instances[j].lease_id \in DOMAIN leaseIndex
              /\ leaseIndex[instances[j].lease_id] = j
            BY <1>4, <2>2 DEF IInv, LiveLeaseRenewable, LiveAt, Registered
        <3>2. instances[j].lease_id # L /\ instances[j].lease_id \notin R
            BY <1>6, <1>7, <2>2, <3>1 DEF IInv, LeaseIndexSound
        <3> QED BY <1>5, <3>1, <3>2
    <2> QED BY <2>1, <2>2
<1> QED BY <1>10, <1>11, <1>12, <1>13, <1>14 DEF IInv

\* A registration whose expiry overflows burns a revision, and maybe an id.
LEMMA RegisterOverflowPreserves ==
    ASSUME IInv, NEW k \in Keys, NEW now \in CommandTimes, NEW ttl \in Ttls,
           NEW expected \in ExpectedRevisions, RegisterOverflow(k, now, ttl, expected)
    PROVE  IInv'
<1>1. /\ revision \in Nat /\ nextSequence \in Nat
      /\ revision' = revision + 1
      /\ nextSequence' \in {nextSequence, nextSequence + 1}
      /\ UNCHANGED <<events, instances, leaseIndex, clock>>
    BY DEF IInv, TypeOK, LogTypeOK, RegisterOverflow, next_revision, next_id, registryVars
<1>2. TypeOK'
    BY <1>1 DEF IInv, TypeOK, LogTypeOK
<1>3. RowsBounded'
    BY <1>1 DEF IInv, TypeOK, RowsBounded, ServiceInstance
<1>4. LeaseIndexSound' /\ LiveLeaseRenewable'
    BY <1>1 DEF IInv, LeaseIndexSound, LiveLeaseRenewable, LiveAt, Registered
<1>5. EventRevisionsUnique'
    BY <1>1 DEF IInv, EventRevisionsUnique, TypeOK, LogTypeOK, DiscoveryEvent
<1>6. LogTellsPresence'
    BY <1>1, Zenon DEF IInv, LogTellsPresence, NewestOfKey, InstanceEvents, KeyOf, Registered
<1> QED BY <1>2, <1>3, <1>4, <1>5, <1>6 DEF IInv

\* A change of a live row that keeps its lease and cannot lengthen the life of
\* a row whose lease is gone: what renew_lease and report_instance_status do.
LEMMA RowUpdatePreserves ==
    ASSUME IInv, NEW k \in DOMAIN instances, NEW row \in ServiceInstance,
           NEW kind \in InstanceKinds, kind # "InstanceDeregistered",
           row.lease_id = instances[k].lease_id, row.revision = next_revision,
           \/ row.expires_at_ms = instances[k].expires_at_ms
           \/ row.lease_id \in DOMAIN leaseIndex,
           revision' = next_revision, LogInstanceEvent(k, kind),
           instances' = [instances EXCEPT ![k] = row],
           UNCHANGED <<nextSequence, leaseIndex, clock>>
    PROVE  IInv'
<1>1. /\ revision \in Nat /\ next_revision = revision + 1 /\ k \in Keys
      /\ instances \in [DOMAIN instances -> ServiceInstance]
    BY DEF IInv, TypeOK, LogTypeOK, next_revision
<1>2. /\ DOMAIN instances' = DOMAIN instances
      /\ instances'[k] = row
      /\ \A j \in DOMAIN instances : j # k => instances'[j] = instances[j]
    OBVIOUS
<1>3. /\ revision' \in Nat
      /\ events' \in SUBSET DiscoveryEvent
      /\ IsFiniteSet(events')
      /\ EventRevisionsUnique'
      /\ LogTellsPresence'
    BY <1>1, <1>2, AppendPreserves
<1>4. TypeOK'
    BY <1>1, <1>3 DEF IInv, TypeOK, LogTypeOK
<1>5. RowsBounded'
    BY <1>1, <1>2 DEF IInv, RowsBounded, ServiceInstance
<1>6. LeaseIndexSound'
    BY <1>2 DEF IInv, LeaseIndexSound, Registered
<1>7. LiveLeaseRenewable'
    <2> SUFFICES ASSUME NEW j \in DOMAIN instances, instances'[j].expires_at_ms > clock
                 PROVE  /\ instances[j].lease_id \in DOMAIN leaseIndex
                        /\ leaseIndex[instances[j].lease_id] = j
        BY <1>2 DEF LiveLeaseRenewable, LiveAt, Registered
    <2>1. instances[j].lease_id \in DOMAIN leaseIndex
        BY <1>2 DEF IInv, LiveLeaseRenewable, LiveAt, Registered
    <2> QED BY <2>1 DEF IInv, LeaseIndexSound, Registered
<1> QED BY <1>3, <1>4, <1>5, <1>6, <1>7 DEF IInv

\* renew_lease changes only the row its lease leads to.
LEMMA RenewPreserves ==
    ASSUME IInv, NEW lease, NEW now \in CommandTimes, NEW ttl \in Ttls,
           renew_lease(lease, now, ttl)
    PROVE  IInv'
<1> DEFINE k == leaseIndex[lease]
           row == [instances[k] EXCEPT !.expires_at_ms = now + ttl, !.revision = next_revision]
<1>1. /\ k \in DOMAIN instances
      /\ instances[k].lease_id = lease
      /\ lease \in DOMAIN leaseIndex
      /\ instances[k] \in ServiceInstance
    BY DEF renew_lease, IInv, LeaseIndexSound, Registered, TypeOK
<1>2. now + ttl \in Nat /\ next_revision \in Nat
    BY PolicyAssumption DEF CommandTimes, IInv, TypeOK, LogTypeOK, next_revision
<1>3. /\ row \in ServiceInstance
      /\ row.lease_id = lease
      /\ row.revision = next_revision
    BY <1>1, <1>2, Zenon DEF ServiceInstance
<1>4. /\ revision' = next_revision
      /\ LogInstanceEvent(k, "InstanceRenewed")
      /\ instances' = [instances EXCEPT ![k] = row]
      /\ UNCHANGED <<nextSequence, leaseIndex, clock>>
    BY <1>1, Zenon DEF renew_lease, ServiceInstance
<1>5. "InstanceRenewed" \in InstanceKinds /\ "InstanceRenewed" # "InstanceDeregistered"
    BY DEF InstanceKinds
<1> QED BY <1>1, <1>3, <1>4, <1>5, RowUpdatePreserves, Zenon

\* report_instance_status changes only the status and the revision of a row.
LEMMA ReportPreserves ==
    ASSUME IInv, NEW k \in Keys, NEW now, NEW status \in Status,
           NEW expected, report_instance_status(k, now, status, expected)
    PROVE  IInv'
<1> DEFINE row == [instances[k] EXCEPT !.status = status, !.revision = next_revision]
<1>1. k \in DOMAIN instances /\ instances[k] \in ServiceInstance
    BY DEF report_instance_status, LiveAt, Registered, IInv, TypeOK
<1>2. next_revision \in Nat
    BY DEF IInv, TypeOK, LogTypeOK, next_revision
<1>3. /\ row \in ServiceInstance
      /\ row.lease_id = instances[k].lease_id
      /\ row.expires_at_ms = instances[k].expires_at_ms
      /\ row.revision = next_revision
    BY <1>1, <1>2, Zenon DEF ServiceInstance
<1>4. /\ revision' = next_revision
      /\ LogInstanceEvent(k, "InstanceStatusReported")
      /\ instances' = [instances EXCEPT ![k] = row]
      /\ UNCHANGED <<nextSequence, leaseIndex, clock>>
    BY <1>1, Zenon DEF report_instance_status, ServiceInstance
<1>5. /\ "InstanceStatusReported" \in InstanceKinds
      /\ "InstanceStatusReported" # "InstanceDeregistered"
    BY DEF InstanceKinds
<1> QED BY <1>1, <1>3, <1>4, <1>5, RowUpdatePreserves, Zenon

\* Forgetting a lapsed lease leaves every live row reachable: the times of the
\* commands never pass the clock.
LEMMA RenewLapsedPreserves ==
    ASSUME IInv, NEW lease, NEW now \in CommandTimes, NEW ttl, RenewLapsed(lease, now, ttl)
    PROVE  IInv'
<1> DEFINE k == leaseIndex[lease]
<1>1. /\ lease \in DOMAIN leaseIndex
      /\ k \in DOMAIN instances /\ instances[k].lease_id = lease
      /\ ~(instances[k].expires_at_ms > now)
    BY DEF RenewLapsed, LiveAt, Registered, IInv, LeaseIndexSound
<1>2. /\ UNCHANGED <<revision, nextSequence, events, instances, clock>>
      /\ leaseIndex' = [l \in DOMAIN leaseIndex \ {lease} |-> leaseIndex[l]]
    BY DEF RenewLapsed, Without, logVars
<1>3. TypeOK'
    BY <1>2 DEF IInv, TypeOK, LogTypeOK
<1>4. RowsBounded' /\ EventRevisionsUnique'
    BY <1>2 DEF IInv, RowsBounded, EventRevisionsUnique
<1>5. LeaseIndexSound'
    BY <1>2 DEF IInv, LeaseIndexSound, Registered
<1>6. LiveLeaseRenewable'
    <2> SUFFICES ASSUME NEW j \in DOMAIN instances, instances[j].expires_at_ms > clock
                 PROVE  /\ instances[j].lease_id \in DOMAIN leaseIndex'
                        /\ leaseIndex'[instances[j].lease_id] = j
        BY <1>2 DEF LiveLeaseRenewable, LiveAt, Registered
    <2>1. instances[j].lease_id \in DOMAIN leaseIndex /\ leaseIndex[instances[j].lease_id] = j
        BY DEF IInv, LiveLeaseRenewable, LiveAt, Registered
    <2>2. /\ instances[j].expires_at_ms \in Nat /\ clock \in Nat /\ now \in Nat /\ now <= clock
          /\ instances[k].expires_at_ms \in Nat
        BY <1>1 DEF IInv, TypeOK, ServiceInstance, CommandTimes
    <2>3. j # k
        BY <1>1, <2>2
    <2> QED BY <1>1, <1>2, <2>1, <2>3
<1>7. LogTellsPresence'
    BY <1>2, Zenon DEF IInv, LogTellsPresence, NewestOfKey, InstanceEvents, KeyOf, Registered
<1> QED BY <1>3, <1>4, <1>5, <1>6, <1>7 DEF IInv

\* Taking rows out, each with its lease, leaves index and rows in agreement.
LEMMA RemovePreserves ==
    ASSUME IInv, NEW S \in SUBSET DOMAIN instances,
           instances' = Without(instances, S),
           leaseIndex' = Without(leaseIndex, {instances[k].lease_id : k \in S}),
           revision' \in Nat, revision' >= revision,
           UNCHANGED <<nextSequence, clock>>,
           events' \in SUBSET DiscoveryEvent, IsFiniteSet(events')
    PROVE  TypeOK' /\ RowsBounded' /\ LeaseIndexSound' /\ LiveLeaseRenewable'
<1> DEFINE gone == {instances[k].lease_id : k \in S}
<1>1. /\ DOMAIN instances' = DOMAIN instances \ S
      /\ \A j \in DOMAIN instances \ S : instances'[j] = instances[j]
      /\ instances' = [j \in DOMAIN instances \ S |-> instances[j]]
    BY DEF Without
<1>2. /\ DOMAIN leaseIndex' = DOMAIN leaseIndex \ gone
      /\ \A l \in DOMAIN leaseIndex \ gone : leaseIndex'[l] = leaseIndex[l]
      /\ leaseIndex' = [l \in DOMAIN leaseIndex \ gone |-> leaseIndex[l]]
    BY DEF Without
<1>3. TypeOK'
    BY <1>1, <1>2, Zenon DEF IInv, TypeOK, LogTypeOK
<1>4. RowsBounded'
    BY <1>1 DEF IInv, TypeOK, LogTypeOK, RowsBounded, ServiceInstance
<1>5. LeaseIndexSound'
    <2>1. ASSUME NEW l \in DOMAIN leaseIndex'
          PROVE  /\ leaseIndex'[l] \in DOMAIN instances'
                 /\ instances'[leaseIndex'[l]].lease_id = l
        <3>1. l \in DOMAIN leaseIndex /\ l \notin gone /\ leaseIndex'[l] = leaseIndex[l]
            BY <1>2, <2>1
        <3>2. leaseIndex[l] \in DOMAIN instances /\ instances[leaseIndex[l]].lease_id = l
            BY <3>1 DEF IInv, LeaseIndexSound, Registered
        <3>3. leaseIndex[l] \notin S
            BY <3>1, <3>2
        <3> QED BY <1>1, <3>1, <3>2, <3>3
    <2>2. ASSUME NEW i \in DOMAIN instances', NEW j \in DOMAIN instances',
                 instances'[i].lease_id = instances'[j].lease_id
          PROVE  i = j
        BY <1>1, <2>2 DEF IInv, LeaseIndexSound
    <2> QED BY <2>1, <2>2 DEF LeaseIndexSound, Registered
<1>6. LiveLeaseRenewable'
    BY <1>1, <1>2 DEF IInv, LiveLeaseRenewable, LeaseIndexSound, LiveAt, Registered
<1> QED BY <1>3, <1>4, <1>5, <1>6

\* deregister_instance removes the row, its lease, and says so in the log.
LEMMA DeregisterPreserves ==
    ASSUME IInv, NEW k \in Keys, NEW now, deregister_instance(k, now)
    PROVE  IInv'
<1>1. k \in DOMAIN instances
    BY DEF deregister_instance, LiveAt, Registered
<1>2. /\ revision' = next_revision
      /\ LogInstanceEvent(k, "InstanceDeregistered")
      /\ instances' = Without(instances, {k})
      /\ leaseIndex' = Without(leaseIndex, {instances[j].lease_id : j \in {k}})
      /\ UNCHANGED <<nextSequence, clock>>
    BY DEF deregister_instance
<1>3. /\ revision' \in Nat
      /\ events' \in SUBSET DiscoveryEvent
      /\ IsFiniteSet(events')
      /\ EventRevisionsUnique'
      /\ LogTellsPresence'
    <2>1. "InstanceDeregistered" \in InstanceKinds
        BY DEF InstanceKinds
    <2>2. /\ DOMAIN instances' = DOMAIN instances \ {k}
          /\ \A j \in DOMAIN instances \ {k} : instances'[j] = instances[j]
        BY <1>2 DEF Without
    <2> QED BY <1>2, <2>1, <2>2, AppendPreserves
<1>4. revision' >= revision
    BY <1>2 DEF next_revision, IInv, TypeOK, LogTypeOK
<1>5. {k} \in SUBSET DOMAIN instances
    BY <1>1
<1> QED BY <1>2, <1>3, <1>4, <1>5, RemovePreserves DEF IInv

\* Time passing can only end leases.
LEMMA TickPreserves ==
    ASSUME IInv, Tick
    PROVE  IInv'
<1>1. UNCHANGED <<revision, nextSequence, events, instances, leaseIndex>> /\ clock' = clock + 1
    BY DEF Tick, logVars
<1>2. TypeOK'
    BY <1>1 DEF IInv, TypeOK, LogTypeOK
<1>3. RowsBounded' /\ EventRevisionsUnique' /\ LeaseIndexSound'
    BY <1>1 DEF IInv, RowsBounded, EventRevisionsUnique, LeaseIndexSound, Registered
<1>4. LiveLeaseRenewable'
    BY <1>1 DEF IInv, TypeOK, LiveLeaseRenewable, LiveAt, Registered, ServiceInstance
<1>5. LogTellsPresence'
    BY <1>1, Zenon DEF IInv, LogTellsPresence, NewestOfKey, InstanceEvents, KeyOf, Registered
<1> QED BY <1>2, <1>3, <1>4, <1>5 DEF IInv

-----------------------------------------------------------------------------
(* The expiry scan. *)

\* Numbering a set of keys in the scan's order gives each its own number,
\* from one to the size of the set.
LEMMA ScanNumbering ==
    ASSUME NEW S \in SUBSET Keys
    PROVE  /\ Cardinality(S) \in Nat
           /\ \A k \in S : Cardinality(UpTo(S, k)) \in 1 .. Cardinality(S)
           /\ \A j, k \in S : Cardinality(UpTo(S, j)) = Cardinality(UpTo(S, k)) => j = k
<1>1. IsFiniteSet(S) /\ Cardinality(S) \in Nat
    BY KeyRankAssumption, FS_Subset, FS_CardinalityType
<1>2. ASSUME NEW k \in S
      PROVE  /\ IsFiniteSet(UpTo(S, k))
             /\ Cardinality(UpTo(S, k)) \in 1 .. Cardinality(S)
    <2>1. UpTo(S, k) \in SUBSET S /\ k \in UpTo(S, k)
        BY KeyRankAssumption DEF UpTo
    <2>2. /\ IsFiniteSet(UpTo(S, k))
          /\ Cardinality(UpTo(S, k)) <= Cardinality(S)
        BY <1>1, <2>1, FS_Subset
    <2>3. Cardinality(UpTo(S, k)) \in Nat /\ Cardinality(UpTo(S, k)) # 0
        BY <2>1, <2>2, FS_CardinalityType, FS_EmptySet
    <2> QED BY <1>1, <2>2, <2>3
<1>3. ASSUME NEW j \in S, NEW k \in S, KeyRank[j] < KeyRank[k],
             Cardinality(UpTo(S, j)) = Cardinality(UpTo(S, k))
      PROVE  FALSE
    <2>1. UpTo(S, j) \in SUBSET UpTo(S, k) /\ k \in UpTo(S, k) /\ k \notin UpTo(S, j)
        BY <1>3, KeyRankAssumption DEF UpTo
    <2>2. UpTo(S, j) = UpTo(S, k)
        BY <1>2, <1>3, <2>1, FS_Subset
    <2> QED BY <2>1, <2>2
<1>4. ASSUME NEW j \in S, NEW k \in S, Cardinality(UpTo(S, j)) = Cardinality(UpTo(S, k))
      PROVE  j = k
    <2>1. KeyRank[j] \in Nat /\ KeyRank[k] \in Nat
        BY KeyRankAssumption
    <2>2. ~(KeyRank[j] < KeyRank[k]) /\ ~(KeyRank[k] < KeyRank[j])
        BY <1>3, <1>4
    <2> QED BY <2>1, <2>2, KeyRankAssumption
<1> QED BY <1>1, <1>2, <1>4

\* A scan logs one Deregistered event per reaped row, in fresh revisions.
LEMMA ScanEvents ==
    ASSUME IInv, NEW S \in SUBSET Keys, NEW new,
           new = {InstanceEvent(k, "InstanceDeregistered", revision + Cardinality(UpTo(S, k)))
                     : k \in S}
    PROVE  /\ new \in SUBSET DiscoveryEvent
           /\ IsFiniteSet(new)
           /\ \A e \in new : /\ e.kind = "InstanceDeregistered"
                             /\ KeyOf(e) \in S
                             /\ revision < e.revision
                             /\ e.revision <= revision + Cardinality(S)
           /\ \A e, f \in new : e.revision = f.revision => e = f
           /\ \A k \in S : \E e \in new : KeyOf(e) = k
<1> DEFINE eventOf(k) == InstanceEvent(k, "InstanceDeregistered",
                                       revision + Cardinality(UpTo(S, k)))
<1>1. revision \in Nat /\ "InstanceDeregistered" \in InstanceKinds
    BY DEF IInv, TypeOK, LogTypeOK, InstanceKinds
<1>2. /\ Cardinality(S) \in Nat
      /\ \A k \in S : Cardinality(UpTo(S, k)) \in 1 .. Cardinality(S)
      /\ \A j, k \in S : Cardinality(UpTo(S, j)) = Cardinality(UpTo(S, k)) => j = k
    BY ScanNumbering
<1>3. ASSUME NEW k \in S
      PROVE  /\ eventOf(k) \in DiscoveryEvent
             /\ KeyOf(eventOf(k)) = k
             /\ eventOf(k).revision = revision + Cardinality(UpTo(S, k))
             /\ eventOf(k).kind = "InstanceDeregistered"
    <2>1. revision + Cardinality(UpTo(S, k)) \in Nat /\ k \in Keys
        BY <1>1, <1>2
    <2> QED BY <1>1, <2>1, InstanceEventFacts
<1>4. IsFiniteSet(new)
    <2> DEFINE F == [k \in S |-> eventOf(k)]
    <2>1. IsFiniteSet(S)
        BY KeyRankAssumption, FS_Subset
    <2>2. F \in Surjection(S, new)
        <3>1. F \in [S -> new]
            OBVIOUS
        <3>2. \A e \in new : \E k \in S : F[k] = e
            OBVIOUS
        <3> HIDE DEF F
        <3> QED BY <3>1, <3>2, Zenon DEF Surjection
    <2> QED BY <2>1, <2>2, FS_Surjection
<1> HIDE DEF eventOf
<1>5. new = {eventOf(k) : k \in S}
    BY DEF eventOf
<1>6. \A e \in new : \E k \in S : e = eventOf(k)
    BY <1>5, Zenon
<1>7. \A e, f \in new : e.revision = f.revision => e = f
    BY <1>1, <1>2, <1>3, <1>6
<1>8. \A e \in new : /\ e \in DiscoveryEvent
                     /\ e.kind = "InstanceDeregistered"
                     /\ KeyOf(e) \in S
                     /\ revision < e.revision
                     /\ e.revision <= revision + Cardinality(S)
    BY <1>1, <1>2, <1>3, <1>6
<1>9. \A k \in S : eventOf(k) \in new /\ KeyOf(eventOf(k)) = k
    BY <1>3, <1>5, Zenon
<1> QED BY <1>4, <1>7, <1>8, <1>9

\* The scan removes rows, their leases, and says so in the log.
LEMMA ExpirePreserves ==
    ASSUME IInv, NEW now, NEW max_instances, expire_instances(now, max_instances)
    PROVE  IInv'
<1> DEFINE S == ExpiredKeys(now, max_instances)
           new == {InstanceEvent(k, "InstanceDeregistered", revision + Cardinality(UpTo(S, k)))
                     : k \in S}
<1>1. S \in SUBSET DOMAIN instances /\ S \in SUBSET Keys
    BY DEF ExpiredKeys, IInv, TypeOK
<1>2. /\ revision' = revision + Cardinality(S)
      /\ instances' = Without(instances, S)
      /\ leaseIndex' = Without(leaseIndex, {instances[k].lease_id : k \in S})
      /\ events' = events \cup new
      /\ UNCHANGED <<nextSequence, clock>>
    BY DEF expire_instances
<1> HIDE DEF S
<1>3. /\ new \in SUBSET DiscoveryEvent
      /\ IsFiniteSet(new)
      /\ \A e \in new : /\ e.kind = "InstanceDeregistered"
                        /\ KeyOf(e) \in S
                        /\ revision < e.revision
                        /\ e.revision <= revision + Cardinality(S)
      /\ \A e, f \in new : e.revision = f.revision => e = f
      /\ \A k \in S : \E e \in new : KeyOf(e) = k
    BY <1>1, ScanEvents, Zenon
<1> HIDE DEF new
<1>4. revision \in Nat /\ Cardinality(S) \in Nat
    BY <1>1, ScanNumbering DEF IInv, TypeOK, LogTypeOK
<1>5. events' \in SUBSET DiscoveryEvent /\ IsFiniteSet(events')
    BY <1>2, <1>3, FS_Union, Zenon DEF IInv, TypeOK, LogTypeOK
<1>6. TypeOK' /\ RowsBounded' /\ LeaseIndexSound' /\ LiveLeaseRenewable'
    <2>1. revision' \in Nat /\ revision' >= revision
        BY <1>2, <1>4
    <2> QED BY <1>1, <1>2, <1>5, <2>1, RemovePreserves, Zenon
<1>7. \A e \in events : e.revision \in Nat /\ e.revision <= revision
    BY DEF IInv, TypeOK, LogTypeOK, EventRevisionsUnique, DiscoveryEvent
<1>8. \A e \in new : e.revision \in Nat
    BY <1>3 DEF DiscoveryEvent
<1>9. EventRevisionsUnique'
    BY <1>2, <1>3, <1>4, <1>7, <1>8 DEF EventRevisionsUnique, IInv
<1>10. LogTellsPresence'
    <2> SUFFICES ASSUME NEW e \in InstanceEvents', NewestOfKey(e)'
                 PROVE  IF e.kind = "InstanceDeregistered"
                        THEN KeyOf(e) \notin DOMAIN instances'
                        ELSE /\ KeyOf(e) \in DOMAIN instances'
                             /\ instances'[KeyOf(e)].revision = e.revision
        BY DEF LogTellsPresence, Registered, KeyOf
    <2>1. /\ DOMAIN instances' = DOMAIN instances \ S
          /\ \A j \in DOMAIN instances \ S : instances'[j] = instances[j]
        BY <1>2 DEF Without
    <2>2. CASE e \in new
        BY <1>3, <2>1, <2>2
    <2>3. CASE e \notin new
        <3>1. e \in InstanceEvents
            BY <1>2, <2>3 DEF InstanceEvents
        <3>2. KeyOf(e) \notin S
            <4> SUFFICES ASSUME KeyOf(e) \in S PROVE FALSE
                OBVIOUS
            <4>1. PICK f \in new : KeyOf(f) = KeyOf(e)
                BY <1>3
            <4>2. f \in InstanceEvents'
                BY <1>2, <1>3 DEF InstanceEvents, InstanceKinds
            <4>3. f.revision <= e.revision
                BY <4>1, <4>2 DEF NewestOfKey, KeyOf
            <4> QED BY <1>3, <1>4, <1>7, <1>8, <3>1, <4>3 DEF InstanceEvents
        <3>3. NewestOfKey(e)
            BY <1>2 DEF NewestOfKey, InstanceEvents, KeyOf
        <3> QED BY <2>1, <3>1, <3>2, <3>3 DEF LogTellsPresence, Registered, IInv
    <2> QED BY <2>2, <2>3
<1> QED BY <1>6, <1>9, <1>10 DEF IInv

-----------------------------------------------------------------------------
(* The theorems. *)

\* An empty store satisfies the inductive invariant.
LEMMA InitIInv == Init => IInv
<1> SUFFICES ASSUME Init PROVE IInv
    OBVIOUS
<1>1. /\ revision = 0 /\ nextSequence = 0 /\ events = {} /\ clock = 0
      /\ DOMAIN instances = {} /\ DOMAIN leaseIndex = {}
      /\ instances \in [{} -> ServiceInstance] /\ leaseIndex \in [{} -> Keys]
    BY DEF Init, LogInit
<1>2. TypeOK
    BY <1>1, FS_EmptySet DEF TypeOK, LogTypeOK
<1>3. RowsBounded /\ LeaseIndexSound /\ LiveLeaseRenewable
    BY <1>1 DEF RowsBounded, LeaseIndexSound, LiveLeaseRenewable
<1>4. EventRevisionsUnique /\ LogTellsPresence
    BY <1>1 DEF EventRevisionsUnique, LogTellsPresence, InstanceEvents
<1> QED BY <1>2, <1>3, <1>4 DEF IInv

\* Every command, every timer of the actor and the clock preserve it.
LEMMA NextIInv == IInv /\ [Next]_vars => IInv'
<1> SUFFICES ASSUME IInv, [Next]_vars PROVE IInv'
    OBVIOUS
<1>1. CASE Register
    BY <1>1, RegisterPreserves DEF Register
<1>2. CASE FailedRegister
    BY <1>2, RegisterOverflowPreserves DEF FailedRegister
<1>3. CASE Renew
    <2>1. PICK lease \in 1 .. nextSequence, now \in CommandTimes, ttl \in Ttls :
             renew_lease(lease, now, ttl) \/ RenewLapsed(lease, now, ttl)
        BY <1>3 DEF Renew
    <2>2. CASE renew_lease(lease, now, ttl)
        BY <2>2, RenewPreserves
    <2>3. CASE RenewLapsed(lease, now, ttl)
        BY <2>3, RenewLapsedPreserves
    <2> QED BY <2>1, <2>2, <2>3
<1>4. CASE Report
    BY <1>4, ReportPreserves DEF Report
<1>5. CASE Deregister
    BY <1>5, DeregisterPreserves DEF Deregister
<1>6. CASE run_expiry_scan
    BY <1>6, ExpirePreserves DEF run_expiry_scan
<1>7. CASE run_event_gc
    BY <1>7, GcCuts, TrimPreserves
<1>8. CASE Compact
    BY <1>8, CompactCuts, TrimPreserves
<1>9. CASE Tick
    BY <1>9, TickPreserves
<1>10. CASE UNCHANGED vars
    BY <1>10
    DEF vars, logVars, registryVars, IInv, TypeOK, LogTypeOK, RowsBounded, LeaseIndexSound,
        LiveLeaseRenewable, EventRevisionsUnique, LogTellsPresence, NewestOfKey,
        InstanceEvents, KeyOf, LiveAt, Registered
<1> QED BY <1>1, <1>2, <1>3, <1>4, <1>5, <1>6, <1>7, <1>8, <1>9, <1>10 DEF Next, Command, Timer

\* The inductive invariant holds in every reachable state of the store.
THEOREM Invariance == Spec => []IInv
BY InitIInv, NextIInv, PTL DEF Spec

\* Commands, scans and trimming keep the store's maps and log well typed.
THEOREM TypeCorrect == Spec => []TypeOK
<1>1. IInv => TypeOK
    BY DEF IInv
<1> QED BY <1>1, Invariance, PTL

\* lease_index and instances never disagree.
THEOREM LeaseIndexIsSound == Spec => []LeaseIndexSound
<1>1. IInv => LeaseIndexSound
    BY DEF IInv
<1> QED BY <1>1, Invariance, PTL

\* A lease that has not expired can be renewed, whatever late commands did.
THEOREM LiveLeasesAreRenewable == Spec => []LiveLeaseRenewable
<1>1. IInv => LiveLeaseRenewable
    BY DEF IInv
<1> QED BY <1>1, Invariance, PTL

\* A revision names at most one event of the log.
THEOREM EventRevisionsAreUnique == Spec => []EventRevisionsUnique
<1>1. IInv => EventRevisionsUnique
    BY DEF IInv
<1> QED BY <1>1, Invariance, PTL

\* The newest event of an instance tells whether, and at which revision, the
\* store holds it, after any garbage collection and compaction.
THEOREM LogIsTruthful == Spec => []LogTellsPresence
<1>1. IInv => LogTellsPresence
    BY DEF IInv
<1> QED BY <1>1, Invariance, PTL

-----------------------------------------------------------------------------
(* The action properties. *)

\* What a command that touches one row does to the rows and to the log.
LEMMA OneRowStep ==
    ASSUME IInv, NEW k \in Keys, NEW kind \in InstanceKinds,
           revision' = next_revision, LogInstanceEvent(k, kind),
           \A j : j # k =>
               /\ j \in DOMAIN instances' <=> j \in DOMAIN instances
               /\ j \in DOMAIN instances => instances'[j] = instances[j],
           k \in DOMAIN instances' => instances'[k].revision = next_revision
    PROVE  AppendsNewest /\ LogsRowChanges
<1> DEFINE new == InstanceEvent(k, kind, next_revision)
<1>1. next_revision \in Nat /\ revision \in Nat /\ next_revision > revision
    BY DEF next_revision, IInv, TypeOK, LogTypeOK
<1>2. KeyOf(new) = k /\ new.revision = next_revision
    BY <1>1, InstanceEventFacts
<1>3. events' = events \cup {new}
    BY DEF LogInstanceEvent
<1> HIDE DEF new
<1>4. AppendsNewest
    BY <1>1, <1>2, <1>3 DEF AppendsNewest
<1>5. LogsRowChanges
    <2> SUFFICES ASSUME NEW j \in Keys, RowChanges(j)
                 PROVE  \E e \in events' : /\ KeyOf(e) = j
                                           /\ e.revision > revision
                                           /\ Registered(j)' => instances'[j].revision = e.revision
        BY DEF LogsRowChanges
    <2>1. j = k
        BY DEF RowChanges, Registered
    <2> QED BY <1>1, <1>2, <1>3, <2>1 DEF Registered
<1> QED BY <1>4, <1>5

\* The scan logs what it removes, and removes nothing whose lease still runs.
LEMMA ScanTells ==
    ASSUME IInv, run_expiry_scan
    PROVE  AppendsNewest /\ LogsRowChanges /\ KeepsLiveRows
<1> DEFINE S == ExpiredKeys(clock, ScanBatch)
           new == {InstanceEvent(k, "InstanceDeregistered", revision + Cardinality(UpTo(S, k)))
                     : k \in S}
<1>1. /\ S \in SUBSET Keys
      /\ \A k \in S : k \in DOMAIN instances /\ instances[k].expires_at_ms <= clock
    BY DEF ExpiredKeys, IInv, TypeOK
<1>2. /\ revision' = revision + Cardinality(S)
      /\ instances' = Without(instances, S)
      /\ events' = events \cup new
    BY DEF run_expiry_scan, expire_instances
<1> HIDE DEF S
<1>3. /\ \A e \in new : /\ KeyOf(e) \in S
                        /\ revision < e.revision
                        /\ e.revision <= revision + Cardinality(S)
      /\ new \in SUBSET DiscoveryEvent
      /\ \A k \in S : \E e \in new : KeyOf(e) = k
    BY <1>1, ScanEvents, Zenon
<1> HIDE DEF new
<1>4. /\ DOMAIN instances' = DOMAIN instances \ S
      /\ \A j \in DOMAIN instances \ S : instances'[j] = instances[j]
    BY <1>2 DEF Without
<1>5. AppendsNewest
    BY <1>2, <1>3 DEF AppendsNewest
<1>6. LogsRowChanges
    <2> SUFFICES ASSUME NEW k \in Keys, RowChanges(k)
                 PROVE  \E e \in events' : /\ KeyOf(e) = k
                                           /\ e.revision > revision
                                           /\ Registered(k)' => instances'[k].revision = e.revision
        BY DEF LogsRowChanges
    <2>1. k \in S /\ ~Registered(k)'
        BY <1>4 DEF RowChanges, Registered
    <2>2. PICK e \in new : KeyOf(e) = k
        BY <1>3, <2>1
    <2>3. e \in events' /\ revision < e.revision
        BY <1>2, <1>3
    <2>4. e.revision > revision
        BY <1>3, <2>3 DEF DiscoveryEvent, IInv, TypeOK, LogTypeOK
    <2> QED BY <2>1, <2>2, <2>3, <2>4
<1>7. KeepsLiveRows
    BY <1>1, <1>4 DEF KeepsLiveRows, LiveAt, Registered, IInv, TypeOK, ServiceInstance
<1> QED BY <1>5, <1>6, <1>7

\* A step that leaves the rows alone and adds no event.
LEMMA QuietStep ==
    ASSUME UNCHANGED instances, events' \subseteq events
    PROVE  AppendsNewest /\ LogsRowChanges /\ KeepsLiveRows
BY DEF AppendsNewest, LogsRowChanges, RowChanges, KeepsLiveRows, LiveAt, Registered

\* Each command changes at most one row, logs it, and removes no live row but
\* on request.
LEMMA CommandStep ==
    ASSUME IInv, Command
    PROVE  AppendsNewest /\ LogsRowChanges /\ KeepsLiveRows
<1> USE DEF InstanceKinds
<1>1. CASE Register
    <2>1. PICK k \in Keys, now \in CommandTimes, ttl \in Ttls, persistent \in BOOLEAN,
               status \in Status, expected \in ExpectedRevisions :
                   register_instance(k, now, ttl, persistent, status, expected)
        BY <1>1 DEF Register
    <2>2. /\ DOMAIN instances' = DOMAIN instances \cup {k}
          /\ \A j \in DOMAIN instances : j # k => instances'[j] = instances[j]
          /\ instances'[k].revision = next_revision
          /\ revision' = next_revision
        BY <2>1, Zenon DEF register_instance, Put
    <2>3. \/ LogInstanceEvent(k, "InstanceUpdated")
          \/ LogInstanceEvent(k, "InstanceRegistered")
        BY <2>1 DEF register_instance
    <2>4. KeepsLiveRows
        BY <2>2 DEF KeepsLiveRows, LiveAt, Registered
    <2> QED BY <2>2, <2>3, <2>4, OneRowStep
<1>2. CASE FailedRegister
    <2>1. UNCHANGED instances /\ events' \subseteq events
        BY <1>2 DEF FailedRegister, RegisterOverflow, registryVars
    <2> QED BY <2>1, QuietStep
<1>3. CASE Renew
    <2>1. PICK lease \in 1 .. nextSequence, now \in CommandTimes, ttl \in Ttls :
             renew_lease(lease, now, ttl) \/ RenewLapsed(lease, now, ttl)
        BY <1>3 DEF Renew
    <2>2. CASE renew_lease(lease, now, ttl)
        <3> DEFINE k == leaseIndex[lease]
        <3>1. k \in DOMAIN instances /\ k \in Keys
            BY <2>2 DEF renew_lease, LiveAt, Registered, IInv, TypeOK
        <3>2. /\ revision' = next_revision
              /\ instances' = [instances EXCEPT ![k].expires_at_ms = now + ttl,
                                                ![k].revision = next_revision]
              /\ LogInstanceEvent(k, "InstanceRenewed")
            BY <2>2 DEF renew_lease
        <3>3. /\ DOMAIN instances' = DOMAIN instances
              /\ \A j \in DOMAIN instances : j # k => instances'[j] = instances[j]
              /\ instances'[k].revision = next_revision
            BY <3>1, <3>2, Zenon DEF IInv, TypeOK, ServiceInstance
        <3>4. KeepsLiveRows
            BY <3>3 DEF KeepsLiveRows, LiveAt, Registered
        <3> HIDE DEF k
        <3> QED BY <3>1, <3>2, <3>3, <3>4, OneRowStep
    <2>3. CASE RenewLapsed(lease, now, ttl)
        <3>1. UNCHANGED instances /\ events' \subseteq events
            BY <2>3 DEF RenewLapsed, logVars
        <3> QED BY <3>1, QuietStep
    <2> QED BY <2>1, <2>2, <2>3
<1>4. CASE Report
    <2>1. PICK k \in Keys, now \in CommandTimes, status \in Status,
               expected \in ExpectedRevisions : report_instance_status(k, now, status, expected)
        BY <1>4 DEF Report
    <2>2. k \in DOMAIN instances
        BY <2>1 DEF report_instance_status, LiveAt, Registered
    <2>3. /\ revision' = next_revision
          /\ LogInstanceEvent(k, "InstanceStatusReported")
          /\ instances' = [instances EXCEPT ![k].status = status,
                                            ![k].revision = next_revision]
        BY <2>1 DEF report_instance_status
    <2>4. /\ DOMAIN instances' = DOMAIN instances
          /\ \A j \in DOMAIN instances : j # k => instances'[j] = instances[j]
          /\ instances'[k].revision = next_revision
        BY <2>2, <2>3, Zenon DEF IInv, TypeOK, ServiceInstance
    <2>5. KeepsLiveRows
        BY <2>4 DEF KeepsLiveRows, LiveAt, Registered
    <2> QED BY <2>3, <2>4, <2>5, OneRowStep
<1>5. CASE Deregister
    <2>1. PICK k \in Keys, now \in CommandTimes : deregister_instance(k, now)
        BY <1>5 DEF Deregister
    <2>2. /\ DOMAIN instances' = DOMAIN instances \ {k}
          /\ \A j \in DOMAIN instances \ {k} : instances'[j] = instances[j]
          /\ revision' = next_revision
          /\ LogInstanceEvent(k, "InstanceDeregistered")
        BY <2>1 DEF deregister_instance, Without
    <2>3. KeepsLiveRows
        BY <1>5 DEF KeepsLiveRows
    <2> QED BY <2>2, <2>3, OneRowStep
<1> QED BY <1>1, <1>2, <1>3, <1>4, <1>5 DEF Command

\* Every step of the store keeps the three promises.
LEMMA StepPromises ==
    ASSUME IInv, [Next]_vars
    PROVE  AppendsNewest /\ LogsRowChanges /\ KeepsLiveRows
<1>1. CASE run_event_gc
    <2>1. UNCHANGED instances /\ events' \subseteq events
        BY <1>1 DEF run_event_gc, gc_watch_events, registryVars
    <2> QED BY <2>1, QuietStep
<1>2. CASE Compact
    <2>1. UNCHANGED instances /\ events' \subseteq events
        BY <1>2 DEF Compact, compact_watch_events, registryVars
    <2> QED BY <2>1, QuietStep
<1>3. CASE Tick \/ UNCHANGED vars
    <2>1. UNCHANGED instances /\ events' \subseteq events
        BY <1>3 DEF Tick, vars, logVars, registryVars
    <2> QED BY <2>1, QuietStep
<1> QED BY <1>1, <1>2, <1>3, CommandStep, ScanTells DEF Next, Timer

\* Events enter the log in revision order.
THEOREM LogIsOrdered == Spec => NewEventsAreNewest
<1>1. IInv /\ [Next]_vars => [AppendsNewest]_vars
    BY StepPromises
<1> QED BY <1>1, Invariance, PTL DEF Spec, NewEventsAreNewest

\* No row changes without an event, and the row takes the event's revision.
THEOREM ChangesAreLogged == Spec => RowChangesAreLogged
<1>1. IInv /\ [Next]_vars => [LogsRowChanges]_vars
    BY StepPromises
<1> QED BY <1>1, Invariance, PTL DEF Spec, RowChangesAreLogged

\* Only deregister_instance takes away a row whose lease still runs.
THEOREM LeasesAreHonoured == Spec => LeaseHonoured
<1>1. IInv /\ [Next]_vars => [KeepsLiveRows]_vars
    BY StepPromises
<1> QED BY <1>1, Invariance, PTL DEF Spec, LeaseHonoured

-----------------------------------------------------------------------------
(* The store implements ServiceRegistry: every command, scan, collection and *)
(* compaction, and every tick of the clock, is one step of the promise or    *)
(* changes nothing that watchers see.                                        *)

\* The refinement mapping.
Rows ==
    [k \in DOMAIN instances |->
        [revision |-> instances[k].revision, live |-> LiveAt(k, clock)]]

\* One row is written, one event logged: registering, renewing, reporting.
LEMMA OneRowIsUpsert ==
    ASSUME NEW k \in Keys, NEW kind \in InstanceKinds, kind # "InstanceDeregistered",
           revision' = next_revision, LogInstanceEvent(k, kind), UNCHANGED clock,
           DOMAIN instances' = DOMAIN instances \cup {k},
           instances'[k].revision = next_revision,
           \A j \in DOMAIN instances \ {k} : instances'[j] = instances[j]
    PROVE  Registry!PromiseNext
<1>1. PICK live \in BOOLEAN : live = (k \in DOMAIN instances' /\ instances'[k].expires_at_ms > clock')
    BY Zenon
<1>2. Rows' = [j \in DOMAIN Rows \cup {k} |->
                IF j = k THEN [revision |-> next_revision, live |-> live] ELSE Rows[j]]
    BY <1>1 DEF Rows, LiveAt, Registered
<1>3. Registry!Upsert(k, kind, live)
    BY <1>2, Zenon DEF Registry!Upsert, Registry!next_revision, Registry!InstanceEvent,
                LogInstanceEvent, InstanceEvent, next_revision, Rows
<1> QED BY <1>1, <1>3, Zenon DEF Registry!PromiseNext, Registry!InstanceKinds, InstanceKinds

\* Rows go, numbered one by one: deregistering, and the expiry scan.
LEMMA RemovalIsRemove ==
    ASSUME IInv, NEW S \in SUBSET DOMAIN instances, NEW number \in [S -> Nat \ {0}],
           NEW n \in Nat, \A k \in S : number[k] <= n,
           \A j, k \in S : number[j] = number[k] => j = k,
           revision' = revision + n,
           events' = events \cup {InstanceEvent(k, "InstanceDeregistered", revision + number[k]) : k \in S},
           instances' = Without(instances, S), UNCHANGED clock
    PROVE  Registry!PromiseNext
<1> DEFINE revisionOf == [k \in S |-> revision + number[k]]
<1>1. revision \in Nat
    BY DEF IInv, TypeOK, LogTypeOK
<1>2. revisionOf \in [S -> next_revision .. revision']
    BY <1>1 DEF next_revision
<1>3. \A j, k \in S : revisionOf[j] = revisionOf[k] => j = k
    BY <1>1
<1>4. Rows' = [j \in DOMAIN Rows \ S |-> Rows[j]]
    <2>1. DOMAIN instances' = DOMAIN instances \ S
        BY DEF Without
    <2>2. \A j \in DOMAIN instances \ S : instances'[j] = instances[j] /\ LiveAt(j, clock)' = LiveAt(j, clock)
        BY DEF LiveAt, Registered, Without
    <2> QED BY <2>1, <2>2 DEF Rows
<1>5. S \in SUBSET DOMAIN Rows
    BY DEF Rows
<1>6. events' = events \cup {InstanceEvent(k, "InstanceDeregistered", revisionOf[k]) : k \in S}
    OBVIOUS
<1>7. revision' >= revision
    BY <1>1
<1> HIDE DEF revisionOf
<1>8. events' = events \cup {Registry!InstanceEvent(k, "InstanceDeregistered", revisionOf[k]) : k \in S}
    BY <1>6 DEF Registry!InstanceEvent, InstanceEvent
<1>9. Registry!next_revision = next_revision
    BY DEF Registry!next_revision, next_revision
<1>10. Registry!Remove(S, revisionOf, revision')
    BY <1>2, <1>3, <1>4, <1>5, <1>7, <1>8, <1>9, Zenon DEF Registry!Remove, Rows
<1> QED BY <1>2, <1>5, <1>9, <1>10 DEF Registry!PromiseNext, Rows

\* The collector and compaction.
LEMMA CutIsTrim ==
    ASSUME CutsLog
    PROVE  Registry!PromiseNext
<1>1. Registry!Trim
    BY DEF CutsLog, registryVars, Registry!Trim, LiveAt, Registered
<1> QED BY <1>1 DEF Registry!PromiseNext

\* The clock moves on, and leases run out under it.
LEMMA TickIsLapse ==
    ASSUME IInv, Tick
    PROVE  Registry!PromiseNext
<1>1. UNCHANGED <<revision, events, instances>> /\ clock \in Nat /\ clock' = clock + 1
    BY DEF Tick, logVars, IInv, TypeOK
<1>2. PICK S \in SUBSET DOMAIN instances : S = {k \in DOMAIN instances : instances[k].expires_at_ms <= clock'}
    BY Zenon
<1>3. \A k \in DOMAIN instances : instances[k].expires_at_ms \in Nat
    BY DEF IInv, TypeOK, ServiceInstance
<1>4. /\ \A k \in S : (instances[k].expires_at_ms > clock') = FALSE
      /\ \A k \in DOMAIN instances \ S : /\ (instances[k].expires_at_ms > clock') = TRUE
                                         /\ LiveAt(k, clock) = TRUE
    BY <1>1, <1>2, <1>3 DEF LiveAt, Registered
<1>5. Rows' = [j \in DOMAIN Rows |->
                IF j \in S THEN [revision |-> Rows[j].revision, live |-> FALSE] ELSE Rows[j]]
    <2>1. Rows' = [k \in DOMAIN instances |->
                     [revision |-> instances[k].revision, live |-> instances[k].expires_at_ms > clock']]
        BY <1>1 DEF Rows, LiveAt, Registered
    <2>2. \A k \in S : Rows'[k] = [revision |-> Rows[k].revision, live |-> FALSE]
        BY <1>4, <2>1, Zenon DEF Rows
    <2>3. \A k \in DOMAIN instances \ S : Rows'[k] = Rows[k]
        BY <1>4, <2>1, Zenon DEF Rows
    <2>4. DOMAIN Rows = DOMAIN instances /\ Rows' = [k \in DOMAIN instances |-> Rows'[k]]
        BY <2>1 DEF Rows
    <2> QED BY <2>2, <2>3, <2>4, Zenon
<1>6. Registry!Lapse(S)
    BY <1>1, <1>5 DEF Registry!Lapse, Rows
<1>7. S \in SUBSET DOMAIN Rows
    BY DEF Rows
<1> QED BY <1>6, <1>7 DEF Registry!PromiseNext, Rows

-----------------------------------------------------------------------------
(* The commands and timers. *)

\* Registering and reporting write one row.
LEMMA WritesAreUpserts ==
    ASSUME IInv, Register \/ Report
    PROVE  Registry!PromiseNext
<1>1. CASE Register
    <2>1. PICK k \in Keys, now \in CommandTimes, ttl \in Ttls, persistent \in BOOLEAN,
               status \in Status, expected \in ExpectedRevisions :
                   register_instance(k, now, ttl, persistent, status, expected)
        BY <1>1 DEF Register
    <2>2. PICK kind \in InstanceKinds : kind # "InstanceDeregistered" /\ LogInstanceEvent(k, kind)
        BY <2>1 DEF register_instance, InstanceKinds
    <2>3. /\ revision' = next_revision /\ UNCHANGED clock
          /\ DOMAIN instances' = DOMAIN instances \cup {k}
          /\ instances'[k].revision = next_revision
          /\ \A j \in DOMAIN instances \ {k} : instances'[j] = instances[j]
        BY <2>1, Zenon DEF register_instance, Put
    <2> QED BY <2>2, <2>3, OneRowIsUpsert
<1>2. CASE Report
    <2>1. PICK k \in Keys, now \in CommandTimes, status \in Status, expected \in ExpectedRevisions :
                   report_instance_status(k, now, status, expected)
        BY <1>2 DEF Report
    <2>2. k \in DOMAIN instances /\ instances[k] \in ServiceInstance
        BY <2>1 DEF report_instance_status, LiveAt, Registered, IInv, TypeOK
    <2>3. /\ revision' = next_revision /\ UNCHANGED clock
          /\ DOMAIN instances' = DOMAIN instances \cup {k}
          /\ instances'[k].revision = next_revision
          /\ \A j \in DOMAIN instances \ {k} : instances'[j] = instances[j]
        BY <2>1, <2>2, Zenon DEF report_instance_status, ServiceInstance
    <2>4. LogInstanceEvent(k, "InstanceStatusReported")
        BY <2>1 DEF report_instance_status
    <2> QED BY <2>3, <2>4, OneRowIsUpsert DEF InstanceKinds
<1> QED BY <1>1, <1>2

\* A renewal writes the row of its lease, or forgets a lapsed lease, unseen.
LEMMA RenewalMaps ==
    ASSUME IInv, Renew
    PROVE  Registry!PromiseNext \/ UNCHANGED <<revision, events, instances, clock>>
<1>1. PICK lease \in 1 .. nextSequence, now \in CommandTimes, ttl \in Ttls :
          renew_lease(lease, now, ttl) \/ RenewLapsed(lease, now, ttl)
    BY DEF Renew
<1>2. CASE renew_lease(lease, now, ttl)
    <2>1. PICK k \in Keys : k = leaseIndex[lease]
        BY <1>2 DEF renew_lease, IInv, TypeOK
    <2>2. k \in DOMAIN instances /\ instances[k] \in ServiceInstance
        BY <1>2, <2>1 DEF renew_lease, LiveAt, Registered, IInv, TypeOK
    <2>3. /\ revision' = next_revision /\ UNCHANGED clock
          /\ DOMAIN instances' = DOMAIN instances \cup {k}
          /\ instances'[k].revision = next_revision
          /\ \A j \in DOMAIN instances \ {k} : instances'[j] = instances[j]
        BY <1>2, <2>1, <2>2, Zenon DEF renew_lease, ServiceInstance
    <2>4. LogInstanceEvent(k, "InstanceRenewed")
        BY <1>2, <2>1 DEF renew_lease
    <2> QED BY <2>3, <2>4, OneRowIsUpsert DEF InstanceKinds
<1>3. CASE RenewLapsed(lease, now, ttl)
    BY <1>3 DEF RenewLapsed, logVars
<1> QED BY <1>1, <1>2, <1>3

\* A deregistration removes one row, a scan those it reaps, each at its own revision.
LEMMA RemovalsMap ==
    ASSUME IInv, Deregister \/ run_expiry_scan
    PROVE  Registry!PromiseNext
<1>0. revision \in Nat /\ DOMAIN instances \subseteq Keys
    BY DEF IInv, TypeOK, LogTypeOK
<1>1. CASE Deregister
    <2>1. PICK k \in Keys, now \in CommandTimes : deregister_instance(k, now)
        BY <1>1 DEF Deregister
    <2>2. {k} \in SUBSET DOMAIN instances
        BY <2>1 DEF deregister_instance, LiveAt, Registered
    <2>3. PICK number : number = [j \in {k} |-> 1]
        BY Zenon
    <2>4. /\ revision' = revision + 1 /\ UNCHANGED clock
          /\ instances' = Without(instances, {k})
          /\ events' = events \cup {InstanceEvent(j, "InstanceDeregistered", revision + number[j]) : j \in {k}}
        BY <2>1, <2>3 DEF deregister_instance, LogInstanceEvent, next_revision
    <2>5. /\ number \in [{k} -> Nat \ {0}] /\ \A j \in {k} : number[j] <= 1
          /\ \A i, j \in {k} : number[i] = number[j] => i = j
        BY <2>3
    <2> QED BY <2>2, <2>4, <2>5, RemovalIsRemove, Zenon
<1>2. CASE run_expiry_scan
    <2>1. PICK S \in SUBSET DOMAIN instances : S = ExpiredKeys(clock, ScanBatch)
        BY Zenon DEF ExpiredKeys
    <2>2. /\ Cardinality(S) \in Nat
          /\ \A k \in S : Cardinality(UpTo(S, k)) \in 1 .. Cardinality(S)
          /\ \A j, k \in S : Cardinality(UpTo(S, j)) = Cardinality(UpTo(S, k)) => j = k
        BY <1>0, ScanNumbering
    <2>3. PICK number : number = [k \in S |-> Cardinality(UpTo(S, k))]
        BY Zenon
    <2>4. /\ number \in [S -> Nat \ {0}]
          /\ \A k \in S : number[k] <= Cardinality(S)
          /\ \A j, k \in S : number[j] = number[k] => j = k
        BY <2>2, <2>3
    <2>5. /\ revision' = revision + Cardinality(S) /\ UNCHANGED clock
          /\ instances' = Without(instances, S)
          /\ events' = events \cup
                {InstanceEvent(k, "InstanceDeregistered", revision + Cardinality(UpTo(S, k))) : k \in S}
        BY <1>2, <2>1 DEF run_expiry_scan, expire_instances
    <2>6. events' = events \cup {InstanceEvent(k, "InstanceDeregistered", revision + number[k]) : k \in S}
        BY <2>3, <2>5
    <2> QED BY <2>2, <2>4, <2>5, <2>6, RemovalIsRemove
<1> QED BY <1>1, <1>2

\* A registration that overflows takes a revision and tells nobody.
LEMMA OverflowIsOtherChange ==
    ASSUME FailedRegister
    PROVE  Registry!PromiseNext
<1>1. revision' = next_revision /\ UNCHANGED <<events, instances, clock>>
    BY DEF FailedRegister, RegisterOverflow, registryVars
<1>2. Registry!OtherChange(events' \ events)
    BY <1>1 DEF Registry!OtherChange, Registry!next_revision, next_revision, LiveAt, Registered
<1> QED BY <1>2 DEF Registry!PromiseNext

\* Every step of the store is a step of the promise, or is not seen by watchers.
LEMMA StepsMap == IInv /\ [Next]_vars => [Registry!PromiseNext]_Registry!promiseVars
<1> SUFFICES ASSUME IInv, [Next]_vars PROVE [Registry!PromiseNext]_Registry!promiseVars
    OBVIOUS
<1>1. ASSUME UNCHANGED <<revision, events, instances, clock>>
      PROVE  UNCHANGED Registry!promiseVars
    BY <1>1 DEF Registry!promiseVars, LiveAt, Registered
<1>2. CASE Register \/ Report
    BY <1>2, WritesAreUpserts
<1>3. CASE FailedRegister
    BY <1>3, OverflowIsOtherChange
<1>4. CASE Renew
    BY <1>1, <1>4, RenewalMaps
<1>5. CASE Deregister \/ run_expiry_scan
    BY <1>5, RemovalsMap
<1>6. CASE run_event_gc \/ Compact
    BY <1>6, GcCuts, CompactCuts, CutIsTrim
<1>7. CASE Tick
    BY <1>7, TickIsLapse
<1>8. CASE UNCHANGED vars
    BY <1>1, <1>8 DEF vars, logVars, registryVars
<1> QED BY <1>2, <1>3, <1>4, <1>5, <1>6, <1>7, <1>8 DEF Next, Command, Timer

\* MemoryDiscoveryStore's registry, with late command times, truncated scans, half-way
\* failures, collection and compaction, implements the registry that watch streams are
\* checked against: every change of rows is told in the log, at its own revision.
THEOREM StoreKeepsPromise == Spec => KeepsPromise
<1>1. Init => Registry!PromiseInit
    BY DEF Init, LogInit, Registry!PromiseInit
<1> QED BY <1>1, StepsMap, Invariance, PTL DEF Spec, KeepsPromise, Registry!Promise
=============================================================================
