--------------------------- MODULE RegistryStore ---------------------------
(***************************************************************************)
(* The service registry of MemoryDiscoveryStore, as the runtime actor      *)
(* drives it: every command is one step, because the actor owns the store  *)
(* and handles one command at a time.                                      *)
(*                                                                         *)
(* A command carries the time its RPC handler read before it was queued,   *)
(* so the times the store sees lag the clock and may go backwards from one *)
(* command to the next.  The expiry scan reads the clock when it runs.     *)
(***************************************************************************)
EXTENDS EventLog

CONSTANTS
    KeyRank,        \* their lexicographic order, as a number per key
    Status,         \* instance statuses
    Ttls,           \* lease TTLs that clients ask for, in clock units
    MinTtl, MaxTtl, \* RegistryPolicy
    MaxU64,         \* u64::MAX, the expiry of a persistent instance
    ScanBatch,      \* expiry scan batch size
    MaxClock,       \* bound: the clock stops here
    MaxRevision     \* bound: no further client command at this revision

ASSUME KeyRankAssumption ==
    /\ IsFiniteSet(Keys)
    /\ KeyRank \in [Keys -> Nat]
    /\ \A j, k \in Keys : KeyRank[j] = KeyRank[k] => j = k

ASSUME PolicyAssumption ==
    /\ Ttls \subseteq Nat
    /\ MinTtl \in Nat \ {0}
    /\ MaxTtl \in Nat

ASSUME BoundsAssumption ==
    /\ MaxU64 \in Nat
    /\ MaxClock \in Nat
    /\ MaxClock < MaxU64
    /\ MaxRevision \in Nat

ASSUME ScanAssumption == ScanBatch \in Nat \ {0}

VARIABLES
    instances,      \* HashMap<InstanceKey, ServiceInstance>
    leaseIndex,     \* HashMap<lease id, InstanceKey>
    clock           \* now_millis()

registryVars == <<instances, leaseIndex, clock>>
vars == <<logVars, registryVars>>

ServiceInstance ==
    [lease_id : Nat, expires_at_ms : Nat, revision : Nat, status : Status]

\* HashMap::insert and HashMap::remove.
Put(f, x, v) == [y \in DOMAIN f \cup {x} |-> IF y = x THEN v ELSE f[y]]
Without(f, S) == [y \in DOMAIN f \ S |-> f[y]]

TypeOK ==
    /\ LogTypeOK
    /\ DOMAIN instances \subseteq Keys
    /\ instances \in [DOMAIN instances -> ServiceInstance]
    /\ DOMAIN leaseIndex \subseteq Nat
    /\ leaseIndex \in [DOMAIN leaseIndex -> Keys]
    /\ clock \in Nat

Init ==
    /\ LogInit
    /\ instances = << >>
    /\ leaseIndex = << >>
    /\ clock = 0

-----------------------------------------------------------------------------
(* Helpers of the commands. *)

\* Faulty: the time is the client's, whose clock may be ahead.
ClientTimes == 0 .. clock + 1

\* The times a command may carry: read by its handler, no later than now.
CommandTimes == 0 .. clock

\* Revisions a caller may quote: one it was told of, or none.
ExpectedRevisions == {None} \cup 0 .. revision

validate_registry_lease_ttl(ttl) == MinTtl <= ttl /\ ttl <= MaxTtl

\* checked_add: the expiry exists only when it fits.
ExpiryFits(now, ttl) == now + ttl <= MaxU64

Registered(k) == k \in DOMAIN instances

LiveAt(k, now) == Registered(k) /\ instances[k].expires_at_ms > now

\* The compare-and-set of register: a missing row passes, an expired one counts.
RegisterCas(k, expected) ==
    (expected # None /\ Registered(k)) => instances[k].revision = expected

ReportCas(k, expected) ==
    expected # None => instances[k].revision = expected

\* Faulty: the event is stamped before the revision is taken.
LogBeforeRevision(k, kind) ==
    events' = events \cup {InstanceEvent(k, kind, revision)}

\* Faulty: renewals are thought not worth an event.
LogAllButRenewals(k, kind) ==
    events' = IF kind = "InstanceRenewed" THEN events
              ELSE events \cup {InstanceEvent(k, kind, next_revision)}

LogInstanceEvent(k, kind) ==
    events' = events \cup {InstanceEvent(k, kind, next_revision)}

CommandsRemain == revision < MaxRevision

-----------------------------------------------------------------------------
(* The commands. *)

\* Faulty: a lapsed row is registered again without a lease.
LeaseOfLiveRow(k, now) == IF LiveAt(k, now) THEN instances[k].lease_id ELSE None

\* The lease a registration ends up with: the live row's, or a fresh one.
RegisterLease(k, now) == IF LiveAt(k, now) THEN instances[k].lease_id ELSE next_id

\* Faulty: the former lease stays in the index.
NoReplacedLeases(k, now) == {}

\* The row's former lease, when the registration replaces it.
ReplacedLeases(k, now) ==
    {instances[j].lease_id : j \in DOMAIN instances \cap {k}} \ {RegisterLease(k, now)}

register_instance(k, now, ttl, persistent, status, expected) ==
    /\ CommandsRemain
    /\ validate_registry_lease_ttl(ttl)
    /\ RegisterCas(k, expected)
    /\ persistent \/ ExpiryFits(now, ttl)
    /\ revision' = next_revision
    /\ nextSequence' = IF LiveAt(k, now) THEN nextSequence ELSE next_id
    /\ instances' = Put(instances, k,
            [lease_id      |-> RegisterLease(k, now),
             expires_at_ms |-> IF persistent THEN MaxU64 ELSE now + ttl,
             revision      |-> next_revision,
             status        |-> status])
    /\ leaseIndex' = Put(Without(leaseIndex, ReplacedLeases(k, now)), RegisterLease(k, now), k)
    /\ LogInstanceEvent(k, IF LiveAt(k, now) THEN "InstanceUpdated" ELSE "InstanceRegistered")
    /\ UNCHANGED clock

\* The expiry overflows after the revision, and for a new lease its id, are taken.
RegisterOverflow(k, now, ttl, expected) ==
    /\ CommandsRemain
    /\ validate_registry_lease_ttl(ttl)
    /\ RegisterCas(k, expected)
    /\ ~ExpiryFits(now, ttl)
    /\ revision' = next_revision
    /\ nextSequence' = IF LiveAt(k, now) THEN nextSequence ELSE next_id
    /\ UNCHANGED <<events, registryVars>>

renew_lease(lease, now, ttl) ==
    /\ CommandsRemain
    /\ validate_registry_lease_ttl(ttl)
    /\ lease \in DOMAIN leaseIndex
    /\ ExpiryFits(now, ttl)
    /\ LET k == leaseIndex[lease] IN
        /\ LiveAt(k, now)
        /\ revision' = next_revision
        /\ instances' = [instances EXCEPT ![k].expires_at_ms = now + ttl,
                                          ![k].revision = next_revision]
        /\ LogInstanceEvent(k, "InstanceRenewed")
    /\ UNCHANGED <<nextSequence, leaseIndex, clock>>

\* Renewing a lapsed lease fails, and forgets the lease but not the row.
RenewLapsed(lease, now, ttl) ==
    /\ validate_registry_lease_ttl(ttl)
    /\ lease \in DOMAIN leaseIndex
    /\ ExpiryFits(now, ttl)
    /\ Registered(leaseIndex[lease])
    /\ ~LiveAt(leaseIndex[lease], now)
    /\ leaseIndex' = Without(leaseIndex, {lease})
    /\ UNCHANGED <<logVars, instances, clock>>

report_instance_status(k, now, status, expected) ==
    /\ CommandsRemain
    /\ LiveAt(k, now)
    /\ ReportCas(k, expected)
    /\ revision' = next_revision
    /\ instances' = [instances EXCEPT ![k].status = status,
                                      ![k].revision = next_revision]
    /\ LogInstanceEvent(k, "InstanceStatusReported")
    /\ UNCHANGED <<nextSequence, leaseIndex, clock>>

deregister_instance(k, now) ==
    /\ CommandsRemain
    /\ LiveAt(k, now)
    /\ revision' = next_revision
    /\ instances' = Without(instances, {k})
    /\ leaseIndex' = Without(leaseIndex, {instances[k].lease_id})
    /\ LogInstanceEvent(k, "InstanceDeregistered")
    /\ UNCHANGED <<nextSequence, clock>>

-----------------------------------------------------------------------------
(* The actor's timers. *)

\* Faulty: one revision for the whole scan.
AllOfScan(S, k) == S

\* The keys of S up to k in the order the scan sorts them by.
UpTo(S, k) == {j \in S : KeyRank[j] <= KeyRank[k]}

\* Faulty: off by one in the expiry.
ExpiringKeys(now, max_instances) ==
    {k \in DOMAIN instances : instances[k].expires_at_ms <= now + 1}

\* Faulty: off by one in the truncation.
ExpiredKeysButOne(now, max_instances) ==
    LET expired == {k \in DOMAIN instances : instances[k].expires_at_ms <= now}
    IN  {k \in expired : Cardinality(UpTo(expired, k)) < max_instances}

\* The keys one scan reaps: expired, sorted, truncated.
ExpiredKeys(now, max_instances) ==
    LET expired == {k \in DOMAIN instances : instances[k].expires_at_ms <= now}
    IN  {k \in expired : Cardinality(UpTo(expired, k)) <= max_instances}

\* Each reaped row takes its own revision, in the sorted order.
expire_instances(now, max_instances) ==
    LET reaped == ExpiredKeys(now, max_instances)
        revisionOf(k) == revision + Cardinality(UpTo(reaped, k))
    IN  /\ max_instances > 0
        /\ revision' = revision + Cardinality(reaped)
        /\ instances' = Without(instances, reaped)
        /\ leaseIndex' = Without(leaseIndex, {instances[k].lease_id : k \in reaped})
        /\ events' = events \cup {InstanceEvent(k, "InstanceDeregistered", revisionOf(k)) : k \in reaped}
        /\ UNCHANGED <<nextSequence, clock>>

run_expiry_scan == expire_instances(clock, ScanBatch)

run_event_gc ==
    /\ gc_watch_events(GcHorizon, GcBatch)
    /\ UNCHANGED registryVars

Compact ==
    /\ \E scope \in Scopes : compact_watch_events(scope, CompactKeep)
    /\ UNCHANGED registryVars

Tick ==
    /\ clock < MaxClock
    /\ clock' = clock + 1
    /\ UNCHANGED <<logVars, instances, leaseIndex>>

-----------------------------------------------------------------------------

Register ==
    \E k \in Keys, now \in CommandTimes, ttl \in Ttls, persistent \in BOOLEAN,
       status \in Status, expected \in ExpectedRevisions :
        register_instance(k, now, ttl, persistent, status, expected)

FailedRegister ==
    \E k \in Keys, now \in CommandTimes, ttl \in Ttls, expected \in ExpectedRevisions :
        RegisterOverflow(k, now, ttl, expected)

Renew ==
    \E lease \in 1 .. nextSequence, now \in CommandTimes, ttl \in Ttls :
        \/ renew_lease(lease, now, ttl)
        \/ RenewLapsed(lease, now, ttl)

Report ==
    \E k \in Keys, now \in CommandTimes, status \in Status, expected \in ExpectedRevisions :
        report_instance_status(k, now, status, expected)

Deregister ==
    \E k \in Keys, now \in CommandTimes : deregister_instance(k, now)

Command == Register \/ FailedRegister \/ Renew \/ Report \/ Deregister

Timer == run_expiry_scan \/ run_event_gc \/ Compact

Next == Command \/ Timer \/ Tick

Spec == Init /\ [][Next]_vars

-----------------------------------------------------------------------------
(* Safety. *)

\* lease_index and instances agree: an indexed lease is the lease of the row it
\* leads to, and no two rows hold the same lease, whatever sequence of
\* re-registrations, lapsed renewals and scans came before.  Renewing can
\* therefore never extend a row that another registration owns.
LeaseIndexSound ==
    /\ \A l \in DOMAIN leaseIndex :
          /\ Registered(leaseIndex[l])
          /\ instances[leaseIndex[l]].lease_id = l
    /\ \A j, k \in DOMAIN instances :
          instances[j].lease_id = instances[k].lease_id => j = k

\* The holder of an unexpired lease can always renew it: although renew_lease
\* drops a lapsed lease from the index and leaves the row, and late commands
\* carry old times, a row that is live by the clock is reachable by its lease.
LiveLeaseRenewable ==
    \A k \in DOMAIN instances :
        LiveAt(k, clock)
          => /\ instances[k].lease_id \in DOMAIN leaseIndex
             /\ leaseIndex[instances[k].lease_id] = k

\* No two events of the log share a revision, so a watcher's `from_revision`
\* cursor tells exactly which events it has seen; nor does the log hold a
\* revision that next_revision has yet to hand out.
EventRevisionsUnique ==
    /\ \A e \in events : e.revision <= revision
    /\ \A e, f \in events : e.revision = f.revision => e = f

\* What the log says last of an instance is the truth, after any trimming: its
\* newest event is InstanceDeregistered exactly when there is no row, and
\* otherwise carries the row's revision.  A watcher that applies the log in
\* order therefore ends with the registry's own rows.
LogTellsPresence ==
    \A e \in InstanceEvents : NewestOfKey(e) =>
        IF e.kind = "InstanceDeregistered"
        THEN ~Registered(KeyOf(e))
        ELSE Registered(KeyOf(e)) /\ instances[KeyOf(e)].revision = e.revision

AppendsNewest == \A e \in events' \ events : revision < e.revision /\ e.revision <= revision'

\* Events are appended in revision order: whatever a step adds to the log is
\* newer than every revision handed out before it.
NewEventsAreNewest == [][AppendsNewest]_vars

RowChanges(k) ==
    \/ Registered(k) # Registered(k)'
    \/ Registered(k) /\ Registered(k)' /\ instances[k] # instances'[k]

LogsRowChanges ==
    \A k \in Keys : RowChanges(k) =>
        \E e \in events' :
            /\ KeyOf(e) = k
            /\ e.revision > revision
            /\ Registered(k)' => instances'[k].revision = e.revision

\* Every change of a row is an event of its key at a new revision, and the row
\* takes that revision: an expected_revision read earlier can only match a row
\* that nobody has touched since.
RowChangesAreLogged == [][LogsRowChanges]_vars

KeepsLiveRows == \A k \in Keys : LiveAt(k, clock) /\ ~Registered(k)' => Deregister

\* A lease is honoured: a row that has not expired by the clock leaves the
\* registry only because deregister_instance asked for it, never by a scan.
LeaseHonoured == [][KeepsLiveRows]_vars

-----------------------------------------------------------------------------
(* Liveness. *)

\* A scan that takes all it may, from the keys before k.
FullBefore(k) ==
    LET reaped == ExpiredKeys(clock, ScanBatch)
    IN  /\ run_expiry_scan
        /\ Cardinality(reaped) = ScanBatch
        /\ \A j \in reaped : KeyRank[j] < KeyRank[k]

\* A row stays expired for ever only if scans go on being filled by keys before it,
\* which expire_instances sorts first: otherwise they reap it, or its owner
\* registers or renews it.
ExpiredRowsGo ==
    \A k \in Keys :
        <>[](Registered(k) /\ ~LiveAt(k, clock)) => []<><<FullBefore(k)>>_vars

-----------------------------------------------------------------------------
(* Refinement. *)

Registry == INSTANCE ServiceRegistry WITH
    rows <- [k \in DOMAIN instances |->
               [revision |-> instances[k].revision, live |-> LiveAt(k, clock)]]

\* The store keeps the registry's promise: every command, scan and collection,
\* with late times and any interleaving, is one change of rows told in the log.
KeepsPromise == Registry!Promise
=============================================================================
