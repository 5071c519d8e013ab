------------------------------ MODULE EventLog ------------------------------
(***************************************************************************)
(* The part of MemoryDiscoveryStore that the registry and the config       *)
(* registry share: the revision counter, the id sequence and the durable   *)
(* watch event log, with the operations that trim and read the log.        *)
(*                                                                         *)
(* The code keeps the log in a Vec that is only ever pushed to and         *)
(* filtered.  Here it is a set of events: a position in the Vec is the     *)
(* event's revision, which RegistryStore's NewEventsAreNewest shows to be  *)
(* the same order.                                                         *)
(***************************************************************************)
EXTENDS Integers, FiniteSets

CONSTANTS
    Scopes,         \* the (namespace, environment) pairs
    Services,       \* service names
    InstanceIds,    \* instance ids, chosen by the registering process
    Keys,           \* the instance identities in use
    Applications,   \* applications that config may be scoped to
    Groups,         \* config groups
    None,           \* an absent Option
    Retention,      \* event_gc_retention_count
    GcBatch,        \* event_gc_batch_size
    CompactKeep     \* max_events_per_resource of a compaction

ASSUME NoneAssumption == None \notin Services \cup Applications \cup Groups \cup Nat

ASSUME KeysAssumption ==
    Keys \subseteq [scope : Scopes, service_name : Services, instance_id : InstanceIds]

ASSUME TrimAssumption ==
    /\ Retention \in Nat
    /\ GcBatch \in Nat \ {0}
    /\ CompactKeep \in Nat \ {0}

VARIABLES
    revision,       \* u64: revision of the latest change
    nextSequence,   \* u64: the last number handed out by next_id
    events          \* the watch event log

logVars == <<revision, nextSequence, events>>

InstanceKinds == {"InstanceRegistered", "InstanceUpdated", "InstanceRenewed",
                  "InstanceStatusReported", "InstanceDeregistered"}

ConfigKinds == {"ConfigPublished", "ConfigRolledBack"}

\* A config event names its release, whose id is a number of next_id.
DiscoveryEvent ==
    [revision : Nat, kind : InstanceKinds \cup ConfigKinds, scope : Scopes,
     service_name : Services \cup {None}, resource_id : InstanceIds \cup Nat,
     config_application : Applications \cup {None}, config_group : Groups \cup {None}]

\* The event of a change to an instance, and the instance an event is about.
InstanceEvent(k, kind, rev) ==
    [revision |-> rev, kind |-> kind, scope |-> k.scope,
     service_name |-> k.service_name, resource_id |-> k.instance_id,
     config_application |-> None, config_group |-> None]

KeyOf(e) ==
    [scope |-> e.scope, service_name |-> e.service_name, instance_id |-> e.resource_id]

InstanceEvents == {e \in events : e.kind \in InstanceKinds}

NewestOfKey(e) ==
    \A f \in InstanceEvents : KeyOf(f) = KeyOf(e) => f.revision <= e.revision

LogTypeOK ==
    /\ revision \in Nat
    /\ nextSequence \in Nat
    /\ events \in SUBSET DiscoveryEvent
    /\ IsFiniteSet(events)

LogInit ==
    /\ revision = 0
    /\ nextSequence = 0
    /\ events = {}

next_revision == revision + 1

next_id == nextSequence + 1

-----------------------------------------------------------------------------
(* Trimming. *)

\* Faulty: the last n of the entries in S.
Latest(S, n) ==
    {e \in S : Cardinality({f \in S : f.revision > e.revision}) < n}

\* The first n of the log entries in S: those with fewer than n older ones.
Oldest(S, n) ==
    {e \in S : Cardinality({f \in S : f.revision < e.revision}) < n}

\* gc_watch_events: `retain` counts what it drops and stops at max_deletes.
gc_watch_events(before_revision, max_deletes) ==
    /\ max_deletes > 0
    /\ events' = events \ Oldest({e \in events : e.revision <= before_revision}, max_deletes)
    /\ UNCHANGED <<revision, nextSequence>>

\* current_revision.saturating_sub(retention_count)
GcHorizon == IF revision > Retention THEN revision - Retention ELSE 0

\* Faulty: the earlier entries, so that compaction keeps the first and not the last.
EarlierOfResource(e) ==
    {f \in events : /\ f.scope = e.scope
                    /\ f.resource_id = e.resource_id
                    /\ f.revision < e.revision}

\* Later entries of the log for the same resource id of the same scope.
LaterOfResource(e) ==
    {f \in events : /\ f.scope = e.scope
                    /\ f.resource_id = e.resource_id
                    /\ f.revision > e.revision}

\* compact_watch_events: the latest max_events_per_resource entries of each
\* resource id of the scope stay.  The service name is not part of the group.
compact_watch_events(scope, max_events_per_resource) ==
    /\ events' = {e \in events :
                    e.scope = scope
                      => Cardinality(LaterOfResource(e)) < max_events_per_resource}
    /\ UNCHANGED <<revision, nextSequence>>

-----------------------------------------------------------------------------
(* Reading. *)

\* WatchEventsQuery::matches_event: an event without a service name passes every
\* service filter, one without a group or an application passes no such filter.
matches_event(query, e) ==
    /\ e.scope = query.scope
    /\ e.revision > query.from_revision
    /\ query.service_name # None => e.service_name \in {None, query.service_name}
    /\ query.config_group # None => e.config_group = query.config_group
    /\ query.config_application # None => e.config_application = query.config_application

\* watch_events: filter, then take the first max_events.
watch_events(query) ==
    Oldest({e \in events : matches_event(query, e)}, query.max_events)
=============================================================================
