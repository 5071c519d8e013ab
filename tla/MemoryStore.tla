---------------------------- MODULE MemoryStore ----------------------------
(***************************************************************************)
(* MemoryDiscoveryStore as a whole: the service registry and the config    *)
(* registry over one revision counter, one id sequence and one watch log.  *)
(* Its commands are those of RegistryStore and ConfigStore.                *)
(***************************************************************************)
EXTENDS RegistryStore, ConfigStore

memoryVars == <<logVars, instances, leaseIndex, configVars>>

MemoryInit == Init /\ ConfigInit

\* MemoryDiscoveryStore::new, in a process started at any time.
NewStore ==
    [revision |-> 0, nextSequence |-> 0, events |-> {}, instances |-> << >>,
     leaseIndex |-> << >>, drafts |-> << >>, releases |-> << >>, idempotency |-> << >>]

\* The MemoryDiscoverySnapshot of this state.
to_snapshot ==
    [revision |-> revision, nextSequence |-> nextSequence, events |-> events,
     instances |-> instances, leaseIndex |-> leaseIndex,
     drafts |-> drafts, releases |-> releases, idempotency |-> idempotency]

from_snapshot(s) ==
    /\ revision' = s.revision
    /\ nextSequence' = s.nextSequence
    /\ events' = s.events
    /\ instances' = s.instances
    /\ leaseIndex' = s.leaseIndex
    /\ drafts' = s.drafts
    /\ releases' = s.releases
    /\ idempotency' = s.idempotency

\* serde_json writes a map's keys as strings and fails on one whose keys are
\* structs, as InstanceKey and IdempotencyKey are, unless the map is empty.
Encodable == DOMAIN instances = {} /\ DOMAIN idempotency = {}

-----------------------------------------------------------------------------
(* Commands by how they end. *)

RenewOk ==
    \E lease \in 1 .. nextSequence, now \in CommandTimes, ttl \in Ttls : renew_lease(lease, now, ttl)

RenewTooLate ==
    \E lease \in 1 .. nextSequence, now \in CommandTimes, ttl \in Ttls : RenewLapsed(lease, now, ttl)

\* Commands that succeed and change the store.
RegistryCommand ==
    (Register \/ RenewOk \/ Report \/ Deregister \/ run_expiry_scan) /\ UNCHANGED configVars

ConfigCommand == (CreateDraft \/ Publish \/ Rollback) /\ UNCHANGED registryVars

TrimCommand == Trim /\ UNCHANGED registryVars

\* A command that fails after it has changed the store.
FailsHalfway == (FailedRegister \/ RenewTooLate) /\ UNCHANGED configVars

TimePasses == Tick /\ UNCHANGED configVars
=============================================================================
