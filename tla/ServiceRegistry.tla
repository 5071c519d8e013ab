-------------------------- MODULE ServiceRegistry --------------------------
(***************************************************************************)
(* What a registry promises the processes that watch it: rows that appear, *)
(* change, lapse and go, and a log that tells every change in the order of *)
(* the revisions.  Leases, times, statuses and batches are not seen here.  *)
(* RegistryStore implements this specification.                            *)
(***************************************************************************)
EXTENDS EventLog

VARIABLE rows       \* the registered keys, each with its revision and liveness

Row == [revision : Nat, live : BOOLEAN]

promiseVars == <<revision, events, rows>>

PromiseInit ==
    /\ revision = 0
    /\ events = {}
    /\ rows = << >>

\* A row is created or changed: a new revision, a new event.
Upsert(k, kind, live) ==
    /\ kind # "InstanceDeregistered"
    /\ revision' = next_revision
    /\ events' = events \cup {InstanceEvent(k, kind, next_revision)}
    /\ rows' = [j \in DOMAIN rows \cup {k} |->
                  IF j = k THEN [revision |-> next_revision, live |-> live] ELSE rows[j]]

\* Rows go, each with an event at a revision of its own; revisions up to the last
\* may be left unused.
Remove(S, revisionOf, last) ==
    /\ S \subseteq DOMAIN rows
    /\ last >= revision
    /\ revisionOf \in [S -> next_revision .. last]
    /\ \A j, k \in S : revisionOf[j] = revisionOf[k] => j = k
    /\ revision' = last
    /\ events' = events \cup {InstanceEvent(k, "InstanceDeregistered", revisionOf[k]) : k \in S}
    /\ rows' = [j \in DOMAIN rows \ S |-> rows[j]]

\* Time passes over the rows in S.
Lapse(S) ==
    /\ S \subseteq DOMAIN rows
    /\ rows' = [j \in DOMAIN rows |->
                  IF j \in S THEN [revision |-> rows[j].revision, live |-> FALSE] ELSE rows[j]]
    /\ UNCHANGED <<revision, events>>

\* A change of configuration: an event that is not of a row, or, when a
\* registration fails half-way, none.
OtherChange(new) ==
    /\ \A e \in new : e.kind \in ConfigKinds /\ e.revision = next_revision
    /\ revision' = next_revision
    /\ events' = events \cup new
    /\ UNCHANGED rows

\* Trimming keeps, with an event, every later event of the same resource.
Trim ==
    /\ events' \subseteq events
    /\ \A e \in events', f \in events :
          e.scope = f.scope /\ e.resource_id = f.resource_id /\ e.revision < f.revision
            => f \in events'
    /\ UNCHANGED <<revision, rows>>

PromiseNext ==
    \/ \E k \in Keys, kind \in InstanceKinds, live \in BOOLEAN : Upsert(k, kind, live)
    \/ \E S \in SUBSET DOMAIN rows :
          \E revisionOf \in [S -> next_revision .. revision'] : Remove(S, revisionOf, revision')
    \/ \E S \in SUBSET DOMAIN rows : Lapse(S)
    \/ OtherChange(events' \ events)
    \/ Trim

Promise == PromiseInit /\ [][PromiseNext]_promiseVars
=============================================================================
