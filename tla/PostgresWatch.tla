--------------------------- MODULE PostgresWatch ---------------------------
(***************************************************************************)
(* A service watch on the PostgreSQL store: the stream's poll of the watch *)
(* table and the cursor it moves.  SELECT_WATCH_EVENTS finds the service   *)
(* of an event by a join on the instance id, soft-deleted rows included,   *)
(* and limits the result; matches_event filters what is left afterwards.   *)
(***************************************************************************)
EXTENDS PostgresStore

CONSTANTS
    WatchedService,     \* what the client asks to watch
    ReplayBatch         \* durable_replay_batch_size

VARIABLES
    identities,     \* the keys with a row in the table, deleted or not
    cursor          \* the stream's cursor_revision

watchVars == <<pgVars, identities, cursor>>

\* The rows of the join on instances for one event: one per service that has the
\* id, or one without a service, as for a config event.
JoinedRows(e) ==
    LET same == {k \in identities : k.scope = e.scope /\ k.instance_id = e.resource_id}
        names == IF same = {} THEN {None} ELSE {k.service_name : k \in same}
    IN  {[revision |-> e.revision, service_name |-> s] : s \in names}

\* The first ReplayBatch rows after the cursor, in revision order.
SelectedRows ==
    LET all == UNION {JoinedRows(e) : e \in {f \in events : f.scope = WatchScope /\ f.revision > cursor}}
    IN  {S \in SUBSET all :
            /\ Cardinality(S) = IF Cardinality(all) < ReplayBatch THEN Cardinality(all) ELSE ReplayBatch
            /\ \A r \in S, q \in all : q.revision < r.revision => q \in S}

\* A poll of the stream: what matches is delivered, and moves the cursor.
Poll ==
    /\ \E S \in SelectedRows :
          LET matching == {r \in S : r.service_name \in {None, WatchedService}}
          IN  cursor' = IF matching = {} THEN cursor
                        ELSE CHOOSE n \in {r.revision : r \in matching} :
                                \A r \in matching : r.revision <= n
    /\ UNCHANGED <<pgVars, identities>>

PgWatchInit == PgInit /\ identities = {} /\ cursor = 0

PgWatchNext ==
    \/ PgNext /\ identities' = identities \cup DOMAIN instances' /\ UNCHANGED cursor
    \/ Poll

\* The poll timer of the stream ticks for as long as the stream is open.
FairPgWatchSpec == PgWatchInit /\ [][PgWatchNext]_watchVars /\ WF_watchVars(Poll)

\* An event of the watched service is in the log and the stream has not reached it.
Behind ==
    \E e \in events : e.scope = WatchScope /\ e.service_name = WatchedService /\ e.revision > cursor

\* The README on streaming stored events: "This gives every watcher durable catch-up
\* before live delivery."  A stream that keeps polling catches up with the log.
CatchesUp == []<>~Behind
=============================================================================
