---------------------------- MODULE WatchStream ----------------------------
(***************************************************************************)
(* A WatchService stream: the task that replays the watch log from a       *)
(* client's revision and then follows it, the broadcast that wakes it, the *)
(* buffer to the client, and a client that keeps a cache of one service    *)
(* and reconnects with the last revision it saw.                           *)
(*                                                                         *)
(* The registry behind it is ServiceRegistry; the log is trimmed by the    *)
(* actor's collector.  Every read of the log or of a row is a command of   *)
(* the actor, so it sees the state between two changes.  While storage     *)
(* fails, a row may come from the runtime's cache of earlier reads; what   *)
(* it then holds is not modelled, only that it need not be the row.        *)
(***************************************************************************)
EXTENDS ServiceRegistry, Sequences

CONSTANTS
    WatchScope, WatchedService,     \* what the client asks to watch
    ReplayBatch,    \* durable_replay_batch_size
    Capacity,       \* capacity of the broadcast channel
    BufferSize,     \* event_buffer_size
    ReadOnlyOnFailure,      \* read_only_on_storage_failure
    Stale,          \* a row as retrieve_reads remembers it
    MaxRevision     \* bound: the registry stops changing here

ASSUME WatchAssumption ==
    /\ WatchScope \in Scopes
    /\ WatchedService \in Services
    /\ ReplayBatch \in Nat \ {0}
    /\ Capacity \in Nat \ {0}
    /\ BufferSize \in Nat \ {0}
    /\ ReadOnlyOnFailure \in BOOLEAN
    /\ Stale \notin Nat \cup {None}
    /\ MaxRevision \in Nat

VARIABLES
    stream,     \* "closed", "opening", "open", or "ended" by the server
    cursor,     \* cursor_revision
    batch,      \* events read from the log and not yet handled
    live,       \* the stream's unread part of the broadcast
    lagged,     \* whether the broadcast overran it
    pending,    \* a response made and not yet in the buffer
    outbox,     \* responses in the buffer to the client
    seen,       \* the last revision the client observed
    cache,      \* the client's instances: key |-> revision of the row, or Stale
    gap         \* the collector dropped what the client had yet to see

streamVars == <<stream, cursor, batch, live, lagged, pending, outbox>>
clientVars == <<seen, cache>>
watchVars == <<logVars, rows, streamVars, clientVars, gap>>

\* resolve_retrieve_instance: in read-only mode a read that storage fails is answered
\* by an earlier answer, a row or none.
StaleAnswers == IF ReadOnlyOnFailure THEN {Stale} ELSE {}

\* A response is about a key, or a heartbeat; a row without revision is a tombstone.
Response ==
    [key : Keys \cup {None}, revision : Nat, row : Nat \cup {None} \cup StaleAnswers]

ASSUME ResponseAssumption == None \notin Response \cup Keys

WatchTypeOK ==
    /\ LogTypeOK
    /\ rows \in [DOMAIN rows -> Row]
    /\ stream \in {"closed", "opening", "open", "ended"}
    /\ cursor \in Nat
    /\ batch \in SUBSET DiscoveryEvent
    /\ live \in Seq(DiscoveryEvent) /\ Len(live) <= Capacity
    /\ lagged \in BOOLEAN
    /\ pending \in Response \cup {None}
    /\ outbox \in Seq(Response) /\ Len(outbox) <= BufferSize
    /\ seen \in Nat
    /\ cache \in [DOMAIN cache -> Nat \cup StaleAnswers]
    /\ gap \in BOOLEAN

WatchInit ==
    /\ PromiseInit
    /\ nextSequence = 0
    /\ stream = "closed"
    /\ cursor = 0
    /\ batch = {}
    /\ live = << >>
    /\ lagged = FALSE
    /\ pending = None
    /\ outbox = << >>
    /\ seen = 0
    /\ cache = << >>
    /\ gap = FALSE

-----------------------------------------------------------------------------
(* The registry and its actor. *)

\* A config change, as far as a service watch looks at it.
ConfigEvent(service_name) ==
    [revision |-> next_revision, kind |-> "ConfigPublished", scope |-> WatchScope,
     service_name |-> service_name, resource_id |-> next_revision,
     config_application |-> None, config_group |-> None]

RegistryChange ==
    \/ \E k \in Keys, alive \in BOOLEAN :
          Upsert(k, IF k \in DOMAIN rows THEN "InstanceUpdated" ELSE "InstanceRegistered", alive)
    \/ \E S \in SUBSET DOMAIN rows \ {{}} :
          LET last == revision + Cardinality(S)
          IN  \E revisionOf \in [S -> next_revision .. last] : Remove(S, revisionOf, last)
    \/ \E service_name \in {None, WatchedService} : OtherChange({ConfigEvent(service_name)})

\* The events of this step, in order.
Fresh ==
    [i \in 1 .. revision' - revision |-> CHOOSE e \in events' : e.revision = revision + i]

\* Faulty: a broadcast without capacity.
UnboundedBroadcast == live' = live \o Fresh /\ UNCHANGED lagged

\* publish_events_for_revision: a full broadcast drops its oldest entries.
Broadcast ==
    LET all == live \o Fresh
        over == Len(all) - Capacity
    IN  /\ live' = IF over > 0 THEN SubSeq(all, over + 1, Len(all)) ELSE all
        /\ lagged' = (lagged \/ over > 0)

\* A change is broadcast to a subscribed stream, unless it is one of a batch or
\* of another process.
Change ==
    /\ RegistryChange
    /\ revision' <= MaxRevision
    /\ \/ stream \in {"opening", "open"} /\ Broadcast
       \/ UNCHANGED <<live, lagged>>
    /\ UNCHANGED <<nextSequence, stream, cursor, batch, pending, outbox, clientVars, gap>>

TimePasses ==
    /\ \E k \in DOMAIN rows : rows[k].live /\ Lapse({k})
    /\ UNCHANGED <<nextSequence, streamVars, clientVars, gap>>

\* event_matches_service_watch, but for the revision.
Watched(e) ==
    /\ e.scope = WatchScope
    /\ e.service_name = WatchedService
    /\ e.kind \in InstanceKinds

\* The collector; the gap is history, and counts an event that was the last of
\* its instance.
CollectEvents ==
    /\ gc_watch_events(GcHorizon, GcBatch)
    /\ gap' = (gap \/ \E e \in events \ events' :
                        Watched(e) /\ NewestOfKey(e) /\ e.revision > seen)
    /\ UNCHANGED <<rows, streamVars, clientVars>>

-----------------------------------------------------------------------------
(* The stream's task. *)

\* WatchService's query, moved on by watch_query_after.
Query(from) ==
    [scope |-> WatchScope, from_revision |-> from, service_name |-> WatchedService,
     config_group |-> None, config_application |-> None, max_events |-> ReplayBatch]

TaskUnchanged == UNCHANGED <<logVars, rows, clientVars, gap>>

\* A client calls WatchService; the handler subscribes before it reads the log.
Open ==
    /\ stream = "closed"
    /\ stream' = "opening"
    /\ cursor' = seen
    /\ UNCHANGED <<batch, live, lagged, pending, outbox>>
    /\ TaskUnchanged

Replay ==
    /\ stream = "opening"
    /\ stream' = "open"
    /\ batch' = watch_events(Query(cursor))
    /\ UNCHANGED <<cursor, live, lagged, pending, outbox>>
    /\ TaskUnchanged

\* Faulty: no tombstone for a row that is gone.
RowOrEvent(e) ==
    LET k == KeyOf(e)
    IN  IF k \in DOMAIN rows /\ rows[k].live THEN rows[k].revision ELSE e.revision

\* service_watch_instance: the row as it is when the response is made.
CurrentRow(e) ==
    LET k == KeyOf(e)
    IN  IF e.kind # "InstanceDeregistered" /\ k \in DOMAIN rows /\ rows[k].live
        THEN rows[k].revision ELSE None

\* The row comes from storage or, for a retrieval that fails, from the stale reads; a
\* deregistration is answered without reading.
Answers(e) ==
    {CurrentRow(e)} \cup (IF e.kind = "InstanceDeregistered" THEN {} ELSE StaleAnswers)

\* The oldest event of the batch is skipped, or a response is made of it.
Respond ==
    /\ stream = "open" /\ pending = None
    /\ \E e \in batch :
        /\ \A f \in batch : e.revision <= f.revision
        /\ batch' = batch \ {e}
        /\ cursor' = IF e.revision > cursor THEN e.revision ELSE cursor
        /\ \E row \in Answers(e) :
             pending' = IF e.revision > cursor /\ Watched(e)
                        THEN [key |-> KeyOf(e), revision |-> e.revision, row |-> row]
                        ELSE None
    /\ UNCHANGED <<stream, live, lagged, outbox>>
    /\ TaskUnchanged

\* send_watch_item: the response waits for room in the buffer, while rows change.
Send ==
    /\ pending # None
    /\ Len(outbox) < BufferSize
    /\ outbox' = Append(outbox, pending)
    /\ pending' = None
    /\ UNCHANGED <<stream, cursor, batch, live, lagged>>
    /\ TaskUnchanged

Selecting == stream = "open" /\ batch = {} /\ pending = None

\* A broadcast event newer than the cursor, of the same scope, wakes the poll.
Wake ==
    /\ Selecting /\ live # << >> /\ ~lagged
    /\ live' = Tail(live)
    /\ batch' = IF Head(live).revision > cursor /\ Head(live).scope = WatchScope
                THEN watch_events(Query(cursor)) ELSE {}
    /\ UNCHANGED <<stream, cursor, lagged, pending, outbox>>
    /\ TaskUnchanged

\* Faulty: the log is polled only when the broadcast has something.
PollWhenLive ==
    /\ Selecting /\ live # << >>
    /\ batch' = watch_events(Query(cursor))
    /\ UNCHANGED <<stream, cursor, live, lagged, pending, outbox>>
    /\ TaskUnchanged

Poll ==
    /\ Selecting
    /\ batch' = watch_events(Query(cursor))
    /\ UNCHANGED <<stream, cursor, live, lagged, pending, outbox>>
    /\ TaskUnchanged

\* Faulty: the heartbeat tells the store's revision, not the stream's.
StoreHeartbeat ==
    /\ Selecting
    /\ Len(outbox) < BufferSize
    /\ outbox' = Append(outbox, [key |-> None, revision |-> revision, row |-> None])
    /\ UNCHANGED <<stream, cursor, batch, live, lagged, pending>>
    /\ TaskUnchanged

Heartbeat ==
    /\ Selecting
    /\ Len(outbox) < BufferSize
    /\ outbox' = Append(outbox, [key |-> None, revision |-> cursor, row |-> None])
    /\ UNCHANGED <<stream, cursor, batch, live, lagged, pending>>
    /\ TaskUnchanged

\* An overrun stream is told so and ended.
EndLagged ==
    /\ Selecting /\ lagged
    /\ Len(outbox) < BufferSize
    /\ stream' = "ended"
    /\ UNCHANGED <<cursor, batch, live, lagged, pending, outbox>>
    /\ TaskUnchanged

-----------------------------------------------------------------------------
(* The client. *)

Receive ==
    /\ outbox # << >>
    /\ LET r == Head(outbox) IN
        /\ seen' = r.revision
        /\ cache' = IF r.key = None THEN cache
                    ELSE IF r.row = None THEN [k \in DOMAIN cache \ {r.key} |-> cache[k]]
                    ELSE [k \in DOMAIN cache \cup {r.key} |->
                            IF k = r.key THEN r.row ELSE cache[k]]
    /\ outbox' = Tail(outbox)
    /\ UNCHANGED <<logVars, rows, stream, cursor, batch, live, lagged, pending, gap>>

StreamGone ==
    /\ stream' = "closed"
    /\ batch' = {}
    /\ live' = << >>
    /\ lagged' = FALSE
    /\ pending' = None
    /\ outbox' = << >>
    /\ UNCHANGED cursor
    /\ TaskUnchanged

\* The client has read all of a stream that the server ended.
Finish == stream = "ended" /\ outbox = << >> /\ StreamGone

\* A dropped connection, a storage error, a restart of the server.
Fault == stream # "closed" /\ StreamGone

-----------------------------------------------------------------------------

StreamStep == Replay \/ Respond \/ Send \/ Wake \/ Poll \/ Heartbeat \/ EndLagged

ClientStep == Open \/ Receive \/ Finish

WatchNext == Change \/ TimePasses \/ CollectEvents \/ StreamStep \/ ClientStep \/ Fault

WatchSpec == WatchInit /\ [][WatchNext]_watchVars

\* The poll timer ticks, tasks that can run do run, and the client reads and
\* reconnects.
FairWatchSpec ==
    /\ WatchSpec
    /\ WF_watchVars(Replay) /\ WF_watchVars(Respond) /\ WF_watchVars(Send)
    /\ WF_watchVars(Poll) /\ WF_watchVars(EndLagged)
    /\ WF_watchVars(Open) /\ WF_watchVars(Receive) /\ WF_watchVars(Finish)

-----------------------------------------------------------------------------
(* Safety. *)

OnTheWay == IF pending = None THEN outbox ELSE Append(outbox, pending)

\* What the client sees is in revision order and never twice, across polls,
\* wake-ups and reconnections; a heartbeat never runs ahead of an event.
DeliveryInOrder ==
    \A i \in DOMAIN OnTheWay :
        LET before == IF i = 1 THEN seen ELSE OnTheWay[i - 1].revision
        IN  /\ before <= OnTheWay[i].revision
            /\ OnTheWay[i].key # None => before < OnTheWay[i].revision
            /\ OnTheWay[i].revision <= cursor

\* The cursor passes no event of the service that is not on its way to the
\* client, however reads, live wake-ups and batches interleave.
NothingSkipped ==
    stream \in {"open", "ended"} =>
        \A e \in events :
            Watched(e) /\ seen < e.revision /\ e.revision <= cursor
              => \E i \in DOMAIN OnTheWay :
                    OnTheWay[i].key = KeyOf(e) /\ OnTheWay[i].revision = e.revision

WatchedKeys == {k \in Keys : k.scope = WatchScope /\ k.service_name = WatchedService}

\* The client's cache has every live row, at its revision unless it was told a
\* stale one, and no row that is gone.  A row that lapsed and is not reaped yet may
\* be in it or not.
CacheAgrees ==
    \A k \in WatchedKeys :
        /\ k \in DOMAIN rows /\ rows[k].live
             => k \in DOMAIN cache /\ cache[k] \in {rows[k].revision} \cup StaleAnswers
        /\ k \in DOMAIN cache => k \in DOMAIN rows

CaughtUp ==
    /\ Selecting /\ outbox = << >>
    /\ \A e \in events : Watched(e) => e.revision <= cursor

\* Although payloads are read after the event they come with, a client that has
\* caught up holds the registry's rows, provided the collector dropped nothing
\* that it had yet to see.  A stale answer can leave it with an old payload of an
\* instance, or without it, until the instance's next event, but never with an
\* instance that is gone; without read-only mode there are none.
CaughtUpAgrees == CaughtUp /\ ~gap => CacheAgrees

\* The README: "Reconnects remain safe because the durable watch store is the
\* source of truth for revision replay."  A client that comes back with the last
\* revision it saw, and is told of nothing since, knows no instance that is gone.
ReconnectIsSafe ==
    [][Replay /\ batch' = {} => {k \in DOMAIN cache : cache[k] # Stale} \subseteq DOMAIN rows]_watchVars

-----------------------------------------------------------------------------
(* Liveness. *)

\* Once connections hold and the registry is quiet, the client's cache comes to
\* agree with the registry, but for rows it was told from stale reads, although some
\* changes are never broadcast.
Converges ==
    <>[][~Fault]_watchVars => <>[](gap \/ CacheAgrees)
=============================================================================
