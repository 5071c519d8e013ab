------------------------------- MODULE Server -------------------------------
(***************************************************************************)
(* The gRPC server around the runtime: the task that mirrors the health    *)
(* cell, the permits and the gauge of watch streams, and shutdown.  While  *)
(* it shuts down the actor still works off commands, so the health cell    *)
(* may change under it.                                                    *)
(***************************************************************************)
EXTENDS Resilience

CONSTANTS
    MaxStreams,  \* watch.max_streams, permits of the one limiter that both surfaces share
    MaxDrift     \* bound: the gauge does not fall below -MaxDrift

ASSUME StreamAssumption == MaxStreams \in Nat \ {0} /\ MaxDrift \in Nat

VARIABLES
    phase,       \* "running", "sync_stopped", "reported", "draining" or "stopped"
    permits,     \* free permits
    opening,     \* streams with a permit whose first read is under way
    open,        \* stream tasks
    gauge        \* discovery_rpc_active_streams

streamVars == <<permits, opening, open, gauge>>
serverVars == <<vars, phase, streamVars>>

\* start_rpc_server: every name is set to serving before the sync task starts.
ServerInit ==
    /\ Init
    /\ phase = "running"
    /\ permits = MaxStreams
    /\ opening = 0
    /\ open = 0
    /\ gauge = 0

-----------------------------------------------------------------------------
(* Watch streams. *)

\* watch_service or watch_config takes a permit, then reads the log.
AdmitStream ==
    /\ phase \in {"running", "sync_stopped", "reported"}
    /\ permits > 0
    /\ permits' = permits - 1
    /\ opening' = opening + 1
    /\ UNCHANGED <<vars, phase, open, gauge>>

\* The first read fails, or the deadline drops the handler: the permit goes with it.
AbandonStream ==
    /\ opening > 0
    /\ opening' = opening - 1
    /\ permits' = permits + 1
    /\ UNCHANGED <<vars, phase, open, gauge>>

\* Faulty: two places of the gauge for one stream.
increment_twice == gauge' = gauge + 2

increment_active_streams == gauge' = gauge + 1

StartStream ==
    /\ opening > 0
    /\ opening' = opening - 1
    /\ open' = open + 1
    /\ increment_active_streams
    /\ UNCHANGED <<vars, phase, permits>>

\* MaxDrift bounds how far the gauge may fall.
decrement_active_streams(n) == gauge' = gauge - n /\ gauge' >= -MaxDrift

\* The task returns, its permit is dropped, and it is counted out n times.
ReturnCounted(n) ==
    /\ open > 0
    /\ open' = open - 1
    /\ permits' = permits + 1
    /\ decrement_active_streams(n)
    /\ UNCHANGED <<vars, phase, opening>>

\* A send of the replay, a heartbeat or the error of a lagging broadcast finds the
\* client gone or ends the stream: finish_watch_stream counts it out.
EndStream == ReturnCounted(1)

\* The same in a drain of stored events: finish_watch_stream counts the stream out,
\* and so does the loop when the drain returns.
EndInDrain == ReturnCounted(2)

Streams == AdmitStream \/ AbandonStream \/ StartStream \/ EndStream \/ EndInDrain

-----------------------------------------------------------------------------
(* Shutdown. *)

\* The sync task is aborted and awaited.
AbortSync ==
    /\ phase = "running"
    /\ phase' = "sync_stopped"
    /\ UNCHANGED <<vars, streamVars>>

set_health_services_not_serving ==
    /\ phase = "sync_stopped"
    /\ phase' = "reported"
    /\ reported' = "NOT_SERVING"
    /\ UNCHANGED <<circuit, sinceFailure, degradation, tokens, entryAge, health, storageUp, reply, streamVars>>

\* The shutdown signal: no new calls, the calls under way go on.
SignalShutdown ==
    /\ phase = "reported"
    /\ phase' = "draining"
    /\ UNCHANGED <<vars, streamVars>>

Drained == opening = 0 /\ open = 0

\* Faulty: shutdown waits for the last stream.
JoinDrained ==
    /\ phase = "draining"
    /\ Drained
    /\ phase' = "stopped"
    /\ UNCHANGED <<vars, streamVars>>

\* The server's task ends when everything is drained, or is aborted when the grace
\* period is over; stream tasks are not its children and end when they next send.
Join ==
    /\ phase = "draining"
    /\ phase' = "stopped"
    /\ UNCHANGED <<vars, streamVars>>

\* Faulty: the order of spawn_health_sync's comment, which has the task aborted after
\* the report.
SyncAbortedLast == phase \in {"running", "sync_stopped", "reported"}

\* Whether the sync task runs.
SyncAlive == phase = "running"

Shutdown == AbortSync \/ set_health_services_not_serving \/ SignalShutdown \/ Join

Runtime ==
    /\ Read \/ Write \/ (SyncAlive /\ SyncHealth) \/ Tick \/ StorageFails \/ StorageRecovers
    /\ UNCHANGED <<phase, streamVars>>

ServerNext == Runtime \/ Streams \/ Shutdown

ServerSpec == ServerInit /\ [][ServerNext]_serverVars

Still == UNCHANGED <<phase, streamVars>>

\* As for the runtime; and shutdown, once begun, goes on to its end.  Nothing makes a
\* stream end, and nobody has to shut down.
FairServerSpec ==
    /\ ServerSpec
    /\ WF_serverVars(Tick /\ Still) /\ WF_serverVars(SyncAlive /\ SyncHealth /\ Still)
    /\ SF_serverVars(StorageRead /\ Still)
    /\ WF_serverVars(set_health_services_not_serving \/ SignalShutdown \/ Join)

-----------------------------------------------------------------------------
(* Properties. *)

\* Once shutdown has reported NOT_SERVING no sample of the health cell, taken before
\* or during shutdown, puts it back: load balancers are told once and for good.
ShutdownIsFinal == phase \in {"reported", "draining", "stopped"} => reported = "NOT_SERVING"

\* Shutdown ends, though watch streams stay open for ever and the storage is down.
ShutdownEnds == phase = "sync_stopped" ~> phase = "stopped"

\* Every permit is free or held by one stream on each way in and out, refusals and
\* deadlines included, so the limit is never eaten up; and the gauge never tells more
\* streams than there are.  It may tell fewer (EndInDrain).
StreamsAccounted ==
    /\ permits + opening + open = MaxStreams
    /\ gauge <= open

\* Recovers, for a server that is not shut down.
RecoversWhileUp == [](phase = "running") => Recovers
=============================================================================
