----------------------------- MODULE Resilience -----------------------------
(***************************************************************************)
(* RuntimeResilience and what hangs on it: the rate limiter, the read-only *)
(* degradation, the storage circuit breaker, the cache of stale reads, the *)
(* health cell the actor keeps, and the task that reports it over gRPC.    *)
(*                                                                         *)
(* The actor handles one command at a time, so gate, storage call, record  *)
(* and health sync are one step.  Storage fails and recovers on its own.   *)
(* A read is named by its cache key.                                       *)
(***************************************************************************)
EXTENDS Integers

CONSTANTS
    Queries,            \* the cache keys clients read
    BreakerEnabled, FailureThreshold, RecoveryTimeout, HalfOpenMax,
    ReadOnlyOnFailure, StaleMaxAge,     \* DegradationConfig
    RateEnabled, Burst, Refill          \* RateLimitConfig, refill per clock unit

ASSUME ResilienceAssumption ==
    /\ "write" \notin Queries
    /\ BreakerEnabled \in BOOLEAN /\ ReadOnlyOnFailure \in BOOLEAN /\ RateEnabled \in BOOLEAN
    /\ FailureThreshold \in Nat \ {0}
    /\ RecoveryTimeout \in Nat \ {0}
    /\ HalfOpenMax \in Nat \ {0}
    /\ StaleMaxAge \in Nat \ {0}
    /\ Burst \in Nat \ {0} /\ Refill \in Nat \ {0}

VARIABLES
    circuit,        \* CircuitBreaker: state and counters
    sinceFailure,   \* last_failure.elapsed(), up to the recovery timeout
    degradation,    \* DegradationState
    tokens,         \* the rate limiter's bucket
    entryAge,       \* age of each cached read, past StaleMaxAge when there is none
    health,         \* DiscoveryHealthState's cell
    reported,       \* what grpc.health.v1 last told
    storageUp,      \* whether the storage answers
    reply           \* how the last command was answered

vars == <<circuit, sinceFailure, degradation, tokens, entryAge, health, reported, storageUp, reply>>

Replies == {"none", "rejected", "fresh", "stale", "unavailable", "refused"}

TypeOK ==
    /\ circuit \in [state : {"Closed", "Open", "HalfOpen"}, failure_count : 0 .. FailureThreshold,
                    success_count : 0 .. HalfOpenMax, half_open_requests : 0 .. HalfOpenMax]
    /\ sinceFailure \in 0 .. RecoveryTimeout
    /\ degradation \in {"Normal", "ReadOnly"}
    /\ tokens \in 0 .. Burst
    /\ entryAge \in [Queries -> 0 .. StaleMaxAge + 1]
    /\ health \in {"Serving", "NotServing", "Degraded"}
    /\ reported \in {"SERVING", "NOT_SERVING"}
    /\ storageUp \in BOOLEAN
    /\ reply \in Replies

Init ==
    /\ circuit = [state |-> "Closed", failure_count |-> 0,
                  success_count |-> 0, half_open_requests |-> 0]
    /\ sinceFailure = 0
    /\ degradation = "Normal"
    /\ tokens = Burst
    /\ entryAge = [q \in Queries |-> StaleMaxAge + 1]
    /\ health = "Serving"
    /\ reported = "SERVING"
    /\ storageUp = TRUE
    /\ reply = "none"

-----------------------------------------------------------------------------
(* The circuit breaker. *)

\* Faulty: off by one in the number of probes.
AdmitsOneMore(c) ==
    \/ ~BreakerEnabled
    \/ c.state = "Closed"
    \/ c.state = "Open" /\ sinceFailure >= RecoveryTimeout
    \/ c.state = "HalfOpen" /\ c.half_open_requests <= HalfOpenMax

\* Whether allow_request admits, and the breaker it leaves behind.  The request
\* that turns Open into HalfOpen is not counted.
Admits(c) ==
    \/ ~BreakerEnabled
    \/ c.state = "Closed"
    \/ c.state = "Open" /\ sinceFailure >= RecoveryTimeout
    \/ c.state = "HalfOpen" /\ c.half_open_requests < HalfOpenMax

AfterAdmission(c) ==
    IF ~BreakerEnabled \/ c.state = "Closed" THEN c
    ELSE IF c.state = "Open"
    THEN [c EXCEPT !.state = "HalfOpen", !.half_open_requests = 0]
    ELSE [c EXCEPT !.half_open_requests = @ + 1]

\* Faulty: any success closes an open breaker.
success_closes(c) ==
    IF ~BreakerEnabled THEN c
    ELSE IF c.state = "HalfOpen" /\ c.success_count + 1 < HalfOpenMax
    THEN [c EXCEPT !.success_count = @ + 1]
    ELSE [c EXCEPT !.state = "Closed", !.failure_count = 0, !.success_count = 0]

record_success(c) ==
    IF ~BreakerEnabled \/ c.state = "Open" THEN c
    ELSE IF c.state = "Closed" THEN [c EXCEPT !.failure_count = 0]
    ELSE IF c.success_count + 1 >= HalfOpenMax
    THEN [c EXCEPT !.state = "Closed", !.failure_count = 0, !.success_count = 0]
    ELSE [c EXCEPT !.success_count = @ + 1]

\* Faulty: the successes of a failed half-open period are kept.
failure_keeps_successes(c) ==
    IF ~BreakerEnabled \/ c.state = "Open" THEN c
    ELSE IF c.state = "HalfOpen" THEN [c EXCEPT !.state = "Open"]
    ELSE [c EXCEPT !.failure_count = @ + 1,
                   !.state = IF c.failure_count + 1 >= FailureThreshold THEN "Open" ELSE "Closed"]

record_failure(c) ==
    IF ~BreakerEnabled \/ c.state = "Open" THEN c
    ELSE IF c.state = "HalfOpen" THEN [c EXCEPT !.state = "Open", !.success_count = 0]
    ELSE [c EXCEPT !.failure_count = @ + 1,
                   !.state = IF c.failure_count + 1 >= FailureThreshold THEN "Open" ELSE "Closed"]

-----------------------------------------------------------------------------
(* A command of the actor. *)

\* Reads pass a read-only runtime without asking the breaker.
BreakerAsked(op) == op = "write" \/ degradation = "Normal"

\* DegradationState::allows: what a read-only runtime still does.
allows(op) == degradation = "Normal" \/ op \in Queries

PassesRateLimit == RateEnabled => tokens > 0

PassesGate(op) ==
    /\ PassesRateLimit
    /\ allows(op)
    /\ BreakerAsked(op) => Admits(circuit)

TakeToken == tokens' = IF RateEnabled /\ tokens > 0 THEN tokens - 1 ELSE tokens

\* gate answers with an error: only the bucket changes.
Rejected(op) ==
    /\ ~PassesGate(op)
    /\ TakeToken
    /\ reply' = "rejected"
    /\ UNCHANGED <<circuit, sinceFailure, degradation, entryAge, health, reported, storageUp>>

\* An answer, or what is_storage_failure calls a failure; "refused" is every other
\* error, the control plane's validation included.
StorageResults == {"refused", IF storageUp THEN "fresh" ELSE "unavailable"}

serve_stale_reads == degradation = "ReadOnly" /\ ReadOnlyOnFailure

\* Faulty: an entry of any age is served.
ResolveAnyAge(op, result) ==
    IF op \in Queries /\ result = "unavailable" /\ serve_stale_reads THEN "stale" ELSE result

\* StaleReadCache::resolve.
Resolve(op, result) ==
    IF /\ op \in Queries /\ result = "unavailable"
       /\ serve_stale_reads
       /\ entryAge[op] <= StaleMaxAge
    THEN "stale" ELSE result

\* record_result: any answer counts as success, a refusal as nothing.
Recorded(c, answer) ==
    IF answer \in {"fresh", "stale"} THEN record_success(c)
    ELSE IF answer = "unavailable" THEN record_failure(c) ELSE c

\* Faulty: nothing ends read-only mode.
DegradationStays(answer) ==
    IF answer = "unavailable" /\ ReadOnlyOnFailure THEN "ReadOnly" ELSE degradation

DegradationAfter(answer) ==
    IF answer \in {"fresh", "stale"} THEN "Normal"
    ELSE IF answer = "unavailable" /\ ReadOnlyOnFailure THEN "ReadOnly"
    ELSE degradation

from_resilience(c, d) ==
    IF d = "ReadOnly" THEN "Degraded"
    ELSE IF c.state = "Open" THEN "NotServing" ELSE "Serving"

sync_from_resilience == health' = from_resilience(circuit', degradation')

\* The actor past the gate: storage, cache, breaker, degradation, health.
Handled(op, result) ==
    LET admitted == IF BreakerAsked(op) THEN AfterAdmission(circuit) ELSE circuit
        answer == Resolve(op, result)
    IN  /\ PassesGate(op)
        /\ TakeToken
        /\ circuit' = Recorded(admitted, answer)
        /\ sinceFailure' = IF circuit'.state = "Open" /\ admitted.state # "Open"
                           THEN 0 ELSE sinceFailure
        /\ degradation' = DegradationAfter(answer)
        /\ entryAge' = [q \in Queries |-> IF q = op /\ result = "fresh" THEN 0 ELSE entryAge[q]]
        /\ sync_from_resilience
        /\ reply' = answer
        /\ UNCHANGED <<reported, storageUp>>

Command(op) == Rejected(op) \/ \E result \in StorageResults : Handled(op, result)

-----------------------------------------------------------------------------

grpc_serving_status(h) == IF h = "NotServing" THEN "NOT_SERVING" ELSE "SERVING"

\* The sync task samples the cell and pushes what it stands for.
SyncHealth ==
    /\ reported' = grpc_serving_status(health)
    /\ UNCHANGED <<circuit, sinceFailure, degradation, tokens, entryAge, health, storageUp, reply>>

Tick ==
    /\ sinceFailure' = IF sinceFailure < RecoveryTimeout THEN sinceFailure + 1 ELSE sinceFailure
    /\ entryAge' = [q \in Queries |-> IF entryAge[q] <= StaleMaxAge THEN entryAge[q] + 1
                                      ELSE entryAge[q]]
    /\ tokens' = IF tokens + Refill > Burst THEN Burst ELSE tokens + Refill
    /\ UNCHANGED <<circuit, degradation, health, reported, storageUp, reply>>

StorageFails ==
    /\ storageUp
    /\ storageUp' = FALSE
    /\ UNCHANGED <<circuit, sinceFailure, degradation, tokens, entryAge, health, reported, reply>>

StorageRecovers ==
    /\ ~storageUp
    /\ storageUp' = TRUE
    /\ UNCHANGED <<circuit, sinceFailure, degradation, tokens, entryAge, health, reported, reply>>

Read == \E q \in Queries : Command(q)
Write == Command("write")

Next == Read \/ Write \/ SyncHealth \/ Tick \/ StorageFails \/ StorageRecovers

Spec == Init /\ [][Next]_vars

\* Some client asks, and the storage answers if it is up and is not reached if not.
StorageRead == \E q \in Queries : Handled(q, IF storageUp THEN "fresh" ELSE "unavailable")

-----------------------------------------------------------------------------
(* Properties *)

\* The breaker's counters agree with its state: it opens at the threshold and not
\* later, probes only in normal mode, and closes at HalfOpenMax successes, each of
\* which was an admitted probe.
BreakerCounters ==
    CASE circuit.state = "Closed" -> circuit.failure_count < FailureThreshold
                                     /\ circuit.success_count = 0
      [] circuit.state = "Open" -> circuit.failure_count = FailureThreshold
                                   /\ circuit.success_count = 0
      [] circuit.state = "HalfOpen" -> /\ degradation = "Normal"
                                       /\ circuit.success_count < HalfOpenMax
                                       /\ circuit.success_count <= circuit.half_open_requests + 1

\* A read served from the cache counts as a success in record_result; still the
\* breaker only ever closes on an answer of the storage.
ClosesOnFreshAnswer ==
    [][circuit.state # "Closed" /\ circuit'.state = "Closed" => reply' = "fresh"]_vars

\* When the storage stays up, no request is refused and clients keep reading, the
\* breaker closes, writes are admitted again and grpc.health.v1 says so, for good.
Recovers ==
    <>[]storageUp /\ [](reply # "refused") =>
        <>[](circuit.state = "Closed" /\ degradation = "Normal" /\ reported = "SERVING")

\* An outage that lasts is noticed for good, while clients keep reading and no request is
\* refused: although a read served from the cache counts as a success, resets the count of
\* failures and ends read-only mode, the breaker opens and writes are turned away.
OutageIsNoticed ==
    BreakerEnabled /\ ReadOnlyOnFailure /\ <>[]~storageUp /\ [](reply # "refused") =>
        <>[](circuit.state = "Open" /\ degradation = "ReadOnly")

\* health.rs on from_resilience: "HalfOpen is treated as serving because the breaker
\* is actively probing recovery and allows limited traffic".  It does not hold: a
\* refused probe is neither success nor failure, and the probes run out.
HalfOpenAllowsTraffic == circuit.state = "HalfOpen" => Admits(circuit)

=============================================================================
