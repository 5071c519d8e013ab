---------------------------- MODULE ServerProofs ----------------------------
(***************************************************************************)
(* Proofs of the safety properties of Resilience and Server, for every set *)
(* of cached queries, every threshold, timeout and limit.                  *)
(***************************************************************************)
EXTENDS Server, TLAPS

StreamTypeOK ==
    /\ phase \in {"running", "sync_stopped", "reported", "draining", "stopped"}
    /\ permits \in Nat /\ opening \in Nat /\ open \in Nat /\ gauge \in Int

\* A half-open breaker was opened at the threshold and has forgotten no failure, so
\* it is open at the threshold when a probe fails.
HalfOpenAtThreshold == circuit.state = "HalfOpen" => circuit.failure_count = FailureThreshold

\* A breaker that is turned off stays closed.
ClosedWhenOff == ~BreakerEnabled => circuit.state = "Closed"

\* The inductive invariant of the runtime, and of the server around it.
RuntimeInv == TypeOK /\ BreakerCounters /\ HalfOpenAtThreshold /\ ClosedWhenOff
ServerInv == RuntimeInv /\ StreamTypeOK /\ StreamsAccounted /\ ShutdownIsFinal

-----------------------------------------------------------------------------
(* The breaker. *)

Circuit ==
    [state : {"Closed", "Open", "HalfOpen"}, failure_count : 0 .. FailureThreshold,
     success_count : 0 .. HalfOpenMax, half_open_requests : 0 .. HalfOpenMax]

\* What the counters of a breaker say in each of its states.
Consistent(c) ==
    /\ ~BreakerEnabled => c.state = "Closed"
    /\ c.state = "Closed" => c.failure_count < FailureThreshold /\ c.success_count = 0
    /\ c.state = "Open" => c.failure_count = FailureThreshold /\ c.success_count = 0
    /\ c.state = "HalfOpen" => /\ c.failure_count = FailureThreshold
                               /\ c.success_count < HalfOpenMax
                               /\ c.success_count <= c.half_open_requests + 1

\* The breaker that allow_request leaves for the request it has admitted: there is
\* room for one more success than probes were counted before.
LEMMA AdmissionConsistent ==
    ASSUME NEW c \in Circuit, Consistent(c), Admits(c)
    PROVE  /\ AfterAdmission(c) \in Circuit
           /\ Consistent(AfterAdmission(c))
           /\ AfterAdmission(c).state = "HalfOpen" =>
                 AfterAdmission(c).success_count <= AfterAdmission(c).half_open_requests
           /\ AfterAdmission(c).state = "Closed" <=> c.state = "Closed"
<1> USE ResilienceAssumption
<1>1. CASE c.state = "Closed"
    <2>1. AfterAdmission(c) = c
        BY <1>1 DEF AfterAdmission
    <2> QED BY <1>1, <2>1
<1>2. CASE c.state = "Open"
    <2>1. AfterAdmission(c) = [c EXCEPT !.state = "HalfOpen", !.half_open_requests = 0]
        BY <1>2 DEF AfterAdmission, Consistent
    <2>2. AfterAdmission(c) =
            [state |-> "HalfOpen", failure_count |-> c.failure_count,
             success_count |-> c.success_count, half_open_requests |-> 0]
        BY <2>1, Zenon DEF Circuit
    <2> QED BY <1>2, <2>2 DEF Circuit, Consistent
<1>3. CASE c.state = "HalfOpen"
    <2>1. AfterAdmission(c) = [c EXCEPT !.half_open_requests = @ + 1]
        BY <1>3 DEF AfterAdmission, Consistent
    <2>2. c.half_open_requests < HalfOpenMax
        BY <1>3 DEF Admits, Consistent
    <2> QED BY <1>3, <2>1, <2>2 DEF Circuit, Consistent
<1> QED BY <1>1, <1>2, <1>3 DEF Circuit

\* record_success keeps the counters in agreement with the state.
LEMMA SuccessConsistent ==
    ASSUME NEW c \in Circuit, Consistent(c),
           c.state = "HalfOpen" => c.success_count <= c.half_open_requests
    PROVE  /\ record_success(c) \in Circuit
           /\ Consistent(record_success(c))
           /\ record_success(c).state = "HalfOpen" => c.state = "HalfOpen"
           /\ c.state = "Open" => record_success(c) = c
<1> USE ResilienceAssumption
<1>1. CASE c.state = "Closed"
    <2>1. record_success(c) = c \/ record_success(c) = [c EXCEPT !.failure_count = 0]
        BY <1>1 DEF record_success
    <2> QED BY <1>1, <2>1 DEF Circuit, Consistent
<1>2. CASE c.state = "Open"
    <2>1. record_success(c) = c
        BY <1>2 DEF record_success
    <2> QED BY <1>2, <2>1
<1>3. CASE c.state = "HalfOpen"
    <2>1. CASE c.success_count + 1 >= HalfOpenMax
        <3>1. record_success(c)
                = [c EXCEPT !.state = "Closed", !.failure_count = 0, !.success_count = 0]
            BY <1>3, <2>1 DEF record_success, Consistent
        <3>2. record_success(c) =
                [state |-> "Closed", failure_count |-> 0,
                 success_count |-> 0, half_open_requests |-> c.half_open_requests]
            BY <3>1, Zenon DEF Circuit
        <3> QED BY <1>3, <3>2 DEF Circuit, Consistent
    <2>2. CASE ~(c.success_count + 1 >= HalfOpenMax)
        <3>1. record_success(c) = [c EXCEPT !.success_count = @ + 1]
            BY <1>3, <2>2 DEF record_success, Consistent
        <3> QED BY <1>3, <2>2, <3>1 DEF Circuit, Consistent
    <2> QED BY <2>1, <2>2
<1> QED BY <1>1, <1>2, <1>3 DEF Circuit

\* record_failure never leaves the breaker half-open and never closes it.
LEMMA FailureConsistent ==
    ASSUME NEW c \in Circuit, Consistent(c)
    PROVE  /\ record_failure(c) \in Circuit
           /\ Consistent(record_failure(c))
           /\ record_failure(c).state # "HalfOpen"
           /\ record_failure(c).state = "Closed" => c.state = "Closed"
<1> USE ResilienceAssumption
<1>1. CASE c.state = "Closed"
    <2>1. CASE ~BreakerEnabled
        BY <1>1, <2>1 DEF record_failure
    <2>2. CASE BreakerEnabled
        <3> DEFINE s == IF c.failure_count + 1 >= FailureThreshold THEN "Open" ELSE "Closed"
        <3>1. record_failure(c) = [c EXCEPT !.failure_count = @ + 1, !.state = s]
            BY <1>1, <2>2 DEF record_failure
        <3>2. record_failure(c) =
                [state |-> s, failure_count |-> c.failure_count + 1,
                 success_count |-> c.success_count, half_open_requests |-> c.half_open_requests]
            BY <3>1, Zenon DEF Circuit
        <3> QED BY <1>1, <2>2, <3>2 DEF Circuit, Consistent
    <2> QED BY <2>1, <2>2
<1>2. CASE c.state = "Open"
    <2>1. record_failure(c) = c
        BY <1>2 DEF record_failure
    <2> QED BY <1>2, <2>1
<1>3. CASE c.state = "HalfOpen"
    <2>1. record_failure(c) = [c EXCEPT !.state = "Open", !.success_count = 0]
        BY <1>3 DEF record_failure, Consistent
    <2>2. record_failure(c) =
            [state |-> "Open", failure_count |-> c.failure_count,
             success_count |-> 0, half_open_requests |-> c.half_open_requests]
        BY <2>1, Zenon DEF Circuit
    <2> QED BY <1>3, <2>2 DEF Circuit, Consistent
<1> QED BY <1>1, <1>2, <1>3 DEF Circuit

\* BreakerCounters and its strengthening, state by state.
LEMMA CountersByState ==
    ASSUME circuit \in Circuit
    PROVE  BreakerCounters /\ HalfOpenAtThreshold /\ ClosedWhenOff
             <=> Consistent(circuit) /\ (circuit.state = "HalfOpen" => degradation = "Normal")
BY Zenon DEF BreakerCounters, HalfOpenAtThreshold, ClosedWhenOff, Consistent, Circuit

-----------------------------------------------------------------------------
(* The commands of the actor. *)

\* The breaker that the storage call of an admitted command finds.
Admitted(op) == IF BreakerAsked(op) THEN AfterAdmission(circuit) ELSE circuit

\* A command that passed the gate finds a breaker with room for its success, and a
\* half-open one only in normal mode.
LEMMA AdmittedFacts ==
    ASSUME RuntimeInv, NEW op, PassesGate(op)
    PROVE  /\ Admitted(op) \in Circuit
           /\ Consistent(Admitted(op))
           /\ Admitted(op).state = "HalfOpen" =>
                 /\ degradation = "Normal"
                 /\ Admitted(op).success_count <= Admitted(op).half_open_requests
           /\ Admitted(op).state = "Closed" <=> circuit.state = "Closed"
<1>1. /\ circuit \in Circuit
      /\ Consistent(circuit)
      /\ circuit.state = "HalfOpen" => degradation = "Normal"
    BY CountersByState DEF RuntimeInv, TypeOK, Circuit
<1>2. CASE BreakerAsked(op)
    <2>1. Admits(circuit) /\ degradation = "Normal"
        BY <1>2, ResilienceAssumption DEF PassesGate, BreakerAsked, allows, RuntimeInv, TypeOK
    <2> QED BY <1>1, <1>2, <2>1, AdmissionConsistent DEF Admitted
<1>3. CASE ~BreakerAsked(op)
    BY <1>1, <1>3 DEF Admitted, BreakerAsked
<1> QED BY <1>2, <1>3

\* Whatever the storage answers, recording the answer keeps the runtime's invariant,
\* and an open breaker closes on a fresh answer only.
LEMMA HandledPreserves ==
    ASSUME RuntimeInv, NEW op, NEW result \in StorageResults, Handled(op, result)
    PROVE  /\ RuntimeInv'
           /\ circuit.state # "Closed" /\ circuit'.state = "Closed" => reply' = "fresh"
<1> DEFINE admitted == Admitted(op)
           answer == Resolve(op, result)
<1>1. PassesGate(op)
    BY DEF Handled
<1>2. /\ admitted \in Circuit
      /\ Consistent(admitted)
      /\ admitted.state = "HalfOpen" =>
            degradation = "Normal" /\ admitted.success_count <= admitted.half_open_requests
      /\ admitted.state = "Closed" <=> circuit.state = "Closed"
    BY <1>1, AdmittedFacts
<1>3. /\ answer \in {"fresh", "stale", "unavailable", "refused"}
      /\ answer = "stale" => degradation = "ReadOnly"
    BY DEF Resolve, StorageResults, serve_stale_reads
<1>4. circuit' = Recorded(admitted, answer) /\ degradation' = DegradationAfter(answer)
    BY DEF Handled, Admitted
<1> HIDE DEF admitted, answer
<1>5. /\ circuit' \in Circuit
      /\ Consistent(circuit')
      /\ circuit'.state = "HalfOpen" => degradation' = "Normal"
      /\ circuit.state # "Closed" /\ circuit'.state = "Closed" => answer = "fresh"
    <2>1. CASE answer \in {"fresh", "stale"}
        <3>1. circuit' = record_success(admitted) /\ degradation' = "Normal"
            BY <1>4, <2>1 DEF Recorded, DegradationAfter
        <3>2. ASSUME answer = "stale", circuit.state # "Closed" PROVE circuit'.state # "Closed"
            <4>1. admitted.state = "Open"
                BY <1>2, <1>3, <3>2 DEF Circuit
            <4> QED BY <1>2, <3>1, <4>1, SuccessConsistent
        <3> QED BY <1>2, <2>1, <3>1, <3>2, SuccessConsistent
    <2>2. CASE answer = "unavailable"
        <3>1. circuit' = record_failure(admitted)
            BY <1>4, <2>2 DEF Recorded
        <3> QED BY <1>2, <3>1, FailureConsistent
    <2>3. CASE answer = "refused"
        <3>1. circuit' = admitted /\ degradation' = degradation
            BY <1>4, <2>3 DEF Recorded, DegradationAfter
        <3> QED BY <1>2, <3>1
    <2> QED BY <1>3, <2>1, <2>2, <2>3
<1>6. health' \in {"Serving", "NotServing", "Degraded"}
    BY DEF Handled, sync_from_resilience, from_resilience
<1>7. reply' = answer
    BY DEF Handled, answer
<1>8. TypeOK'
    <2>1. degradation' \in {"Normal", "ReadOnly"}
        BY <1>4 DEF DegradationAfter, RuntimeInv, TypeOK
    <2>2. sinceFailure' \in 0 .. RecoveryTimeout
        BY ResilienceAssumption DEF Handled, RuntimeInv, TypeOK
    <2>3. tokens' \in 0 .. Burst
        BY ResilienceAssumption DEF Handled, TakeToken, RuntimeInv, TypeOK
    <2>4. entryAge' \in [Queries -> 0 .. StaleMaxAge + 1]
        BY ResilienceAssumption DEF Handled, RuntimeInv, TypeOK
    <2>5. UNCHANGED <<reported, storageUp>>
        BY DEF Handled
    <2> QED BY <1>3, <1>5, <1>6, <1>7, <2>1, <2>2, <2>3, <2>4, <2>5
        DEF TypeOK, Circuit, Replies, RuntimeInv
<1>9. (BreakerCounters /\ HalfOpenAtThreshold /\ ClosedWhenOff)'
    BY <1>5, Zenon
       DEF BreakerCounters, HalfOpenAtThreshold, ClosedWhenOff, Consistent, Circuit
<1> QED BY <1>5, <1>7, <1>8, <1>9 DEF RuntimeInv

\* A command that the gate turns away changes nothing but the bucket.
LEMMA RejectedPreserves ==
    ASSUME RuntimeInv, NEW op, Rejected(op)
    PROVE  RuntimeInv' /\ circuit' = circuit
<1>1. tokens' \in 0 .. Burst
    BY ResilienceAssumption DEF Rejected, TakeToken, RuntimeInv, TypeOK
<1>2. UNCHANGED <<circuit, sinceFailure, degradation, entryAge, health, reported, storageUp>>
      /\ reply' = "rejected"
    BY DEF Rejected
<1> QED BY <1>1, <1>2, Zenon DEF RuntimeInv, TypeOK, Replies,
           BreakerCounters, HalfOpenAtThreshold, ClosedWhenOff

\* A command of any kind keeps the invariant and closes the breaker on a fresh
\* answer only.
LEMMA CommandPreserves ==
    ASSUME RuntimeInv, Read \/ Write
    PROVE  /\ RuntimeInv'
           /\ circuit.state # "Closed" /\ circuit'.state = "Closed" => reply' = "fresh"
           /\ reported' = reported
<1>1. PICK op : Command(op)
    BY DEF Read, Write
<1>2. CASE Rejected(op)
    BY <1>2, RejectedPreserves DEF Rejected
<1>3. CASE \E result \in StorageResults : Handled(op, result)
    BY <1>3, HandledPreserves DEF Handled
<1> QED BY <1>1, <1>2, <1>3 DEF Command

\* The health report, the passing of time and the storage's failures and recoveries.
LEMMA OtherRuntimeSteps ==
    ASSUME RuntimeInv, SyncHealth \/ Tick \/ StorageFails \/ StorageRecovers
    PROVE  RuntimeInv' /\ circuit' = circuit
<1> USE DEF RuntimeInv
<1>1. UNCHANGED <<circuit, degradation, health, reply>>
    BY DEF SyncHealth, Tick, StorageFails, StorageRecovers
<1>2. sinceFailure' \in 0 .. RecoveryTimeout
    BY ResilienceAssumption DEF SyncHealth, Tick, StorageFails, StorageRecovers, TypeOK
<1>3. tokens' \in 0 .. Burst
    BY ResilienceAssumption DEF SyncHealth, Tick, StorageFails, StorageRecovers, TypeOK
<1>4. entryAge' \in [Queries -> 0 .. StaleMaxAge + 1]
    BY ResilienceAssumption DEF SyncHealth, Tick, StorageFails, StorageRecovers, TypeOK
<1>5. reported' \in {"SERVING", "NOT_SERVING"} /\ storageUp' \in BOOLEAN
    BY Zenon DEF SyncHealth, Tick, StorageFails, StorageRecovers, TypeOK, grpc_serving_status
<1> QED BY <1>1, <1>2, <1>3, <1>4, <1>5, Zenon
        DEF TypeOK, BreakerCounters, HalfOpenAtThreshold, ClosedWhenOff

\* The runtime's variables left alone, but for the report of the shutdown.
LEMMA RuntimeStands ==
    ASSUME RuntimeInv, reported' \in {"SERVING", "NOT_SERVING"},
           UNCHANGED <<circuit, sinceFailure, degradation, tokens, entryAge, health, storageUp, reply>>
    PROVE  RuntimeInv'
BY Zenon DEF RuntimeInv, TypeOK, BreakerCounters, HalfOpenAtThreshold,
       ClosedWhenOff

-----------------------------------------------------------------------------
(* The server. *)

\* Steps of the runtime; the report changes while the server is running only.
LEMMA RuntimePreserves ==
    ASSUME ServerInv, Runtime
    PROVE  ServerInv'
<1>1. UNCHANGED <<phase, permits, opening, open, gauge>>
    BY DEF Runtime, streamVars
<1>2. RuntimeInv'
    BY CommandPreserves, OtherRuntimeSteps DEF Runtime, ServerInv
<1>3. phase # "running" => reported' = reported
    BY CommandPreserves DEF Runtime, ServerInv, SyncAlive, Tick, StorageFails, StorageRecovers
<1> QED BY <1>1, <1>2, <1>3 DEF ServerInv, StreamTypeOK, StreamsAccounted, ShutdownIsFinal

\* Every way a stream comes and goes keeps the sum of permits, and takes the gauge
\* down at least as far as the number of tasks.
LEMMA StreamsPreserve ==
    ASSUME ServerInv, Streams
    PROVE  ServerInv'
<1>1. UNCHANGED <<vars, phase>>
    BY DEF Streams, AdmitStream, AbandonStream, StartStream, EndStream, EndInDrain, ReturnCounted
<1>2. RuntimeInv'
    BY <1>1, RuntimeStands DEF ServerInv, RuntimeInv, TypeOK, vars
<1>3. StreamTypeOK' /\ StreamsAccounted'
    <2>0. StreamTypeOK /\ StreamsAccounted /\ phase' = phase
        BY <1>1 DEF ServerInv
    <2> USE <2>0, StreamAssumption DEF StreamTypeOK, StreamsAccounted
    <2>1. CASE AdmitStream
        BY <2>1 DEF AdmitStream
    <2>2. CASE AbandonStream
        BY <2>2 DEF AbandonStream
    <2>3. CASE StartStream
        BY <2>3 DEF StartStream, increment_active_streams
    <2>4. CASE EndStream
        BY <2>4 DEF EndStream, ReturnCounted, decrement_active_streams
    <2>5. CASE EndInDrain
        BY <2>5 DEF EndInDrain, ReturnCounted, decrement_active_streams
    <2> QED BY <2>1, <2>2, <2>3, <2>4, <2>5 DEF Streams
<1> QED BY <1>1, <1>2, <1>3 DEF ServerInv, ShutdownIsFinal, vars

\* The steps of shutdown, in their order.
LEMMA ShutdownPreserves ==
    ASSUME ServerInv, Shutdown
    PROVE  ServerInv'
<1> USE DEF Shutdown, AbortSync, set_health_services_not_serving, SignalShutdown, Join, vars, streamVars
<1>1. RuntimeInv'
    BY RuntimeStands DEF ServerInv, RuntimeInv, TypeOK
<1>2. StreamTypeOK' /\ StreamsAccounted'
    BY DEF ServerInv, StreamTypeOK, StreamsAccounted
<1>3. ShutdownIsFinal'
    BY DEF ServerInv, ShutdownIsFinal, StreamTypeOK
<1> QED BY <1>1, <1>2, <1>3 DEF ServerInv

\* The inductive invariant holds of every server: start_rpc_server establishes it, and
\* commands, timers, streams and shutdown keep it, in whatever order they come.
THEOREM ServerInvariance == ServerSpec => []ServerInv
<1>1. ServerInit => ServerInv
    BY ResilienceAssumption, StreamAssumption
       DEF ServerInit, Init, ServerInv, RuntimeInv, TypeOK, Replies,
           BreakerCounters, HalfOpenAtThreshold, ClosedWhenOff,
           StreamTypeOK, StreamsAccounted, ShutdownIsFinal
<1>2. ServerInv /\ [ServerNext]_serverVars => ServerInv'
    <2> SUFFICES ASSUME ServerInv, [ServerNext]_serverVars PROVE ServerInv'
        OBVIOUS
    <2>1. CASE Runtime
        BY <2>1, RuntimePreserves
    <2>2. CASE Streams
        BY <2>2, StreamsPreserve
    <2>3. CASE Shutdown
        BY <2>3, ShutdownPreserves
    <2>4. CASE UNCHANGED serverVars
        BY <2>4, RuntimeStands
           DEF serverVars, vars, streamVars, ServerInv, RuntimeInv, TypeOK, StreamTypeOK,
               StreamsAccounted, ShutdownIsFinal
    <2> QED BY <2>1, <2>2, <2>3, <2>4 DEF ServerNext
<1> QED BY <1>1, <1>2, PTL DEF ServerSpec

\* The breaker's counters, the bucket, the ages of cached reads and the health cell
\* stay in range: no probe beyond HalfOpenMax is ever admitted.
THEOREM ServerTypeCorrect == ServerSpec => []TypeOK
BY ServerInvariance, PTL DEF ServerInv, RuntimeInv

\* CircuitBreaker opens at the threshold, probes in normal mode only, and its successes
\* are admitted probes.
THEOREM CountersAgree == ServerSpec => []BreakerCounters
BY ServerInvariance, PTL DEF ServerInv, RuntimeInv

\* NOT_SERVING, once reported by shutdown, is the last report, because the sync task
\* is stopped before.
THEOREM ShutdownHasLastWord == ServerSpec => []ShutdownIsFinal
BY ServerInvariance, PTL DEF ServerInv

\* No way in or out of a watch stream loses a permit, or leaves the gauge too high.
THEOREM PermitsAreKept == ServerSpec => []StreamsAccounted
BY ServerInvariance, PTL DEF ServerInv

\* record_result takes a stale read for a success, yet the breaker closes on an answer
\* of the storage only: stale reads are served in read-only mode, and there the
\* breaker is not half-open.
THEOREM ClosingIsEarned == ServerSpec => ClosesOnFreshAnswer
<1>1. ServerInv /\ [ServerNext]_serverVars
        => [circuit.state # "Closed" /\ circuit'.state = "Closed" => reply' = "fresh"]_vars
    <2> SUFFICES ASSUME ServerInv, [ServerNext]_serverVars,
                        circuit.state # "Closed", circuit'.state = "Closed"
                 PROVE  reply' = "fresh"
        OBVIOUS
    <2>1. CASE Runtime
        BY <2>1, CommandPreserves, OtherRuntimeSteps DEF Runtime, ServerInv
    <2>2. CASE Streams
        BY <2>2 DEF Streams, AdmitStream, AbandonStream, StartStream, EndStream, EndInDrain,
                    ReturnCounted, vars
    <2>3. CASE Shutdown
        BY <2>3 DEF Shutdown, AbortSync, set_health_services_not_serving, SignalShutdown, Join, vars
    <2>4. CASE UNCHANGED serverVars
        BY <2>4 DEF serverVars, vars
    <2> QED BY <2>1, <2>2, <2>3, <2>4 DEF ServerNext
<1> QED BY <1>1, ServerInvariance, PTL DEF ServerSpec, ClosesOnFreshAnswer
=============================================================================
