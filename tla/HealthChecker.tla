--------------------------- MODULE HealthChecker ---------------------------
(***************************************************************************)
(* Active health checks: the runtime actor's third timer probes the        *)
(* endpoint of every instance that is due and reports a status when        *)
(* enough verdicts in a row agree.  The actor waits for the probes, so no  *)
(* command comes between them; owners and operators report statuses and    *)
(* register again between scans.                                           *)
(*                                                                         *)
(* Every instance has a health check; the counters stop at their           *)
(* thresholds and the age of the last check at the interval, beyond which  *)
(* the code does not tell values apart.                                    *)
(***************************************************************************)
EXTENDS Integers, FiniteSets, FiniteSetsExt

CONSTANTS
    Ids,                 \* instances
    Interval,            \* HealthCheckConfig.interval_ms; 0 turns the check off
    HealthyThreshold,
    UnhealthyThreshold

ASSUME CheckAssumption ==
    Interval \in Nat /\ HealthyThreshold \in Nat /\ UnhealthyThreshold \in Nat

VARIABLES
    rows,    \* the registered instances
    up       \* whether an endpoint answers its probe within timeout_ms

InstanceStatus == {"Serving", "Degraded", "NotServing"}

is_discoverable(status) == status \in {"Serving", "Degraded"}

HealthInit ==
    /\ rows = << >>
    /\ up = [k \in Ids |-> TRUE]

\* live: expires_at_ms is ahead of now; age: the time since last_check_ms; streak, a
\* history: of the verdicts on the registration that were saved, the last, and how many
\* like it came in a row.
\* HealthCheckRuntimeState::default: never checked, so due at once.
NewRow(status) ==
    [status |-> status, live |-> TRUE, consecutive_successes |-> 0,
     consecutive_failures |-> 0, age |-> Interval,
     streak |-> [healthy |-> TRUE, length |-> 0]]

\* What discover_instances with healthy_only answers.
discover_instances == {k \in DOMAIN rows : rows[k].live /\ is_discoverable(rows[k].status)}

-----------------------------------------------------------------------------
(* The scan. *)

list_active_instances_with_health_check == {k \in DOMAIN rows : rows[k].live}

due_for_check(r) == Interval > 0 /\ r.age >= Interval

\* Connected and answered as the probe expects, in time.
check_health(k) == up[k]

\* Faulty: a verdict of the other kind does not end a run.
CountOnly(r, healthy) ==
    [r EXCEPT !.consecutive_successes = Min({@ + (IF healthy THEN 1 ELSE 0), HealthyThreshold}),
              !.consecutive_failures = Min({@ + (IF healthy THEN 0 ELSE 1), UnhealthyThreshold}),
              !.age = 0]

\* update_health_check_state, with the verdict counted.
Count(r, healthy) ==
    [r EXCEPT !.consecutive_successes = IF healthy THEN Min({@ + 1, HealthyThreshold}) ELSE 0,
              !.consecutive_failures = IF healthy THEN 0 ELSE Min({@ + 1, UnhealthyThreshold}),
              !.age = 0]

\* Faulty: an instance is marked and never restored.
MarkOnly(r) ==
    IF r.consecutive_failures >= UnhealthyThreshold /\ is_discoverable(r.status)
    THEN [r EXCEPT !.status = "NotServing"]
    ELSE r

\* The status reported for a row that has been checked.
Judge(r) ==
    IF r.consecutive_failures >= UnhealthyThreshold /\ is_discoverable(r.status)
    THEN [r EXCEPT !.status = "NotServing"]
    ELSE IF r.consecutive_successes >= HealthyThreshold /\ ~is_discoverable(r.status)
         THEN [r EXCEPT !.status = "Serving"]
         ELSE r

Threshold(healthy) == IF healthy THEN HealthyThreshold ELSE UnhealthyThreshold

Longer(streak, healthy) ==
    [healthy |-> healthy,
     length |-> IF streak.healthy = healthy THEN Min({streak.length + 1, Threshold(healthy)}) ELSE 1]

\* The store may fail to save the new counts and may fail to take the status that they
\* ask for; neither failure keeps the checker from the other.
Checked(r, healthy, saved, told) ==
    LET counted == [Count(r, healthy) EXCEPT !.streak = Longer(@, healthy)]
    IN  [(IF saved THEN counted ELSE r) EXCEPT
            !.status = IF told THEN Judge(counted).status ELSE r.status]

Due == {k \in list_active_instances_with_health_check : due_for_check(rows[k])}

\* A scan in which the store saves and takes these.
Scan(saved, told) ==
    /\ Due # {}
    /\ rows' = [k \in DOMAIN rows |->
                  IF k \in Due THEN Checked(rows[k], check_health(k), k \in saved, k \in told)
                  ELSE rows[k]]
    /\ UNCHANGED up

run_health_checks == \E saved, told \in SUBSET Due : Scan(saved, told)

-----------------------------------------------------------------------------
(* What happens around it. *)

Flip(k) ==
    /\ up' = [up EXCEPT ![k] = ~@]
    /\ UNCHANGED rows

\* A lease runs out; its row stays until the expiry scan.
Lapse(k) ==
    /\ k \in DOMAIN rows /\ rows[k].live
    /\ rows' = [rows EXCEPT ![k].live = FALSE]
    /\ UNCHANGED up

Reap ==
    LET kept == {k \in DOMAIN rows : rows[k].live} IN
    /\ kept # DOMAIN rows
    /\ rows' = [k \in kept |-> rows[k]]
    /\ UNCHANGED up

Tick ==
    /\ \E k \in DOMAIN rows : rows[k].age < Interval
    /\ rows' = [k \in DOMAIN rows |-> [rows[k] EXCEPT !.age = Min({@ + 1, Interval})]]
    /\ UNCHANGED up
=============================================================================
