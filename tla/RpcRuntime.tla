----------------------------- MODULE RpcRuntime -----------------------------
(***************************************************************************)
(* The runtime actor and the RPC handlers that talk to it: handlers put    *)
(* commands into a bounded queue and wait for an answer; the actor takes   *)
(* them one at a time, between its timers.  The server's deadline drops a  *)
(* handler wherever it waits.  A command that is already queued is then    *)
(* carried out all the same and its answer goes nowhere, while the caller, *)
(* who was told that the deadline had passed, goes on to its next call.    *)
(***************************************************************************)
EXTENDS HealthChecker, Sequences

CONSTANTS
    Clients,    \* processes that call the server, one call at a time
    Hosted,     \* the instances that a process registers
    RegisteredAs, ReportedAs,  \* statuses that calls give
    QueueSize,  \* capacity of the actor's channel
    None        \* no command

ASSUME ClientAssumption ==
    /\ Hosted \in [Clients -> SUBSET Ids]
    /\ \A c, d \in Clients : c # d => Hosted[c] \cap Hosted[d] = {}
    /\ RegisteredAs \cup ReportedAs \subseteq InstanceStatus
    /\ QueueSize \in Nat \ {0}

VARIABLES
    queue,   \* the channel
    client,  \* per process: what its handler does, and with which command
    left     \* history: instances whose process was answered that they are gone

runtimeVars == <<rows, up, queue, client, left>>

Batches(c) == SUBSET Hosted[c] \ {{}}

\* Commands by what they are about; a registration of one instance is a batch of one.
\* alive: which of its instances are alive at the time the handler read.
Command(op, ids, status) ==
    [op |-> op, ids |-> ids, status |-> status,
     alive |-> ids \cap {k \in DOMAIN rows : rows[k].live}]

RegisterCommands(c) == [op : {"register"}, ids : Batches(c), status : RegisteredAs, alive : {{}}]

\* Only registrations come in batches.
OwnCommands(c) == {Command(op, {k}, None) : op \in {"renew", "deregister"}, k \in Hosted[c]}

ReportCommands == {Command("report", {k}, s) : k \in Ids, s \in ReportedAs}

\* discover_instances and retrieve_instance take their turn and change nothing.
ReadCommands == {Command("discover", {}, None)}

RuntimeCommand(c) == RegisterCommands(c) \cup OwnCommands(c) \cup ReportCommands \cup ReadCommands

RuntimeInit ==
    /\ HealthInit
    /\ queue = << >>
    /\ client = [c \in Clients |-> [waits |-> "no", command |-> None]]
    /\ left = {}

-----------------------------------------------------------------------------
(* Handlers. *)

\* A handler has checked the request and read the time.
Call(c, command) ==
    /\ client[c].waits = "no"
    /\ client' = [client EXCEPT ![c] = [waits |-> "room", command |-> command]]
    /\ left' = IF command.op = "register" THEN left \ command.ids ELSE left
    /\ UNCHANGED <<rows, up, queue>>

\* Faulty: the newest command is taken first.
SendFirst(c) ==
    /\ client[c].waits = "room"
    /\ Len(queue) < QueueSize
    /\ queue' = <<[from |-> c, command |-> client[c].command, heard |-> TRUE]>> \o queue
    /\ client' = [client EXCEPT ![c] = [waits |-> "answer", command |-> None]]
    /\ UNCHANGED <<rows, up, left>>

send(c) ==
    /\ client[c].waits = "room"
    /\ Len(queue) < QueueSize
    /\ queue' = Append(queue, [from |-> c, command |-> client[c].command, heard |-> TRUE])
    /\ client' = [client EXCEPT ![c] = [waits |-> "answer", command |-> None]]
    /\ UNCHANGED <<rows, up, left>>

\* The deadline drops the handler, and with it the receiver of the answer.
Deadline(c) ==
    /\ client[c].waits # "no"
    /\ client' = [client EXCEPT ![c] = [waits |-> "no", command |-> None]]
    /\ queue' = [n \in DOMAIN queue |->
                   IF queue[n].from = c THEN [queue[n] EXCEPT !.heard = FALSE] ELSE queue[n]]
    /\ UNCHANGED <<rows, up, left>>

-----------------------------------------------------------------------------
(* The actor. *)

\* Registered, and alive at the time the command carries.
Found(command) ==
    {k \in command.ids \cap DOMAIN rows : rows[k].live \/ k \in command.alive}

\* A batch goes through its commands one by one and keeps going when one fails, so
\* those that go through, S, may be any of them.
Registered(S, command) ==
    [k \in DOMAIN rows \cup S |-> IF k \in S THEN NewRow(command.status) ELSE rows[k]]

Applied(command) ==
    CASE command.op = "register"   -> {Registered(S, command) : S \in SUBSET command.ids}
      [] command.op = "renew"      -> {[k \in DOMAIN rows |-> IF k \in Found(command)
                                          THEN [rows[k] EXCEPT !.live = TRUE] ELSE rows[k]]}
      [] command.op = "report"     -> {rows, [k \in DOMAIN rows |-> IF k \in Found(command)
                                          THEN [rows[k] EXCEPT !.status = command.status] ELSE rows[k]]}
      [] command.op = "deregister" -> {[k \in DOMAIN rows \ Found(command) |-> rows[k]]}
      [] command.op = "discover"   -> {rows}

\* dispatch_command: turned away by the gate, or applied; then answered.
dispatch_command ==
    /\ queue # << >>
    /\ LET entry == Head(queue)
           command == entry.command
       IN \E admitted \in BOOLEAN :
            /\ rows' \in IF admitted THEN Applied(command) ELSE {rows}
            /\ left' = IF admitted /\ entry.heard /\ command.op = "deregister"
                       THEN left \cup command.ids ELSE left
            /\ client' = IF entry.heard
                         THEN [client EXCEPT ![entry.from] = [waits |-> "no", command |-> None]]
                         ELSE client
    /\ queue' = Tail(queue)
    /\ UNCHANGED up

Timers == (run_health_checks \/ Reap \/ Tick) /\ UNCHANGED <<queue, client, left>>

Surroundings == \E k \in Ids : (Flip(k) \/ Lapse(k)) /\ UNCHANGED <<queue, client, left>>

RuntimeNext ==
    \/ \E c \in Clients : (\E command \in RuntimeCommand(c) : Call(c, command)) \/ send(c) \/ Deadline(c)
    \/ dispatch_command \/ Timers \/ Surroundings

RuntimeSpec == RuntimeInit /\ [][RuntimeNext]_runtimeVars

ScanStep == Scan(Due, Due) /\ UNCHANGED <<queue, client, left>>

TickStep == Tick /\ UNCHANGED <<queue, client, left>>

\* select! chooses at random among the arms that are ready, time goes on, and the store
\* does not fail in every scan.
FairRuntimeSpec ==
    /\ RuntimeSpec
    /\ WF_runtimeVars(dispatch_command) /\ WF_runtimeVars(TickStep) /\ SF_runtimeVars(ScanStep)

-----------------------------------------------------------------------------
(* Properties. *)

\* An instance whose process was answered that it is gone is not discovered again
\* before the process calls to register it: no command of its own that an earlier
\* deadline cut off is still on its way to bring it back.
LeftStaysLeft == left \cap discover_instances = {}

\* How many verdicts in a row say so, the one of this scan last.
RunOf(k, healthy) ==
    LET streak == Longer(rows[k].streak, check_health(k))
    IN  IF streak.healthy = healthy THEN streak.length ELSE 0

\* The checker changes a status only on as many agreeing verdicts in a row as the
\* threshold asks for, all about the current registration: the verdict at hand and those
\* before it that the store saved.  A threshold of 0 asks for none.
FlapDamped ==
    [][run_health_checks =>
         \A k \in DOMAIN rows :
            LET now == is_discoverable(rows'[k].status)
            IN  rows'[k].status # rows[k].status => RunOf(k, now) >= Threshold(now)
      ]_runtimeVars

\* A command may still change the instance.
Addressed(k) ==
    \/ \E n \in DOMAIN queue : k \in queue[n].command.ids
    \/ \E c \in Clients : client[c].waits = "room" /\ k \in client[c].command.ids

\* When an instance stays registered and alive, its endpoint stays up, or stays down,
\* and commands leave it alone, discovery comes to follow the endpoint, whatever
\* status owners and operators left behind.
StatusFollowsProbes ==
    \A k \in Ids : \A b \in BOOLEAN :
        <>[](k \in DOMAIN rows /\ rows[k].live /\ up[k] = b /\ ~Addressed(k))
          => <>[](k \in discover_instances <=> b)
=============================================================================
