-------------------------- MODULE RpcRuntimeProofs --------------------------
(***************************************************************************)
(* The proofs that an instance whose process was told it is gone stays     *)
(* gone, and that the health checker changes a status only on a full run   *)
(* of verdicts, for any number of processes and instances, any queue and   *)
(* any thresholds, whatever deadlines cut off.                             *)
(***************************************************************************)
EXTENDS RpcRuntime, SequenceTheorems, TLAPS

RowsOK == \A k \in DOMAIN rows : "live" \in DOMAIN rows[k]

Commands ==
    [op : {"register", "renew", "deregister", "report", "discover"}, ids : SUBSET Ids,
     status : InstanceStatus \cup {None}, alive : SUBSET Ids]

\* What a handler of process c may send.
CommandOK(c, command) ==
    /\ command \in Commands
    /\ command.op \in {"register", "renew", "deregister"} => command.ids \subseteq Hosted[c]

\* A command that makes an instance k alive when the actor gets to it.
Revives(command, k) ==
    \/ command.op = "register" /\ k \in command.ids
    \/ command.op = "renew" /\ k \in command.ids /\ k \in command.alive

QueueOK ==
    /\ queue \in Seq([from : Clients, command : Commands, heard : BOOLEAN])
    /\ \A n \in DOMAIN queue : CommandOK(queue[n].from, queue[n].command)

\* A process waits for one answer at a time, and nothing of it is queued behind the
\* command it waits for.
OneCallEach ==
    \A n \in DOMAIN queue : queue[n].heard =>
        /\ client[queue[n].from].waits = "answer"
        /\ \A m \in DOMAIN queue : queue[m].from = queue[n].from => m <= n

WaitingOK ==
    /\ client \in [Clients -> [waits : {"no", "room", "answer"}, command : Commands \cup {None}]]
    /\ \A c \in Clients : client[c].waits = "room" => CommandOK(c, client[c].command)

\* Gone, and nothing on its way brings it back.
Gone(k) ==
    /\ k \in DOMAIN rows => ~rows[k].live
    /\ \A n \in DOMAIN queue : ~Revives(queue[n].command, k)
    /\ \A c \in Clients : client[c].waits = "room" => ~Revives(client[c].command, k)

\* The inductive invariant.
LeftInv ==
    /\ RowsOK
    /\ QueueOK
    /\ OneCallEach
    /\ WaitingOK
    /\ \A k \in left : Gone(k)

-----------------------------------------------------------------------------
(* The health checker. *)

\* A verdict leaves the lease alone.
LEMMA CheckedKeepsLive ==
    ASSUME NEW r, "live" \in DOMAIN r, NEW healthy, NEW saved, NEW told
    PROVE  /\ "live" \in DOMAIN Checked(r, healthy, saved, told)
           /\ Checked(r, healthy, saved, told).live = r.live
<1>1. "live" \in DOMAIN Count(r, healthy) /\ Count(r, healthy).live = r.live
    BY DEF Count
<1> QED BY <1>1 DEF Checked

\* Timers and the world outside change no lease for the better.
LEMMA RowsOnlyDie ==
    ASSUME LeftInv, Timers \/ Surroundings
    PROVE  /\ RowsOK'
           /\ DOMAIN rows' \subseteq DOMAIN rows
           /\ \A k \in DOMAIN rows' : rows'[k].live => rows[k].live
           /\ UNCHANGED <<queue, client, left>>
<1>0. UNCHANGED <<queue, client, left>>
    BY DEF Timers, Surroundings
<1>1. CASE run_health_checks
    BY <1>0, <1>1, CheckedKeepsLive DEF run_health_checks, Scan, RowsOK, LeftInv
<1>2. CASE Reap
    BY <1>0, <1>2 DEF Reap, RowsOK, LeftInv
<1>3. CASE Tick
    BY <1>0, <1>3 DEF Tick, RowsOK, LeftInv
<1>4. ASSUME NEW k \in Ids, Flip(k) \/ Lapse(k)
      PROVE  /\ RowsOK'
             /\ DOMAIN rows' \subseteq DOMAIN rows
             /\ \A j \in DOMAIN rows' : rows'[j].live => rows[j].live
    BY <1>4 DEF Flip, Lapse, RowsOK, LeftInv
<1> QED BY <1>0, <1>1, <1>2, <1>3, <1>4 DEF Timers, Surroundings

-----------------------------------------------------------------------------
(* Handlers. *)

\* What RuntimeCommand offers a process is about its own instances, but for reports;
\* a renewal is marked alive only for what is alive when the handler reads the time.
LEMMA CommandFacts ==
    ASSUME NEW c \in Clients, NEW command \in RuntimeCommand(c)
    PROVE  /\ CommandOK(c, command)
           /\ \A k : Revives(command, k) =>
                 \/ command.op = "register" /\ k \in command.ids
                 \/ k \in DOMAIN rows /\ rows[k].live
<1>1. CASE command \in RegisterCommands(c)
    BY <1>1, ClientAssumption DEF RegisterCommands, Batches, Commands, CommandOK, Revives
<1>2. CASE command \in OwnCommands(c)
    BY <1>2, ClientAssumption DEF OwnCommands, Command, Commands, CommandOK, Revives
<1>3. CASE command \in ReportCommands
    BY <1>3, ClientAssumption DEF ReportCommands, Command, Commands, CommandOK, Revives
<1>4. CASE command \in ReadCommands
    BY <1>4 DEF ReadCommands, Command, Commands, CommandOK, Revives
<1> QED BY <1>1, <1>2, <1>3, <1>4 DEF RuntimeCommand

\* A call to register takes its instances out of left; no other call revives one.
LEMMA CallPreserves ==
    ASSUME LeftInv, NEW c \in Clients, NEW command \in RuntimeCommand(c), Call(c, command)
    PROVE  LeftInv'
<1>1. /\ client[c].waits = "no" /\ UNCHANGED <<rows, queue>>
      /\ client' = [client EXCEPT ![c] = [waits |-> "room", command |-> command]]
      /\ left' = IF command.op = "register" THEN left \ command.ids ELSE left
    BY DEF Call
<1>2. \A d \in Clients : client'[d] = IF d = c THEN [waits |-> "room", command |-> command] ELSE client[d]
    BY <1>1 DEF LeftInv, WaitingOK
<1>3. WaitingOK'
    BY <1>1, <1>2, CommandFacts DEF LeftInv, WaitingOK, CommandOK
<1>4. OneCallEach'
    BY <1>1, <1>2 DEF LeftInv, OneCallEach, QueueOK
<1>5. ASSUME NEW k \in left' PROVE Gone(k)'
    <2>1. k \in left /\ Gone(k)
        BY <1>1 DEF LeftInv
    <2>2. ~Revives(command, k)
        BY <1>1, <2>1, CommandFacts DEF Gone
    <2> QED BY <1>1, <1>2, <2>1, <2>2 DEF Gone, Revives
<1> QED BY <1>1, <1>3, <1>4, <1>5 DEF LeftInv, RowsOK, QueueOK, CommandOK

\* A command joins the end of the queue, behind all that its process sent before.
LEMMA SendPreserves ==
    ASSUME LeftInv, NEW c \in Clients, send(c)
    PROVE  LeftInv'
<1> DEFINE e == [from |-> c, command |-> client[c].command, heard |-> TRUE]
           E == [from : Clients, command : Commands, heard : BOOLEAN]
<1>1. /\ client[c].waits = "room" /\ queue' = Append(queue, e) /\ UNCHANGED <<rows, left>>
      /\ client' = [client EXCEPT ![c] = [waits |-> "answer", command |-> None]]
    BY DEF send
<1>2. \A d \in Clients : client'[d] = IF d = c THEN [waits |-> "answer", command |-> None] ELSE client[d]
    BY <1>1 DEF LeftInv, WaitingOK
<1>3. CommandOK(c, e.command) /\ e \in E /\ queue \in Seq(E)
    BY <1>1 DEF LeftInv, WaitingOK, QueueOK, CommandOK
<1>4. /\ Len(queue) \in Nat /\ DOMAIN queue = 1 .. Len(queue)
      /\ queue' \in Seq(E) /\ DOMAIN queue' = 1 .. Len(queue) + 1
      /\ \A n \in DOMAIN queue : queue'[n] = queue[n]
      /\ queue'[Len(queue) + 1] = e
    BY <1>1, <1>3, AppendProperties, LenProperties
<1>5. QueueOK'
    BY <1>3, <1>4 DEF LeftInv, QueueOK, CommandOK
<1>6. WaitingOK'
    BY <1>1, <1>2 DEF LeftInv, WaitingOK, CommandOK
<1>7. \A n \in DOMAIN queue : queue[n].from = c => ~queue[n].heard
    BY <1>1 DEF LeftInv, OneCallEach
<1>8. OneCallEach'
    <2> SUFFICES ASSUME NEW n \in DOMAIN queue', queue'[n].heard
                 PROVE  /\ client'[queue'[n].from].waits = "answer"
                        /\ \A m \in DOMAIN queue' : queue'[m].from = queue'[n].from => m <= n
        BY DEF OneCallEach
    <2>1. CASE n \in DOMAIN queue
        <3>1. queue'[n] = queue[n] /\ queue[n].from \in Clients /\ queue[n].from # c
            <4>1. queue[n] \in E
                BY <1>3, <1>4, <2>1, ElementOfSeq, Zenon
            <4>2. queue'[n] = queue[n] /\ queue[n].heard
                BY <1>4, <2>1
            <4> QED BY <4>1, <4>2, <1>7, <2>1
        <3>2. /\ client[queue[n].from].waits = "answer"
              /\ \A m \in DOMAIN queue : queue[m].from = queue[n].from => m <= n
            BY <2>1, <3>1 DEF LeftInv, OneCallEach
        <3>3. client'[queue'[n].from].waits = "answer"
            BY <1>2, <3>1, <3>2
        <3>4. ASSUME NEW m \in DOMAIN queue', queue'[m].from = queue'[n].from
              PROVE  m <= n
            <4>1. CASE m \in DOMAIN queue
                BY <1>4, <3>1, <3>2, <3>4, <4>1
            <4>2. CASE m = Len(queue) + 1
                BY <1>4, <3>1, <3>4, <4>2
            <4> QED BY <1>4, <4>1, <4>2
        <3> QED BY <3>3, <3>4
    <2>2. CASE n = Len(queue) + 1
        BY <1>2, <1>4, <2>2
    <2> QED BY <1>4, <2>1, <2>2
<1>9. \A k \in left' : Gone(k)'
    <2> SUFFICES ASSUME NEW k \in left PROVE Gone(k)'
        BY <1>1
    <2>1. Gone(k) /\ ~Revives(client[c].command, k)
        BY <1>1 DEF LeftInv, Gone
    <2>2. \A n \in DOMAIN queue' : ~Revives(queue'[n].command, k)
        BY <1>4, <2>1 DEF Gone
    <2>3. \A d \in Clients : client'[d].waits = "room" => ~Revives(client'[d].command, k)
        BY <1>2, <2>1 DEF Gone
    <2> QED BY <1>1, <2>1, <2>2, <2>3 DEF Gone, Revives
<1> QED BY <1>1, <1>5, <1>6, <1>8, <1>9 DEF LeftInv, RowsOK

\* The channel after a deadline is again a sequence.
LEMMA FunctionsAreSequences ==
    ASSUME NEW S, NEW n \in Nat, NEW q \in [1 .. n -> S]
    PROVE  q \in Seq(S)
BY SeqDef

\* A deadline leaves what is queued and drops only who hears the answer.
LEMMA DeadlinePreserves ==
    ASSUME LeftInv, NEW c \in Clients, Deadline(c)
    PROVE  LeftInv'
<1> DEFINE E == [from : Clients, command : Commands, heard : BOOLEAN]
<1>1. /\ UNCHANGED <<rows, left>>
      /\ client' = [client EXCEPT ![c] = [waits |-> "no", command |-> None]]
      /\ queue' = [n \in DOMAIN queue |->
                     IF queue[n].from = c THEN [queue[n] EXCEPT !.heard = FALSE] ELSE queue[n]]
    BY DEF Deadline
<1>2. \A d \in Clients : client'[d] = IF d = c THEN [waits |-> "no", command |-> None] ELSE client[d]
    BY <1>1 DEF LeftInv, WaitingOK
<1>3. /\ Len(queue) \in Nat /\ DOMAIN queue = 1 .. Len(queue)
      /\ \A n \in DOMAIN queue : queue[n] \in E
    BY LenProperties, ElementOfSeq, Zenon DEF LeftInv, QueueOK
<1>4. \A n \in DOMAIN queue :
        /\ queue'[n] \in E
        /\ queue'[n].from = queue[n].from
        /\ queue'[n].command = queue[n].command
        /\ queue'[n].heard => queue[n].heard /\ queue[n].from # c
    BY <1>1, <1>3, Zenon
<1>5. DOMAIN queue' = DOMAIN queue /\ queue' \in [1 .. Len(queue) -> E]
    BY <1>1, <1>3, <1>4
<1>6. queue' \in Seq(E)
    BY <1>3, <1>5, FunctionsAreSequences, Zenon
<1>7. QueueOK'
    BY <1>4, <1>5, <1>6 DEF LeftInv, QueueOK, CommandOK
<1>8. WaitingOK'
    BY <1>1, <1>2 DEF LeftInv, WaitingOK, CommandOK
<1>9. OneCallEach'
    BY <1>2, <1>3, <1>4, <1>5 DEF LeftInv, OneCallEach
<1>10. \A k \in left' : Gone(k)'
    BY <1>1, <1>2, <1>4, <1>5 DEF LeftInv, Gone, Revives
<1> QED BY <1>1, <1>7, <1>8, <1>9, <1>10 DEF LeftInv, RowsOK

-----------------------------------------------------------------------------
(* The actor. *)

\* What the actor does to leases: only a registration, or a renewal whose handler
\* saw the instance alive, brings one to life, and a deregistration leaves none.
LEMMA AppliedFacts ==
    ASSUME RowsOK, NEW command \in Commands, NEW new \in Applied(command)
    PROVE  /\ \A k \in DOMAIN new : "live" \in DOMAIN new[k]
           /\ \A k \in DOMAIN new : new[k].live =>
                 (k \in DOMAIN rows /\ rows[k].live) \/ Revives(command, k)
           /\ command.op = "deregister" => \A k \in command.ids \cap DOMAIN new : ~new[k].live
<1>1. CASE command.op = "register"
    <2>1. PICK S \in SUBSET command.ids : new = Registered(S, command)
        BY <1>1 DEF Applied
    <2> QED BY <1>1, <2>1 DEF Registered, NewRow, RowsOK, Revives
<1>2. CASE command.op = "renew"
    <2>1. new = [k \in DOMAIN rows |-> IF k \in Found(command)
                                       THEN [rows[k] EXCEPT !.live = TRUE] ELSE rows[k]]
        BY <1>2 DEF Applied
    <2>2. \A k \in Found(command) : k \in command.ids /\ (rows[k].live \/ k \in command.alive)
        BY DEF Found
    <2> QED BY <1>2, <2>1, <2>2 DEF RowsOK, Revives
<1>3. CASE command.op = "report"
    <2>1. \/ new = rows
          \/ new = [k \in DOMAIN rows |-> IF k \in Found(command)
                       THEN [rows[k] EXCEPT !.status = command.status] ELSE rows[k]]
        BY <1>3 DEF Applied
    <2>2. CASE new = rows
        BY <1>3, <2>2 DEF RowsOK
    <2>3. CASE new = [k \in DOMAIN rows |-> IF k \in Found(command)
                       THEN [rows[k] EXCEPT !.status = command.status] ELSE rows[k]]
        BY <1>3, <2>3 DEF RowsOK
    <2> QED BY <2>1, <2>2, <2>3
<1>4. CASE command.op = "deregister"
    <2>1. new = [k \in DOMAIN rows \ Found(command) |-> rows[k]]
        BY <1>4 DEF Applied
    <2> QED BY <1>4, <2>1 DEF RowsOK, Found
<1>5. CASE command.op = "discover"
    <2>1. new = rows
        BY <1>5 DEF Applied
    <2> QED BY <1>5, <2>1 DEF RowsOK
<1> QED BY <1>1, <1>2, <1>3, <1>4, <1>5 DEF Commands

\* The actor takes the head of the queue.  When a process hears that its instances are
\* gone it has nothing else queued, and no other process has commands that revive them.
LEMMA DispatchPreserves ==
    ASSUME LeftInv, dispatch_command
    PROVE  LeftInv'
<1> DEFINE E == [from : Clients, command : Commands, heard : BOOLEAN]
<1>1. queue # << >> /\ queue' = Tail(queue)
    BY DEF dispatch_command
<1>2. PICK e : e = Head(queue)
    OBVIOUS
<1>3. PICK admitted \in BOOLEAN :
        /\ rows' \in IF admitted THEN Applied(e.command) ELSE {rows}
        /\ left' = IF admitted /\ e.heard /\ e.command.op = "deregister"
                   THEN left \cup e.command.ids ELSE left
        /\ client' = IF e.heard
                     THEN [client EXCEPT ![e.from] = [waits |-> "no", command |-> None]]
                     ELSE client
    BY <1>2 DEF dispatch_command
<1>4. /\ queue \in Seq(E) /\ queue' \in Seq(E) /\ e \in E
      /\ Len(queue) \in Nat \ {0} /\ DOMAIN queue = 1 .. Len(queue)
      /\ DOMAIN queue' = 1 .. Len(queue) - 1
      /\ e = queue[1]
      /\ \A n \in DOMAIN queue' : n + 1 \in DOMAIN queue /\ queue'[n] = queue[n + 1]
    <2>1. queue \in Seq(E)
        BY DEF LeftInv, QueueOK
    <2>2. Len(queue) \in Nat /\ DOMAIN queue = 1 .. Len(queue) /\ Len(queue) # 0
        BY <1>1, <2>1, LenProperties, EmptySeq
    <2>3. /\ e \in E /\ queue' \in Seq(E) /\ Len(queue') = Len(queue) - 1
          /\ \A n \in 1 .. Len(queue') : queue'[n] = queue[n + 1]
        BY <1>1, <1>2, <2>1, HeadTailProperties, Zenon
    <2>4. DOMAIN queue' = 1 .. Len(queue')
        BY <2>3, LenProperties
    <2>5. e = queue[1]
        BY <1>1, <1>2, <2>1
    <2> QED BY <2>1, <2>2, <2>3, <2>4, <2>5
<1>5. /\ e.from \in Clients /\ e.command \in Commands /\ CommandOK(e.from, e.command)
      /\ 1 \in DOMAIN queue
    BY <1>4 DEF LeftInv, QueueOK
<1>6. RowsOK'
    BY <1>3, <1>5, AppliedFacts DEF LeftInv, RowsOK
<1>7. QueueOK' /\ \A n \in DOMAIN queue' : queue'[n].from \in Clients
    <2>1. \A n \in DOMAIN queue : queue[n] \in E
        BY <1>4, ElementOfSeq, Zenon
    <2> QED BY <1>4, <2>1 DEF LeftInv, QueueOK, CommandOK
<1>8. \A d \in Clients : client'[d] = IF e.heard /\ d = e.from
                                      THEN [waits |-> "no", command |-> None] ELSE client[d]
    BY <1>3, <1>5 DEF LeftInv, WaitingOK
<1>9. WaitingOK'
    BY <1>3, <1>5, <1>8 DEF LeftInv, WaitingOK, CommandOK
<1>10. e.heard => \A n \in DOMAIN queue' : queue'[n].from # e.from
    BY <1>4, <1>5 DEF LeftInv, OneCallEach
<1>11. OneCallEach'
    <2> SUFFICES ASSUME NEW n \in DOMAIN queue', queue'[n].heard
                 PROVE  /\ client'[queue'[n].from].waits = "answer"
                        /\ \A m \in DOMAIN queue' : queue'[m].from = queue'[n].from => m <= n
        BY DEF OneCallEach
    <2>1. queue'[n].from \in Clients /\ (e.heard => queue'[n].from # e.from)
        BY <1>7, <1>10
    <2>2. /\ client[queue'[n].from].waits = "answer"
          /\ \A m \in DOMAIN queue : queue[m].from = queue'[n].from => m <= n + 1
        BY <1>4 DEF LeftInv, OneCallEach
    <2>3. client'[queue'[n].from].waits = "answer"
        BY <1>8, <2>1, <2>2
    <2>4. ASSUME NEW m \in DOMAIN queue', queue'[m].from = queue'[n].from PROVE m <= n
        <3>1. m + 1 \in DOMAIN queue /\ queue[m + 1].from = queue'[n].from
            BY <1>4, <2>4
        <3>2. m + 1 <= n + 1
            BY <2>2, <3>1
        <3> QED BY <1>4, <3>2
    <2> QED BY <2>3, <2>4
<1>12. ASSUME NEW k \in left PROVE Gone(k)'
    <2>1. Gone(k) /\ ~Revives(e.command, k)
        BY <1>4, <1>5 DEF LeftInv, Gone
    <2>2. k \in DOMAIN rows' => ~rows'[k].live
        BY <1>3, <1>5, <2>1, AppliedFacts DEF LeftInv, Gone
    <2>3. \A n \in DOMAIN queue' : ~Revives(queue'[n].command, k)
        BY <1>4, <2>1 DEF Gone
    <2>4. \A d \in Clients : client'[d].waits = "room" => ~Revives(client'[d].command, k)
        BY <1>8, <2>1 DEF Gone
    <2> QED BY <2>2, <2>3, <2>4 DEF Gone, Revives
<1>13. ASSUME admitted, e.heard, e.command.op = "deregister", NEW k \in e.command.ids
       PROVE  Gone(k)'
    <2>1. k \in Hosted[e.from]
        BY <1>5, <1>13 DEF CommandOK
    <2>2. k \in DOMAIN rows' => ~rows'[k].live
        BY <1>3, <1>5, <1>13, AppliedFacts DEF LeftInv
    <2>3. ASSUME NEW d \in Clients, NEW command, CommandOK(d, command), d # e.from
          PROVE  ~Revives(command, k)
        BY <1>5, <2>1, <2>3, ClientAssumption DEF CommandOK, Revives
    <2>4. ASSUME NEW n \in DOMAIN queue' PROVE ~Revives(queue'[n].command, k)
        <3>1. /\ queue'[n].from \in Clients /\ queue'[n].from # e.from
              /\ CommandOK(queue'[n].from, queue'[n].command)
            BY <1>7, <1>10, <1>13 DEF QueueOK, CommandOK
        <3> QED BY <2>3, <3>1
    <2>5. \A d \in Clients : client'[d].waits = "room" => ~Revives(client'[d].command, k)
        BY <1>8, <1>13, <2>3 DEF LeftInv, WaitingOK
    <2> QED BY <2>2, <2>4, <2>5 DEF Gone, Revives
<1>14. \A k \in left' : Gone(k)'
    BY <1>3, <1>12, <1>13
<1> QED BY <1>6, <1>7, <1>9, <1>11, <1>14 DEF LeftInv

-----------------------------------------------------------------------------
(* The theorem. *)

\* The inductive invariant holds of the actor, its timers and the handlers together.
THEOREM LeftInvariance == RuntimeSpec => []LeftInv
<1>1. RuntimeInit => LeftInv
    <2> SUFFICES ASSUME RuntimeInit PROVE LeftInv
        OBVIOUS
    <2>1. rows = << >> /\ queue = << >> /\ left = {}
          /\ client = [c \in Clients |-> [waits |-> "no", command |-> None]]
        BY DEF RuntimeInit, HealthInit
    <2>2. QueueOK
        BY <2>1, EmptySeq DEF QueueOK
    <2> QED BY <2>1, <2>2 DEF LeftInv, RowsOK, OneCallEach, WaitingOK
<1>2. LeftInv /\ [RuntimeNext]_runtimeVars => LeftInv'
    <2> SUFFICES ASSUME LeftInv, [RuntimeNext]_runtimeVars PROVE LeftInv'
        OBVIOUS
    <2>1. ASSUME NEW c \in Clients, NEW command \in RuntimeCommand(c), Call(c, command) PROVE LeftInv'
        BY <2>1, CallPreserves
    <2>2. ASSUME NEW c \in Clients, send(c) PROVE LeftInv'
        BY <2>2, SendPreserves
    <2>3. ASSUME NEW c \in Clients, Deadline(c) PROVE LeftInv'
        BY <2>3, DeadlinePreserves
    <2>4. CASE dispatch_command
        BY <2>4, DispatchPreserves
    <2>5. CASE Timers \/ Surroundings
        BY <2>5, RowsOnlyDie
           DEF LeftInv, QueueOK, CommandOK, OneCallEach, WaitingOK, Gone, Revives
    <2>6. CASE UNCHANGED runtimeVars
        BY <2>6
           DEF runtimeVars, LeftInv, RowsOK, QueueOK, CommandOK, OneCallEach, WaitingOK, Gone, Revives
    <2> QED BY <2>1, <2>2, <2>3, <2>4, <2>5, <2>6 DEF RuntimeNext
<1> QED BY <1>1, <1>2, PTL DEF RuntimeSpec

\* dispatch_command answers a deregistration only when nothing of the process that a
\* deadline cut off is still queued: what it was told is gone stays undiscovered.
THEOREM LeavingIsFinal == RuntimeSpec => []LeftStaysLeft
<1>1. LeftInv => LeftStaysLeft
    BY DEF LeftInv, Gone, LeftStaysLeft, discover_instances
<1> QED BY <1>1, LeftInvariance, PTL

-----------------------------------------------------------------------------
(* Damping. *)

CheckedRow ==
    [status : InstanceStatus \cup {None}, live : BOOLEAN, consecutive_successes : Nat,
     consecutive_failures : Nat, age : Nat, streak : [healthy : BOOLEAN, length : Nat]]

\* A counter is never ahead of the saved verdicts that the registration has had in a row,
\* and the counter of the other verdict is at zero.
CountsFollow(r) ==
    /\ r.consecutive_successes <= IF r.streak.healthy THEN r.streak.length ELSE 0
    /\ r.consecutive_failures <= IF r.streak.healthy THEN 0 ELSE r.streak.length

\* The inductive invariant of the rows.
DampInv == \A k \in DOMAIN rows : rows[k] \in CheckedRow /\ CountsFollow(rows[k])

\* The smaller of two counts.
LEMMA MinOfTwo ==
    ASSUME NEW a \in Nat, NEW b \in Nat
    PROVE  Min({a, b}) = IF a <= b THEN a ELSE b
<1>1. PICK m : m = IF a <= b THEN a ELSE b
    OBVIOUS
<1>2. m \in {a, b} /\ \A y \in {a, b} : m <= y
    BY <1>1
<1>3. \A x \in {a, b} : (\A y \in {a, b} : x <= y) => x = m
    BY <1>1
<1> QED BY <1>1, <1>2, <1>3 DEF Min

\* update_health_check_state and the status that is reported after it, for one row.
LEMMA VerdictFacts ==
    ASSUME NEW r \in CheckedRow, CountsFollow(r), NEW healthy \in BOOLEAN,
           NEW saved \in BOOLEAN, NEW told \in BOOLEAN
    PROVE  \E c, long :
              /\ c = Checked(r, healthy, saved, told) /\ long = Longer(r.streak, healthy)
              /\ c \in CheckedRow /\ CountsFollow(c)
              /\ c.status # r.status =>
                    LET now == is_discoverable(c.status)
                    IN  (IF long.healthy = now THEN long.length ELSE 0) >= Threshold(now)
<1>0. PICK long : long = Longer(r.streak, healthy)
    OBVIOUS
<1>1. HealthyThreshold \in Nat /\ UnhealthyThreshold \in Nat
    BY CheckAssumption
<1>2. PICK q : q = Count(r, healthy)
    OBVIOUS
<1>3. PICK s : s = q.consecutive_successes
    OBVIOUS
<1>4. PICK f : f = q.consecutive_failures
    OBVIOUS
<1>5. /\ s = IF healthy THEN Min({r.consecutive_successes + 1, HealthyThreshold}) ELSE 0
      /\ f = IF healthy THEN 0 ELSE Min({r.consecutive_failures + 1, UnhealthyThreshold})
      /\ q.status = r.status /\ q.streak = r.streak
    BY <1>2, <1>3, <1>4 DEF Count, CheckedRow
<1>6. s \in Nat /\ f \in Nat /\ (healthy => f = 0) /\ (~healthy => s = 0)
    BY <1>1, <1>5, MinOfTwo DEF CheckedRow
<1>7. q \in CheckedRow
    <2>1. q = [r EXCEPT !.consecutive_successes = s, !.consecutive_failures = f, !.age = 0]
        BY <1>2, <1>5 DEF Count, CheckedRow
    <2> QED BY <1>6, <2>1, Zenon DEF CheckedRow
<1>8. r.streak \in [healthy : BOOLEAN, length : Nat]
    BY DEF CheckedRow
<1>9. /\ long \in [healthy : BOOLEAN, length : Nat] /\ long.healthy = healthy
      /\ healthy => s <= long.length
      /\ ~healthy => f <= long.length
    <2>1. PICK n : n = r.streak.length
        OBVIOUS
    <2>2. n \in Nat /\ n + 1 \in Nat
        BY <1>8, <2>1
    <2>3. long = [healthy |-> healthy,
                  length |-> IF r.streak.healthy = healthy THEN Min({n + 1, Threshold(healthy)}) ELSE 1]
        BY <1>0, <2>1 DEF Longer
    <2>4. CASE healthy
        <3>1. /\ s = IF r.consecutive_successes + 1 <= HealthyThreshold
                     THEN r.consecutive_successes + 1 ELSE HealthyThreshold
              /\ r.consecutive_successes \in Nat
            BY <1>1, <1>5, <2>4, MinOfTwo DEF CheckedRow
        <3>2. CASE r.streak.healthy
            <4>1. r.consecutive_successes <= n
                BY <2>1, <3>2 DEF CountsFollow
            <4>2. long.length = IF n + 1 <= HealthyThreshold THEN n + 1 ELSE HealthyThreshold
                BY <1>1, <2>2, <2>3, <2>4, <3>2, MinOfTwo DEF Threshold
            <4>3. s <= long.length /\ long.length \in Nat
                BY <1>1, <2>2, <3>1, <4>1, <4>2
            <4> QED BY <2>3, <2>4, <4>3, Zenon
        <3>3. CASE ~r.streak.healthy
            <4>1. r.consecutive_successes = 0
                BY <3>1, <3>3 DEF CountsFollow
            <4>2. long.length = 1
                BY <2>3, <2>4, <3>3, Zenon
            <4>3. s <= long.length /\ long.length \in Nat
                BY <1>1, <3>1, <4>1, <4>2
            <4> QED BY <2>3, <2>4, <4>3, Zenon
        <3> QED BY <3>2, <3>3
    <2>5. CASE ~healthy
        <3>1. /\ f = IF r.consecutive_failures + 1 <= UnhealthyThreshold
                     THEN r.consecutive_failures + 1 ELSE UnhealthyThreshold
              /\ r.consecutive_failures \in Nat
            BY <1>1, <1>5, <2>5, MinOfTwo DEF CheckedRow
        <3>2. CASE ~r.streak.healthy
            <4>1. r.consecutive_failures <= n
                BY <2>1, <3>2 DEF CountsFollow
            <4>2. r.streak.healthy = healthy
                BY <1>8, <2>5, <3>2
            <4>3. long.length = IF n + 1 <= UnhealthyThreshold THEN n + 1 ELSE UnhealthyThreshold
                BY <1>1, <2>2, <2>3, <2>5, <4>2, MinOfTwo DEF Threshold
            <4>4. f <= long.length /\ long.length \in Nat
                BY <1>1, <2>2, <3>1, <4>1, <4>3
            <4> QED BY <2>3, <2>5, <4>4
        <3>3. CASE r.streak.healthy
            <4>1. r.consecutive_failures = 0
                BY <3>1, <3>3 DEF CountsFollow
            <4>2. long.length = 1
                BY <2>3, <2>5, <3>3, Zenon
            <4>3. f <= long.length /\ long.length \in Nat
                BY <1>1, <3>1, <4>1, <4>2
            <4> QED BY <2>3, <2>5, <4>3
        <3> QED BY <3>2, <3>3
    <2> QED BY <2>4, <2>5
<1>10. PICK d : d = [q EXCEPT !.streak = long]
    OBVIOUS
<1>11. /\ d \in CheckedRow /\ d.consecutive_successes = s /\ d.consecutive_failures = f
       /\ d.status = r.status /\ d.streak = long
    BY <1>3, <1>4, <1>5, <1>7, <1>9, <1>10 DEF CheckedRow
<1>12. PICK status : status = Judge(d).status
    OBVIOUS
<1>13. /\ status \in InstanceStatus \cup {None}
       /\ \/ status = r.status
          \/ status = "NotServing" /\ f >= UnhealthyThreshold
          \/ status = "Serving" /\ s >= HealthyThreshold
    BY <1>11, <1>12, Zenon DEF Judge, CheckedRow, InstanceStatus
<1>14. PICK c :
          /\ c = Checked(r, healthy, saved, told)
          /\ c = [(IF saved THEN d ELSE r) EXCEPT !.status = IF told THEN status ELSE r.status]
    BY <1>0, <1>2, <1>5, <1>10, <1>12 DEF Checked
<1>15. c \in CheckedRow /\ CountsFollow(c)
    <2>1. CountsFollow(d)
        BY <1>6, <1>9, <1>11 DEF CountsFollow
    <2>2. PICK base \in CheckedRow : base = (IF saved THEN d ELSE r) /\ CountsFollow(base)
        BY <1>11, <2>1
    <2>3. PICK t \in InstanceStatus \cup {None} : t = IF told THEN status ELSE r.status
        BY <1>13 DEF CheckedRow
    <2>4. c = [base EXCEPT !.status = t]
        BY <1>14, <2>2, <2>3
    <2> QED BY <2>2, <2>4, Zenon DEF CheckedRow, CountsFollow
<1>16. c.status = IF told THEN status ELSE r.status
    BY <1>11, <1>14 DEF CheckedRow
<1>17. ASSUME c.status # r.status, NEW now \in BOOLEAN, now = is_discoverable(c.status)
       PROVE  (IF long.healthy = now THEN long.length ELSE 0) >= Threshold(now)
    <2>1. CASE c.status = "NotServing" /\ f >= UnhealthyThreshold
        <3>1. ~now /\ Threshold(now) = UnhealthyThreshold
            BY <1>17, <2>1 DEF is_discoverable, Threshold
        <3>2. CASE healthy
            <4>1. UnhealthyThreshold = 0
                BY <1>1, <1>6, <2>1, <3>2
            <4> QED BY <1>9, <3>1, <4>1
        <3>3. CASE ~healthy
            <4>1. now = FALSE /\ long.healthy = FALSE
                BY <1>9, <3>1, <3>3, Zenon
            <4>2. long.length >= UnhealthyThreshold
                BY <1>1, <1>6, <1>9, <2>1, <3>3
            <4> QED BY <3>1, <4>1, <4>2
        <3> QED BY <3>2, <3>3
    <2>2. CASE c.status = "Serving" /\ s >= HealthyThreshold
        <3>1. now = TRUE
            BY <1>17, <2>2, Zenon DEF is_discoverable
        <3>2. Threshold(now) = HealthyThreshold
            BY <3>1 DEF Threshold
        <3>3. CASE healthy
            <4>1. long.healthy = now
                BY <1>9, <3>1, <3>3
            <4>2. long.length >= HealthyThreshold
                BY <1>1, <1>6, <1>9, <2>2, <3>3
            <4> QED BY <3>2, <4>1, <4>2
        <3>4. CASE ~healthy
            <4>1. HealthyThreshold = 0
                BY <1>1, <1>6, <2>2, <3>4
            <4> QED BY <1>9, <3>2, <4>1
        <3> QED BY <3>3, <3>4
    <2> QED BY <1>13, <1>16, <1>17, <2>1, <2>2
<1>18. is_discoverable(c.status) \in BOOLEAN
    BY DEF is_discoverable
<1> QED BY <1>0, <1>14, <1>15, <1>17, <1>18, Zenon

\* Registrations begin with no verdicts, and no other command touches the counters.
LEMMA AppliedCounts ==
    ASSUME DampInv, NEW command \in Commands, NEW new \in Applied(command)
    PROVE  \A k \in DOMAIN new : new[k] \in CheckedRow /\ CountsFollow(new[k])
<1>1. CASE command.op = "register"
    <2>1. PICK S \in SUBSET command.ids : new = Registered(S, command)
        BY <1>1 DEF Applied
    <2>2. NewRow(command.status) \in CheckedRow /\ CountsFollow(NewRow(command.status))
        BY CheckAssumption DEF Commands, NewRow, CheckedRow, CountsFollow
    <2> QED BY <2>1, <2>2 DEF Registered, DampInv
<1>2. CASE command.op = "renew"
    <2>1. new = [k \in DOMAIN rows |-> IF k \in Found(command)
                                       THEN [rows[k] EXCEPT !.live = TRUE] ELSE rows[k]]
        BY <1>2 DEF Applied
    <2>2. ASSUME NEW r \in CheckedRow, CountsFollow(r)
          PROVE  [r EXCEPT !.live = TRUE] \in CheckedRow /\ CountsFollow([r EXCEPT !.live = TRUE])
        BY <2>2, Zenon DEF CheckedRow, CountsFollow
    <2> QED BY <2>1, <2>2 DEF DampInv
<1>3. CASE command.op = "report"
    <2>1. \/ new = rows
          \/ new = [k \in DOMAIN rows |-> IF k \in Found(command)
                       THEN [rows[k] EXCEPT !.status = command.status] ELSE rows[k]]
        BY <1>3 DEF Applied
    <2>2. command.status \in InstanceStatus \cup {None}
        BY DEF Commands
    <2>3. ASSUME NEW r \in CheckedRow, CountsFollow(r)
          PROVE  /\ [r EXCEPT !.status = command.status] \in CheckedRow
                 /\ CountsFollow([r EXCEPT !.status = command.status])
        BY <2>2, <2>3 DEF CheckedRow, CountsFollow
    <2> QED BY <2>1, <2>3 DEF DampInv
<1>4. CASE command.op = "deregister"
    <2>1. new = [k \in DOMAIN rows \ Found(command) |-> rows[k]]
        BY <1>4 DEF Applied
    <2> QED BY <2>1 DEF DampInv
<1>5. CASE command.op = "discover"
    <2>1. new = rows
        BY <1>5 DEF Applied
    <2> QED BY <2>1 DEF DampInv
<1> QED BY <1>1, <1>2, <1>3, <1>4, <1>5 DEF Commands

\* A scan leaves a row alone or checks it.
LEMMA ScannedRows ==
    ASSUME run_health_checks, NEW k \in DOMAIN rows
    PROVE  \/ rows'[k] = rows[k]
           \/ \E saved, told \in BOOLEAN : rows'[k] = Checked(rows[k], up[k], saved, told)
<1>1. PICK S, T \in SUBSET Due : Scan(S, T)
    BY DEF run_health_checks
<1>2. PICK saved \in BOOLEAN : saved = (k \in S)
    <2>1. (k \in S) \in BOOLEAN
        OBVIOUS
    <2> QED BY <2>1, Zenon
<1>3. PICK told \in BOOLEAN : told = (k \in T)
    <2>1. (k \in T) \in BOOLEAN
        OBVIOUS
    <2> QED BY <2>1, Zenon
<1>4. rows'[k] = IF k \in Due THEN Checked(rows[k], up[k], saved, told) ELSE rows[k]
    BY <1>1, <1>2, <1>3, Zenon DEF Scan, check_health
<1> QED BY <1>4

\* Timers and the world outside.
LEMMA TimersCount ==
    ASSUME DampInv, up \in [Ids -> BOOLEAN], DOMAIN rows \subseteq Ids, Timers \/ Surroundings
    PROVE  DampInv' /\ up' \in [Ids -> BOOLEAN] /\ DOMAIN rows' \subseteq Ids
<1>1. CASE run_health_checks
    <2>1. /\ DOMAIN rows' = DOMAIN rows /\ up' = up
          /\ \A k \in DOMAIN rows : \/ rows'[k] = rows[k]
                                    \/ \E saved, told \in BOOLEAN :
                                          rows'[k] = Checked(rows[k], up[k], saved, told)
        BY <1>1, ScannedRows DEF run_health_checks, Scan
    <2>2. \A k \in DOMAIN rows : up[k] \in BOOLEAN
        OBVIOUS
    <2> QED BY <2>1, <2>2, VerdictFacts DEF DampInv
<1>2. CASE Reap
    BY <1>2 DEF Reap, DampInv
<1>3. CASE Tick
    <2>1. /\ DOMAIN rows' = DOMAIN rows /\ up' = up
          /\ \A k \in DOMAIN rows : rows'[k] = [rows[k] EXCEPT !.age = Min({@ + 1, Interval})]
        BY <1>3 DEF Tick
    <2>2. ASSUME NEW r \in CheckedRow, CountsFollow(r)
          PROVE  /\ [r EXCEPT !.age = Min({@ + 1, Interval})] \in CheckedRow
                 /\ CountsFollow([r EXCEPT !.age = Min({@ + 1, Interval})])
        <3>1. Min({r.age + 1, Interval}) \in Nat
            BY CheckAssumption, MinOfTwo DEF CheckedRow
        <3> QED BY <2>2, <3>1 DEF CheckedRow, CountsFollow
    <2> QED BY <2>1, <2>2, Zenon DEF DampInv
<1>4. ASSUME NEW k \in Ids, Flip(k)
      PROVE  DampInv' /\ up' \in [Ids -> BOOLEAN] /\ DOMAIN rows' \subseteq Ids
    BY <1>4 DEF Flip, DampInv
<1>5. ASSUME NEW k \in Ids, Lapse(k)
      PROVE  DampInv' /\ up' \in [Ids -> BOOLEAN] /\ DOMAIN rows' \subseteq Ids
    <2>1. k \in DOMAIN rows /\ up' = up /\ rows' = [rows EXCEPT ![k].live = FALSE]
        BY <1>5 DEF Lapse
    <2>2. /\ DOMAIN rows' = DOMAIN rows
          /\ \A i \in DOMAIN rows :
                rows'[i] = IF i = k THEN [rows[i] EXCEPT !.live = FALSE] ELSE rows[i]
        BY <2>1, Zenon
    <2>3. ASSUME NEW r \in CheckedRow, CountsFollow(r)
          PROVE  [r EXCEPT !.live = FALSE] \in CheckedRow /\ CountsFollow([r EXCEPT !.live = FALSE])
        BY <2>3, Zenon DEF CheckedRow, CountsFollow
    <2> QED BY <2>1, <2>2, <2>3 DEF DampInv
<1> QED BY <1>1, <1>2, <1>3, <1>4, <1>5 DEF Timers, Surroundings

\* What the actor does with a command, seen from the rows.
LEMMA DispatchCounts ==
    ASSUME LeftInv, DampInv, DOMAIN rows \subseteq Ids, dispatch_command
    PROVE  DampInv' /\ UNCHANGED up /\ DOMAIN rows' \subseteq Ids
<1>1. queue # << >> /\ up' = up
    BY DEF dispatch_command
<1>2. PICK e : e = Head(queue)
    OBVIOUS
<1>3. rows' = rows \/ rows' \in Applied(e.command)
    BY <1>2 DEF dispatch_command
<1>4. e.command \in Commands
    <2>1. queue \in Seq([from : Clients, command : Commands, heard : BOOLEAN])
        BY DEF LeftInv, QueueOK
    <2>2. e \in [from : Clients, command : Commands, heard : BOOLEAN]
        BY <1>1, <1>2, <2>1, HeadTailProperties, Zenon
    <2> QED BY <2>2
<1>5. CASE rows' = rows
    BY <1>1, <1>5 DEF DampInv
<1>6. CASE rows' \in Applied(e.command)
    <2>1. DampInv'
        BY <1>4, <1>6, AppliedCounts DEF DampInv
    <2>2. DOMAIN rows' \subseteq DOMAIN rows \cup e.command.ids
        <3>1. PICK command \in Commands : command = e.command
            BY <1>4
        <3>2. CASE command.op = "register"
            <4>1. PICK S \in SUBSET command.ids : rows' = Registered(S, command)
                BY <1>6, <3>1, <3>2 DEF Applied
            <4> QED BY <3>1, <4>1 DEF Registered
        <3>3. CASE command.op # "register"
            <4>1. DOMAIN rows' \subseteq DOMAIN rows
                BY <1>6, <3>1, <3>3 DEF Applied, Commands
            <4> QED BY <4>1
        <3> QED BY <3>2, <3>3
    <2>3. e.command.ids \subseteq Ids
        BY <1>4 DEF Commands
    <2> QED BY <1>1, <2>1, <2>2, <2>3
<1> QED BY <1>3, <1>5, <1>6

\* The counters follow the verdicts through registrations, renewals, reports, lapses and
\* probes in any order.
THEOREM DampInvariance == RuntimeSpec => [](DampInv /\ up \in [Ids -> BOOLEAN] /\ DOMAIN rows \subseteq Ids)
<1> DEFINE Inv == DampInv /\ up \in [Ids -> BOOLEAN] /\ DOMAIN rows \subseteq Ids
<1>1. RuntimeInit => Inv
    BY DEF RuntimeInit, HealthInit, DampInv
<1>2. LeftInv /\ Inv /\ [RuntimeNext]_runtimeVars => Inv'
    <2> SUFFICES ASSUME LeftInv, Inv, [RuntimeNext]_runtimeVars PROVE Inv'
        OBVIOUS
    <2>1. CASE UNCHANGED <<rows, up>>
        BY <2>1 DEF DampInv
    <2>2. CASE dispatch_command
        BY <2>2, DispatchCounts
    <2>3. CASE Timers \/ Surroundings
        BY <2>3, TimersCount
    <2>4. \A c \in Clients : (\E command \in RuntimeCommand(c) : Call(c, command)) \/ send(c) \/ Deadline(c)
                               => UNCHANGED <<rows, up>>
        BY DEF Call, send, Deadline
    <2>5. UNCHANGED runtimeVars => UNCHANGED <<rows, up>>
        BY DEF runtimeVars
    <2> QED BY <2>1, <2>2, <2>3, <2>4, <2>5 DEF RuntimeNext
<1> QED BY <1>1, <1>2, LeftInvariance, PTL DEF RuntimeSpec

\* run_health_checks changes a status only on as many agreeing verdicts in a row, on the
\* current registration, as the threshold asks for, whatever the thresholds are and
\* whichever saves and reports the store fails: a count that is not saved is not counted
\* later, and a status that is not taken waits for the next verdict.
THEOREM StatusIsDamped == RuntimeSpec => FlapDamped
<1>1. ASSUME DampInv, up \in [Ids -> BOOLEAN], DOMAIN rows \subseteq Ids, run_health_checks,
             NEW k \in DOMAIN rows, rows'[k].status # rows[k].status,
             NEW now, now = is_discoverable(rows'[k].status)
      PROVE  RunOf(k, now) >= Threshold(now)
    <2>1. PICK saved, told \in BOOLEAN : rows'[k] = Checked(rows[k], up[k], saved, told)
        BY <1>1, ScannedRows
    <2>2. up[k] \in BOOLEAN /\ rows[k] \in CheckedRow /\ CountsFollow(rows[k])
        BY <1>1 DEF DampInv
    <2>3. PICK long : long = Longer(rows[k].streak, up[k])
        OBVIOUS
    <2>4. (IF long.healthy = now THEN long.length ELSE 0) >= Threshold(now)
        BY <1>1, <2>1, <2>2, <2>3, VerdictFacts
    <2> QED BY <2>3, <2>4 DEF RunOf, check_health
<1>2. DampInv /\ up \in [Ids -> BOOLEAN] /\ DOMAIN rows \subseteq Ids
        => [run_health_checks =>
              \A k \in DOMAIN rows :
                 LET now == is_discoverable(rows'[k].status)
                 IN  rows'[k].status # rows[k].status => RunOf(k, now) >= Threshold(now)
           ]_runtimeVars
    BY <1>1
<1> QED BY <1>2, DampInvariance, PTL DEF FlapDamped, RuntimeSpec
=============================================================================
