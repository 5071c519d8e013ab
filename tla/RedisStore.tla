----------------------------- MODULE RedisStore -----------------------------
(***************************************************************************)
(* The Redis store: a memory store in the process, restored from one Redis *)
(* key before its first use and written back there as a whole after every  *)
(* command that succeeded in memory.  The process may crash, before, while *)
(* or after it writes; Redis may fail to answer, having done as it was     *)
(* told or not.  There is one process at a time, as the README asks for.   *)
(***************************************************************************)
EXTENDS MemoryStore

VARIABLES
    hydrated,   \* whether this process has read the key
    saving,     \* whether a command is between its change and its answer
    persisted,  \* what is under the key: << >>, or <<s>> with s a snapshot
    acked       \* history: what the last Ok answer vouched for

redisVars == <<memoryVars, clock, hydrated, saving, persisted, acked>>

\* The part of a store that callers hold references to.
Vouched(s) == [revision |-> s.revision, drafts |-> s.drafts, releases |-> s.releases]

RedisInit ==
    /\ MemoryInit
    /\ hydrated = FALSE
    /\ saving = FALSE
    /\ persisted = << >>
    /\ acked = Vouched(NewStore)

\* hydrate_once, at the start of the first command; when it fails, so does the
\* command, and the next one tries again.
hydrate_once ==
    /\ ~hydrated
    /\ hydrated' = TRUE
    /\ IF persisted = << >> THEN UNCHANGED memoryVars ELSE from_snapshot(persisted[1])
    /\ UNCHANGED <<clock, saving, persisted, acked>>

\* Faulty: commands do not wait for the key to be read.
IdleUnread == ~saving

Idle == hydrated /\ ~saving

\* The memory store's part of a command is done and the answer is still to come.
Saving == Idle /\ saving' = TRUE /\ UNCHANGED <<hydrated, persisted, acked>>

ApplyToRegistry == Saving /\ RegistryCommand
ApplyToConfig == Saving /\ ConfigCommand
ApplyToLog == Saving /\ TrimCommand

\* A command that is a replay, or finds nothing to do, is followed by a SET as well.
ApplyNothing == Saving /\ UNCHANGED <<memoryVars, clock>>

Apply == ApplyToRegistry \/ ApplyToConfig \/ ApplyToLog \/ ApplyNothing

\* An error of the memory store is returned before anything is written.
ApplyFails ==
    /\ Idle
    /\ FailsHalfway
    /\ UNCHANGED <<hydrated, saving, persisted, acked>>

\* Faulty: answered before the key is written.
AnsweredFirst ==
    /\ saving
    /\ Encodable
    /\ acked' = Vouched(to_snapshot)
    /\ saving' = FALSE
    /\ UNCHANGED <<memoryVars, clock, hydrated, persisted>>

\* persist_state succeeds and the command is answered with Ok.
Persist ==
    /\ saving
    /\ Encodable
    /\ persisted' = <<to_snapshot>>
    /\ acked' = Vouched(to_snapshot)
    /\ saving' = FALSE
    /\ UNCHANGED <<memoryVars, clock, hydrated>>

\* What may be under the key after a SET that was not answered.
AfterLostSet == {persisted} \cup (IF saving /\ Encodable THEN {<<to_snapshot>>} ELSE {})

\* The snapshot cannot be encoded: the command fails, its change stays in memory.
EncodeFails ==
    /\ saving
    /\ ~Encodable
    /\ saving' = FALSE
    /\ UNCHANGED <<memoryVars, clock, hydrated, persisted, acked>>

\* Redis does not answer: the same, and the key may have been written.
SetFails ==
    /\ saving
    /\ Encodable
    /\ persisted' \in AfterLostSet
    /\ saving' = FALSE
    /\ UNCHANGED <<memoryVars, clock, hydrated, acked>>

\* The process ends, with a SET perhaps under way, and another one is started.
Crash ==
    /\ hydrated
    /\ hydrated' = FALSE
    /\ saving' = FALSE
    /\ persisted' \in AfterLostSet
    /\ from_snapshot(NewStore)
    /\ UNCHANGED <<clock, acked>>

RedisNext ==
    \/ hydrate_once \/ Apply \/ ApplyFails \/ Persist \/ EncodeFails \/ SetFails \/ Crash
    \/ TimePasses /\ UNCHANGED <<hydrated, saving, persisted, acked>>

RedisSpec == RedisInit /\ [][RedisNext]_redisVars

ScanStep == Saving /\ run_expiry_scan /\ UNCHANGED configVars

\* A process that is up makes progress.  select! chooses at random among the arms
\* that are ready, so the scan's timer is not passed over for ever.
FairRedisSpec ==
    /\ RedisSpec
    /\ WF_redisVars(hydrate_once) /\ WF_redisVars(Persist \/ EncodeFails \/ SetFails)
    /\ SF_redisVars(ScanStep)

-----------------------------------------------------------------------------
(* Properties. *)

Keeps(s, a) ==
    /\ s.revision >= a.revision
    /\ \A d \in DOMAIN a.drafts :
          d \in DOMAIN s.drafts /\ s.drafts[d].content = a.drafts[d].content
    /\ \A n \in DOMAIN a.releases :
          n \in DOMAIN s.releases /\ s.releases[n] = a.releases[n]

\* What a process that starts now restores.
Stored == IF persisted = << >> THEN NewStore ELSE persisted[1]

\* What was answered with Ok survives every crash, failed write and lost answer:
\* the key, and the memory of a process that has read it, still hold the drafts and
\* releases with their contents, and a revision no older than was told, so that no
\* acknowledged revision or id is ever given to something else.
AcknowledgedSurvives ==
    /\ Keeps(Stored, acked)
    /\ hydrated => Keeps(to_snapshot, acked)

\* The key never goes back: whatever process writes it, in whatever order commands,
\* crashes and lost answers come, its revision and its id sequence only grow.
KeyNeverGoesBack ==
    [][persisted # << >> =>
         /\ persisted' # << >>
         /\ persisted'[1].revision >= persisted[1].revision
         /\ persisted'[1].nextSequence >= persisted[1].nextSequence]_redisVars

\* The README: "`redis`: durable Redis-backed registry, config, and watch storage".
\* A command that the memory store accepted ends, unless Redis or the process fails,
\* with the store under the key.  It does not: a store with an instance in it, or an
\* idempotency record, has no JSON form.
CommandsAreDurable ==
    [][saving /\ ~saving' /\ ~SetFails /\ ~Crash => persisted' = <<to_snapshot>>]_redisVars
=============================================================================
