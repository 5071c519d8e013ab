----------------------------- MODULE ConfigStore -----------------------------
(***************************************************************************)
(* The config registry of MemoryDiscoveryStore behind the control plane:   *)
(* drafts, immutable releases, rollback, idempotent retries and the        *)
(* effective configuration of a service.  It shares the revision counter,  *)
(* the id sequence and the watch log with the service registry.            *)
(***************************************************************************)
EXTENDS EventLog, Sequences

CONSTANTS
    ConfigKeys,         \* config keys
    Values,             \* config bodies, as what the policy tells apart
    MaxBodyBytes, AllowSecretRefs, AllowSecretValues,   \* ConfigPolicy
    IdempotencyKeys,    \* idempotency-key metadata
    Hashes,             \* x-request-hash metadata
    MaxDrafts,          \* bound: drafts in the store
    MaxReleases         \* bound: releases in the store

ASSUME ConfigAssumption ==
    /\ MaxBodyBytes \in Nat
    /\ AllowSecretRefs \in BOOLEAN
    /\ AllowSecretValues \in BOOLEAN
    /\ Values \subseteq [body : Nat, bytes : Nat, well_formed : BOOLEAN,
                         secret_ref : BOOLEAN, literal_secret : BOOLEAN]
    /\ MaxDrafts \in Nat
    /\ MaxReleases \in Nat

VARIABLES
    drafts,         \* HashMap<draft id, ConfigDraft>
    releases,       \* Vec<ConfigRelease>, in the order published
    idempotency     \* HashMap<IdempotencyKey, IdempotencyRecord>

configVars == <<drafts, releases, idempotency>>
storeVars == <<logVars, configVars>>

-----------------------------------------------------------------------------
(* Scopes of configuration. *)

\* Namespace, Application or Service, by the names it fixes.
ConfigScope ==
    {[application |-> None, service_name |-> None]}
      \cup [application : Applications, service_name : Services \cup {None}]

specificity(s) ==
    IF s.application = None THEN 0 ELSE IF s.service_name = None THEN 1 ELSE 2

applies_to(s, application, service_name) ==
    /\ s.application \in {None, application}
    /\ s.service_name \in {None, service_name}

\* What a draft says and its releases copy.
Content ==
    [scope : Scopes, config_scope : ConfigScope, group : Groups, key : ConfigKeys, value : Values]

ConfigDraft == [content : Content, published : BOOLEAN]

ConfigRelease == [release_id : Nat, draft_id : Nat, content : Content, revision : Nat]

Operations == {"drafts.create", "releases.publish", "releases.rollback"}

IdempotencyKey == [operation_id : Operations, key : IdempotencyKeys]

IdempotencyRecord == [request_hash : Hashes, resource_id : Nat]

\* What a request carries: a key and a hash of its own making, or nothing.
IdempotencyContext == [key : IdempotencyKeys, request_hash : Hashes] \cup {None}

ConfigTypeOK ==
    /\ LogTypeOK
    /\ DOMAIN drafts \subseteq Nat
    /\ drafts \in [DOMAIN drafts -> ConfigDraft]
    /\ releases \in Seq(ConfigRelease)
    /\ DOMAIN idempotency \subseteq IdempotencyKey
    /\ idempotency \in [DOMAIN idempotency -> IdempotencyRecord]

ConfigInit ==
    /\ LogInit
    /\ drafts = << >>
    /\ releases = << >>
    /\ idempotency = << >>

-----------------------------------------------------------------------------
(* Idempotency. *)

\* Faulty: one key space for all operations.
SharedKeyFor(operation, idem) == [operation_id |-> "drafts.create", key |-> idem.key]

KeyFor(operation, idem) == [operation_id |-> operation, key |-> idem.key]

\* Faulty: only drafts are looked up.
DraftReplayed(operation, idem) ==
    operation = "drafts.create" /\ idem # None /\ KeyFor(operation, idem) \in DOMAIN idempotency

\* A request seen before is answered from the record, or refused when its hash
\* differs; it changes nothing either way.
Replayed(operation, idem) ==
    idem # None /\ KeyFor(operation, idem) \in DOMAIN idempotency

\* Faulty: the record is made before the resource has its id.
record_without_id(operation, idem, id) ==
    idempotency' =
        IF idem = None THEN idempotency
        ELSE [i \in DOMAIN idempotency \cup {KeyFor(operation, idem)} |->
                IF i = KeyFor(operation, idem)
                THEN [request_hash |-> idem.request_hash, resource_id |-> None]
                ELSE idempotency[i]]

record_idempotency(operation, idem, id) ==
    idempotency' =
        IF idem = None THEN idempotency
        ELSE [i \in DOMAIN idempotency \cup {KeyFor(operation, idem)} |->
                IF i = KeyFor(operation, idem)
                THEN [request_hash |-> idem.request_hash, resource_id |-> id]
                ELSE idempotency[i]]

-----------------------------------------------------------------------------
(* The commands. *)

\* Size and format first; a secret reference needs one permission, a value that
\* looks like a secret another.
validate_config_policy(v) ==
    /\ v.bytes <= MaxBodyBytes
    /\ v.well_formed
    /\ IF v.secret_ref THEN AllowSecretRefs ELSE AllowSecretValues \/ ~v.literal_secret

create_config_draft(content, idem) ==
    /\ Cardinality(DOMAIN drafts) < MaxDrafts
    /\ validate_config_policy(content.value)
    /\ ~Replayed("drafts.create", idem)
    /\ nextSequence' = next_id
    /\ drafts' = [d \in DOMAIN drafts \cup {next_id} |->
                    IF d = next_id THEN [content |-> content, published |-> FALSE]
                    ELSE drafts[d]]
    /\ record_idempotency("drafts.create", idem, next_id)
    /\ UNCHANGED <<revision, events, releases>>

\* Faulty: the release carries the revision before its own.
LateRelease(draft_id, content) ==
    [release_id |-> next_id, draft_id |-> draft_id, content |-> content, revision |-> revision]

NewRelease(draft_id, content) ==
    [release_id |-> next_id, draft_id |-> draft_id, content |-> content, revision |-> next_revision]

\* The tail common to publish and rollback: a revision, an id, the release, its
\* event and the idempotency record.
Release(operation, kind, draft_id, content, idem) ==
    /\ Len(releases) < MaxReleases
    /\ revision' = next_revision
    /\ nextSequence' = next_id
    /\ releases' = Append(releases, NewRelease(draft_id, content))
    /\ events' = events \cup
            {[revision |-> next_revision, kind |-> kind, scope |-> content.scope,
              service_name |-> content.config_scope.service_name, resource_id |-> next_id,
              config_application |-> content.config_scope.application,
              config_group |-> content.group]}
    /\ record_idempotency(operation, idem, next_id)

\* Faulty: the draft is not marked as published.
publish_unmarked(draft_id, idem) ==
    /\ ~Replayed("releases.publish", idem)
    /\ draft_id \in DOMAIN drafts
    /\ ~drafts[draft_id].published
    /\ Release("releases.publish", "ConfigPublished", draft_id, drafts[draft_id].content, idem)
    /\ UNCHANGED drafts

publish_config(draft_id, idem) ==
    /\ ~Replayed("releases.publish", idem)
    /\ draft_id \in DOMAIN drafts
    /\ ~drafts[draft_id].published
    /\ Release("releases.publish", "ConfigPublished", draft_id, drafts[draft_id].content, idem)
    /\ drafts' = [drafts EXCEPT ![draft_id].published = TRUE]

\* Faulty: the source is the latest release, not the one named.
rollback_latest(n, idem) ==
    /\ ~Replayed("releases.rollback", idem)
    /\ n \in DOMAIN releases
    /\ Release("releases.rollback", "ConfigRolledBack",
               releases[Len(releases)].draft_id, releases[Len(releases)].content, idem)
    /\ UNCHANGED drafts

\* n is the place of the source release in the Vec.
rollback_config(n, idem) ==
    /\ ~Replayed("releases.rollback", idem)
    /\ n \in DOMAIN releases
    /\ Release("releases.rollback", "ConfigRolledBack",
               releases[n].draft_id, releases[n].content, idem)
    /\ UNCHANGED drafts

-----------------------------------------------------------------------------
(* Reading. *)

Applicable(r, q) ==
    /\ r.content.scope = q.scope
    /\ r.content.group = q.group
    /\ applies_to(r.content.config_scope, q.application, q.service_name)

\* Faulty: the latest release wins whatever its scope.
LatestReplaces(r, current) == r.revision >= current.source_revision

\* Whether the release takes the place of the value held so far for its key.
Replaces(r, current) ==
    LET spec == specificity(r.content.config_scope)
    IN  \/ spec > current.source_specificity
        \/ spec = current.source_specificity /\ r.revision >= current.source_revision

\* What a release makes of the configuration gathered from those before it.
EffectiveStep(sofar, r, q) ==
    LET k == r.content.key
    IN  IF ~Applicable(r, q) THEN sofar
        ELSE [revision |-> IF r.revision > sofar.revision THEN r.revision ELSE sofar.revision,
              values |->
                IF k \in DOMAIN sofar.values /\ ~Replaces(r, sofar.values[k]) THEN sofar.values
                ELSE [x \in DOMAIN sofar.values \cup {k} |->
                        IF x = k
                        THEN [value |-> r.content.value,
                              source_release_id |-> r.release_id,
                              source_specificity |-> specificity(r.content.config_scope),
                              source_revision |-> r.revision]
                        ELSE sofar.values[x]]]

NothingReleased == [revision |-> 0, values |-> << >>]

\* The pass of retrieve_effective_config over a Vec of releases.
EffectiveOver(seq, q) ==
    LET pass[i \in 0 .. Len(seq)] ==
          IF i = 0 THEN NothingReleased ELSE EffectiveStep(pass[i - 1], seq[i], q)
    IN  pass[Len(seq)]

retrieve_effective_config(q) == EffectiveOver(releases, q)

EffectiveQueries ==
    [scope : Scopes, application : Applications, service_name : Services, group : Groups]

-----------------------------------------------------------------------------

CreateDraft ==
    \E content \in Content, idem \in IdempotencyContext : create_config_draft(content, idem)

Publish ==
    \E d \in DOMAIN drafts, idem \in IdempotencyContext : publish_config(d, idem)

Rollback ==
    \E n \in DOMAIN releases, idem \in IdempotencyContext : rollback_config(n, idem)

\* The log's own trimming, by the actor's timer or a compaction.
Trim ==
    /\ \/ gc_watch_events(GcHorizon, GcBatch)
       \/ \E scope \in Scopes : compact_watch_events(scope, CompactKeep)
    /\ UNCHANGED configVars

ConfigNext == CreateDraft \/ Publish \/ Rollback \/ Trim

ConfigSpec == ConfigInit /\ [][ConfigNext]_storeVars

-----------------------------------------------------------------------------
(* Safety. *)

\* What a retried request is answered from is always there, so the "target is
\* missing" errors of replay_config_draft and replay_config_release cannot
\* happen, and no resource answers for two different requests.
ReplayTargetsExist ==
    /\ \A i \in DOMAIN idempotency :
          IF i.operation_id = "drafts.create"
          THEN idempotency[i].resource_id \in DOMAIN drafts
          ELSE \E n \in DOMAIN releases : releases[n].release_id = idempotency[i].resource_id
    /\ \A i, j \in DOMAIN idempotency :
          idempotency[i].resource_id = idempotency[j].resource_id => i = j

\* A draft is published exactly when a release stems from it, and through any
\* chain of rollbacks every release that stems from it says what it says.
ReleasesMatchDrafts ==
    /\ \A n \in DOMAIN releases :
          /\ releases[n].draft_id \in DOMAIN drafts
          /\ releases[n].content = drafts[releases[n].draft_id].content
    /\ \A d \in DOMAIN drafts :
          drafts[d].published <=> \E n \in DOMAIN releases : releases[n].draft_id = d

Candidates(q, k) ==
    {n \in DOMAIN releases : Applicable(releases[n], q) /\ releases[n].content.key = k}

\* The one pass over the releases yields, for each key, the latest release of
\* the narrowest scope that applies, and nothing for keys nobody released; its
\* revision is that of the latest release that applies at all.
EffectiveIsNarrowestLatest ==
    \A q \in EffectiveQueries :
        LET result == retrieve_effective_config(q)
        IN  /\ \A k \in ConfigKeys : k \in DOMAIN result.values <=> Candidates(q, k) # {}
            /\ \A k \in DOMAIN result.values : \E n \in Candidates(q, k) :
                  /\ releases[n].release_id = result.values[k].source_release_id
                  /\ releases[n].content.value = result.values[k].value
                  /\ \A m \in Candidates(q, k) :
                        LET sm == specificity(releases[m].content.config_scope)
                            sn == specificity(releases[n].content.config_scope)
                        IN  sm < sn \/ (sm = sn /\ m <= n)
            /\ \A n \in DOMAIN releases :
                  Applicable(releases[n], q) => releases[n].revision <= result.revision
            /\ result.revision # 0 =>
                  \E n \in DOMAIN releases :
                      Applicable(releases[n], q) /\ releases[n].revision = result.revision

\* A record is never rebound: whenever a client retries a request whose first
\* answer was lost, it is told of the resource the first attempt made.
RecordsAreStable ==
    [][\A i \in DOMAIN idempotency :
         i \in DOMAIN idempotency' /\ idempotency'[i] = idempotency[i]]_storeVars

\* The revision of an effective configuration stands for its contents: a reader
\* that sees the revision it already has may keep the values it already has.
EffectiveRevisionTells ==
    [][\A q \in EffectiveQueries :
         retrieve_effective_config(q)'.revision = retrieve_effective_config(q).revision
           => retrieve_effective_config(q)'.values = retrieve_effective_config(q).values]_storeVars

\* A rollback wins at its own scope: a service for which the source release is
\* of the narrowest scope in force reads the rolled-back value next.
RollbackRestores ==
    [][\A n \in DOMAIN releases, idem \in IdempotencyContext : rollback_config(n, idem) =>
         \A q \in EffectiveQueries :
            LET k == releases[n].content.key
                scope == releases[n].content.config_scope
            IN  /\ Applicable(releases[n], q)
                /\ retrieve_effective_config(q).values[k].source_specificity = specificity(scope)
                => retrieve_effective_config(q)'.values[k].value = releases[n].content.value
      ]_storeVars

\* The query WatchConfig builds for a service's configuration.
WatchConfigQuery(q, from) ==
    [scope |-> q.scope, from_revision |-> from, service_name |-> q.service_name,
     config_group |-> q.group, config_application |-> q.application, max_events |-> 1]

\* The PRD: consumers receive a published change of the effective config through
\* WatchConfig.  When a step changes what a service reads, the log has an event
\* of that step for the service's config watch.
WatchTellsEffectiveChange ==
    [][\A q \in EffectiveQueries :
         retrieve_effective_config(q)'.values # retrieve_effective_config(q).values
           => \E e \in events' : matches_event(WatchConfigQuery(q, revision), e)]_storeVars
=============================================================================
