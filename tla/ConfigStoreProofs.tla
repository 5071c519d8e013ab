-------------------------- MODULE ConfigStoreProofs --------------------------
(***************************************************************************)
(* Proofs about the config registry: drafts, releases and the records that *)
(* retried requests are answered from, for every set of scopes, values and *)
(* idempotency keys.                                                       *)
(***************************************************************************)
EXTENDS ConfigStore, FiniteSetTheorems, SequenceTheorems, WellFoundedInduction, TLAPS

\* Everything in use was named by next_id, so a new id names nothing yet.
IdsBounded ==
    /\ \A d \in DOMAIN drafts : d <= nextSequence
    /\ \A n \in DOMAIN releases : releases[n].release_id <= nextSequence
    /\ \A i \in DOMAIN idempotency : idempotency[i].resource_id <= nextSequence

\* The inductive invariant.
ConfigInv ==
    /\ ConfigTypeOK
    /\ IdsBounded
    /\ ReplayTargetsExist
    /\ ReleasesMatchDrafts

-----------------------------------------------------------------------------
(* The record of a request. *)

\* A record for the resource just made: it is typed, it is the only one of that
\* resource, and those made before stay.
LEMMA RecordFacts ==
    ASSUME ConfigInv, NEW operation \in Operations, NEW idem \in IdempotencyContext,
           ~Replayed(operation, idem), record_idempotency(operation, idem, next_id)
    PROVE  /\ DOMAIN idempotency \subseteq DOMAIN idempotency'
           /\ DOMAIN idempotency' \subseteq IdempotencyKey
           /\ idempotency' \in [DOMAIN idempotency' -> IdempotencyRecord]
           /\ \A i \in DOMAIN idempotency : idempotency'[i] = idempotency[i]
           /\ \A i \in DOMAIN idempotency' \ DOMAIN idempotency :
                 i.operation_id = operation /\ idempotency'[i].resource_id = next_id
           /\ \A i \in DOMAIN idempotency' : idempotency'[i].resource_id <= next_id
           /\ \A i, j \in DOMAIN idempotency' :
                 idempotency'[i].resource_id = idempotency'[j].resource_id => i = j
<1>1. nextSequence \in Nat /\ next_id = nextSequence + 1
    BY DEF ConfigInv, ConfigTypeOK, LogTypeOK, next_id
<1>2. /\ DOMAIN idempotency \subseteq IdempotencyKey
      /\ idempotency \in [DOMAIN idempotency -> IdempotencyRecord]
      /\ \A i \in DOMAIN idempotency :
            idempotency[i].resource_id \in Nat /\ idempotency[i].resource_id <= nextSequence
      /\ \A i, j \in DOMAIN idempotency :
            idempotency[i].resource_id = idempotency[j].resource_id => i = j
    BY DEF ConfigInv, ConfigTypeOK, IdsBounded, ReplayTargetsExist, IdempotencyRecord
<1>3. CASE idem = None
    BY <1>1, <1>2, <1>3 DEF record_idempotency
<1>4. CASE idem # None
    <2>1. PICK key \in IdempotencyKey : key = KeyFor(operation, idem)
        BY <1>4, Zenon DEF IdempotencyContext, KeyFor, IdempotencyKey
    <2>2. PICK row \in IdempotencyRecord :
              row = [request_hash |-> idem.request_hash, resource_id |-> next_id]
        <3>1. PICK hash \in Hashes : hash = idem.request_hash
            BY <1>4 DEF IdempotencyContext
        <3>2. PICK id \in Nat : id = next_id
            BY <1>1
        <3>3. [request_hash |-> hash, resource_id |-> id] \in IdempotencyRecord
            BY DEF IdempotencyRecord
        <3> QED BY <3>1, <3>2, <3>3
    <2>3. key \notin DOMAIN idempotency /\ key.operation_id = operation /\ row.resource_id = next_id
        BY <1>4, <2>1, <2>2 DEF Replayed, KeyFor
    <2>4. idempotency' = [i \in DOMAIN idempotency \cup {key} |-> IF i = key THEN row ELSE idempotency[i]]
        BY <1>4, <2>1, <2>2 DEF record_idempotency
    <2>5. /\ DOMAIN idempotency' = DOMAIN idempotency \cup {key}
          /\ idempotency'[key] = row
          /\ \A i \in DOMAIN idempotency : idempotency'[i] = idempotency[i]
        BY <2>3, <2>4
    <2>6. idempotency' \in [DOMAIN idempotency' -> IdempotencyRecord]
        BY <1>2, <2>2, <2>4
    <2> QED BY <1>1, <1>2, <2>1, <2>3, <2>5, <2>6
<1> QED BY <1>3, <1>4

-----------------------------------------------------------------------------
(* The commands. *)

\* What stands in the Vec of releases is a release.
LEMMA ReleaseTyped ==
    ASSUME NEW seq \in Seq(ConfigRelease), NEW n \in DOMAIN seq
    PROVE  seq[n] \in ConfigRelease
<1>1. n \in 1 .. Len(seq)
    BY LenProperties
<1> QED BY <1>1, ElementOfSeq

\* A release made now is typed and of the next revision.
LEMMA NewReleaseTyped ==
    ASSUME ConfigInv, NEW draft_id \in Nat, NEW content \in Content
    PROVE  /\ NewRelease(draft_id, content) \in ConfigRelease
           /\ NewRelease(draft_id, content).revision = revision + 1
<1>1. PICK id \in Nat, rev \in Nat : id = next_id /\ rev = next_revision /\ rev = revision + 1
    BY DEF ConfigInv, ConfigTypeOK, LogTypeOK, next_id, next_revision
<1>2. [release_id |-> id, draft_id |-> draft_id, content |-> content, revision |-> rev] \in ConfigRelease
    BY DEF ConfigRelease
<1> QED BY <1>1, <1>2 DEF NewRelease

\* create_config_draft: the draft has a new id, so no release stems from it.
LEMMA DraftPreserves ==
    ASSUME ConfigInv, NEW content \in Content, NEW idem \in IdempotencyContext,
           create_config_draft(content, idem)
    PROVE  ConfigInv'
<1>1. nextSequence \in Nat /\ next_id = nextSequence + 1 /\ nextSequence' = next_id
    BY DEF ConfigInv, ConfigTypeOK, LogTypeOK, next_id, create_config_draft
<1>2. PICK row \in ConfigDraft : row = [content |-> content, published |-> FALSE]
    BY Zenon DEF ConfigDraft
<1>3. /\ drafts' = [d \in DOMAIN drafts \cup {next_id} |-> IF d = next_id THEN row ELSE drafts[d]]
      /\ UNCHANGED <<revision, events, releases>>
    BY <1>2 DEF create_config_draft
<1>4. \A d \in DOMAIN drafts : d \in Nat /\ d <= nextSequence
    BY DEF ConfigInv, ConfigTypeOK, IdsBounded
<1>5. /\ next_id \notin DOMAIN drafts /\ DOMAIN drafts' = DOMAIN drafts \cup {next_id}
      /\ drafts'[next_id] = row /\ \A d \in DOMAIN drafts : drafts'[d] = drafts[d]
    BY <1>1, <1>3, <1>4
<1>6. drafts' \in [DOMAIN drafts' -> ConfigDraft] /\ DOMAIN drafts' \subseteq Nat
    BY <1>1, <1>2, <1>3 DEF ConfigInv, ConfigTypeOK
<1>7. /\ DOMAIN idempotency \subseteq DOMAIN idempotency'
      /\ DOMAIN idempotency' \subseteq IdempotencyKey
      /\ idempotency' \in [DOMAIN idempotency' -> IdempotencyRecord]
      /\ \A i \in DOMAIN idempotency : idempotency'[i] = idempotency[i]
      /\ \A i \in DOMAIN idempotency' \ DOMAIN idempotency :
            i.operation_id = "drafts.create" /\ idempotency'[i].resource_id = next_id
      /\ \A i \in DOMAIN idempotency' : idempotency'[i].resource_id <= next_id
      /\ \A i, j \in DOMAIN idempotency' :
            idempotency'[i].resource_id = idempotency'[j].resource_id => i = j
    BY RecordFacts DEF create_config_draft, Operations
<1>8. ConfigTypeOK'
    BY <1>1, <1>3, <1>6, <1>7 DEF ConfigInv, ConfigTypeOK, LogTypeOK
<1>9. \A n \in DOMAIN releases : releases[n].release_id \in Nat
    BY ReleaseTyped, Zenon DEF ConfigInv, ConfigTypeOK, ConfigRelease
<1>10. IdsBounded'
    BY <1>1, <1>3, <1>4, <1>5, <1>7, <1>9 DEF ConfigInv, IdsBounded
<1>11. ReplayTargetsExist'
    BY <1>3, <1>5, <1>7 DEF ConfigInv, ReplayTargetsExist
<1>12. ReleasesMatchDrafts'
    BY <1>2, <1>3, <1>5 DEF ConfigInv, ReleasesMatchDrafts
<1> QED BY <1>8, <1>10, <1>11, <1>12 DEF ConfigInv

\* The tail of publish_config and rollback_config: a release of a draft's content
\* that leaves the draft marked as published.
LEMMA ReleasePreserves ==
    ASSUME ConfigInv, NEW operation \in {"releases.publish", "releases.rollback"}, NEW kind \in ConfigKinds,
           NEW d \in DOMAIN drafts, NEW idem \in IdempotencyContext,
           ~Replayed(operation, idem), Release(operation, kind, d, drafts[d].content, idem),
           DOMAIN drafts' = DOMAIN drafts, drafts' \in [DOMAIN drafts -> ConfigDraft],
           drafts'[d].published,
           \A c \in DOMAIN drafts :
              /\ drafts'[c].content = drafts[c].content
              /\ c # d => drafts'[c].published = drafts[c].published
    PROVE  ConfigInv'
<1>1. /\ nextSequence \in Nat /\ next_id = nextSequence + 1 /\ nextSequence' = next_id
      /\ revision \in Nat /\ next_revision = revision + 1 /\ revision' = next_revision
    BY DEF ConfigInv, ConfigTypeOK, LogTypeOK, next_id, next_revision, Release
<1>2. d \in Nat /\ drafts[d].content \in Content
    BY DEF ConfigInv, ConfigTypeOK, ConfigDraft
<1>3. PICK row \in ConfigRelease : row = NewRelease(d, drafts[d].content)
    BY <1>2, NewReleaseTyped
<1>4. row.release_id = next_id /\ row.draft_id = d /\ row.content = drafts[d].content
    BY <1>3 DEF NewRelease
<1>5. releases \in Seq(ConfigRelease) /\ releases' = Append(releases, row)
    BY <1>3 DEF ConfigInv, ConfigTypeOK, Release
<1>6. /\ releases' \in Seq(ConfigRelease)
      /\ DOMAIN releases = 1 .. Len(releases) /\ Len(releases) \in Nat
      /\ DOMAIN releases' = 1 .. Len(releases) + 1
      /\ \A n \in DOMAIN releases : releases'[n] = releases[n]
      /\ releases'[Len(releases) + 1] = row
    BY <1>5, AppendProperties, LenProperties
<1>7. PICK last \in DOMAIN releases' :
          last = Len(releases) + 1 /\ DOMAIN releases' = DOMAIN releases \cup {last} /\ releases'[last] = row
    BY <1>6
<1>8. PICK e : /\ events' = events \cup {e}
               /\ e \in DiscoveryEvent
    <2>1. /\ drafts[d].content.scope \in Scopes /\ drafts[d].content.group \in Groups
          /\ drafts[d].content.config_scope.service_name \in Services \cup {None}
          /\ drafts[d].content.config_scope.application \in Applications \cup {None}
        BY <1>2 DEF Content, ConfigScope
    <2>2. PICK id \in Nat, rev \in Nat : id = next_id /\ rev = next_revision
        BY <1>1
    <2>3. PICK scope \in Scopes, group \in Groups, service \in Services \cup {None},
               application \in Applications \cup {None} :
              /\ scope = drafts[d].content.scope /\ group = drafts[d].content.group
              /\ service = drafts[d].content.config_scope.service_name
              /\ application = drafts[d].content.config_scope.application
        BY <2>1, Zenon
    <2>4. [revision |-> rev, kind |-> kind, scope |-> scope, service_name |-> service, resource_id |-> id,
           config_application |-> application, config_group |-> group] \in DiscoveryEvent
        BY DEF DiscoveryEvent
    <2> QED BY <2>2, <2>3, <2>4 DEF Release
<1>9. events' \in SUBSET DiscoveryEvent /\ IsFiniteSet(events')
    BY <1>8, FS_AddElement DEF ConfigInv, ConfigTypeOK, LogTypeOK
<1>10. /\ DOMAIN idempotency \subseteq DOMAIN idempotency'
       /\ DOMAIN idempotency' \subseteq IdempotencyKey
       /\ idempotency' \in [DOMAIN idempotency' -> IdempotencyRecord]
       /\ \A i \in DOMAIN idempotency : idempotency'[i] = idempotency[i]
       /\ \A i \in DOMAIN idempotency' \ DOMAIN idempotency :
             i.operation_id = operation /\ idempotency'[i].resource_id = next_id
       /\ \A i \in DOMAIN idempotency' : idempotency'[i].resource_id <= next_id
       /\ \A i, j \in DOMAIN idempotency' :
             idempotency'[i].resource_id = idempotency'[j].resource_id => i = j
    BY RecordFacts DEF Release, Operations
<1>11. ConfigTypeOK'
    BY <1>1, <1>6, <1>9, <1>10 DEF ConfigInv, ConfigTypeOK, LogTypeOK
<1>12. IdsBounded'
    <2>1. \A c \in DOMAIN drafts : c \in Nat /\ c <= nextSequence
        BY DEF ConfigInv, ConfigTypeOK, IdsBounded
    <2>2. \A n \in DOMAIN releases : releases[n].release_id \in Nat /\ releases[n].release_id <= nextSequence
        BY <1>5, ReleaseTyped, Zenon DEF ConfigInv, IdsBounded, ConfigRelease
    <2> QED BY <1>1, <1>4, <1>6, <1>7, <1>10, <2>1, <2>2 DEF IdsBounded
<1>13. ReplayTargetsExist'
    <2>1. ASSUME NEW i \in DOMAIN idempotency'
          PROVE  IF i.operation_id = "drafts.create"
                 THEN idempotency'[i].resource_id \in DOMAIN drafts'
                 ELSE \E n \in DOMAIN releases' : releases'[n].release_id = idempotency'[i].resource_id
        <3>1. CASE i \in DOMAIN idempotency
            BY <1>6, <1>7, <1>10, <3>1 DEF ConfigInv, ReplayTargetsExist
        <3>2. CASE i \notin DOMAIN idempotency
            BY <1>4, <1>7, <1>10, <3>2
        <3> QED BY <3>1, <3>2
    <2> QED BY <1>10, <2>1 DEF ReplayTargetsExist
<1>14. ReleasesMatchDrafts'
    <2>1. ASSUME NEW n \in DOMAIN releases'
          PROVE  releases'[n].draft_id \in DOMAIN drafts' /\ releases'[n].content = drafts'[releases'[n].draft_id].content
        <3>1. CASE n \in DOMAIN releases
            <4>1. /\ releases'[n] = releases[n] /\ releases[n].draft_id \in DOMAIN drafts
                  /\ releases[n].content = drafts[releases[n].draft_id].content
                BY <1>6, <3>1 DEF ConfigInv, ReleasesMatchDrafts
            <4>2. PICK c \in DOMAIN drafts : c = releases[n].draft_id
                BY <4>1
            <4>3. drafts'[c].content = drafts[c].content /\ c \in DOMAIN drafts'
                OBVIOUS
            <4> QED BY <4>1, <4>2, <4>3
        <3>2. CASE n = last
            <4>1. drafts'[d].content = drafts[d].content /\ d \in DOMAIN drafts'
                OBVIOUS
            <4>2. releases'[n].draft_id = d /\ releases'[n].content = drafts[d].content
                BY <1>4, <1>7, <3>2
            <4> QED BY <4>1, <4>2
        <3> QED BY <1>7, <3>1, <3>2
    <2>2. ASSUME NEW c \in DOMAIN drafts'
          PROVE  drafts'[c].published <=> \E n \in DOMAIN releases' : releases'[n].draft_id = c
        <3>1. CASE c = d
            BY <1>4, <1>7, <3>1
        <3>2. CASE c # d
            <4>0. c \in DOMAIN drafts /\ drafts'[c].published = drafts[c].published
                BY <3>2
            <4>1. drafts[c].published <=> \E n \in DOMAIN releases : releases[n].draft_id = c
                BY <4>0 DEF ConfigInv, ReleasesMatchDrafts
            <4>2. (\E n \in DOMAIN releases' : releases'[n].draft_id = c)
                      <=> (\E n \in DOMAIN releases : releases[n].draft_id = c)
                BY <1>4, <1>6, <1>7, <3>2
            <4> QED BY <4>0, <4>1, <4>2
        <3> QED BY <3>1, <3>2
    <2> QED BY <2>1, <2>2 DEF ReleasesMatchDrafts
<1> QED BY <1>11, <1>12, <1>13, <1>14 DEF ConfigInv

\* publish_config marks the draft it releases.
LEMMA PublishPreserves ==
    ASSUME ConfigInv, NEW d \in DOMAIN drafts, NEW idem \in IdempotencyContext, publish_config(d, idem)
    PROVE  ConfigInv'
<1>1. drafts \in [DOMAIN drafts -> ConfigDraft] /\ drafts' = [drafts EXCEPT ![d].published = TRUE]
    BY DEF ConfigInv, ConfigTypeOK, publish_config
<1>2. /\ DOMAIN drafts' = DOMAIN drafts /\ drafts' \in [DOMAIN drafts -> ConfigDraft]
      /\ drafts'[d].published
      /\ \A c \in DOMAIN drafts :
            /\ drafts'[c].content = drafts[c].content
            /\ c # d => drafts'[c].published = drafts[c].published
    BY <1>1, Zenon DEF ConfigDraft
<1>3. /\ ~Replayed("releases.publish", idem)
      /\ Release("releases.publish", "ConfigPublished", d, drafts[d].content, idem)
    BY DEF publish_config
<1> QED BY <1>2, <1>3, ReleasePreserves DEF ConfigKinds

\* rollback_config releases again what an earlier release of the same draft said.
LEMMA RollbackPreserves ==
    ASSUME ConfigInv, NEW n \in DOMAIN releases, NEW idem \in IdempotencyContext, rollback_config(n, idem)
    PROVE  ConfigInv'
<1>1. PICK d \in DOMAIN drafts : d = releases[n].draft_id
    BY DEF ConfigInv, ReleasesMatchDrafts
<1>2. releases[n].content = drafts[d].content /\ drafts[d].published
    BY <1>1 DEF ConfigInv, ReleasesMatchDrafts
<1>3. drafts' = drafts /\ drafts \in [DOMAIN drafts -> ConfigDraft]
    BY DEF ConfigInv, ConfigTypeOK, rollback_config
<1>4. /\ ~Replayed("releases.rollback", idem)
      /\ Release("releases.rollback", "ConfigRolledBack", d, drafts[d].content, idem)
    BY <1>1, <1>2 DEF rollback_config
<1> QED BY <1>2, <1>3, <1>4, ReleasePreserves DEF ConfigKinds

\* Trimming the log touches neither drafts, releases nor records.
LEMMA ConfigTrimPreserves ==
    ASSUME ConfigInv, Trim
    PROVE  ConfigInv'
<1>1. events' \subseteq events /\ UNCHANGED <<revision, nextSequence, drafts, releases, idempotency>>
    BY Zenon DEF Trim, configVars, gc_watch_events, compact_watch_events
<1>2. IsFiniteSet(events')
    BY <1>1, FS_Subset DEF ConfigInv, ConfigTypeOK, LogTypeOK
<1> QED BY <1>1, <1>2
        DEF ConfigInv, ConfigTypeOK, LogTypeOK, IdsBounded, ReplayTargetsExist, ReleasesMatchDrafts

-----------------------------------------------------------------------------
(* Induction, and the loop of retrieve_effective_config. *)

\* The order of the natural numbers is well-founded: the library's fact with its
\* relation written out.
LEMMA LessIsWellFounded == IsWellFoundedOn({ss \in Nat \X Nat : ss[1] < ss[2]}, Nat)
BY NatLessThanWellFounded DEF OpToRel

\* Induction over the natural numbers, for a set of them.
LEMMA SetInduction ==
    ASSUME NEW S \in SUBSET Nat, 0 \in S, \A n \in S : n + 1 \in S
    PROVE  S = Nat
<1> SUFFICES ASSUME Nat \ S # {} PROVE FALSE
    BY Zenon
<1>1. PICK R : R = {ss \in Nat \X Nat : ss[1] < ss[2]}
    BY Zenon
<1>2. IsWellFoundedOn(R, Nat)
    BY <1>1, LessIsWellFounded
<1>3. PICK x \in Nat \ S : \A y \in Nat \ S : <<y, x>> \notin R
    <2>1. Nat \ S \subseteq Nat
        OBVIOUS
    <2> QED BY <1>2, <2>1, WFMin, Zenon
<1>4. \A y \in Nat : y < x => y \in S
    BY <1>1, <1>3, Zenon
<1> QED BY <1>3, <1>4

\* f holds what retrieve_effective_config has gathered after each of the first n releases.
IsPass(f, n, seq, q) ==
    f = [i \in 0 .. n |-> IF i = 0 THEN NothingReleased ELSE EffectiveStep(f[i - 1], seq[i], q)]

\* The loop of retrieve_effective_config has an outcome whatever the Vec holds.
LEMMA PassExists ==
    ASSUME NEW seq, NEW q, NEW n \in Nat
    PROVE  \E f : IsPass(f, n, seq, q)
<1> DEFINE S == {m \in Nat : \E f : IsPass(f, m, seq, q)}
<1>1. 0 \in S
    <2>1. IsPass([i \in 0 .. 0 |-> NothingReleased], 0, seq, q)
        BY DEF IsPass
    <2> QED BY <2>1
<1>2. ASSUME NEW m \in S PROVE m + 1 \in S
    <2>1. PICK f : IsPass(f, m, seq, q)
        OBVIOUS
    <2>2. PICK g : g = [i \in 0 .. m + 1 |-> IF i = m + 1 THEN EffectiveStep(f[m], seq[m + 1], q) ELSE f[i]]
        BY Zenon
    <2>3. IsPass(g, m + 1, seq, q)
        BY <2>1, <2>2 DEF IsPass
    <2> QED BY <2>3
<1>3. S \in SUBSET Nat
    OBVIOUS
<1>4. S = Nat
    <2> HIDE DEF S
    <2> QED BY <1>1, <1>2, <1>3, SetInduction
<1> QED BY <1>4

\* EffectiveOver is where that loop ends.
LEMMA OverIsPass ==
    ASSUME NEW seq, NEW q, Len(seq) \in Nat
    PROVE  \E f : IsPass(f, Len(seq), seq, q) /\ EffectiveOver(seq, q) = f[Len(seq)]
<1>1. \E f : f = [i \in 0 .. Len(seq) |-> IF i = 0 THEN NothingReleased ELSE EffectiveStep(f[i - 1], seq[i], q)]
    <2>1. PICK n \in Nat : n = Len(seq)
        OBVIOUS
    <2>2. \E f : IsPass(f, n, seq, q)
        BY PassExists
    <2> QED BY <2>1, <2>2 DEF IsPass
<1> QED BY <1>1, Zenon DEF EffectiveOver, IsPass
\* Two loops over Vecs that begin alike have gathered the same up to there.
LEMMA PassesAgree ==
    ASSUME NEW seq, NEW longer, NEW q, NEW n \in Nat, NEW m \in Nat, n <= m,
           \A i \in 1 .. n : longer[i] = seq[i],
           NEW f, IsPass(f, n, seq, q), NEW g, IsPass(g, m, longer, q)
    PROVE  g[n] = f[n]
<1> DEFINE S == {i \in Nat : i <= n => g[i] = f[i]}
<1>1. 0 \in S
    BY DEF IsPass
<1>2. ASSUME NEW i \in S PROVE i + 1 \in S
    <2> SUFFICES ASSUME i + 1 <= n PROVE g[i + 1] = f[i + 1]
        OBVIOUS
    <2>1. f[i + 1] = EffectiveStep(f[i], seq[i + 1], q)
        BY DEF IsPass
    <2>2. g[i + 1] = EffectiveStep(g[i], longer[i + 1], q)
        BY DEF IsPass
    <2> QED BY <2>1, <2>2
<1>3. S \in SUBSET Nat
    OBVIOUS
<1>4. S = Nat
    <2> HIDE DEF S
    <2> QED BY <1>1, <1>2, <1>3, SetInduction
<1> QED BY <1>4

\* The loop over a Vec with one more release: one more step.
LEMMA OneMoreRelease ==
    ASSUME NEW seq \in Seq(ConfigRelease), NEW r \in ConfigRelease, NEW q
    PROVE  EffectiveOver(Append(seq, r), q) = EffectiveStep(EffectiveOver(seq, q), r, q)
<1>1. PICK n \in Nat : n = Len(seq)
    BY LenProperties
<1>2. PICK longer : longer = Append(seq, r)
    BY Zenon
<1>3. /\ Len(longer) = n + 1
      /\ longer[n + 1] = r
      /\ \A i \in 1 .. n : longer[i] = seq[i]
    BY <1>1, <1>2, AppendProperties
<1>4. PICK f : IsPass(f, n, seq, q) /\ EffectiveOver(seq, q) = f[n]
    BY <1>1, OverIsPass
<1>5. PICK g : IsPass(g, n + 1, longer, q) /\ EffectiveOver(longer, q) = g[n + 1]
    BY <1>3, OverIsPass
<1>6. g[n] = f[n]
    BY <1>3, <1>4, <1>5, PassesAgree
<1>7. g[n + 1] = EffectiveStep(g[n], longer[n + 1], q)
    BY <1>5 DEF IsPass
<1> QED BY <1>2, <1>3, <1>4, <1>5, <1>6, <1>7

\* Before the first release.
LEMMA NoRelease ==
    ASSUME NEW q
    PROVE  EffectiveOver(<< >>, q) = NothingReleased
<1>1. Len(<< >>) = 0
    OBVIOUS
<1>2. PICK f : IsPass(f, 0, << >>, q) /\ EffectiveOver(<< >>, q) = f[0]
    BY <1>1, OverIsPass
<1> QED BY <1>2 DEF IsPass

-----------------------------------------------------------------------------
(* What the loop has gathered. *)

\* The value that a release puts into the effective configuration.
SourceOf(r) ==
    [value |-> r.content.value,
     source_release_id |-> r.release_id,
     source_specificity |-> specificity(r.content.config_scope),
     source_revision |-> r.revision]

Contends(r, q, k) == Applicable(r, q) /\ r.content.key = k

\* Release n of the Vec is of the narrowest scope among those for the key, and the
\* last of that scope.
Prevails(n, seq, q, k) ==
    /\ Contends(seq[n], q, k)
    /\ \A m \in DOMAIN seq :
          Contends(seq[m], q, k) =>
             \/ specificity(seq[m].content.config_scope) < specificity(seq[n].content.config_scope)
             \/ /\ specificity(seq[m].content.config_scope) = specificity(seq[n].content.config_scope)
                /\ m <= n

\* The outcome of the loop, said of the Vec as a whole.
Summarises(result, seq, q) ==
    /\ result.revision \in Nat
    /\ DOMAIN result.values = {k \in ConfigKeys : \E n \in DOMAIN seq : Contends(seq[n], q, k)}
    /\ \A k \in DOMAIN result.values :
          \E n \in DOMAIN seq : Prevails(n, seq, q, k) /\ result.values[k] = SourceOf(seq[n])
    /\ \A n \in DOMAIN seq : Applicable(seq[n], q) => seq[n].revision <= result.revision
    /\ result.revision # 0 =>
          \E n \in DOMAIN seq : Applicable(seq[n], q) /\ seq[n].revision = result.revision

RevisionsIncrease(seq) ==
    \A m, n \in DOMAIN seq : m < n => seq[m].revision < seq[n].revision

\* The Vec of releases is ordered by revision, and none is ahead of the counter.
ReleasesOrdered ==
    /\ RevisionsIncrease(releases)
    /\ \A n \in DOMAIN releases : releases[n].revision <= revision

\* Specificities are 0, 1 and 2.
LEMMA SpecificityType ==
    ASSUME NEW s
    PROVE  specificity(s) \in Nat
BY DEF specificity

\* Replaces decides by scope first; a release that is newer than all before it wins
\* at its own scope.
LEMMA StepSummarises ==
    ASSUME NEW seq \in Seq(ConfigRelease), NEW r \in ConfigRelease, NEW q, NEW result,
           Summarises(result, seq, q), \A n \in DOMAIN seq : seq[n].revision < r.revision
    PROVE  Summarises(EffectiveStep(result, r, q), Append(seq, r), q)
<1>1. PICK longer : longer = Append(seq, r)
    BY Zenon
<1>2. PICK last \in Nat : last = Len(seq) + 1
    BY LenProperties
<1>3. /\ DOMAIN longer = DOMAIN seq \cup {last}
      /\ longer[last] = r
      /\ \A n \in DOMAIN seq : n \in Nat /\ n < last /\ longer[n] = seq[n]
    BY <1>1, <1>2, AppendProperties, LenProperties
<1>4. r.revision \in Nat /\ r.content.key \in ConfigKeys
    BY DEF ConfigRelease, Content
<1>5. \A n \in DOMAIN seq : seq[n].revision \in Nat
    BY ReleaseTyped, Zenon DEF ConfigRelease
<1>6. PICK next : next = EffectiveStep(result, r, q)
    OBVIOUS
<1>7. CASE ~Applicable(r, q)
    <2>1. next = result
        BY <1>6, <1>7 DEF EffectiveStep
    <2>2. \A k : ~Contends(r, q, k)
        BY <1>7 DEF Contends
    <2>3. \A k : \A n \in DOMAIN seq : Prevails(n, seq, q, k) => Prevails(n, longer, q, k)
        BY <1>3, <2>2 DEF Prevails
    <2>4. \A k : (\E n \in DOMAIN longer : Contends(longer[n], q, k))
                    <=> (\E n \in DOMAIN seq : Contends(seq[n], q, k))
        BY <1>3, <2>2
    <2>5. \A k \in DOMAIN result.values :
              \E n \in DOMAIN longer : Prevails(n, longer, q, k) /\ result.values[k] = SourceOf(longer[n])
        BY <1>3, <2>3 DEF Summarises
    <2>6. \A n \in DOMAIN longer : Applicable(longer[n], q) => longer[n].revision <= result.revision
        BY <1>3, <1>7 DEF Summarises
    <2>7. result.revision # 0 =>
              \E n \in DOMAIN longer : Applicable(longer[n], q) /\ longer[n].revision = result.revision
        BY <1>3 DEF Summarises
    <2>8. Summarises(result, longer, q)
        BY <2>4, <2>5, <2>6, <2>7 DEF Summarises
    <2> QED BY <1>1, <1>6, <2>1, <2>8
<1>8. CASE Applicable(r, q)
    <2> DEFINE key == r.content.key
               new == SourceOf(r)
               kept == key \in DOMAIN result.values /\ ~Replaces(r, result.values[key])
    <2>1. /\ next.revision = IF r.revision > result.revision THEN r.revision ELSE result.revision
          /\ kept => next.values = result.values
          /\ ~kept => next.values = [x \in DOMAIN result.values \cup {key} |->
                                       IF x = key THEN new ELSE result.values[x]]
        BY <1>6, <1>8 DEF EffectiveStep, SourceOf
    <2>2. \A k : Contends(r, q, k) <=> k = key
        BY <1>8 DEF Contends
    <2>3. \A k : (\E n \in DOMAIN longer : Contends(longer[n], q, k))
                    <=> (\E n \in DOMAIN seq : Contends(seq[n], q, k)) \/ k = key
        BY <1>3, <2>2
    <2>4. DOMAIN result.values = {k \in ConfigKeys : \E n \in DOMAIN seq : Contends(seq[n], q, k)}
        BY DEF Summarises
    <2>5. DOMAIN next.values = {k \in ConfigKeys : \E n \in DOMAIN longer : Contends(longer[n], q, k)}
        BY <1>4, <2>1, <2>3, <2>4, Zenon
    <2>6. ASSUME NEW k \in DOMAIN next.values, k # key
          PROVE  \E n \in DOMAIN longer : Prevails(n, longer, q, k) /\ next.values[k] = SourceOf(longer[n])
        <3>1. k \in DOMAIN result.values /\ next.values[k] = result.values[k]
            BY <2>1, <2>6
        <3>2. PICK n \in DOMAIN seq : Prevails(n, seq, q, k) /\ result.values[k] = SourceOf(seq[n])
            BY <3>1 DEF Summarises
        <3>3. Prevails(n, longer, q, k)
            BY <1>3, <2>2, <2>6, <3>2 DEF Prevails
        <3> QED BY <1>3, <3>1, <3>2, <3>3
    <2>7. ASSUME kept
          PROVE  \E n \in DOMAIN longer : Prevails(n, longer, q, key) /\ next.values[key] = SourceOf(longer[n])
        <3>1. PICK n \in DOMAIN seq : Prevails(n, seq, q, key) /\ result.values[key] = SourceOf(seq[n])
            BY <2>7 DEF Summarises
        <3>2. PICK spec \in Nat, held \in Nat :
                  /\ spec = specificity(r.content.config_scope)
                  /\ held = specificity(seq[n].content.config_scope)
            BY SpecificityType
        <3>3. /\ result.values[key].source_specificity = held
              /\ result.values[key].source_revision = seq[n].revision
            BY <3>1, <3>2 DEF SourceOf
        <3>4. spec < held
            <4>1. ~(spec > held) /\ ~(spec = held /\ r.revision >= seq[n].revision)
                BY <2>7, <3>2, <3>3 DEF Replaces
            <4> QED BY <1>4, <1>5, <4>1
        <3>5. Prevails(n, longer, q, key)
            BY <1>3, <3>1, <3>2, <3>4 DEF Prevails
        <3> QED BY <1>3, <2>1, <2>7, <3>1, <3>5
    <2>8. ASSUME ~kept
          PROVE  Prevails(last, longer, q, key) /\ next.values[key] = SourceOf(longer[last])
        <3>1. next.values[key] = SourceOf(longer[last])
            BY <1>3, <2>1, <2>8
        <3>2. Contends(longer[last], q, key)
            BY <1>3, <2>2
        <3>3. ASSUME NEW m \in DOMAIN seq, Contends(seq[m], q, key)
              PROVE  \/ specificity(seq[m].content.config_scope) < specificity(r.content.config_scope)
                     \/ specificity(seq[m].content.config_scope) = specificity(r.content.config_scope)
            <4>1. key \in DOMAIN result.values
                BY <1>4, <2>4, <3>3
            <4>2. PICK n \in DOMAIN seq : Prevails(n, seq, q, key) /\ result.values[key] = SourceOf(seq[n])
                BY <4>1 DEF Summarises
            <4>3. PICK spec \in Nat, held \in Nat, other \in Nat :
                      /\ spec = specificity(r.content.config_scope)
                      /\ held = specificity(seq[n].content.config_scope)
                      /\ other = specificity(seq[m].content.config_scope)
                BY SpecificityType
            <4>4. result.values[key].source_specificity = held
                BY <4>2, <4>3 DEF SourceOf
            <4>5. spec >= held
                BY <2>8, <4>1, <4>3, <4>4 DEF Replaces
            <4>6. other <= held
                BY <3>3, <4>2, <4>3 DEF Prevails
            <4> QED BY <4>3, <4>5, <4>6
        <3> QED BY <1>3, <3>1, <3>2, <3>3 DEF Prevails
    <2>9. \A k \in DOMAIN next.values :
              \E n \in DOMAIN longer : Prevails(n, longer, q, k) /\ next.values[k] = SourceOf(longer[n])
        BY <1>3, <2>6, <2>7, <2>8
    <2>10. /\ next.revision \in Nat
           /\ \A n \in DOMAIN longer : Applicable(longer[n], q) => longer[n].revision <= next.revision
           /\ next.revision # 0 =>
                 \E n \in DOMAIN longer : Applicable(longer[n], q) /\ longer[n].revision = next.revision
        <3>1. /\ result.revision \in Nat
              /\ \A n \in DOMAIN seq : Applicable(seq[n], q) => seq[n].revision <= result.revision
              /\ result.revision # 0 =>
                    \E n \in DOMAIN seq : Applicable(seq[n], q) /\ seq[n].revision = result.revision
            BY DEF Summarises
        <3>2. PICK old \in Nat, own \in Nat, both \in Nat :
                  /\ old = result.revision /\ own = r.revision /\ both = next.revision
                  /\ old <= both /\ own <= both /\ (both = old \/ both = own)
            BY <1>4, <2>1, <3>1
        <3>3. ASSUME NEW n \in DOMAIN longer, Applicable(longer[n], q)
              PROVE  longer[n].revision <= next.revision
            <4>1. CASE n \in DOMAIN seq
                BY <1>3, <1>5, <3>1, <3>2, <3>3, <4>1
            <4>2. CASE n = last
                BY <1>3, <3>2, <4>2
            <4> QED BY <1>3, <4>1, <4>2
        <3>4. ASSUME next.revision # 0
              PROVE  \E n \in DOMAIN longer : Applicable(longer[n], q) /\ longer[n].revision = next.revision
            <4>1. CASE both = own
                BY <1>3, <1>8, <3>2, <4>1
            <4>2. CASE both = old
                BY <1>3, <3>1, <3>2, <3>4, <4>2
            <4> QED BY <3>2, <4>1, <4>2
        <3> QED BY <3>2, <3>3, <3>4
    <2> QED BY <1>1, <1>6, <2>5, <2>9, <2>10 DEF Summarises
<1> QED BY <1>7, <1>8

\* retrieve_effective_config is right about every Vec of releases in the order of their
\* revisions, of whatever length.
LEMMA LoopSummarises ==
    ASSUME NEW seq \in Seq(ConfigRelease), RevisionsIncrease(seq), NEW q
    PROVE  Summarises(EffectiveOver(seq, q), seq, q)
<1> DEFINE Right(t) == RevisionsIncrease(t) => Summarises(EffectiveOver(t, q), t, q)
           S == {n \in Nat : \A t \in Seq(ConfigRelease) : Len(t) = n => Right(t)}
<1>1. 0 \in S
    <2> SUFFICES ASSUME NEW t \in Seq(ConfigRelease), Len(t) = 0
                 PROVE  Summarises(EffectiveOver(t, q), t, q)
        OBVIOUS
    <2>1. t = << >> /\ DOMAIN t = {}
        BY EmptySeq, LenProperties
    <2>2. EffectiveOver(t, q) = NothingReleased
        BY <2>1, NoRelease
    <2>3. NothingReleased.revision = 0 /\ DOMAIN NothingReleased.values = {}
        BY DEF NothingReleased
    <2> QED BY <2>1, <2>2, <2>3 DEF Summarises
<1>2. ASSUME NEW n \in S PROVE n + 1 \in S
    <2> SUFFICES ASSUME NEW t \in Seq(ConfigRelease), Len(t) = n + 1, RevisionsIncrease(t)
                 PROVE  Summarises(EffectiveOver(t, q), t, q)
        OBVIOUS
    <2>1. n \in Nat /\ DOMAIN t = 1 .. n + 1 /\ \A i \in 1 .. n + 1 : t[i] \in ConfigRelease
        BY LenProperties, ElementOfSeq
    <2>2. PICK r \in ConfigRelease : r = t[n + 1]
        BY <2>1
    <2> DEFINE front == SubSeq(t, 1, n)
    <2>3. front \in Seq(ConfigRelease) /\ Len(front) = n /\ \A i \in 1 .. n : front[i] = t[i]
        BY <2>1, SubSeqProperties
    <2> HIDE DEF front
    <2>4. DOMAIN front = 1 .. n
        BY <2>3, LenProperties
    <2>5. Append(front, r) = t
        BY <2>1, <2>2, <2>3, AppendProperties, SeqEqual
    <2>6. RevisionsIncrease(front) /\ \A i \in DOMAIN front : front[i].revision < r.revision
        BY <2>1, <2>2, <2>3, <2>4 DEF RevisionsIncrease
    <2>7. Summarises(EffectiveOver(front, q), front, q)
        BY <1>2, <2>3, <2>6
    <2>8. Summarises(EffectiveStep(EffectiveOver(front, q), r, q), t, q)
        BY <2>3, <2>5, <2>6, <2>7, StepSummarises, Zenon
    <2> QED BY <2>3, <2>5, <2>8, OneMoreRelease, Zenon
<1>3. S \in SUBSET Nat
    OBVIOUS
<1>4. S = Nat
    <2> HIDE DEF S
    <2> QED BY <1>1, <1>2, <1>3, SetInduction
<1> QED BY <1>4, LenProperties

\* publish_config and rollback_config push one release, of the revision they take.
LEMMA ReleaseAppends ==
    ASSUME ConfigInv, Publish \/ Rollback
    PROVE  \E r \in ConfigRelease :
              /\ releases' = Append(releases, r)
              /\ r.revision = revision + 1
              /\ revision' = revision + 1
<1>1. PICK draft_id \in Nat, content \in Content :
          /\ releases' = Append(releases, NewRelease(draft_id, content))
          /\ revision' = next_revision
    <2>1. CASE Publish
        BY <2>1 DEF Publish, publish_config, Release, ConfigInv, ConfigTypeOK, ConfigDraft
    <2>2. CASE Rollback
        <3>1. PICK n \in DOMAIN releases, idem \in IdempotencyContext : rollback_config(n, idem)
            BY <2>2 DEF Rollback
        <3>2. releases[n] \in ConfigRelease
            BY ReleaseTyped DEF ConfigInv, ConfigTypeOK
        <3> QED BY <3>1, <3>2 DEF rollback_config, Release, ConfigRelease
    <2> QED BY <2>1, <2>2
<1>2. PICK r \in ConfigRelease : r = NewRelease(draft_id, content) /\ r.revision = revision + 1
    BY NewReleaseTyped
<1> QED BY <1>1, <1>2 DEF next_revision

\* The other commands leave the Vec and the revision as they are.
LEMMA OthersKeepReleases ==
    ASSUME CreateDraft \/ Trim \/ UNCHANGED storeVars
    PROVE  UNCHANGED <<releases, revision>>
BY DEF CreateDraft, create_config_draft, Trim, configVars, gc_watch_events, compact_watch_events,
       storeVars, logVars

\* The revision of an effective configuration is not ahead of the store's.
LEMMA EffectiveRevisionBounded ==
    ASSUME ConfigInv, ReleasesOrdered, NEW q
    PROVE  /\ retrieve_effective_config(q).revision \in Nat
           /\ retrieve_effective_config(q).revision <= revision
<1>1. Summarises(retrieve_effective_config(q), releases, q)
    BY LoopSummarises DEF ConfigInv, ConfigTypeOK, ReleasesOrdered, retrieve_effective_config
<1>2. revision \in Nat /\ \A n \in DOMAIN releases : releases[n].revision <= revision
    BY DEF ConfigInv, ConfigTypeOK, LogTypeOK, ReleasesOrdered
<1> QED BY <1>1, <1>2 DEF Summarises

-----------------------------------------------------------------------------
(* The theorems. *)

\* An empty store satisfies the inductive invariant.
LEMMA InitConfigInv == ConfigInit => ConfigInv
<1> SUFFICES ASSUME ConfigInit PROVE ConfigInv
    OBVIOUS
<1>1. DOMAIN drafts = {} /\ DOMAIN releases = {} /\ DOMAIN idempotency = {} /\ releases \in Seq(ConfigRelease)
    BY DEF ConfigInit
<1>2. ConfigTypeOK
    BY <1>1, FS_EmptySet DEF ConfigInit, LogInit, ConfigTypeOK, LogTypeOK
<1> QED BY <1>1, <1>2 DEF ConfigInv, IdsBounded, ReplayTargetsExist, ReleasesMatchDrafts

\* Every command and every trimming of the log preserve it.
LEMMA ConfigNextInv == ConfigInv /\ [ConfigNext]_storeVars => ConfigInv'
<1> SUFFICES ASSUME ConfigInv, [ConfigNext]_storeVars PROVE ConfigInv'
    OBVIOUS
<1>1. CASE UNCHANGED storeVars
    BY <1>1 DEF storeVars, logVars, configVars, ConfigInv, ConfigTypeOK, LogTypeOK, IdsBounded,
                ReplayTargetsExist, ReleasesMatchDrafts
<1>2. CASE CreateDraft
    BY <1>2, DraftPreserves DEF CreateDraft
<1>3. CASE Publish
    BY <1>3, PublishPreserves DEF Publish
<1>4. CASE Rollback
    BY <1>4, RollbackPreserves DEF Rollback
<1>5. CASE Trim
    BY <1>5, ConfigTrimPreserves
<1> QED BY <1>1, <1>2, <1>3, <1>4, <1>5 DEF ConfigNext

\* The inductive invariant of the config registry, through any sequence of drafts,
\* publications, rollbacks, retries and trimmings of the log.
THEOREM ConfigInvariance == ConfigSpec => []ConfigInv
BY InitConfigInv, ConfigNextInv, PTL DEF ConfigSpec

\* Drafts, releases, records and the log keep their types.
THEOREM ConfigTypeCorrect == ConfigSpec => []ConfigTypeOK
BY ConfigInvariance, PTL DEF ConfigInv

\* replay_config_draft and replay_config_release find what a record names, and no two
\* requests share a resource: ids are never given out twice.
THEOREM ReplaysAreAnswered == ConfigSpec => []ReplayTargetsExist
BY ConfigInvariance, PTL DEF ConfigInv

\* publish_config and rollback_config copy a draft unchanged, through any chain of
\* rollbacks, and a draft counts as published exactly when it has a release.
THEOREM ReleasesAreFaithful == ConfigSpec => []ReleasesMatchDrafts
BY ConfigInvariance, PTL DEF ConfigInv

\* Every operation looks its idempotency key up before it writes the record, so a
\* retried request is always told of what its first attempt made.
THEOREM RecordsStayBound == ConfigSpec => RecordsAreStable
<1> DEFINE Stable == \A i \in DOMAIN idempotency :
                        i \in DOMAIN idempotency' /\ idempotency'[i] = idempotency[i]
<1>1. ConfigInv /\ [ConfigNext]_storeVars => [Stable]_storeVars
    <2> SUFFICES ASSUME ConfigInv, ConfigNext PROVE Stable
        OBVIOUS
    <2>1. CASE CreateDraft
        BY <2>1, RecordFacts DEF CreateDraft, create_config_draft, Operations
    <2>2. CASE Publish
        BY <2>2, RecordFacts DEF Publish, publish_config, Release, Operations
    <2>3. CASE Rollback
        BY <2>3, RecordFacts DEF Rollback, rollback_config, Release, Operations
    <2>4. CASE Trim
        BY <2>4 DEF Trim, configVars
    <2> QED BY <2>1, <2>2, <2>3, <2>4 DEF ConfigNext
<1> QED BY <1>1, ConfigInvariance, PTL DEF ConfigSpec, RecordsAreStable

\* publish_config and rollback_config push releases in the order of the revisions they
\* take from the counter.
LEMMA OrderKept == ConfigInv /\ ReleasesOrdered /\ [ConfigNext]_storeVars => ReleasesOrdered'
<1> SUFFICES ASSUME ConfigInv, ReleasesOrdered, [ConfigNext]_storeVars PROVE ReleasesOrdered'
    OBVIOUS
<1>1. CASE CreateDraft \/ Trim \/ UNCHANGED storeVars
    BY <1>1, OthersKeepReleases DEF ReleasesOrdered
<1>2. CASE Publish \/ Rollback
    <2>1. PICK r \in ConfigRelease :
              releases' = Append(releases, r) /\ r.revision = revision + 1 /\ revision' = revision + 1
        BY <1>2, ReleaseAppends
    <2>2. releases \in Seq(ConfigRelease) /\ revision \in Nat
        BY DEF ConfigInv, ConfigTypeOK, LogTypeOK
    <2>3. \A n \in DOMAIN releases : releases[n].revision \in Nat /\ releases[n].revision <= revision
        BY <2>2, ReleaseTyped, Zenon DEF ReleasesOrdered, ConfigRelease
    <2>4. PICK last \in Nat : last = Len(releases) + 1
        BY <2>2, LenProperties
    <2>5. /\ DOMAIN releases' = DOMAIN releases \cup {last}
          /\ releases'[last] = r
          /\ \A n \in DOMAIN releases : n \in Nat /\ n < last /\ releases'[n] = releases[n]
        BY <2>1, <2>2, <2>4, AppendProperties, LenProperties
    <2> QED BY <2>1, <2>2, <2>3, <2>5 DEF ReleasesOrdered, RevisionsIncrease
<1> QED BY <1>1, <1>2 DEF ConfigNext

\* An empty Vec is in order.
LEMMA InitOrder == ConfigInit => ReleasesOrdered
<1> SUFFICES ASSUME ConfigInit PROVE ReleasesOrdered
    OBVIOUS
<1>1. DOMAIN releases = {}
    BY DEF ConfigInit
<1> QED BY <1>1 DEF ReleasesOrdered, RevisionsIncrease

\* Releases stay in the order of their revisions.
THEOREM OrderInvariance == ConfigSpec => []ReleasesOrdered
BY InitOrder, OrderKept, ConfigInvariance, PTL DEF ConfigSpec

\* What the loop gathers from ordered releases is what EffectiveIsNarrowestLatest asks for.
LEMMA OrderedIsEffective == ConfigInv /\ ReleasesOrdered => EffectiveIsNarrowestLatest
<1> SUFFICES ASSUME ConfigInv, ReleasesOrdered, NEW q \in EffectiveQueries, NEW result,
                    result = retrieve_effective_config(q)
             PROVE  /\ \A k \in ConfigKeys : k \in DOMAIN result.values <=> Candidates(q, k) # {}
                    /\ \A k \in DOMAIN result.values : \E n \in Candidates(q, k) :
                          /\ releases[n].release_id = result.values[k].source_release_id
                          /\ releases[n].content.value = result.values[k].value
                          /\ \A m \in Candidates(q, k) :
                                LET sm == specificity(releases[m].content.config_scope)
                                    sn == specificity(releases[n].content.config_scope)
                                IN  sm < sn \/ (sm = sn /\ m <= n)
                    /\ \A n \in DOMAIN releases :
                          Applicable(releases[n], q) => releases[n].revision <= result.revision
                    /\ result.revision # 0 =>
                          \E n \in DOMAIN releases :
                              Applicable(releases[n], q) /\ releases[n].revision = result.revision
    BY DEF EffectiveIsNarrowestLatest
<1>1. Summarises(result, releases, q)
    BY LoopSummarises DEF ConfigInv, ConfigTypeOK, ReleasesOrdered, retrieve_effective_config
<1>2. \A k, n : n \in Candidates(q, k) <=> n \in DOMAIN releases /\ Contends(releases[n], q, k)
    BY DEF Candidates, Contends
<1>3. \A k \in ConfigKeys : k \in DOMAIN result.values <=> Candidates(q, k) # {}
    BY <1>1, <1>2 DEF Summarises
<1>4. ASSUME NEW k \in DOMAIN result.values
      PROVE  \E n \in Candidates(q, k) :
                /\ releases[n].release_id = result.values[k].source_release_id
                /\ releases[n].content.value = result.values[k].value
                /\ \A m \in Candidates(q, k) :
                      LET sm == specificity(releases[m].content.config_scope)
                          sn == specificity(releases[n].content.config_scope)
                      IN  sm < sn \/ (sm = sn /\ m <= n)
    <2>1. PICK n \in DOMAIN releases :
              Prevails(n, releases, q, k) /\ result.values[k] = SourceOf(releases[n])
        BY <1>1 DEF Summarises
    <2> QED BY <1>2, <2>1 DEF Prevails, SourceOf
<1> QED BY <1>1, <1>3, <1>4 DEF Summarises

\* retrieve_effective_config's one pass, which compares each release only with what it
\* holds for the key, ends with the latest release of the narrowest scope that applies.
THEOREM EffectiveIsRight == ConfigSpec => []EffectiveIsNarrowestLatest
BY OrderedIsEffective, ConfigInvariance, OrderInvariance, PTL

\* A release that changes what retrieve_effective_config answers is newer than the
\* revision it answered with before, so the revision changes too.
THEOREM RevisionStandsForValues == ConfigSpec => EffectiveRevisionTells
<1> DEFINE Tells == \A q \in EffectiveQueries :
                      retrieve_effective_config(q)'.revision = retrieve_effective_config(q).revision
                        => retrieve_effective_config(q)'.values = retrieve_effective_config(q).values
<1>1. ConfigInv /\ ReleasesOrdered /\ [ConfigNext]_storeVars => [Tells]_storeVars
    <2> SUFFICES ASSUME ConfigInv, ReleasesOrdered, ConfigNext, NEW q \in EffectiveQueries,
                        retrieve_effective_config(q)'.revision = retrieve_effective_config(q).revision
                 PROVE  retrieve_effective_config(q)'.values = retrieve_effective_config(q).values
        OBVIOUS
    <2>1. CASE CreateDraft \/ Trim
        BY <2>1, OthersKeepReleases DEF retrieve_effective_config
    <2>2. CASE Publish \/ Rollback
        <3>1. PICK r \in ConfigRelease :
                  releases' = Append(releases, r) /\ r.revision = revision + 1 /\ revision' = revision + 1
            BY <2>2, ReleaseAppends
        <3>2. releases \in Seq(ConfigRelease) /\ revision \in Nat
            BY DEF ConfigInv, ConfigTypeOK, LogTypeOK
        <3>3. PICK old : old = retrieve_effective_config(q)
            OBVIOUS
        <3>4. retrieve_effective_config(q)' = EffectiveStep(old, r, q)
            BY <3>1, <3>2, <3>3, OneMoreRelease DEF retrieve_effective_config
        <3>5. old.revision \in Nat /\ old.revision <= revision
            BY <3>3, EffectiveRevisionBounded
        <3>6. ~Applicable(r, q)
            BY <3>1, <3>2, <3>3, <3>4, <3>5 DEF EffectiveStep
        <3> QED BY <3>3, <3>4, <3>6 DEF EffectiveStep
    <2> QED BY <2>1, <2>2 DEF ConfigNext
<1> QED BY <1>1, ConfigInvariance, OrderInvariance, PTL DEF ConfigSpec, EffectiveRevisionTells

\* rollback_config pushes a release of the source's scope that is newer than any other,
\* so Replaces lets it win wherever that scope is the narrowest in force.
THEOREM RollbackTakesEffect == ConfigSpec => RollbackRestores
<1> DEFINE Restores == \A n \in DOMAIN releases, idem \in IdempotencyContext : rollback_config(n, idem) =>
         \A q \in EffectiveQueries :
            LET k == releases[n].content.key
                scope == releases[n].content.config_scope
            IN  /\ Applicable(releases[n], q)
                /\ retrieve_effective_config(q).values[k].source_specificity = specificity(scope)
                => retrieve_effective_config(q)'.values[k].value = releases[n].content.value
<1>1. ConfigInv /\ ReleasesOrdered /\ [ConfigNext]_storeVars => [Restores]_storeVars
    <2> SUFFICES ASSUME ConfigInv, ReleasesOrdered, NEW n \in DOMAIN releases,
                        NEW idem \in IdempotencyContext, rollback_config(n, idem),
                        NEW q \in EffectiveQueries, Applicable(releases[n], q), NEW k, NEW old,
                        k = releases[n].content.key, old = retrieve_effective_config(q),
                        old.values[k].source_specificity = specificity(releases[n].content.config_scope)
                 PROVE  retrieve_effective_config(q)'.values[k].value = releases[n].content.value
        OBVIOUS
    <2>1. releases \in Seq(ConfigRelease) /\ revision \in Nat
        BY DEF ConfigInv, ConfigTypeOK, LogTypeOK
    <2>2. PICK r : r = NewRelease(releases[n].draft_id, releases[n].content)
        OBVIOUS
    <2>3. /\ r.content = releases[n].content /\ r.revision = revision + 1
          /\ releases' = Append(releases, r)
        BY <2>2 DEF NewRelease, next_revision, rollback_config, Release
    <2>4. r \in ConfigRelease
        <3>1. releases[n] \in ConfigRelease
            BY <2>1, ReleaseTyped
        <3> QED BY <2>2, <3>1, NewReleaseTyped DEF ConfigRelease
    <2>5. retrieve_effective_config(q)' = EffectiveStep(old, r, q)
        BY <2>1, <2>3, <2>4, OneMoreRelease DEF retrieve_effective_config
    <2>6. Applicable(r, q)
        BY <2>3 DEF Applicable
    <2>7. k \in DOMAIN old.values => Replaces(r, old.values[k])
        <3> SUFFICES ASSUME k \in DOMAIN old.values PROVE Replaces(r, old.values[k])
            OBVIOUS
        <3>1. PICK m \in DOMAIN releases : old.values[k] = SourceOf(releases[m])
            BY LoopSummarises DEF ConfigInv, ConfigTypeOK, ReleasesOrdered, retrieve_effective_config, Summarises
        <3>2. old.values[k].source_revision = releases[m].revision
            BY <3>1 DEF SourceOf
        <3>3. releases[m].revision \in Nat /\ releases[m].revision <= revision
            BY <2>1, ReleaseTyped, Zenon DEF ReleasesOrdered, ConfigRelease
        <3> QED BY <2>1, <2>3, <3>2, <3>3 DEF Replaces
    <2> QED BY <2>3, <2>5, <2>6, <2>7 DEF EffectiveStep
<1> QED BY <1>1, ConfigInvariance, OrderInvariance, PTL DEF ConfigSpec, RollbackRestores
=============================================================================
