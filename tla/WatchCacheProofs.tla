-------------------------- MODULE WatchCacheProofs --------------------------
(***************************************************************************)
(* Proofs about what a watching client holds: once it has received all of  *)
(* the log its cache is the registry, although rows are read after the     *)
(* events they answer, for every batch size, channel capacity and buffer.  *)
(***************************************************************************)
EXTENDS WatchStreamProofs, WellFoundedInduction

-----------------------------------------------------------------------------
(* What the client comes to hold. *)

\* A client that holds v for k, None for nothing, has the row if it is live, or what a
\* stale read told of it, and none that is gone.
Agrees(k, v) ==
    /\ k \in DOMAIN rows /\ rows[k].live => v \in {rows[k].revision} \cup StaleAnswers
    /\ v # None => k \in DOMAIN rows

\* The log has an event of k after this revision.
ToCome(k, from) == \E e \in events : Watched(e) /\ KeyOf(e) = k /\ from < e.revision

Held(k) == IF k \in DOMAIN cache THEN cache[k] ELSE None

\* DeliveryInOrder for any two responses, and not only for neighbours.
AllInOrder ==
    \A i \in DOMAIN OnTheWay :
        /\ seen <= OnTheWay[i].revision
        /\ OnTheWay[i].key # None => seen < OnTheWay[i].revision
        /\ \A j \in DOMAIN OnTheWay :
             j < i => /\ OnTheWay[j].revision <= OnTheWay[i].revision
                      /\ OnTheWay[i].key # None => OnTheWay[j].revision < OnTheWay[i].revision

\* A row's revision is that of its last event, which is no removal.
RowIsNewest ==
    \A e \in events \cup batch :
        e.kind \in InstanceKinds /\ KeyOf(e) \in DOMAIN rows
          => /\ e.revision <= rows[KeyOf(e)].revision
             /\ e.kind = "InstanceDeregistered" => e.revision < rows[KeyOf(e)].revision

\* The last event of a row that the client has not seen is still in the log.
RowIsTold ==
    ~gap => \A k \in WatchedKeys \cap DOMAIN rows :
              seen < rows[k].revision
                => \E e \in events : Watched(e) /\ KeyOf(e) = k /\ e.revision = rows[k].revision

\* A row that is gone is followed by its removal, for a client that has yet to be told
\* of the row.
GoneIsTold ==
    ~gap => \A e \in events \cup batch :
              Watched(e) /\ e.kind # "InstanceDeregistered" /\ seen < e.revision
                => KeyOf(e) \in DOMAIN rows \/ ToCome(KeyOf(e), e.revision)

\* What the client holds, and what each response will make it hold, is the row as it
\* is or is followed by a later event of the row.
CacheFollows == ~gap => \A k \in WatchedKeys : ToCome(k, seen) \/ Agrees(k, Held(k))

ResponsesFollow ==
    ~gap => \A i \in DOMAIN OnTheWay :
              OnTheWay[i].key \in WatchedKeys
                => \/ ToCome(OnTheWay[i].key, OnTheWay[i].revision)
                   \/ Agrees(OnTheWay[i].key, OnTheWay[i].row)

FollowInv ==
    AllInOrder /\ RowIsNewest /\ RowIsTold /\ GoneIsTold /\ CacheFollows /\ ResponsesFollow

\* A watched key's events are watched.
LEMMA EventsOfWatched ==
    ASSUME NEW e, e.kind \in InstanceKinds, KeyOf(e) \in WatchedKeys
    PROVE  Watched(e)
BY DEF KeyOf, WatchedKeys, Watched

\* Nothing on its way is newer than the registry.
LEMMA OnTheWayBehind ==
    ASSUME StreamInv, NEW i \in DOMAIN OnTheWay
    PROVE  OnTheWay[i].revision \in Nat /\ OnTheWay[i].revision <= revision
<1>1. OnTheWay[i].revision \in Nat /\ OnTheWay[i].revision <= cursor
    BY OnTheWayTyped DEF StreamInv, DeliveryInOrder
<1>2. stream \in {"closed", "opening"} => OnTheWay = << >>
    BY DEF StreamInv, StreamOK, OnTheWay
<1>3. stream # "closed"
    BY <1>2
<1> QED BY <1>1, <1>3 DEF StreamInv, StreamOK, RegistryOK

\* Events of the keys in T are added, and with them their rows change.
LEMMA GrowthFollows ==
    ASSUME StreamInv, FollowInv, NEW T, events \subseteq events',
           UNCHANGED <<stream, cursor, batch, pending, outbox, seen, cache, gap>>,
           \A k \in T : \E e \in events' :
              KeyOf(e) = k /\ e.kind \in InstanceKinds /\ e.revision \in Nat /\ revision < e.revision,
           \A e \in events' \ events :
              e.kind \in InstanceKinds
                => /\ KeyOf(e) \in T
                   /\ KeyOf(e) \in DOMAIN rows'
                        => e.revision <= rows'[KeyOf(e)].revision /\ e.kind # "InstanceDeregistered"
                   /\ KeyOf(e) \notin DOMAIN rows' => e.kind = "InstanceDeregistered",
           \A k \in T \cap DOMAIN rows' :
              /\ rows'[k].revision \in Nat /\ revision < rows'[k].revision
              /\ \E e \in events' :
                   KeyOf(e) = k /\ e.kind \in InstanceKinds /\ e.revision = rows'[k].revision,
           DOMAIN rows \ T = DOMAIN rows' \ T,
           \A k \in DOMAIN rows \ T : rows'[k] = rows[k]
    PROVE  FollowInv'
<1>1. OnTheWay' = OnTheWay
    BY DEF OnTheWay
<1>2. AllInOrder'
    BY <1>1 DEF FollowInv, AllInOrder
<1>3. /\ revision \in Nat /\ seen \in Nat /\ seen <= revision
      /\ \A e \in events \cup batch : e.revision \in Nat /\ e.revision <= revision
    BY DEF StreamInv, RegistryOK, StreamOK, EventOK
<1>4. RowIsNewest'
    <2> SUFFICES ASSUME NEW e \in events' \cup batch', e.kind \in InstanceKinds, KeyOf(e) \in DOMAIN rows'
                 PROVE  /\ e.revision <= rows'[KeyOf(e)].revision
                        /\ e.kind = "InstanceDeregistered" => e.revision < rows'[KeyOf(e)].revision
        BY DEF RowIsNewest
    <2>1. CASE e \in events' \ events
        BY <2>1
    <2>2. CASE e \in events \cup batch /\ KeyOf(e) \in T
        BY <1>3, <2>2
    <2>3. CASE e \in events \cup batch /\ KeyOf(e) \notin T
        <3>1. KeyOf(e) \in DOMAIN rows /\ rows'[KeyOf(e)] = rows[KeyOf(e)]
            BY <2>3
        <3> QED BY <2>3, <3>1 DEF FollowInv, RowIsNewest
    <2> QED BY <2>1, <2>2, <2>3
<1>5. RowIsTold'
    <2> SUFFICES ASSUME ~gap, NEW k \in WatchedKeys \cap DOMAIN rows', seen < rows'[k].revision
                 PROVE  \E e \in events' : Watched(e) /\ KeyOf(e) = k /\ e.revision = rows'[k].revision
        BY DEF RowIsTold, Watched, KeyOf
    <2>1. CASE k \in T
        BY <2>1, EventsOfWatched
    <2>2. CASE k \notin T
        <3>1. k \in WatchedKeys \cap DOMAIN rows /\ rows'[k] = rows[k]
            BY <2>2
        <3> QED BY <3>1 DEF FollowInv, RowIsTold
    <2> QED BY <2>1, <2>2
<1>6. ASSUME NEW k \in WatchedKeys, NEW v, NEW from \in Nat, from <= revision,
             ToCome(k, from) \/ Agrees(k, v)
      PROVE  ToCome(k, from)' \/ Agrees(k, v)'
    <2>1. CASE k \in T
        <3>1. PICK e \in events' :
                  KeyOf(e) = k /\ e.kind \in InstanceKinds /\ e.revision \in Nat /\ revision < e.revision
            BY <2>1
        <3>2. Watched(e)
            BY <3>1, EventsOfWatched
        <3>3. from < e.revision
            BY <1>3, <1>6, <3>1
        <3> QED BY <3>1, <3>2, <3>3 DEF ToCome, Watched, KeyOf
    <2>2. CASE k \notin T
        <3>1. ToCome(k, from) => ToCome(k, from)'
            BY DEF ToCome, Watched, KeyOf
        <3>2. /\ k \in DOMAIN rows <=> k \in DOMAIN rows'
              /\ k \in DOMAIN rows => rows'[k] = rows[k]
            BY <2>2
        <3>3. Agrees(k, v) => Agrees(k, v)'
            BY <3>2 DEF Agrees
        <3> QED BY <1>6, <3>1, <3>3
    <2> QED BY <2>1, <2>2
<1>7. CacheFollows'
    BY <1>3, <1>6 DEF FollowInv, CacheFollows, Held
<1>8. ResponsesFollow'
    <2> SUFFICES ASSUME ~gap, NEW i \in DOMAIN OnTheWay, OnTheWay[i].key \in WatchedKeys
                 PROVE  \/ ToCome(OnTheWay[i].key, OnTheWay[i].revision)'
                        \/ Agrees(OnTheWay[i].key, OnTheWay[i].row)'
        BY <1>1 DEF ResponsesFollow
    <2>1. PICK r : r = OnTheWay[i]
        OBVIOUS
    <2>2. r.revision \in Nat /\ r.revision <= revision
        BY <2>1, OnTheWayBehind
    <2>3. ToCome(r.key, r.revision) \/ Agrees(r.key, r.row)
        BY <2>1 DEF FollowInv, ResponsesFollow
    <2>4. ToCome(r.key, r.revision)' \/ Agrees(r.key, r.row)'
        BY <1>6, <2>1, <2>2, <2>3
    <2> QED BY <1>1, <2>1, <2>4
<1>9. GoneIsTold'
    <2> SUFFICES ASSUME ~gap, NEW e \in events' \cup batch, Watched(e), e.kind # "InstanceDeregistered",
                        seen < e.revision, NEW k, k = KeyOf(e), k \notin DOMAIN rows'
                 PROVE  ToCome(k, e.revision)'
        BY DEF GoneIsTold, Watched, KeyOf, ToCome
    <2>1. e \in events \cup batch /\ e.revision \in Nat /\ e.revision <= revision
        BY <1>3 DEF Watched
    <2>2. CASE k \in T
        <3>1. PICK f \in events' :
                  KeyOf(f) = k /\ f.kind \in InstanceKinds /\ f.revision \in Nat /\ revision < f.revision
            BY <2>2
        <3>2. Watched(f) /\ e.revision < f.revision
            BY <1>3, <2>1, <3>1 DEF Watched, KeyOf
        <3> QED BY <3>1, <3>2 DEF ToCome, Watched, KeyOf
    <2>3. CASE k \notin T
        <3>1. ToCome(k, e.revision)
            BY <2>1, <2>3 DEF FollowInv, GoneIsTold
        <3> QED BY <3>1 DEF ToCome, Watched, KeyOf
    <2> QED BY <2>2, <2>3
<1> QED BY <1>2, <1>4, <1>5, <1>7, <1>8, <1>9 DEF FollowInv

\* The registry's changes come with their events.
LEMMA ChangeFollows ==
    ASSUME StreamInv, FollowInv, Change
    PROVE  FollowInv'
<1> USE DEF next_revision
<1>1. /\ revision \in Nat /\ IsFiniteSet(DOMAIN rows)
      /\ rows \in [DOMAIN rows -> Row] /\ DOMAIN rows \subseteq Keys
    BY DEF StreamInv, RegistryOK
<1>2. UNCHANGED <<stream, cursor, batch, pending, outbox, seen, cache, gap>>
    BY DEF Change, clientVars
<1>3. ASSUME NEW k \in Keys, NEW alive \in BOOLEAN, NEW kind \in InstanceKinds, Upsert(k, kind, alive)
      PROVE  FollowInv'
    <2>1. PICK e : e = InstanceEvent(k, kind, revision + 1)
        OBVIOUS
    <2>2. e.revision = revision + 1 /\ e.kind = kind /\ KeyOf(e) = k
        BY <2>1, KeysAssumption DEF InstanceEvent, KeyOf
    <2>3. events' = events \cup {e} /\ kind # "InstanceDeregistered"
        BY <1>3, <2>1 DEF Upsert
    <2>4. /\ DOMAIN rows' = DOMAIN rows \cup {k} /\ rows'[k].revision = revision + 1
          /\ \A j \in DOMAIN rows \ {k} : rows'[j] = rows[j]
        BY <1>3 DEF Upsert
    <2>5. PICK T : T = {k}
        BY Zenon
    <2>6. \A j \in T : \E g \in events' :
              KeyOf(g) = j /\ g.kind \in InstanceKinds /\ g.revision \in Nat /\ revision < g.revision
        BY <1>1, <2>2, <2>3, <2>5
    <2>7. \A g \in events' \ events : g = e
        BY <2>3
    <2>8. \A j \in T \cap DOMAIN rows' :
              /\ rows'[j].revision \in Nat /\ revision < rows'[j].revision
              /\ \E g \in events' :
                   KeyOf(g) = j /\ g.kind \in InstanceKinds /\ g.revision = rows'[j].revision
        BY <1>1, <2>2, <2>3, <2>4, <2>5
    <2>9. DOMAIN rows \ T = DOMAIN rows' \ T /\ \A j \in DOMAIN rows \ T : rows'[j] = rows[j]
        BY <2>4, <2>5
    <2>10. \A g \in events' \ events :
              g.kind \in InstanceKinds
                => /\ KeyOf(g) \in T
                   /\ KeyOf(g) \in DOMAIN rows'
                        => g.revision <= rows'[KeyOf(g)].revision /\ g.kind # "InstanceDeregistered"
                   /\ KeyOf(g) \in DOMAIN rows'
        BY <1>1, <2>2, <2>3, <2>4, <2>5, <2>7
    <2> QED BY <1>2, <2>3, <2>6, <2>8, <2>9, <2>10, GrowthFollows
<1>4. ASSUME NEW S \in SUBSET DOMAIN rows, NEW last, last = revision + Cardinality(S),
             NEW revisionOf \in [S -> revision + 1 .. last], Remove(S, revisionOf, last)
      PROVE  FollowInv'
    <2>1. IsFiniteSet(S) /\ Cardinality(S) \in Nat
        BY <1>1, FS_Subset, FS_CardinalityType
    <2>2. \A k \in S : revisionOf[k] \in Nat /\ revision < revisionOf[k]
        BY <1>1, <1>4, <2>1
    <2>3. PICK f : f = [k \in S |-> InstanceEvent(k, "InstanceDeregistered", revisionOf[k])]
        BY Zenon
    <2>4. events' = events \cup {f[k] : k \in S}
        BY <1>4, <2>3 DEF Remove
    <2>5. \A k \in S : /\ f[k].revision = revisionOf[k] /\ KeyOf(f[k]) = k
                       /\ f[k].kind = "InstanceDeregistered" /\ f[k].kind \in InstanceKinds
        BY <1>1, <2>3, KeysAssumption DEF InstanceEvent, KeyOf, InstanceKinds
    <2>6. DOMAIN rows' = DOMAIN rows \ S /\ \A k \in DOMAIN rows \ S : rows'[k] = rows[k]
        BY <1>4 DEF Remove
    <2>7. \A k \in S : \E g \in events' :
              KeyOf(g) = k /\ g.kind \in InstanceKinds /\ g.revision \in Nat /\ revision < g.revision
        BY <2>2, <2>4, <2>5
    <2>8. \A g \in events' \ events : /\ KeyOf(g) \in S /\ KeyOf(g) \notin DOMAIN rows'
                                         /\ g.kind = "InstanceDeregistered"
        BY <2>4, <2>5, <2>6
    <2> QED BY <1>2, <2>4, <2>6, <2>7, <2>8, GrowthFollows, Zenon
<1>5. ASSUME NEW service, OtherChange({ConfigEvent(service)})
      PROVE  FollowInv'
    <2>1. PICK e : e = ConfigEvent(service)
        OBVIOUS
    <2>2. e.kind = "ConfigPublished" /\ e.kind \notin InstanceKinds
        BY <2>1 DEF ConfigEvent, InstanceKinds
    <2>3. events' = events \cup {e} /\ rows' = rows
        BY <1>5, <2>1 DEF OtherChange
    <2>4. PICK T : T = {}
        BY Zenon
    <2>5. events \subseteq events' /\ \A g \in events' \ events : g.kind \notin InstanceKinds
        BY <2>2, <2>3
    <2>6. (\A k : k \notin T) /\ DOMAIN rows \ T = DOMAIN rows' \ T
        BY <2>3, <2>4
    <2>7. \A k \in DOMAIN rows \ T : rows'[k] = rows[k]
        BY <2>3
    <2> QED BY <1>2, <2>5, <2>6, <2>7, GrowthFollows
<1>6. RegistryChange
    BY DEF Change
<1>7. CASE \E k \in Keys, alive \in BOOLEAN :
              Upsert(k, IF k \in DOMAIN rows THEN "InstanceUpdated" ELSE "InstanceRegistered", alive)
    BY <1>3, <1>7 DEF InstanceKinds
<1>8. CASE \E S \in SUBSET DOMAIN rows \ {{}} :
              LET last == revision + Cardinality(S)
              IN  \E revisionOf \in [S -> revision + 1 .. last] : Remove(S, revisionOf, last)
    BY <1>4, <1>8
<1> QED BY <1>5, <1>6, <1>7, <1>8 DEF RegistryChange

\* A row that lapses agrees with more caches than before.
LEMMA TimeFollows ==
    ASSUME StreamInv, FollowInv, TimePasses
    PROVE  FollowInv'
<1>1. PICK k \in DOMAIN rows : Lapse({k})
    BY DEF TimePasses
<1>2. /\ UNCHANGED <<revision, events, stream, cursor, batch, pending, outbox, seen, cache, gap>>
      /\ rows' = [j \in DOMAIN rows |->
                    IF j \in {k} THEN [revision |-> rows[j].revision, live |-> FALSE] ELSE rows[j]]
    BY <1>1 DEF TimePasses, Lapse, streamVars, clientVars
<1>3. /\ DOMAIN rows' = DOMAIN rows
      /\ \A j \in DOMAIN rows : /\ rows'[j].revision = rows[j].revision
                                /\ rows'[j].live => rows[j].live
    BY <1>2 DEF StreamInv, RegistryOK, Row
<1>4. OnTheWay' = OnTheWay
    BY <1>2 DEF OnTheWay
<1>5. AllInOrder'
    BY <1>2, <1>4 DEF FollowInv, AllInOrder
<1>6. RowIsNewest'
    BY <1>2, <1>3 DEF FollowInv, RowIsNewest
<1>7. RowIsTold'
    BY <1>2, <1>3 DEF FollowInv, RowIsTold, Watched
<1>8. \A j, v : Agrees(j, v) => Agrees(j, v)'
    BY <1>3 DEF Agrees
<1>9. \A j, from : ToCome(j, from) => ToCome(j, from)'
    BY <1>2 DEF ToCome, Watched
<1>10. CacheFollows'
    BY <1>2, <1>8, <1>9 DEF FollowInv, CacheFollows, Held
<1>11. ResponsesFollow'
    BY <1>2, <1>4, <1>8, <1>9 DEF FollowInv, ResponsesFollow
<1>12. GoneIsTold'
    BY <1>2, <1>3, <1>9 DEF FollowInv, GoneIsTold, Watched
<1> QED BY <1>5, <1>6, <1>7, <1>10, <1>11, <1>12 DEF FollowInv

\* The natural numbers are well-founded.
LEMMA SmallestOf ==
    ASSUME NEW S \in SUBSET Nat, S # {}
    PROVE  \E m \in S : \A n \in S : m <= n
<1>1. PICK R : R = {ss \in Nat \X Nat : ss[1] < ss[2]}
    BY Zenon
<1>2. IsWellFoundedOn(R, Nat)
    BY <1>1, NatLessThanWellFounded DEF OpToRel
<1>3. PICK m \in S : \A n \in S : <<n, m>> \notin R
    BY <1>2, WFMin, Zenon
<1>4. ASSUME NEW n \in S PROVE m <= n
    <2>1. n \in Nat /\ m \in Nat
        OBVIOUS
    <2>2. n < m => <<n, m>> \in R
        BY <1>1, <2>1
    <2> QED BY <1>3, <2>1, <2>2
<1> QED BY <1>4

\* Of the events of a key to come, one is the last.
LEMMA LastToCome ==
    ASSUME StreamInv, NEW k, NEW from \in Nat, ToCome(k, from)
    PROVE  \E e \in events : Watched(e) /\ KeyOf(e) = k /\ from < e.revision /\ NewestOfKey(e)
<1>1. PICK e \in events : Watched(e) /\ KeyOf(e) = k /\ from < e.revision
    BY DEF ToCome
<1>2. revision \in Nat /\ \A f \in events : f.revision \in Nat /\ f.revision <= revision
    BY DEF StreamInv, RegistryOK, EventOK
<1> DEFINE Behind == {n \in Nat : \E f \in events : Watched(f) /\ KeyOf(f) = k /\ f.revision + n = revision}
<1>3. \A f \in events : Watched(f) /\ KeyOf(f) = k => revision - f.revision \in Behind
    BY <1>2
<1>4. Behind \in SUBSET Nat /\ Behind # {}
    BY <1>1, <1>3
<1>5. PICK m \in Behind : \A n \in Behind : m <= n
    <2> HIDE DEF Behind
    <2> QED BY <1>4, SmallestOf
<1>6. PICK f \in events : Watched(f) /\ KeyOf(f) = k /\ f.revision + m = revision
    OBVIOUS
<1>7. \A g \in events : Watched(g) /\ KeyOf(g) = k => g.revision <= f.revision
    <2> SUFFICES ASSUME NEW g \in events, Watched(g), KeyOf(g) = k PROVE g.revision <= f.revision
        OBVIOUS
    <2>1. m <= revision - g.revision /\ m \in Nat
        BY <1>3, <1>5
    <2> QED BY <1>2, <1>6, <2>1
<1>8. from < f.revision
    BY <1>1, <1>2, <1>7
<1>9. NewestOfKey(f)
    <2> SUFFICES ASSUME NEW g \in events, g.kind \in InstanceKinds, KeyOf(g) = KeyOf(f)
                 PROVE  g.revision <= f.revision
        BY DEF NewestOfKey, InstanceEvents
    <2>1. Watched(g)
        BY <1>6 DEF Watched, KeyOf
    <2> QED BY <1>6, <1>7, <2>1
<1> QED BY <1>6, <1>8, <1>9

\* When the collector drops the last event of a row that the client has not seen,
\* there is a gap; what it drops otherwise is followed by a later event.
LEMMA CollectFollows ==
    ASSUME StreamInv, FollowInv, CollectEvents
    PROVE  FollowInv'
<1>1. /\ events' \subseteq events
      /\ UNCHANGED <<revision, rows, stream, cursor, batch, pending, outbox, seen, cache>>
      /\ gap' = (gap \/ \E e \in events \ events' :
                          Watched(e) /\ NewestOfKey(e) /\ e.revision > seen)
    BY DEF CollectEvents, gc_watch_events, streamVars, clientVars
<1>2. seen \in Nat /\ \A e \in events \cup batch : e.revision \in Nat
    BY DEF StreamInv, RegistryOK, StreamOK, EventOK
<1>3. OnTheWay' = OnTheWay
    BY <1>1 DEF OnTheWay
<1>4. AllInOrder' /\ RowIsNewest'
    BY <1>1, <1>3 DEF FollowInv, AllInOrder, RowIsNewest
<1>5. ASSUME ~gap', NEW e \in events, Watched(e), NewestOfKey(e), seen < e.revision
      PROVE  e \in events'
    BY <1>1, <1>2, <1>5, Zenon
<1>6. RowIsTold'
    <2> SUFFICES ASSUME ~gap', NEW k \in WatchedKeys \cap DOMAIN rows, seen < rows[k].revision
                 PROVE  \E e \in events' : Watched(e) /\ KeyOf(e) = k /\ e.revision = rows[k].revision
        BY <1>1 DEF RowIsTold, Watched, KeyOf
    <2>1. ~gap
        BY <1>1, Zenon
    <2>2. PICK e \in events : Watched(e) /\ KeyOf(e) = k /\ e.revision = rows[k].revision
        BY <2>1 DEF FollowInv, RowIsTold
    <2>3. NewestOfKey(e)
        <3> SUFFICES ASSUME NEW f \in events, f.kind \in InstanceKinds, KeyOf(f) = KeyOf(e)
                     PROVE  f.revision <= e.revision
            BY DEF NewestOfKey, InstanceEvents
        <3> QED BY <2>2 DEF FollowInv, RowIsNewest
    <2> QED BY <1>5, <2>2, <2>3
<1>7. ASSUME ~gap', NEW k \in WatchedKeys, NEW v, NEW from \in Nat, seen <= from,
             ToCome(k, from) \/ Agrees(k, v)
      PROVE  ToCome(k, from)' \/ Agrees(k, v)'
    <2>1. CASE ToCome(k, from)
        <3>1. PICK e \in events : Watched(e) /\ KeyOf(e) = k /\ from < e.revision /\ NewestOfKey(e)
            BY <2>1, LastToCome
        <3>2. e \in events'
            BY <1>2, <1>5, <1>7, <3>1
        <3> QED BY <3>1, <3>2 DEF ToCome, Watched
    <2>2. CASE Agrees(k, v)
        BY <1>1, <2>2 DEF Agrees
    <2> QED BY <1>7, <2>1, <2>2
<1>8. CacheFollows'
    <2> SUFFICES ASSUME ~gap', NEW k \in WatchedKeys
                 PROVE  ToCome(k, seen)' \/ Agrees(k, Held(k))'
        BY <1>1 DEF CacheFollows, WatchedKeys
    <2>1. PICK v : v = Held(k)
        OBVIOUS
    <2>2. Held(k)' = v
        BY <1>1, <2>1 DEF Held
    <2>3. ToCome(k, seen) \/ Agrees(k, v)
        BY <1>1, <2>1, Zenon DEF FollowInv, CacheFollows
    <2>4. ToCome(k, seen)' \/ Agrees(k, v)'
        BY <1>1, <1>2, <1>7, <2>3 DEF ToCome, Agrees
    <2> QED BY <2>2, <2>4 DEF Agrees
<1>9. ResponsesFollow'
    <2> SUFFICES ASSUME ~gap', NEW i \in DOMAIN OnTheWay, OnTheWay[i].key \in WatchedKeys
                 PROVE  \/ ToCome(OnTheWay[i].key, OnTheWay[i].revision)'
                        \/ Agrees(OnTheWay[i].key, OnTheWay[i].row)'
        BY <1>3 DEF ResponsesFollow
    <2>1. PICK r : r = OnTheWay[i]
        OBVIOUS
    <2>2. r.revision \in Nat /\ seen <= r.revision
        BY <2>1, OnTheWayTyped DEF FollowInv, AllInOrder
    <2>3. ToCome(r.key, r.revision) \/ Agrees(r.key, r.row)
        BY <1>1, <2>1, Zenon DEF FollowInv, ResponsesFollow
    <2>4. ToCome(r.key, r.revision)' \/ Agrees(r.key, r.row)'
        BY <1>7, <2>1, <2>2, <2>3
    <2> QED BY <1>3, <2>1, <2>4
<1>10. GoneIsTold'
    <2> SUFFICES ASSUME ~gap', NEW e \in events \cup batch, Watched(e), e.kind # "InstanceDeregistered",
                        seen < e.revision, NEW k, k = KeyOf(e), k \notin DOMAIN rows
                 PROVE  ToCome(k, e.revision)'
        BY <1>1 DEF GoneIsTold, Watched, KeyOf, ToCome
    <2>1. ToCome(k, e.revision)
        BY <1>1, Zenon DEF FollowInv, GoneIsTold
    <2>2. PICK f \in events : Watched(f) /\ KeyOf(f) = k /\ e.revision < f.revision /\ NewestOfKey(f)
        BY <1>2, <2>1, LastToCome
    <2>3. f \in events'
        BY <1>2, <1>5, <2>2
    <2> QED BY <2>2, <2>3 DEF ToCome, Watched
<1> QED BY <1>4, <1>6, <1>8, <1>9, <1>10 DEF FollowInv

\* A step that changes neither the registry nor what is on its way.
LEMMA QuietFollows ==
    ASSUME FollowInv, OnTheWay' = OnTheWay, batch' \subseteq events \cup batch,
           UNCHANGED <<events, rows, seen, cache, gap>>
    PROVE  FollowInv'
<1>1. AllInOrder' /\ RowIsNewest' /\ RowIsTold'
    BY DEF FollowInv, AllInOrder, RowIsNewest, RowIsTold, Watched
<1>2. /\ \A k, v : Agrees(k, v)' <=> Agrees(k, v)
      /\ \A k, from : ToCome(k, from)' <=> ToCome(k, from)
    BY DEF Agrees, ToCome, Watched
<1>3. CacheFollows'
    BY <1>2 DEF FollowInv, CacheFollows, Held
<1>4. ResponsesFollow'
    BY <1>2 DEF FollowInv, ResponsesFollow
<1>5. GoneIsTold'
    BY <1>2 DEF FollowInv, GoneIsTold, Watched
<1> QED BY <1>1, <1>3, <1>4, <1>5 DEF FollowInv

\* One more response on its way.
LEMMA OneMoreFollows ==
    ASSUME StreamInv, FollowInv, stream = "open", NEW r \in Response, OnTheWay' = Append(OnTheWay, r),
           cursor' \in Nat, cursor <= cursor', r.revision = cursor',
           r.key # None => cursor < r.revision,
           batch' \subseteq events \cup batch, UNCHANGED <<events, rows, seen, cache, gap>>,
           ~gap /\ r.key \in WatchedKeys => ToCome(r.key, r.revision) \/ Agrees(r.key, r.row)
    PROVE  FollowInv'
<1>1. PICK n \in Nat : n = Len(OnTheWay)
    BY OnTheWayTyped, Zenon
<1>2. /\ DOMAIN OnTheWay = 1 .. n /\ DOMAIN OnTheWay' = 1 .. n + 1
      /\ OnTheWay'[n + 1] = r /\ \A i \in 1 .. n : OnTheWay'[i] = OnTheWay[i]
    <2>1. DOMAIN OnTheWay = 1 .. n
        BY <1>1, OnTheWayTyped
    <2>2. /\ DOMAIN OnTheWay' = DOMAIN OnTheWay \cup {n + 1}
          /\ OnTheWay'[n + 1] = r /\ \A i \in DOMAIN OnTheWay : OnTheWay'[i] = OnTheWay[i]
        BY <1>1, OneMoreInOrder
    <2> QED BY <2>1, <2>2
<1>3. /\ cursor \in Nat /\ seen \in Nat /\ seen <= cursor
      /\ \A i \in 1 .. n : OnTheWay[i].revision \in Nat /\ OnTheWay[i].revision <= cursor
    BY <1>2, OnTheWayTyped DEF StreamInv, StreamOK, DeliveryInOrder
<1>4. AllInOrder'
    <2> SUFFICES ASSUME NEW i \in 1 .. n + 1
                 PROVE  /\ seen <= OnTheWay'[i].revision
                        /\ OnTheWay'[i].key # None => seen < OnTheWay'[i].revision
                        /\ \A j \in 1 .. n + 1 :
                             j < i => /\ OnTheWay'[j].revision <= OnTheWay'[i].revision
                                      /\ OnTheWay'[i].key # None
                                           => OnTheWay'[j].revision < OnTheWay'[i].revision
        BY <1>2 DEF AllInOrder
    <2>1. CASE i \in 1 .. n
        BY <1>2, <2>1 DEF FollowInv, AllInOrder
    <2>2. CASE i = n + 1
        <3>1. OnTheWay'[i] = r /\ \A j \in 1 .. n + 1 : j < i => OnTheWay'[j] = OnTheWay[j] /\ j \in 1 .. n
            BY <1>2, <2>2
        <3>2. ASSUME NEW j \in 1 .. n + 1, j < i
              PROVE  /\ OnTheWay'[j].revision <= r.revision
                     /\ r.key # None => OnTheWay'[j].revision < r.revision
            <4>1. PICK p : p = OnTheWay'[j].revision
                OBVIOUS
            <4>2. p \in Nat /\ p <= cursor
                BY <1>3, <3>1, <3>2, <4>1, Zenon
            <4>3. r.revision \in Nat /\ cursor <= r.revision /\ (r.key # None => cursor < r.revision)
                OBVIOUS
            <4>4. p <= r.revision /\ (r.key # None => p < r.revision)
                BY <1>3, <4>2, <4>3
            <4> QED BY <4>1, <4>4, Zenon
        <3>3. seen <= r.revision /\ (r.key # None => seen < r.revision)
            BY <1>3
        <3> QED BY <3>1, <3>2, <3>3, Zenon
    <2>3. i \in 1 .. n \/ i = n + 1
        OBVIOUS
    <2> QED BY <2>1, <2>2, <2>3, Zenon
<1>5. RowIsNewest' /\ RowIsTold'
    BY DEF FollowInv, RowIsNewest, RowIsTold, Watched
<1>6. /\ \A k, v : Agrees(k, v)' <=> Agrees(k, v)
      /\ \A k, from : ToCome(k, from)' <=> ToCome(k, from)
    BY DEF Agrees, ToCome, Watched
<1>7. CacheFollows'
    BY <1>6 DEF FollowInv, CacheFollows, Held
<1>8. ResponsesFollow'
    <2> SUFFICES ASSUME ~gap, NEW i \in 1 .. n + 1, NEW q, q = OnTheWay'[i], q.key \in WatchedKeys
                 PROVE  ToCome(q.key, q.revision)' \/ Agrees(q.key, q.row)'
        BY <1>2 DEF ResponsesFollow
    <2>1. CASE i \in 1 .. n
        BY <1>2, <1>6, <2>1 DEF FollowInv, ResponsesFollow
    <2>2. CASE i = n + 1
        BY <1>2, <1>6, <2>2
    <2>3. i \in 1 .. n \/ i = n + 1
        OBVIOUS
    <2> QED BY <2>1, <2>2, <2>3, Zenon
<1>9. GoneIsTold'
    BY <1>6 DEF FollowInv, GoneIsTold, Watched
<1> QED BY <1>4, <1>5, <1>7, <1>8, <1>9 DEF FollowInv

\* service_watch_instance reads the row after the event: it is the row of the event, or
\* stale, or a later event of it is in the log.
LEMMA RespondFollows ==
    ASSUME StreamInv, FollowInv, Respond
    PROVE  FollowInv'
<1>0. PICK e \in batch :
          /\ batch' = batch \ {e}
          /\ cursor' = IF e.revision > cursor THEN e.revision ELSE cursor
          /\ \E row \in Answers(e) :
               pending' = IF e.revision > cursor /\ Watched(e)
                          THEN [key |-> KeyOf(e), revision |-> e.revision, row |-> row]
                          ELSE None
    BY DEF Respond
<1>1. PICK row \in Answers(e) :
          /\ batch' = batch \ {e}
          /\ cursor' = IF e.revision > cursor THEN e.revision ELSE cursor
          /\ pending' = IF e.revision > cursor /\ Watched(e)
                        THEN [key |-> KeyOf(e), revision |-> e.revision, row |-> row]
                        ELSE None
    BY <1>0
<1>2. /\ stream = "open" /\ pending = None
      /\ UNCHANGED <<outbox, events, rows, seen, cache, gap>>
    BY DEF Respond, TaskUnchanged, logVars, clientVars
<1>3. cursor \in Nat /\ seen \in Nat /\ seen <= cursor /\ e.revision \in Nat
    BY <1>2 DEF StreamInv, RegistryOK, StreamOK, EventOK
<1>4. OnTheWay = outbox /\ batch' \subseteq events \cup batch
    BY <1>1, <1>2 DEF OnTheWay
<1>5. CASE e.revision > cursor /\ Watched(e)
    <2>1. PICK k : k = KeyOf(e)
        OBVIOUS
    <2>2. k \in Keys /\ row \in Nat \cup {None} \cup StaleAnswers
        BY <1>5, <2>1 DEF StreamInv, RegistryOK, EventOK, Watched, Answers, CurrentRow, Row
    <2>3. PICK r \in Response : r = [key |-> k, revision |-> e.revision, row |-> row]
        BY <1>3, <2>2, Zenon DEF Response
    <2>4. /\ pending' = r /\ r # None /\ cursor' = e.revision
          /\ r.revision = e.revision /\ r.key = k /\ r.row = row
        BY <1>1, <1>5, <2>1, <2>3, ResponseAssumption
    <2>5. OnTheWay' = Append(OnTheWay, r)
        BY <1>2, <1>4, <2>4 DEF OnTheWay
    <2>6. ASSUME ~gap, k \in WatchedKeys
          PROVE  ToCome(k, e.revision) \/ Agrees(k, row)
        <3>1. CASE row = CurrentRow(e) /\ k \in DOMAIN rows /\ rows[k].live /\ e.kind = "InstanceDeregistered"
            <4>1. /\ e.kind \in InstanceKinds /\ e.revision < rows[k].revision /\ rows[k].revision \in Nat
                BY <1>5, <2>1, <3>1 DEF FollowInv, RowIsNewest, Watched, StreamInv, RegistryOK, Row
            <4>2. seen < rows[k].revision
                BY <1>3, <1>5, <4>1
            <4> QED BY <2>6, <3>1, <4>1, <4>2 DEF FollowInv, RowIsTold, ToCome
        <3>2. CASE row = CurrentRow(e) /\ ~(k \in DOMAIN rows /\ rows[k].live /\ e.kind = "InstanceDeregistered")
            BY <2>1, <3>2 DEF Agrees, CurrentRow
        <3>3. CASE row \in StaleAnswers /\ e.kind # "InstanceDeregistered"
            <4>1. seen < e.revision
                BY <1>3, <1>5
            <4>2. k \in DOMAIN rows \/ ToCome(k, e.revision)
                BY <1>5, <2>1, <2>6, <3>3, <4>1 DEF FollowInv, GoneIsTold
            <4> QED BY <3>3, <4>2 DEF Agrees
        <3> QED BY <3>1, <3>2, <3>3 DEF Answers
    <2> QED BY <1>2, <1>3, <1>4, <1>5, <2>4, <2>5, <2>6, OneMoreFollows
<1>6. CASE ~(e.revision > cursor /\ Watched(e))
    <2>1. OnTheWay' = OnTheWay
        BY <1>1, <1>2, <1>6 DEF OnTheWay
    <2> QED BY <1>2, <1>4, <2>1, QuietFollows
<1> QED BY <1>5, <1>6

\* A heartbeat is of no row.
LEMMA HeartbeatFollows ==
    ASSUME StreamInv, FollowInv, Heartbeat
    PROVE  FollowInv'
<1>1. PICK r \in Response : r = [key |-> None, revision |-> cursor, row |-> None]
    BY Zenon DEF StreamInv, StreamOK, Response
<1>2. /\ stream = "open" /\ pending = None /\ outbox' = Append(outbox, r)
      /\ UNCHANGED <<cursor, batch, pending, events, rows, seen, cache, gap>>
      /\ r.key = None /\ r.revision = cursor
    BY <1>1 DEF Heartbeat, Selecting, TaskUnchanged, logVars, clientVars
<1>3. OnTheWay' = Append(OnTheWay, r)
    BY <1>2 DEF OnTheWay
<1>4. cursor \in Nat /\ r.key \notin WatchedKeys
    BY <1>2, ResponseAssumption DEF StreamInv, StreamOK, WatchedKeys
<1> QED BY <1>2, <1>3, <1>4, OneMoreFollows

\* The client takes the first response.
LEMMA ReceiveFollows ==
    ASSUME StreamInv, FollowInv, Receive
    PROVE  FollowInv'
<1>1. /\ outbox # << >> /\ seen' = Head(outbox).revision /\ outbox' = Tail(outbox)
      /\ UNCHANGED <<batch, pending, events, rows, gap>>
    BY DEF Receive, logVars
<1>2. outbox \in Seq(Response) /\ pending \in Response \cup {None}
    BY DEF StreamInv, StreamOK
<1>3. PICK m \in Nat \ {0} :
          /\ DOMAIN OnTheWay = 1 .. m /\ DOMAIN OnTheWay' = 1 .. m - 1
          /\ OnTheWay[1] = Head(outbox)
          /\ \A i \in 1 .. m - 1 : OnTheWay'[i] = OnTheWay[i + 1]
    BY FirstTaken
<1>4. PICK r : r = Head(outbox)
    OBVIOUS
<1>5. r \in Response /\ seen' = r.revision /\ r = OnTheWay[1] /\ 1 \in DOMAIN OnTheWay
    BY <1>1, <1>3, <1>4, OnTheWayTyped
<1>6. /\ seen \in Nat /\ seen' \in Nat /\ seen <= seen'
      /\ \A e \in events : e.revision \in Nat
      /\ \A i \in 1 .. m : OnTheWay[i].revision \in Nat
    BY <1>3, <1>5, OnTheWayTyped DEF FollowInv, AllInOrder, StreamInv, StreamOK, RegistryOK, EventOK, Response
<1>7. AllInOrder'
    <2> SUFFICES ASSUME NEW i \in 1 .. m - 1
                 PROVE  /\ seen' <= OnTheWay'[i].revision
                        /\ OnTheWay'[i].key # None => seen' < OnTheWay'[i].revision
                        /\ \A j \in 1 .. m - 1 :
                             j < i => /\ OnTheWay'[j].revision <= OnTheWay'[i].revision
                                      /\ OnTheWay'[i].key # None
                                           => OnTheWay'[j].revision < OnTheWay'[i].revision
        BY <1>3 DEF AllInOrder
    <2>1. i + 1 \in DOMAIN OnTheWay /\ 1 < i + 1 /\ OnTheWay'[i] = OnTheWay[i + 1]
        BY <1>3
    <2>2. ASSUME NEW j \in 1 .. m - 1, j < i
          PROVE  /\ OnTheWay'[j].revision <= OnTheWay'[i].revision
                 /\ OnTheWay'[i].key # None => OnTheWay'[j].revision < OnTheWay'[i].revision
        <3>1. j + 1 \in DOMAIN OnTheWay /\ j + 1 < i + 1 /\ OnTheWay'[j] = OnTheWay[j + 1]
            BY <1>3, <2>2
        <3> QED BY <2>1, <3>1 DEF FollowInv, AllInOrder
    <2>3. seen' <= OnTheWay'[i].revision /\ (OnTheWay'[i].key # None => seen' < OnTheWay'[i].revision)
        BY <1>5, <2>1 DEF FollowInv, AllInOrder
    <2> QED BY <2>2, <2>3
<1>8. RowIsNewest'
    BY <1>1 DEF FollowInv, RowIsNewest
<1>9. RowIsTold'
    <2> SUFFICES ASSUME ~gap, NEW k \in WatchedKeys \cap DOMAIN rows, seen' < rows[k].revision
                 PROVE  \E e \in events : Watched(e) /\ KeyOf(e) = k /\ e.revision = rows[k].revision
        BY <1>1 DEF RowIsTold, Watched
    <2>1. rows[k].revision \in Nat
        BY DEF StreamInv, RegistryOK, Row
    <2>2. seen < rows[k].revision
        BY <1>6, <2>1
    <2> QED BY <2>2 DEF FollowInv, RowIsTold
<1>10. ASSUME NEW k \in WatchedKeys, k # r.key, ToCome(k, seen)
       PROVE  ToCome(k, seen)'
    <2>1. PICK e \in events : Watched(e) /\ KeyOf(e) = k /\ seen < e.revision
        BY <1>10 DEF ToCome
    <2>2. e.revision \in Nat
        BY <1>6
    <2>3. ~(e.revision <= seen')
        <3> SUFFICES ASSUME e.revision <= seen' PROVE FALSE
            OBVIOUS
        <3>1. seen' <= cursor /\ cursor \in Nat /\ stream \in {"open", "ended"}
            BY <1>1, <1>5 DEF StreamInv, DeliveryInOrder, StreamOK
        <3>2. PICK i \in DOMAIN OnTheWay : OnTheWay[i].key = k /\ OnTheWay[i].revision = e.revision
            BY <1>6, <2>1, <2>2, <3>1 DEF StreamInv, NothingSkipped
        <3>3. k # None /\ i # 1
            BY <1>5, <1>10, <3>2, ResponseAssumption DEF WatchedKeys
        <3>4. 1 < i
            BY <1>3, <3>2, <3>3
        <3>5. seen' < e.revision
            BY <1>5, <3>2, <3>3, <3>4 DEF FollowInv, AllInOrder
        <3> QED BY <1>6, <2>2, <3>5
    <2>4. seen' < e.revision
        BY <1>6, <2>2, <2>3
    <2> QED BY <1>1, <2>1, <2>4 DEF ToCome, Watched
<1>11. CacheFollows'
    <2> SUFFICES ASSUME ~gap, NEW k \in WatchedKeys
                 PROVE  ToCome(k, seen)' \/ Agrees(k, Held(k))'
        BY <1>1 DEF CacheFollows, WatchedKeys
    <2>1. k # None
        BY ResponseAssumption DEF WatchedKeys
    <2>2. cache' = IF r.key = None THEN cache
                   ELSE IF r.row = None THEN [j \in DOMAIN cache \ {r.key} |-> cache[j]]
                   ELSE [j \in DOMAIN cache \cup {r.key} |->
                           IF j = r.key THEN r.row ELSE cache[j]]
        BY <1>4 DEF Receive
    <2>3. CASE k = r.key
        <3>1. Held(k)' = r.row
            BY <2>1, <2>2, <2>3 DEF Held
        <3>2. ToCome(k, r.revision) \/ Agrees(k, r.row)
            BY <1>5, <2>3 DEF FollowInv, ResponsesFollow
        <3>3. ToCome(k, r.revision) => ToCome(k, seen)'
            BY <1>1, <1>5 DEF ToCome, Watched
        <3>4. Agrees(k, r.row) => Agrees(k, Held(k))'
            BY <1>1, <3>1 DEF Agrees
        <3> QED BY <3>2, <3>3, <3>4
    <2>4. CASE k # r.key
        <3>1. PICK v : v = Held(k)
            OBVIOUS
        <3>2. Held(k)' = v
            BY <2>2, <2>4, <3>1 DEF Held
        <3>3. ToCome(k, seen) \/ Agrees(k, v)
            BY <3>1 DEF FollowInv, CacheFollows
        <3>4. Agrees(k, v) => Agrees(k, Held(k))'
            BY <1>1, <3>2 DEF Agrees
        <3> QED BY <1>10, <2>4, <3>3, <3>4
    <2> QED BY <2>3, <2>4
<1>12. ResponsesFollow'
    <2> SUFFICES ASSUME ~gap, NEW i \in 1 .. m - 1, NEW q, q = OnTheWay'[i], q.key \in WatchedKeys
                 PROVE  ToCome(q.key, q.revision)' \/ Agrees(q.key, q.row)'
        BY <1>1, <1>3 DEF ResponsesFollow
    <2>1. i + 1 \in DOMAIN OnTheWay /\ q = OnTheWay[i + 1]
        BY <1>3
    <2>2. ToCome(q.key, q.revision) \/ Agrees(q.key, q.row)
        BY <2>1 DEF FollowInv, ResponsesFollow
    <2> QED BY <1>1, <2>2 DEF ToCome, Agrees, Watched
<1>13. GoneIsTold'
    <2> SUFFICES ASSUME ~gap, NEW e \in events \cup batch, Watched(e), e.kind # "InstanceDeregistered",
                        seen' < e.revision
                 PROVE  KeyOf(e) \in DOMAIN rows \/ ToCome(KeyOf(e), e.revision)
        BY <1>1 DEF GoneIsTold, Watched, ToCome
    <2>1. e.revision \in Nat
        BY DEF StreamInv, RegistryOK, EventOK
    <2>2. seen < e.revision
        BY <1>6, <2>1
    <2> QED BY <2>2 DEF FollowInv, GoneIsTold
<1> QED BY <1>7, <1>8, <1>9, <1>11, <1>12, <1>13 DEF FollowInv

\* Without the stream the client holds what it held.
LEMMA GoneFollows ==
    ASSUME StreamInv, FollowInv, StreamGone
    PROVE  FollowInv'
<1>1. /\ batch' = {} /\ pending' = None /\ outbox' = << >>
      /\ UNCHANGED <<events, rows, seen, cache, gap>>
    BY DEF StreamGone, TaskUnchanged, logVars, clientVars
<1>2. OnTheWay' = << >> /\ DOMAIN << >> = {}
    BY <1>1 DEF OnTheWay
<1>3. AllInOrder' /\ ResponsesFollow'
    BY <1>2 DEF AllInOrder, ResponsesFollow
<1>4. RowIsNewest' /\ RowIsTold' /\ GoneIsTold'
    BY <1>1 DEF FollowInv, RowIsNewest, RowIsTold, GoneIsTold, ToCome, Watched
<1>5. CacheFollows'
    BY <1>1 DEF FollowInv, CacheFollows, Held, Agrees, ToCome, Watched
<1> QED BY <1>3, <1>4, <1>5 DEF FollowInv

-----------------------------------------------------------------------------
(* Types and limits. *)

\* The rest of the state, which order and agreement do not rest on.
RestOK ==
    /\ nextSequence \in Nat
    /\ events \in SUBSET DiscoveryEvent /\ batch \in SUBSET DiscoveryEvent
    /\ live \in Seq(DiscoveryEvent) /\ Len(live) <= Capacity
    /\ lagged \in BOOLEAN
    /\ Len(outbox) <= BufferSize
    /\ cache \in [DOMAIN cache -> Nat \cup StaleAnswers]
    /\ gap \in BOOLEAN

\* publish_events_for_revision finds an event for each revision of a change.
LEMMA ChangeTells ==
    ASSUME StreamInv, RestOK, RegistryChange
    PROVE  /\ events' \in SUBSET DiscoveryEvent
           /\ revision' \in Nat /\ revision <= revision'
           /\ \A i \in 1 .. revision' - revision : \E e \in events' : e.revision = revision + i
<1> USE DEF next_revision
<1>1. /\ revision \in Nat /\ IsFiniteSet(DOMAIN rows) /\ DOMAIN rows \subseteq Keys
      /\ events \in SUBSET DiscoveryEvent
    BY DEF StreamInv, RegistryOK, RestOK
<1>2. \A k \in Keys, kind \in InstanceKinds, n \in Nat : InstanceEvent(k, kind, n) \in DiscoveryEvent
    BY KeysAssumption DEF InstanceEvent, DiscoveryEvent
<1>3. ASSUME NEW k \in Keys, NEW alive \in BOOLEAN, NEW kind \in InstanceKinds, Upsert(k, kind, alive)
      PROVE  /\ events' \in SUBSET DiscoveryEvent
             /\ revision' \in Nat /\ revision <= revision'
             /\ \A i \in 1 .. revision' - revision : \E e \in events' : e.revision = revision + i
    <2>1. PICK e \in DiscoveryEvent : e = InstanceEvent(k, kind, revision + 1)
        BY <1>1, <1>2
    <2>2. e.revision = revision + 1
        BY <2>1 DEF InstanceEvent
    <2>3. revision' = revision + 1 /\ events' = events \cup {e}
        BY <1>3, <2>1 DEF Upsert
    <2>4. \A i \in 1 .. revision' - revision : i = 1
        BY <1>1, <2>3
    <2> QED BY <1>1, <2>2, <2>3, <2>4
<1>4. ASSUME NEW S \in SUBSET DOMAIN rows, NEW last, last = revision + Cardinality(S),
             NEW revisionOf \in [S -> revision + 1 .. last], Remove(S, revisionOf, last)
      PROVE  /\ events' \in SUBSET DiscoveryEvent
             /\ revision' \in Nat /\ revision <= revision'
             /\ \A i \in 1 .. revision' - revision : \E e \in events' : e.revision = revision + i
    <2>1. IsFiniteSet(S) /\ Cardinality(S) \in Nat
        BY <1>1, FS_Subset, FS_CardinalityType
    <2>2. last \in Nat /\ revision' = last /\ revision <= last
        BY <1>1, <1>4, <2>1 DEF Remove
    <2>3. events' = events \cup {InstanceEvent(k, "InstanceDeregistered", revisionOf[k]) : k \in S}
        BY <1>4 DEF Remove
    <2>4. \A k \in S : revisionOf[k] \in Nat /\ k \in Keys
        BY <1>1, <2>2
    <2>5. events' \in SUBSET DiscoveryEvent
        <3>1. "InstanceDeregistered" \in InstanceKinds
            BY DEF InstanceKinds
        <3> QED BY <1>1, <1>2, <2>3, <2>4, <3>1
    <2>6. PICK R : R = revision + 1 .. last
        OBVIOUS
    <2>7. IsFiniteSet(R) /\ Cardinality(R) = Cardinality(S)
        <3>1. IsFiniteSet(R) /\ Cardinality(R) = IF revision + 1 > last THEN 0 ELSE last - (revision + 1) + 1
            BY <1>1, <2>2, <2>6, FS_Interval
        <3> QED BY <1>1, <1>4, <2>1, <3>1
    <2>8. revisionOf \in Injection(S, R)
        <3>1. revisionOf \in [S -> R] /\ \A j, k \in S : revisionOf[j] = revisionOf[k] => j = k
            BY <1>4, <2>6 DEF Remove
        <3> QED BY <3>1 DEF Injection, IsInjective
    <2>9. revisionOf \in Surjection(S, R)
        BY <2>7, <2>8, FS_Injection
    <2>10. ASSUME NEW i \in 1 .. revision' - revision PROVE \E e \in events' : e.revision = revision + i
        <3>1. revision + i \in R
            BY <1>1, <2>2, <2>6
        <3>2. PICK k \in S : revisionOf[k] = revision + i
            BY <2>9, <3>1, Zenon DEF Surjection
        <3>3. InstanceEvent(k, "InstanceDeregistered", revisionOf[k]) \in events'
            BY <2>3
        <3>4. InstanceEvent(k, "InstanceDeregistered", revisionOf[k]).revision = revision + i
            BY <3>2 DEF InstanceEvent
        <3> QED BY <3>3, <3>4
    <2> QED BY <2>2, <2>5, <2>10
<1>5. ASSUME NEW service \in {None, WatchedService}, OtherChange({ConfigEvent(service)})
      PROVE  /\ events' \in SUBSET DiscoveryEvent
             /\ revision' \in Nat /\ revision <= revision'
             /\ \A i \in 1 .. revision' - revision : \E e \in events' : e.revision = revision + i
    <2>1. PICK e \in DiscoveryEvent : e = ConfigEvent(service)
        <3>1. /\ revision + 1 \in Nat /\ WatchScope \in Scopes /\ service \in Services \cup {None}
              /\ "ConfigPublished" \in InstanceKinds \cup ConfigKinds
            BY <1>1, WatchAssumption DEF ConfigKinds
        <3>2. ConfigEvent(service) \in DiscoveryEvent
            BY <3>1 DEF ConfigEvent, DiscoveryEvent
        <3> QED BY <3>2
    <2>2. e.revision = revision + 1
        BY <2>1 DEF ConfigEvent
    <2>3. revision' = revision + 1 /\ events' = events \cup {e}
        BY <1>5, <2>1 DEF OtherChange
    <2>4. \A i \in 1 .. revision' - revision : i = 1
        BY <1>1, <2>3
    <2> QED BY <1>1, <2>2, <2>3, <2>4
<1>6. CASE \E k \in Keys, alive \in BOOLEAN :
              Upsert(k, IF k \in DOMAIN rows THEN "InstanceUpdated" ELSE "InstanceRegistered", alive)
    BY <1>3, <1>6 DEF InstanceKinds
<1>7. CASE \E S \in SUBSET DOMAIN rows \ {{}} :
              LET last == revision + Cardinality(S)
              IN  \E revisionOf \in [S -> revision + 1 .. last] : Remove(S, revisionOf, last)
    BY <1>4, <1>7
<1> QED BY <1>5, <1>6, <1>7 DEF RegistryChange

\* The broadcast channel never holds more than its capacity.
LEMMA BroadcastBounded ==
    ASSUME StreamInv, RestOK, RegistryChange, Broadcast
    PROVE  live' \in Seq(DiscoveryEvent) /\ Len(live') <= Capacity /\ lagged' \in BOOLEAN
<1>1. PICK n \in Nat : n = revision' - revision
    BY ChangeTells DEF StreamInv, RegistryOK
<1>2. Fresh \in Seq(DiscoveryEvent) /\ Len(Fresh) = n
    <2>1. Fresh = [i \in 1 .. n |-> CHOOSE e \in events' : e.revision = revision + i]
        BY <1>1 DEF Fresh
    <2>2. \A i \in 1 .. n : (CHOOSE e \in events' : e.revision = revision + i) \in DiscoveryEvent
        BY <1>1, ChangeTells
    <2>3. Fresh \in [1 .. n -> DiscoveryEvent]
        BY <2>1, <2>2
    <2> QED BY <2>3
<1>3. PICK all : all = live \o Fresh
    BY Zenon
<1>4. all \in Seq(DiscoveryEvent) /\ Len(all) \in Nat
    BY <1>2, <1>3, ConcatProperties, LenProperties DEF RestOK
<1>5. PICK over : over = Len(all) - Capacity
    OBVIOUS
<1>6. /\ live' = IF over > 0 THEN SubSeq(all, over + 1, Len(all)) ELSE all
      /\ lagged' = (lagged \/ over > 0)
    BY <1>3, <1>5 DEF Broadcast
<1>7. CASE over > 0
    <2>1. over + 1 \in 1 .. Len(all) + 1 /\ Len(all) \in over .. Len(all) /\ Capacity \in Nat
        BY <1>4, <1>5, <1>7, WatchAssumption
    <2>2. /\ SubSeq(all, over + 1, Len(all)) \in Seq(DiscoveryEvent)
          /\ Len(SubSeq(all, over + 1, Len(all))) = Len(all) - (over + 1) + 1
        BY <1>4, <2>1, SubSeqProperties
    <2>3. Len(all) - (over + 1) + 1 = Capacity
        BY <1>4, <1>5, <2>1
    <2> QED BY <1>6, <1>7, <2>1, <2>2, <2>3
<1>8. CASE ~(over > 0)
    BY <1>4, <1>5, <1>6, <1>8, WatchAssumption DEF RestOK
<1> QED BY <1>7, <1>8

\* Every step keeps the types, the channel within its capacity and the buffer within
\* its size.
LEMMA RestPreserved ==
    ASSUME StreamInv, RestOK, [WatchNext]_watchVars
    PROVE  RestOK'
<1>1. CASE UNCHANGED watchVars
    BY <1>1 DEF watchVars, logVars, streamVars, clientVars, RestOK
<1>2. CASE Change
    <2>1. RegistryChange /\ UNCHANGED <<nextSequence, batch, outbox, cache, gap>>
        BY <1>2 DEF Change, clientVars
    <2>2. events' \in SUBSET DiscoveryEvent
        BY <2>1, ChangeTells
    <2>3. live' \in Seq(DiscoveryEvent) /\ Len(live') <= Capacity /\ lagged' \in BOOLEAN
        <3>1. Broadcast \/ UNCHANGED <<live, lagged>>
            BY <1>2 DEF Change
        <3>2. CASE Broadcast
            BY <2>1, <3>2, BroadcastBounded
        <3>3. CASE UNCHANGED <<live, lagged>>
            BY <3>3 DEF RestOK
        <3> QED BY <3>1, <3>2, <3>3
    <2> QED BY <2>1, <2>2, <2>3 DEF RestOK
<1>3. CASE TimePasses
    BY <1>3 DEF TimePasses, Lapse, streamVars, clientVars, RestOK
<1>4. CASE CollectEvents
    <2>1. events' \subseteq events /\ UNCHANGED <<nextSequence, batch, live, lagged, outbox, cache>>
        BY <1>4 DEF CollectEvents, gc_watch_events, streamVars, clientVars
    <2>2. gap' \in BOOLEAN
        BY <1>4 DEF CollectEvents
    <2> QED BY <2>1, <2>2 DEF RestOK
<1>5. CASE Replay \/ Wake \/ Poll
    <2>1. watch_events(Query(cursor)) \subseteq events
        BY DEF watch_events, Oldest
    <2>2. /\ batch' \subseteq events
          /\ UNCHANGED <<nextSequence, events, lagged, outbox, cache, gap>>
        BY <1>5, <2>1 DEF Replay, Wake, Poll, TaskUnchanged, logVars, clientVars
    <2>3. live' \in Seq(DiscoveryEvent) /\ Len(live') <= Capacity
        <3>1. CASE live' = live
            BY <3>1 DEF RestOK
        <3>2. CASE live # << >> /\ live' = Tail(live)
            <4>1. live' \in Seq(DiscoveryEvent) /\ Len(live') = Len(live) - 1
                BY <3>2, HeadTailProperties DEF RestOK
            <4>2. Len(live) \in Nat
                BY LenProperties DEF RestOK
            <4> QED BY <4>1, <4>2, WatchAssumption DEF RestOK
        <3>3. live' = live \/ (live # << >> /\ live' = Tail(live))
            BY <1>5 DEF Replay, Wake, Poll
        <3> QED BY <3>1, <3>2, <3>3
    <2> QED BY <2>2, <2>3 DEF RestOK
<1>6. CASE Respond
    <2>1. batch' \subseteq batch /\ UNCHANGED <<nextSequence, events, live, lagged, outbox, cache, gap>>
        BY <1>6 DEF Respond, TaskUnchanged, logVars, clientVars
    <2> QED BY <2>1 DEF RestOK
<1>7. ASSUME NEW r \in Response, outbox' = Append(outbox, r), Len(outbox) < BufferSize,
             UNCHANGED <<nextSequence, events, batch, live, lagged, cache, gap>>
      PROVE  RestOK'
    <2>1. outbox \in Seq(Response) /\ Len(outbox) \in Nat
        BY LenProperties DEF StreamInv, StreamOK
    <2>2. Len(outbox') = Len(outbox) + 1
        BY <1>7, <2>1, AppendProperties
    <2>3. Len(outbox') <= BufferSize
        BY <1>7, <2>1, <2>2, WatchAssumption
    <2> QED BY <1>7, <2>3 DEF RestOK
<1>8. CASE Send
    <2>1. pending \in Response
        BY <1>8 DEF Send, StreamInv, StreamOK
    <2>2. UNCHANGED <<nextSequence, events, batch, live, lagged, cache, gap>>
        BY <1>8 DEF Send, TaskUnchanged, logVars, clientVars
    <2> QED BY <1>7, <1>8, <2>1, <2>2 DEF Send
<1>9. CASE Heartbeat
    <2>1. PICK r \in Response : r = [key |-> None, revision |-> cursor, row |-> None]
        BY Zenon DEF StreamInv, StreamOK, Response
    <2>2. UNCHANGED <<nextSequence, events, batch, live, lagged, cache, gap>>
        BY <1>9 DEF Heartbeat, TaskUnchanged, logVars, clientVars
    <2> QED BY <1>7, <1>9, <2>1, <2>2 DEF Heartbeat
<1>10. CASE EndLagged \/ Open
    BY <1>10 DEF EndLagged, Open, TaskUnchanged, logVars, clientVars, RestOK
<1>11. CASE Receive
    <2>1. outbox # << >> /\ outbox' = Tail(outbox) /\ UNCHANGED <<nextSequence, events, batch, live, lagged, gap>>
        BY <1>11 DEF Receive, logVars
    <2>2. outbox \in Seq(Response) /\ Len(outbox) \in Nat /\ Len(outbox') = Len(outbox) - 1
        BY <2>1, HeadTailProperties, LenProperties DEF StreamInv, StreamOK
    <2>3. PICK r \in Response : r = Head(outbox)
        BY <2>1, <2>2, HeadTailProperties
    <2>4. cache' \in [DOMAIN cache' -> Nat \cup StaleAnswers]
        <3>1. cache' = IF r.key = None THEN cache
                       ELSE IF r.row = None THEN [k \in DOMAIN cache \ {r.key} |-> cache[k]]
                       ELSE [k \in DOMAIN cache \cup {r.key} |->
                               IF k = r.key THEN r.row ELSE cache[k]]
            BY <1>11, <2>3 DEF Receive
        <3>2. r.row # None => r.row \in Nat \cup StaleAnswers
            BY DEF Response
        <3> QED BY <3>1, <3>2 DEF RestOK
    <2>5. Len(outbox') <= BufferSize
        BY <2>2, WatchAssumption DEF RestOK
    <2> QED BY <2>1, <2>4, <2>5 DEF RestOK
<1>12. CASE Finish \/ Fault
    <2>1. /\ batch' = {} /\ live' = << >> /\ lagged' = FALSE /\ outbox' = << >>
          /\ UNCHANGED <<nextSequence, events, cache, gap>>
        BY <1>12 DEF Finish, Fault, StreamGone, TaskUnchanged, logVars, clientVars
    <2>2. << >> \in Seq(DiscoveryEvent) /\ Len(<< >>) = 0
        OBVIOUS
    <2>3. 0 <= Capacity /\ 0 <= BufferSize
        BY WatchAssumption
    <2> QED BY <2>1, <2>2, <2>3, Zenon DEF RestOK
<1> QED BY <1>1, <1>2, <1>3, <1>4, <1>5, <1>6, <1>8, <1>9, <1>10, <1>11, <1>12
        DEF WatchNext, StreamStep, ClientStep

-----------------------------------------------------------------------------
(* The theorems on what the client holds. *)

\* The stream's state keeps its types, the broadcast its capacity and the buffer to the
\* client its size: publish_events_for_revision finds an event for each revision.
THEOREM WatchTypeCorrect == WatchSpec => []WatchTypeOK
<1>1. WatchInit => RestOK
    <2> SUFFICES ASSUME WatchInit PROVE RestOK
        OBVIOUS
    <2>1. /\ nextSequence = 0 /\ events = {} /\ batch = {} /\ live = << >> /\ lagged = FALSE
          /\ outbox = << >> /\ cache = << >> /\ gap = FALSE
        BY DEF WatchInit, PromiseInit
    <2>2. << >> \in Seq(DiscoveryEvent) /\ Len(<< >>) = 0
        OBVIOUS
    <2>3. 0 <= Capacity /\ 0 <= BufferSize
        BY WatchAssumption
    <2>4. cache \in [DOMAIN cache -> Nat \cup StaleAnswers]
        BY <2>1
    <2> QED BY <2>1, <2>2, <2>3, <2>4, Zenon DEF RestOK
<1>2. StreamInv /\ RestOK /\ [WatchNext]_watchVars => RestOK'
    BY RestPreserved
<1>3. StreamInv /\ RestOK => WatchTypeOK
    BY DEF StreamInv, RegistryOK, StreamOK, RestOK, WatchTypeOK, LogTypeOK
<1> QED BY <1>1, <1>2, <1>3, StreamInvariance, PTL DEF WatchSpec

\* The inductive invariant of the log, the rows, what is on its way and the cache:
\* whatever the client holds of a row is the row, or came of a stale read, or an event
\* that is still in the log will tell it otherwise, unless the collector was ahead of the
\* client; and what a stale read says of a row that is gone is followed by its removal.
THEOREM FollowInvariance == WatchSpec => [](StreamInv /\ FollowInv)
<1>1. WatchInit => FollowInv
    <2> SUFFICES ASSUME WatchInit PROVE FollowInv
        OBVIOUS
    <2>1. /\ DOMAIN rows = {} /\ DOMAIN OnTheWay = {} /\ DOMAIN cache = {}
          /\ events = {} /\ batch = {}
        BY DEF WatchInit, PromiseInit, OnTheWay
    <2> QED BY <2>1 DEF FollowInv, AllInOrder, RowIsNewest, RowIsTold, GoneIsTold, CacheFollows,
                        ResponsesFollow, Agrees, Held
<1>2. StreamInv /\ FollowInv /\ [WatchNext]_watchVars => FollowInv'
    <2> SUFFICES ASSUME StreamInv, FollowInv, [WatchNext]_watchVars PROVE FollowInv'
        OBVIOUS
    <2>1. CASE UNCHANGED watchVars
        <3>1. OnTheWay' = OnTheWay
            BY <2>1 DEF watchVars, streamVars, OnTheWay
        <3> QED BY <2>1, <3>1, QuietFollows DEF watchVars, logVars, streamVars, clientVars
    <2>2. CASE Change
        BY <2>2, ChangeFollows
    <2>3. CASE TimePasses
        BY <2>3, TimeFollows
    <2>4. CASE CollectEvents
        BY <2>4, CollectFollows
    <2>5. CASE Replay \/ Wake \/ Poll
        <3>1. watch_events(Query(cursor)) \subseteq events
            BY DEF watch_events, Oldest
        <3>2. batch' \subseteq events /\ UNCHANGED <<pending, outbox, events, rows, seen, cache, gap>>
            BY <2>5, <3>1 DEF Replay, Wake, Poll, TaskUnchanged, logVars, clientVars
        <3> QED BY <3>2, QuietFollows DEF OnTheWay
    <2>6. CASE Respond
        BY <2>6, RespondFollows
    <2>7. CASE Send
        <3>1. /\ pending # None /\ pending' = None /\ outbox' = Append(outbox, pending)
              /\ UNCHANGED <<batch, events, rows, seen, cache, gap>>
            BY <2>7 DEF Send, TaskUnchanged, logVars, clientVars
        <3>2. OnTheWay' = OnTheWay
            BY <3>1 DEF OnTheWay
        <3> QED BY <3>1, <3>2, QuietFollows
    <2>8. CASE Heartbeat
        BY <2>8, HeartbeatFollows
    <2>9. CASE EndLagged \/ Open
        <3>1. UNCHANGED <<batch, pending, outbox, events, rows, seen, cache, gap>>
            BY <2>9 DEF EndLagged, Open, TaskUnchanged, logVars, clientVars
        <3> QED BY <3>1, QuietFollows DEF OnTheWay
    <2>10. CASE Receive
        BY <2>10, ReceiveFollows
    <2>11. CASE Finish \/ Fault
        BY <2>11, GoneFollows DEF Finish, Fault
    <2> QED BY <2>1, <2>2, <2>3, <2>4, <2>5, <2>6, <2>7, <2>8, <2>9, <2>10, <2>11
            DEF WatchNext, StreamStep, ClientStep
<1> QED BY <1>1, <1>2, StreamInvariance, PTL DEF WatchSpec

\* A client that has received everything holds the registry's live rows, each at its
\* revision unless a stale read answered for it, and none that is gone, although service_watch_instance reads the row after
\* the event it answers, and whatever was broadcast, overrun, reconnected or trimmed;
\* provided no last event of a row was collected before the client saw it.
THEOREM CacheIsRight == WatchSpec => []CaughtUpAgrees
<1>1. StreamInv /\ FollowInv /\ WatchTypeOK => CaughtUpAgrees
    <2> SUFFICES ASSUME StreamInv, FollowInv, WatchTypeOK, CaughtUp, ~gap PROVE CacheAgrees
        BY DEF CaughtUpAgrees
    <2>1. stream = "open" /\ OnTheWay = << >> /\ DOMAIN OnTheWay = {}
        BY DEF CaughtUp, Selecting, OnTheWay
    <2>2. \A k : ~ToCome(k, seen)
        BY <2>1 DEF CaughtUp, StreamInv, NothingSkipped, ToCome
    <2> SUFFICES ASSUME NEW k \in WatchedKeys
                 PROVE  /\ k \in DOMAIN rows /\ rows[k].live
                             => k \in DOMAIN cache /\ cache[k] \in {rows[k].revision} \cup StaleAnswers
                        /\ k \in DOMAIN cache => k \in DOMAIN rows
        BY DEF CacheAgrees
    <2>3. Agrees(k, Held(k))
        BY <2>2 DEF FollowInv, CacheFollows
    <2>4. k \in DOMAIN rows => rows[k].revision # None
        BY NoneAssumption DEF StreamInv, RegistryOK, Row
    <2>5. k \in DOMAIN cache => cache[k] # None
        BY NoneAssumption, WatchAssumption DEF WatchTypeOK, StaleAnswers
    <2>6. None \notin StaleAnswers
        BY WatchAssumption DEF StaleAnswers
    <2> QED BY <2>3, <2>4, <2>5, <2>6 DEF Agrees, Held
<1> QED BY <1>1, FollowInvariance, WatchTypeCorrect, PTL
=============================================================================
