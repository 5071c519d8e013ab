------------------------- MODULE WatchStreamProofs -------------------------
(***************************************************************************)
(* Proofs about the watch stream: what is on its way to the client is in   *)
(* order and complete, for every registry, batch size, channel capacity    *)
(* and buffer, and whatever the collector drops.                           *)
(***************************************************************************)
EXTENDS WatchStream, FiniteSetTheorems, SequenceTheorems, TLAPS

\* An event of the log has a revision given out before, and a key if it is of a row.
EventOK(e) ==
    /\ e.revision \in Nat /\ e.revision <= revision
    /\ e.kind \in InstanceKinds => KeyOf(e) \in Keys

RegistryOK ==
    /\ revision \in Nat
    /\ IsFiniteSet(events)
    /\ IsFiniteSet(DOMAIN rows)
    /\ rows \in [DOMAIN rows -> Row] /\ DOMAIN rows \subseteq Keys
    /\ \A e \in events \cup batch : EventOK(e)
    /\ \A e, f \in events \cup batch : e.revision = f.revision => e = f

StreamOK ==
    /\ cursor \in Nat /\ seen \in Nat
    /\ outbox \in Seq(Response)
    /\ pending \in Response \cup {None}
    /\ seen <= revision
    /\ stream # "closed" => seen <= cursor /\ cursor <= revision
    /\ stream = "opening" => cursor = seen
    /\ stream \in {"closed", "opening"} => batch = {} /\ pending = None /\ outbox = << >>
    /\ stream \in {"closed", "opening", "open", "ended"}

\* What was read of the log has no hole: an event of the service between the cursor
\* and one that waits is waiting as well.
BatchIsPrefix ==
    \A e \in batch, f \in events :
        Watched(f) /\ cursor < f.revision /\ f.revision < e.revision => f \in batch

\* The inductive invariant.
StreamInv == RegistryOK /\ StreamOK /\ BatchIsPrefix /\ DeliveryInOrder /\ NothingSkipped

-----------------------------------------------------------------------------
(* The registry. *)

\* The responses on their way.
LEMMA OnTheWayTyped ==
    ASSUME StreamInv
    PROVE  /\ OnTheWay \in Seq(Response)
           /\ DOMAIN OnTheWay = 1 .. Len(OnTheWay) /\ Len(OnTheWay) \in Nat
           /\ \A i \in DOMAIN OnTheWay : OnTheWay[i] \in Response /\ OnTheWay[i].revision \in Nat
<1>1. outbox \in Seq(Response) /\ pending \in Response \cup {None}
    BY DEF StreamInv, StreamOK
<1>2. OnTheWay \in Seq(Response)
    BY <1>1, AppendProperties DEF OnTheWay
<1>3. DOMAIN OnTheWay = 1 .. Len(OnTheWay) /\ Len(OnTheWay) \in Nat
    BY <1>2, LenProperties
<1>4. \A i \in DOMAIN OnTheWay : OnTheWay[i] \in Response
    BY <1>2, <1>3, ElementOfSeq
<1> QED BY <1>2, <1>3, <1>4 DEF Response

\* New events are newer than the counter, and so than the cursor and all that was read.
LEMMA GrowthPreserves ==
    ASSUME StreamInv, NEW new, events' = events \cup new, IsFiniteSet(new),
           revision' \in Nat, revision' >= revision,
           \A e \in new : /\ e.revision \in Nat /\ e.revision > revision /\ e.revision <= revision'
                          /\ e.kind \in InstanceKinds => KeyOf(e) \in Keys,
           \A e, f \in new : e.revision = f.revision => e = f,
           IsFiniteSet(DOMAIN rows'), rows' \in [DOMAIN rows' -> Row], DOMAIN rows' \subseteq Keys,
           UNCHANGED <<stream, cursor, batch, pending, outbox, seen>>
    PROVE  StreamInv'
<1>1. /\ revision \in Nat /\ IsFiniteSet(events)
      /\ \A e \in events \cup batch : EventOK(e)
      /\ \A e, f \in events \cup batch : e.revision = f.revision => e = f
    BY DEF StreamInv, RegistryOK
<1>2. IsFiniteSet(events')
    BY <1>1, FS_Union, Zenon
<1>3. \A e \in events \cup batch : e.revision \in Nat /\ e.revision <= revision
    BY <1>1 DEF EventOK
<1>4. \A e \in events' \cup batch' : EventOK(e)'
    <2> SUFFICES ASSUME NEW e \in events' \cup batch' PROVE EventOK(e)'
        OBVIOUS
    <2>1. CASE e \in new
        BY <2>1 DEF EventOK
    <2>2. CASE e \in events \cup batch
        BY <1>1, <1>3, <2>2 DEF EventOK
    <2> QED BY <2>1, <2>2
<1>5. \A e, f \in events' \cup batch' : e.revision = f.revision => e = f
    <2> SUFFICES ASSUME NEW e \in events' \cup batch', NEW f \in events' \cup batch',
                        e.revision = f.revision
                 PROVE  e = f
        OBVIOUS
    <2>1. (e \in new \/ e \in events \cup batch) /\ (f \in new \/ f \in events \cup batch)
        OBVIOUS
    <2>2. CASE e \in new /\ f \in events \cup batch
        BY <1>1, <1>3, <2>2
    <2>3. CASE f \in new /\ e \in events \cup batch
        BY <1>1, <1>3, <2>3
    <2> QED BY <1>1, <2>1, <2>2, <2>3
<1>6. RegistryOK'
    BY <1>2, <1>4, <1>5 DEF RegistryOK
<1>7. StreamOK'
    BY <1>1 DEF StreamInv, StreamOK
<1>8. OnTheWay' = OnTheWay
    BY DEF OnTheWay
<1>9. BatchIsPrefix'
    BY <1>1, <1>3 DEF StreamInv, BatchIsPrefix, Watched
<1>10. DeliveryInOrder'
    BY <1>8 DEF StreamInv, DeliveryInOrder
<1>11. NothingSkipped'
    <2>1. cursor \in Nat /\ (stream \in {"open", "ended"} => cursor <= revision)
        BY DEF StreamInv, StreamOK
    <2>2. stream \in {"open", "ended"} => \A e \in new : ~(e.revision <= cursor)
        BY <1>1, <2>1
    <2> QED BY <1>8, <2>2 DEF StreamInv, NothingSkipped, Watched, KeyOf
<1> QED BY <1>6, <1>7, <1>9, <1>10, <1>11 DEF StreamInv

\* The registry's changes.
LEMMA ChangePreserves ==
    ASSUME StreamInv, Change
    PROVE  StreamInv'
<1> USE DEF next_revision
<1>1. /\ revision \in Nat /\ IsFiniteSet(DOMAIN rows)
      /\ rows \in [DOMAIN rows -> Row] /\ DOMAIN rows \subseteq Keys
    BY DEF StreamInv, RegistryOK
<1>2. UNCHANGED <<stream, cursor, batch, pending, outbox, seen>>
    BY DEF Change, clientVars
<1>3. ASSUME NEW k \in Keys, NEW alive \in BOOLEAN, NEW kind \in InstanceKinds, Upsert(k, kind, alive)
      PROVE  StreamInv'
    <2>1. PICK e : e = InstanceEvent(k, kind, revision + 1)
        OBVIOUS
    <2>2. e.revision = revision + 1 /\ KeyOf(e) \in Keys
        BY <2>1, KeysAssumption DEF InstanceEvent, KeyOf
    <2>3. revision' = revision + 1 /\ events' = events \cup {e}
        BY <1>3, <2>1 DEF Upsert
    <2>4. [revision |-> revision + 1, live |-> alive] \in Row
        BY <1>1 DEF Row
    <2>5. DOMAIN rows' = DOMAIN rows \cup {k} /\ rows' \in [DOMAIN rows' -> Row]
        BY <1>1, <1>3, <2>4 DEF Upsert
    <2>6. IsFiniteSet(DOMAIN rows') /\ IsFiniteSet({e})
        <3>1. IsFiniteSet({e})
            BY FS_Singleton, Zenon
        <3>2. IsFiniteSet(DOMAIN rows \cup {k})
            BY <1>1, FS_AddElement
        <3> QED BY <2>5, <3>1, <3>2
    <2>7. revision' \in Nat /\ revision' >= revision /\ e.revision \in Nat /\ e.revision > revision
        BY <1>1, <2>2, <2>3
    <2>8. DOMAIN rows' \subseteq Keys
        BY <1>1, <2>5
    <2>9. PICK new : new = {e}
        BY Zenon
    <2>10. \A g \in new :
              /\ g.revision \in Nat /\ g.revision > revision /\ g.revision <= revision'
              /\ g.kind \in InstanceKinds => KeyOf(g) \in Keys
        BY <1>1, <2>2, <2>3, <2>7, <2>9
    <2>11. events' = events \cup new /\ IsFiniteSet(new) /\ \A g, h \in new : g.revision = h.revision => g = h
        BY <2>3, <2>6, <2>9
    <2> QED BY <1>2, <2>5, <2>6, <2>7, <2>8, <2>10, <2>11, GrowthPreserves, Zenon
<1>4. ASSUME NEW S \in SUBSET DOMAIN rows, NEW last, last = revision + Cardinality(S),
             NEW revisionOf \in [S -> revision + 1 .. last], Remove(S, revisionOf, last)
      PROVE  StreamInv'
    <2>1. IsFiniteSet(S) /\ Cardinality(S) \in Nat
        BY <1>1, FS_Subset, FS_CardinalityType
    <2>2. last \in Nat /\ revision' = last /\ last >= revision
        BY <1>1, <1>4, <2>1 DEF Remove
    <2>3. PICK f : f = [k \in S |-> InstanceEvent(k, "InstanceDeregistered", revisionOf[k])]
        BY Zenon
    <2>4. PICK new : new = {f[k] : k \in S}
        BY Zenon
    <2>5. events' = events \cup new
        BY <1>4, <2>3, <2>4 DEF Remove
    <2>6. f \in Surjection(S, new)
        BY <2>3, <2>4 DEF Surjection
    <2>7. IsFiniteSet(new)
        BY <2>1, <2>6, FS_Surjection
    <2>8. \A k \in S : f[k].revision = revisionOf[k] /\ KeyOf(f[k]) \in Keys
        BY <1>1, <2>3, KeysAssumption DEF InstanceEvent, KeyOf
    <2>9. \A k \in S : /\ revisionOf[k] \in Nat
                       /\ revisionOf[k] > revision /\ revisionOf[k] <= last
        BY <1>1, <2>2
    <2>10. \A j, k \in S : revisionOf[j] = revisionOf[k] => j = k
        BY <1>4 DEF Remove
    <2>11. /\ \A e \in new : /\ e.revision \in Nat /\ e.revision > revision /\ e.revision <= revision'
                             /\ e.kind \in InstanceKinds => KeyOf(e) \in Keys
           /\ \A e, g \in new : e.revision = g.revision => e = g
        BY <2>2, <2>4, <2>8, <2>9, <2>10
    <2>12. DOMAIN rows' = DOMAIN rows \ S /\ rows' \in [DOMAIN rows' -> Row]
        BY <1>1, <1>4 DEF Remove
    <2>13. IsFiniteSet(DOMAIN rows')
        BY <1>1, <2>12, FS_Subset
    <2> QED BY <1>1, <1>2, <2>2, <2>5, <2>7, <2>11, <2>12, <2>13, GrowthPreserves, Zenon
<1>5. ASSUME NEW service, OtherChange({ConfigEvent(service)})
      PROVE  StreamInv'
    <2>1. PICK e : e = ConfigEvent(service)
        OBVIOUS
    <2>2. e.revision = revision + 1 /\ e.kind = "ConfigPublished"
        BY <2>1 DEF ConfigEvent
    <2>3. revision' = revision + 1 /\ events' = events \cup {e} /\ rows' = rows
        BY <1>5, <2>1 DEF OtherChange
    <2>4. IsFiniteSet({e}) /\ e.kind \notin InstanceKinds
        BY <2>2, FS_Singleton, Zenon DEF InstanceKinds
    <2> QED BY <1>1, <1>2, <2>2, <2>3, <2>4, GrowthPreserves
<1>6. RegistryChange
    BY DEF Change
<1>7. CASE \E k \in Keys, alive \in BOOLEAN :
              Upsert(k, IF k \in DOMAIN rows THEN "InstanceUpdated" ELSE "InstanceRegistered", alive)
    BY <1>3, <1>7 DEF InstanceKinds
<1>8. CASE \E S \in SUBSET DOMAIN rows \ {{}} :
              LET last == revision + Cardinality(S)
              IN  \E revisionOf \in [S -> revision + 1 .. last] : Remove(S, revisionOf, last)
    BY <1>4, <1>8
<1> QED BY <1>5, <1>6, <1>7, <1>8 DEF RegistryChange

\* Leases run out: the log and the stream see nothing of it.
LEMMA TimePreserves ==
    ASSUME StreamInv, TimePasses
    PROVE  StreamInv'
<1>1. PICK k \in DOMAIN rows : Lapse({k})
    BY DEF TimePasses
<1>2. /\ UNCHANGED <<revision, events, stream, cursor, batch, pending, outbox, seen>>
      /\ rows' = [j \in DOMAIN rows |->
                    IF j \in {k} THEN [revision |-> rows[j].revision, live |-> FALSE] ELSE rows[j]]
    BY <1>1 DEF TimePasses, Lapse, streamVars, clientVars
<1>3. DOMAIN rows' = DOMAIN rows /\ rows' \in [DOMAIN rows' -> Row]
    BY <1>2 DEF StreamInv, RegistryOK, Row
<1>4. RegistryOK'
    BY <1>2, <1>3 DEF StreamInv, RegistryOK, EventOK
<1>5. OnTheWay' = OnTheWay
    BY <1>2 DEF OnTheWay
<1> QED BY <1>2, <1>4, <1>5
        DEF StreamInv, StreamOK, BatchIsPrefix, DeliveryInOrder, NothingSkipped, Watched

\* The collector only drops events, so it makes no hole between what was read.
LEMMA CollectPreserves ==
    ASSUME StreamInv, CollectEvents
    PROVE  StreamInv'
<1>1. events' \subseteq events /\ UNCHANGED <<revision, rows, stream, cursor, batch, pending, outbox, seen>>
    BY DEF CollectEvents, gc_watch_events, streamVars, clientVars
<1>2. IsFiniteSet(events')
    BY <1>1, FS_Subset DEF StreamInv, RegistryOK
<1>3. RegistryOK'
    BY <1>1, <1>2 DEF StreamInv, RegistryOK, EventOK
<1>4. OnTheWay' = OnTheWay
    BY <1>1 DEF OnTheWay
<1> QED BY <1>1, <1>3, <1>4
        DEF StreamInv, StreamOK, BatchIsPrefix, DeliveryInOrder, NothingSkipped, Watched

-----------------------------------------------------------------------------
(* The stream. *)

\* watch_events returns a prefix of what matches, whatever the limit.
LEMMA ReadIsPrefix ==
    ASSUME StreamInv, NEW e \in watch_events(Query(cursor)), NEW f \in events,
           Watched(f), cursor < f.revision, f.revision < e.revision
    PROVE  f \in watch_events(Query(cursor))
<1> DEFINE M == {g \in events : matches_event(Query(cursor), g)}
           before(g) == {h \in M : h.revision < g.revision}
<1>1. watch_events(Query(cursor)) = {g \in M : Cardinality(before(g)) < ReplayBatch}
    BY DEF watch_events, Oldest, Query
<1>2. /\ \A g \in events : g.revision \in Nat
      /\ cursor \in Nat
    BY DEF StreamInv, RegistryOK, StreamOK, EventOK
<1>3. f \in M
    BY <1>2 DEF matches_event, Query, Watched
<1>4. before(f) \in SUBSET before(e) /\ before(e) \in SUBSET events /\ Cardinality(before(e)) < ReplayBatch
    BY <1>1, <1>2
<1> HIDE DEF before
<1>5. /\ Cardinality(before(f)) <= Cardinality(before(e))
      /\ Cardinality(before(f)) \in Nat /\ Cardinality(before(e)) \in Nat
    BY <1>4, FS_Subset, FS_CardinalityType DEF StreamInv, RegistryOK
<1> QED BY <1>1, <1>3, <1>4, <1>5, WatchAssumption

\* A read of the log replaces a batch that is done with; Replay, Wake and Poll.
LEMMA ReadPreserves ==
    ASSUME StreamInv, stream \in {"opening", "open"}, stream' = "open",
           batch' = watch_events(Query(cursor)) \/ batch' = {},
           UNCHANGED <<cursor, pending, outbox, revision, events, rows, seen>>
    PROVE  StreamInv'
<1>1. batch' \subseteq events
    BY Zenon DEF watch_events, Oldest
<1>2. RegistryOK'
    BY <1>1 DEF StreamInv, RegistryOK, EventOK
<1>3. StreamOK'
    BY DEF StreamInv, StreamOK
<1>4. BatchIsPrefix'
    <2> SUFFICES ASSUME NEW e \in batch', NEW f \in events, Watched(f), cursor < f.revision,
                        f.revision < e.revision
                 PROVE  f \in batch'
        BY DEF BatchIsPrefix, Watched
    <2> QED BY ReadIsPrefix
<1>5. OnTheWay' = OnTheWay
    BY DEF OnTheWay
<1>6. DeliveryInOrder'
    BY <1>5 DEF StreamInv, DeliveryInOrder
<1>7. NothingSkipped'
    <2>1. CASE stream = "open"
        BY <1>5, <2>1 DEF StreamInv, NothingSkipped, Watched
    <2>2. CASE stream = "opening"
        <3>1. cursor = seen /\ cursor \in Nat
            BY <2>2 DEF StreamInv, StreamOK
        <3>2. \A e \in events : e.revision \in Nat
            BY DEF StreamInv, RegistryOK, EventOK
        <3> QED BY <3>1, <3>2 DEF NothingSkipped
    <2> QED BY <2>1, <2>2
<1> QED BY <1>2, <1>3, <1>4, <1>6, <1>7 DEF StreamInv

\* One more response on the way keeps the order when it is not behind the cursor.
LEMMA OneMoreInOrder ==
    ASSUME StreamInv, stream = "open", NEW r \in Response, OnTheWay' = Append(OnTheWay, r),
           seen' = seen, cursor' \in Nat, cursor <= cursor', r.revision = cursor',
           r.key # None => cursor < r.revision
    PROVE  /\ DeliveryInOrder'
           /\ DOMAIN OnTheWay' = DOMAIN OnTheWay \cup {Len(OnTheWay) + 1}
           /\ OnTheWay'[Len(OnTheWay) + 1] = r
           /\ \A i \in DOMAIN OnTheWay : OnTheWay'[i] = OnTheWay[i]
<1>1. /\ OnTheWay \in Seq(Response)
      /\ DOMAIN OnTheWay = 1 .. Len(OnTheWay) /\ Len(OnTheWay) \in Nat
      /\ \A i \in DOMAIN OnTheWay : OnTheWay[i].revision \in Nat
    BY OnTheWayTyped
<1>2. PICK q \in Seq(Response) : q = OnTheWay
    BY <1>1
<1>3. PICK n \in Nat : n = Len(q)
    BY <1>1, <1>2, Zenon
<1>4. PICK longer : longer = OnTheWay'
    OBVIOUS
<1>5. /\ DOMAIN q = 1 .. n /\ DOMAIN longer = 1 .. n + 1
      /\ longer[n + 1] = r /\ \A i \in 1 .. n : longer[i] = q[i]
    BY <1>1, <1>2, <1>3, <1>4, AppendProperties, LenProperties
<1>6. cursor \in Nat /\ seen \in Nat /\ seen <= cursor
    BY DEF StreamInv, StreamOK
<1>7. \A i \in 1 .. n :
          /\ q[i].revision \in Nat /\ q[i].revision <= cursor
          /\ (IF i = 1 THEN seen ELSE q[i - 1].revision) <= q[i].revision
          /\ q[i].key # None => (IF i = 1 THEN seen ELSE q[i - 1].revision) < q[i].revision
    BY <1>1, <1>2, <1>5, Zenon DEF StreamInv, DeliveryInOrder
<1>8. ASSUME NEW i \in 1 .. n + 1
      PROVE  LET before == IF i = 1 THEN seen' ELSE longer[i - 1].revision
             IN  /\ before <= longer[i].revision
                 /\ longer[i].key # None => before < longer[i].revision
                 /\ longer[i].revision <= cursor'
    <2>1. CASE i \in 1 .. n
        <3>1. i # 1 => i - 1 \in 1 .. n
            BY <2>1
        <3>2. longer[i] = q[i] /\ (i # 1 => longer[i - 1] = q[i - 1])
            BY <1>5, <2>1, <3>1
        <3>3. PICK before : before = IF i = 1 THEN seen ELSE q[i - 1].revision
            OBVIOUS
        <3>4. /\ before <= q[i].revision
              /\ q[i].key # None => before < q[i].revision
              /\ q[i].revision \in Nat /\ q[i].revision <= cursor
            BY <1>7, <2>1, <3>3
        <3>5. q[i].revision <= cursor'
            BY <1>6, <3>4
        <3>6. before = IF i = 1 THEN seen' ELSE longer[i - 1].revision
            BY <3>2, <3>3
        <3> QED BY <3>2, <3>4, <3>5, <3>6
    <2>2. CASE i = n + 1
        <3>1. longer[i] = r
            BY <1>5, <2>2
        <3>2. CASE n = 0
            BY <1>6, <2>2, <3>1, <3>2
        <3>3. CASE n # 0
            <4>1. i # 1 /\ i - 1 = n /\ n \in 1 .. n
                BY <2>2, <3>3
            <4>2. longer[i - 1] = q[n]
                BY <1>5, <4>1
            <4> QED BY <1>6, <1>7, <3>1, <4>1, <4>2
        <3> QED BY <3>2, <3>3
    <2> QED BY <2>1, <2>2
<1>9. DeliveryInOrder'
    BY <1>4, <1>5, <1>8 DEF DeliveryInOrder
<1> QED BY <1>2, <1>3, <1>4, <1>5, <1>9

\* The oldest event of the batch: nothing of the service lies between the cursor and
\* it, so the cursor may move there once its response is made.
LEMMA RespondPreserves ==
    ASSUME StreamInv, Respond
    PROVE  StreamInv'
<1>0. PICK e \in batch :
          /\ \A f \in batch : e.revision <= f.revision
          /\ batch' = batch \ {e}
          /\ cursor' = IF e.revision > cursor THEN e.revision ELSE cursor
          /\ \E row \in Answers(e) :
               pending' = IF e.revision > cursor /\ Watched(e)
                          THEN [key |-> KeyOf(e), revision |-> e.revision, row |-> row]
                          ELSE None
    BY DEF Respond
<1>1. PICK row \in Answers(e) :
          /\ \A f \in batch : e.revision <= f.revision
          /\ batch' = batch \ {e}
          /\ cursor' = IF e.revision > cursor THEN e.revision ELSE cursor
          /\ pending' = IF e.revision > cursor /\ Watched(e)
                        THEN [key |-> KeyOf(e), revision |-> e.revision, row |-> row]
                        ELSE None
    BY <1>0
<1>2. /\ stream = "open" /\ pending = None
      /\ UNCHANGED <<stream, outbox, revision, events, rows, seen>>
    BY DEF Respond, TaskUnchanged, logVars, clientVars
<1>3. /\ revision \in Nat /\ cursor \in Nat /\ seen \in Nat /\ seen <= cursor /\ cursor <= revision
      /\ \A f \in events \cup batch : f.revision \in Nat /\ f.revision <= revision
      /\ \A f, g \in events \cup batch : f.revision = g.revision => f = g
    BY <1>2 DEF StreamInv, RegistryOK, StreamOK, EventOK
<1>4. cursor' \in Nat /\ cursor <= cursor' /\ cursor' <= revision
    BY <1>1, <1>3
<1>5. RegistryOK'
    BY <1>1, <1>2 DEF StreamInv, RegistryOK, EventOK
<1>6. BatchIsPrefix'
    <2> SUFFICES ASSUME NEW g \in batch', NEW f \in events, Watched(f), cursor' < f.revision,
                        f.revision < g.revision
                 PROVE  f \in batch'
        BY <1>2 DEF BatchIsPrefix, Watched
    <2>1. g \in batch /\ f.revision \in Nat /\ cursor < f.revision
        BY <1>1, <1>3, <1>4
    <2>2. f \in batch
        BY <2>1 DEF StreamInv, BatchIsPrefix
    <2>3. f # e
        BY <1>1, <1>3, <1>4
    <2> QED BY <1>1, <2>2, <2>3
<1>7. \A f \in events : Watched(f) /\ cursor < f.revision /\ f.revision <= cursor' => f = e
    <2> SUFFICES ASSUME NEW f \in events, Watched(f), cursor < f.revision, f.revision <= cursor'
                 PROVE  f = e
        OBVIOUS
    <2>1. cursor' = e.revision /\ f.revision \in Nat /\ e.revision \in Nat
        BY <1>1, <1>3
    <2>2. f.revision < e.revision => f \in batch
        BY DEF StreamInv, BatchIsPrefix
    <2>3. f.revision = e.revision
        BY <1>1, <2>1, <2>2
    <2> QED BY <1>3, <2>3
<1>8. OnTheWay = outbox
    BY <1>2 DEF OnTheWay
<1>9. CASE e.revision > cursor /\ Watched(e)
    <2>1. KeyOf(e) \in Keys /\ e.revision \in Nat /\ row \in Nat \cup {None} \cup StaleAnswers
        BY <1>9 DEF StreamInv, RegistryOK, EventOK, Watched, Answers, CurrentRow, Row
    <2>2. PICK r \in Response : r = [key |-> KeyOf(e), revision |-> e.revision, row |-> row]
        BY <2>1, Zenon DEF Response
    <2>3. pending' = r /\ r # None /\ r.revision = e.revision /\ r.key = KeyOf(e) /\ cursor' = e.revision
        BY <1>1, <1>9, <2>2, ResponseAssumption
    <2>4. StreamOK'
        BY <1>2, <1>3, <1>4, <2>3 DEF StreamInv, StreamOK
    <2>5. OnTheWay' = Append(OnTheWay, r)
        BY <1>2, <1>8, <2>3 DEF OnTheWay
    <2>6. /\ DeliveryInOrder'
          /\ DOMAIN OnTheWay' = DOMAIN OnTheWay \cup {Len(OnTheWay) + 1}
          /\ OnTheWay'[Len(OnTheWay) + 1] = r
          /\ \A i \in DOMAIN OnTheWay : OnTheWay'[i] = OnTheWay[i]
        BY <1>2, <1>3, <1>4, <1>9, <2>3, <2>5, OneMoreInOrder
    <2>7. NothingSkipped'
        <3> SUFFICES ASSUME NEW f \in events, Watched(f), seen < f.revision, f.revision <= cursor'
                     PROVE  \E i \in DOMAIN OnTheWay' :
                               OnTheWay'[i].key = KeyOf(f) /\ OnTheWay'[i].revision = f.revision
            BY <1>2 DEF NothingSkipped, Watched, KeyOf
        <3>1. CASE f.revision <= cursor
            BY <1>2, <2>6, <3>1 DEF StreamInv, NothingSkipped
        <3>2. CASE cursor < f.revision
            BY <1>7, <2>3, <2>6, <3>2
        <3> QED BY <1>3, <3>1, <3>2
    <2> QED BY <1>5, <1>6, <2>4, <2>6, <2>7 DEF StreamInv
<1>10. CASE ~(e.revision > cursor /\ Watched(e))
    <2>1. pending' = None
        BY <1>1, <1>10
    <2>2. StreamOK'
        BY <1>2, <1>3, <1>4, <2>1 DEF StreamInv, StreamOK
    <2>3. OnTheWay' = OnTheWay
        BY <1>2, <2>1 DEF OnTheWay
    <2>4. DeliveryInOrder'
        <3>1. \A i \in DOMAIN OnTheWay : OnTheWay[i].revision \in Nat /\ OnTheWay[i].revision <= cursor
            BY OnTheWayTyped DEF StreamInv, DeliveryInOrder
        <3>2. \A i \in DOMAIN OnTheWay : OnTheWay[i].revision <= cursor'
            BY <1>3, <1>4, <3>1
        <3> QED BY <1>2, <2>3, <3>2 DEF StreamInv, DeliveryInOrder
    <2>5. NothingSkipped'
        <3>1. \A f \in events : Watched(f) /\ f.revision <= cursor' => f.revision <= cursor
            BY <1>1, <1>3, <1>7, <1>10
        <3> QED BY <1>2, <2>3, <3>1 DEF StreamInv, NothingSkipped, Watched, KeyOf
    <2> QED BY <1>5, <1>6, <2>2, <2>4, <2>5 DEF StreamInv
<1> QED BY <1>9, <1>10

\* send_watch_item: the response keeps its place when it enters the buffer.
LEMMA SendPreserves ==
    ASSUME StreamInv, Send
    PROVE  StreamInv'
<1>1. /\ pending # None /\ pending' = None /\ outbox' = Append(outbox, pending)
      /\ UNCHANGED <<stream, cursor, batch, revision, events, rows, seen>>
    BY DEF Send, TaskUnchanged, logVars, clientVars
<1>2. OnTheWay' = OnTheWay
    BY <1>1 DEF OnTheWay
<1>3. outbox' \in Seq(Response) /\ pending' \in Response \cup {None}
    BY <1>1, AppendProperties DEF StreamInv, StreamOK
<1>4. StreamOK'
    BY <1>1, <1>3 DEF StreamInv, StreamOK
<1> QED BY <1>1, <1>2, <1>4
        DEF StreamInv, RegistryOK, EventOK, BatchIsPrefix, DeliveryInOrder, NothingSkipped, Watched

\* A heartbeat tells the cursor, behind which everything is on its way.
LEMMA HeartbeatPreserves ==
    ASSUME StreamInv, Heartbeat
    PROVE  StreamInv'
<1>1. PICK r \in Response : r = [key |-> None, revision |-> cursor, row |-> None]
    BY Zenon DEF StreamInv, StreamOK, Response
<1>2. /\ stream = "open" /\ pending = None /\ outbox' = Append(outbox, r)
      /\ UNCHANGED <<stream, cursor, batch, pending, revision, events, rows, seen>>
      /\ r.key = None /\ r.revision = cursor
    BY <1>1 DEF Heartbeat, Selecting, TaskUnchanged, logVars, clientVars
<1>3. OnTheWay' = Append(OnTheWay, r)
    BY <1>2 DEF OnTheWay
<1>4. cursor \in Nat /\ outbox' \in Seq(Response)
    BY <1>2, AppendProperties DEF StreamInv, StreamOK
<1>5. /\ DeliveryInOrder'
      /\ DOMAIN OnTheWay' = DOMAIN OnTheWay \cup {Len(OnTheWay) + 1}
      /\ \A i \in DOMAIN OnTheWay : OnTheWay'[i] = OnTheWay[i]
    BY <1>2, <1>3, <1>4, OneMoreInOrder
<1>6. NothingSkipped'
    BY <1>2, <1>5 DEF StreamInv, NothingSkipped, Watched, KeyOf
<1>7. StreamOK'
    BY <1>2, <1>4 DEF StreamInv, StreamOK
<1> QED BY <1>2, <1>5, <1>6, <1>7 DEF StreamInv, RegistryOK, EventOK, BatchIsPrefix, Watched

-----------------------------------------------------------------------------
(* The client. *)

\* Receive takes the first of what is on its way.
LEMMA FirstTaken ==
    ASSUME StreamInv, Receive
    PROVE  \E m \in Nat \ {0} :
              /\ DOMAIN OnTheWay = 1 .. m /\ DOMAIN OnTheWay' = 1 .. m - 1
              /\ OnTheWay[1] = Head(outbox)
              /\ \A i \in 1 .. m - 1 : OnTheWay'[i] = OnTheWay[i + 1]
<1>1. /\ outbox # << >> /\ seen' = Head(outbox).revision /\ outbox' = Tail(outbox)
      /\ UNCHANGED <<stream, cursor, batch, pending, revision, events, rows>>
    BY DEF Receive, logVars
<1>2. outbox \in Seq(Response) /\ pending \in Response \cup {None}
    BY DEF StreamInv, StreamOK
<1>3. PICK n \in Nat \ {0} : n = Len(outbox)
    BY <1>1, <1>2, EmptySeq, LenProperties
<1>4. /\ outbox' \in Seq(Response) /\ Len(outbox') = n - 1
      /\ Head(outbox) = outbox[1] /\ \A i \in 1 .. n - 1 : outbox'[i] = outbox[i + 1]
    BY <1>1, <1>2, <1>3, HeadTailProperties
<1>5. PICK q : q = OnTheWay
    OBVIOUS
<1>6. PICK t : t = OnTheWay'
    OBVIOUS
<1>7. PICK m \in Nat \ {0} :
          /\ DOMAIN q = 1 .. m /\ DOMAIN t = 1 .. m - 1
          /\ q[1] = outbox[1]
          /\ \A i \in 1 .. m - 1 : t[i] = q[i + 1]
    <2>1. CASE pending = None
        <3>1. q = outbox /\ t = outbox'
            BY <1>1, <1>5, <1>6, <2>1 DEF OnTheWay
        <3>2. DOMAIN q = 1 .. n /\ DOMAIN t = 1 .. n - 1
            BY <1>2, <1>3, <1>4, <3>1, LenProperties
        <3> QED BY <1>4, <3>1, <3>2, Zenon
    <2>2. CASE pending # None
        <3>1. q = Append(outbox, pending) /\ t = Append(outbox', pending) /\ pending \in Response
            BY <1>1, <1>2, <1>5, <1>6, <2>2 DEF OnTheWay
        <3>2. /\ DOMAIN q = 1 .. n + 1 /\ q[n + 1] = pending /\ \A i \in 1 .. n : q[i] = outbox[i]
            BY <1>2, <1>3, <3>1, AppendProperties, LenProperties
        <3>3. /\ DOMAIN t = 1 .. n /\ t[n] = pending /\ \A i \in 1 .. n - 1 : t[i] = outbox'[i]
            BY <1>3, <1>4, <3>1, AppendProperties, LenProperties
        <3>4. \A i \in 1 .. n : t[i] = q[i + 1]
            <4> SUFFICES ASSUME NEW i \in 1 .. n PROVE t[i] = q[i + 1]
                OBVIOUS
            <4>1. CASE i = n
                BY <3>2, <3>3, <4>1
            <4>2. CASE i # n
                <5>1. i \in 1 .. n - 1 /\ i + 1 \in 1 .. n
                    BY <4>2
                <5> QED BY <1>4, <3>2, <3>3, <5>1
            <4> QED BY <4>1, <4>2
        <3>5. q[1] = outbox[1] /\ n + 1 \in Nat \ {0} /\ (n + 1) - 1 = n
            BY <3>2
        <3> QED BY <3>2, <3>3, <3>4, <3>5
    <2> QED BY <2>1, <2>2
<1> QED BY <1>4, <1>5, <1>6, <1>7

\* The client takes the first response; the others move up.
LEMMA ReceivePreserves ==
    ASSUME StreamInv, Receive
    PROVE  StreamInv'
<1>1. /\ outbox # << >> /\ seen' = Head(outbox).revision /\ outbox' = Tail(outbox)
      /\ UNCHANGED <<stream, cursor, batch, pending, revision, events, rows>>
    BY DEF Receive, logVars
<1>2. outbox \in Seq(Response) /\ pending \in Response \cup {None}
    BY DEF StreamInv, StreamOK
<1>3. outbox' \in Seq(Response)
    BY <1>1, <1>2, HeadTailProperties
<1>4. PICK q : q = OnTheWay
    OBVIOUS
<1>5. PICK t : t = OnTheWay'
    OBVIOUS
<1>6. PICK m \in Nat \ {0} :
          /\ DOMAIN q = 1 .. m /\ DOMAIN t = 1 .. m - 1
          /\ q[1] = Head(outbox)
          /\ \A i \in 1 .. m - 1 : t[i] = q[i + 1]
    BY <1>4, <1>5, FirstTaken
<1>7. /\ \A i \in 1 .. m :
            /\ q[i].revision \in Nat /\ q[i].revision <= cursor
            /\ (IF i = 1 THEN seen ELSE q[i - 1].revision) <= q[i].revision
            /\ q[i].key # None => (IF i = 1 THEN seen ELSE q[i - 1].revision) < q[i].revision
      /\ seen' = q[1].revision
    BY <1>1, <1>3, <1>4, <1>6, OnTheWayTyped, Zenon DEF StreamInv, DeliveryInOrder
<1>8. DeliveryInOrder'
    <2>1. ASSUME NEW i \in 1 .. m - 1
          PROVE  LET before == IF i = 1 THEN seen' ELSE t[i - 1].revision
                 IN  /\ before <= t[i].revision
                     /\ t[i].key # None => before < t[i].revision
                     /\ t[i].revision <= cursor
        <3>1. i + 1 \in 1 .. m /\ i + 1 # 1 /\ (i + 1) - 1 = i /\ t[i] = q[i + 1]
            BY <1>6
        <3>2. (IF i = 1 THEN seen' ELSE t[i - 1].revision) = q[i].revision
            <4>1. CASE i = 1
                BY <1>7, <4>1
            <4>2. CASE i # 1
                <5>1. i - 1 \in 1 .. m - 1 /\ (i - 1) + 1 = i
                    BY <4>2
                <5> QED BY <1>6, <4>2, <5>1
            <4> QED BY <4>1, <4>2
        <3>3. q[i].revision <= q[i + 1].revision /\ (q[i + 1].key # None => q[i].revision < q[i + 1].revision)
            BY <1>7, <3>1
        <3> QED BY <1>7, <3>1, <3>2, <3>3
    <2> QED BY <1>1, <1>5, <1>6, <2>1 DEF DeliveryInOrder
<1>9. seen \in Nat /\ seen' \in Nat /\ seen <= seen' /\ seen' <= cursor /\ stream \in {"open", "ended"}
    <2>1. 1 \in 1 .. m
        BY <1>6
    <2>2. seen <= q[1].revision /\ q[1].revision \in Nat /\ q[1].revision <= cursor
        BY <1>7, <2>1
    <2> QED BY <1>1, <1>7, <2>2 DEF StreamInv, StreamOK
<1>10. StreamOK'
    <2>1. cursor \in Nat /\ revision \in Nat /\ cursor <= revision
        BY <1>9 DEF StreamInv, StreamOK, RegistryOK
    <2> QED BY <1>1, <1>3, <1>9, <2>1 DEF StreamInv, StreamOK
<1>11. NothingSkipped'
    <2> SUFFICES ASSUME NEW e \in events, Watched(e), seen' < e.revision, e.revision <= cursor
                 PROVE  \E i \in 1 .. m - 1 : t[i].key = KeyOf(e) /\ t[i].revision = e.revision
        BY <1>1, <1>5, <1>6 DEF NothingSkipped, Watched, KeyOf
    <2>1. e.revision \in Nat
        BY DEF StreamInv, RegistryOK, EventOK
    <2>2. PICK i \in 1 .. m : q[i].key = KeyOf(e) /\ q[i].revision = e.revision
        BY <1>4, <1>6, <1>9, <2>1 DEF StreamInv, NothingSkipped
    <2>3. i # 1
        BY <1>7, <1>9, <2>1, <2>2
    <2>4. i - 1 \in 1 .. m - 1 /\ (i - 1) + 1 = i
        BY <2>3
    <2> QED BY <1>6, <2>2, <2>4
<1> QED BY <1>1, <1>8, <1>10, <1>11 DEF StreamInv, RegistryOK, EventOK, BatchIsPrefix, Watched

\* A stream opens at what the client saw last.
LEMMA OpenPreserves ==
    ASSUME StreamInv, Open
    PROVE  StreamInv'
<1>1. /\ stream = "closed" /\ stream' = "opening" /\ cursor' = seen
      /\ UNCHANGED <<batch, pending, outbox, revision, events, rows, seen>>
    BY DEF Open, TaskUnchanged, logVars, clientVars
<1>2. batch = {} /\ pending = None /\ outbox = << >> /\ seen \in Nat /\ seen <= revision
    BY <1>1 DEF StreamInv, StreamOK
<1>3. OnTheWay' = << >>
    BY <1>1, <1>2 DEF OnTheWay
<1>4. StreamOK'
    BY <1>1, <1>2 DEF StreamInv, StreamOK
<1> QED BY <1>1, <1>2, <1>3, <1>4
        DEF StreamInv, RegistryOK, EventOK, BatchIsPrefix, DeliveryInOrder, NothingSkipped

\* With the stream everything on its way is lost; the client asks for it again.
LEMMA GonePreserves ==
    ASSUME StreamInv, StreamGone
    PROVE  StreamInv'
<1>1. /\ stream' = "closed" /\ batch' = {} /\ pending' = None /\ outbox' = << >>
      /\ UNCHANGED <<cursor, revision, events, rows, seen>>
    BY DEF StreamGone, TaskUnchanged, logVars, clientVars
<1>2. OnTheWay' = << >>
    BY <1>1 DEF OnTheWay
<1>3. StreamOK'
    BY <1>1 DEF StreamInv, StreamOK
<1> QED BY <1>1, <1>2, <1>3
        DEF StreamInv, RegistryOK, EventOK, BatchIsPrefix, DeliveryInOrder, NothingSkipped

-----------------------------------------------------------------------------
(* The theorems. *)

\* The inductive invariant of log, stream and client, whatever is trimmed, overrun,
\* or lost with a connection.
THEOREM StreamInvariance == WatchSpec => []StreamInv
<1>1. WatchInit => StreamInv
    <2> SUFFICES ASSUME WatchInit PROVE StreamInv
        OBVIOUS
    <2>1. DOMAIN rows = {} /\ OnTheWay = << >> /\ outbox \in Seq(Response)
        BY DEF WatchInit, PromiseInit, OnTheWay
    <2> QED BY <2>1, FS_EmptySet
            DEF WatchInit, PromiseInit, StreamInv, RegistryOK, StreamOK, BatchIsPrefix, DeliveryInOrder,
                NothingSkipped
<1>2. StreamInv /\ [WatchNext]_watchVars => StreamInv'
    <2> SUFFICES ASSUME StreamInv, [WatchNext]_watchVars PROVE StreamInv'
        OBVIOUS
    <2>1. CASE UNCHANGED watchVars
        BY <2>1 DEF watchVars, logVars, streamVars, clientVars, StreamInv, RegistryOK, EventOK, StreamOK,
                    BatchIsPrefix, DeliveryInOrder, NothingSkipped, OnTheWay, Watched
    <2>2. CASE Change
        BY <2>2, ChangePreserves
    <2>3. CASE TimePasses
        BY <2>3, TimePreserves
    <2>4. CASE CollectEvents
        BY <2>4, CollectPreserves
    <2>5. CASE Replay \/ Wake \/ Poll
        BY <2>5, ReadPreserves DEF Replay, Wake, Poll, Selecting, TaskUnchanged, logVars, clientVars
    <2>6. CASE Respond
        BY <2>6, RespondPreserves
    <2>7. CASE Send
        BY <2>7, SendPreserves
    <2>8. CASE Heartbeat
        BY <2>8, HeartbeatPreserves
    <2>9. CASE EndLagged
        <3>1. /\ stream = "open" /\ stream' = "ended"
              /\ UNCHANGED <<cursor, batch, pending, outbox, revision, events, rows, seen>>
            BY <2>9 DEF EndLagged, Selecting, TaskUnchanged, logVars, clientVars
        <3>2. StreamOK' /\ OnTheWay' = OnTheWay
            BY <3>1 DEF StreamInv, StreamOK, OnTheWay
        <3> QED BY <3>1, <3>2
                DEF StreamInv, RegistryOK, EventOK, BatchIsPrefix, DeliveryInOrder, NothingSkipped, Watched
    <2>10. CASE Open
        BY <2>10, OpenPreserves
    <2>11. CASE Receive
        BY <2>11, ReceivePreserves
    <2>12. CASE Finish \/ Fault
        BY <2>12, GonePreserves DEF Finish, Fault
    <2> QED BY <2>1, <2>2, <2>3, <2>4, <2>5, <2>6, <2>7, <2>8, <2>9, <2>10, <2>11, <2>12
            DEF WatchNext, StreamStep, ClientStep
<1> QED BY <1>1, <1>2, PTL DEF WatchSpec

\* What the stream's task sends is in revision order and never twice, across replay,
\* wake-ups, polls and reconnections, and a heartbeat never runs ahead of an event.
THEOREM DeliveryIsOrdered == WatchSpec => []DeliveryInOrder
BY StreamInvariance, PTL DEF StreamInv

\* watch_query_after moves the cursor past no event of the service that is not on its
\* way, for every batch size: the batches read are prefixes of the log.
THEOREM DeliveryIsComplete == WatchSpec => []NothingSkipped
BY StreamInvariance, PTL DEF StreamInv
=============================================================================
