------------------------ MODULE ComponentStoreProofs ------------------------
(***************************************************************************)
(* Component stores, for any number of them, any ids, generations, values  *)
(* and any cap of the change log: the structures of a store agree whatever *)
(* calls are made on it, no change is lost from the feed, a cached pair    *)
(* alignment that is used is the alignment of the stores as they are, and  *)
(* every behaviour is one of maps from ids to components.                  *)
(***************************************************************************)
EXTENDS ComponentStore, InstanceRecords, FiniteSetTheorems, SequenceTheorems, WellFoundedInduction, TLAPS

-----------------------------------------------------------------------------
(* The operators of SparseSet.                                             *)

\* The dense arrays, the sparse index and the bitset of two stores agree.
SameArrays(s, t) ==
  /\ t.data = s.data /\ t.entities = s.entities
  /\ t.sparse = s.sparse /\ t.bitset = s.bitset

\* A store whose log keeps to its cap and whose structures agree.
Sane(s) == s \in Store /\ Len(s.log) <= ChangeIdCap /\ Coherent(s)

LEMMA StoreFields ==
  ASSUME NEW s \in Store
  PROVE  /\ s.data \in Seq(Values) /\ s.entities \in Seq(Entity)
         /\ s.sparse \in [Ids -> Nat] /\ s.bitset \subseteq Ids
         /\ s.layout \in Nat /\ s.track \in BOOLEAN /\ s.exhaustive \in BOOLEAN
         /\ s.log \in Seq(Entity)
  BY DEF Store

LEMMA EntityIds == \A e \in Entity : e.id \in Ids /\ e.gen \in Gens
  BY DEF Entity

\* An id that has its bit has a slot, and its entry carries it.
LEMMA SlotOf ==
  ASSUME NEW s, Sane(s), NEW i \in s.bitset
  PROVE  /\ Slot(s, i) \in 1 .. Len(s.entities)
         /\ s.entities[Slot(s, i)] \in Entity /\ s.entities[Slot(s, i)].id = i
         /\ Slot(s, i) \in 1 .. Len(s.data)
  BY StoreFields DEF Sane, Coherent

\* The log of a call that names one entity: it grows by that entity, or says
\* that it is exhaustive.
LEMMA MarkChangedFacts ==
  ASSUME NEW s \in Store, Len(s.log) <= ChangeIdCap, NEW e \in Entity, NEW m,
         m = MarkChanged(s, e)
  PROVE  /\ m \in Store /\ Len(m.log) <= ChangeIdCap
         /\ SameArrays(s, m) /\ m.layout = s.layout /\ m.track = s.track
         /\ Logging(m) => Logging(s) /\ m.log = Append(s.log, e)
  <1>1. /\ s.log \in Seq(Entity) /\ Len(s.log) \in Nat /\ ChangeIdCap \in Nat
        /\ s.exhaustive \in BOOLEAN
    BY StoreFields, ChangeIdCapAssumption
  <1>2. CASE ~Logging(s)
    BY <1>2 DEF MarkChanged, SameArrays
  <1>3. CASE Logging(s) /\ Len(s.log) >= ChangeIdCap
    <2>0. <<>> \in Seq(Entity) /\ TRUE \in BOOLEAN
      OBVIOUS
    <2>1. m = [s EXCEPT !.log = <<>>, !.exhaustive = TRUE]
      BY <1>3 DEF MarkChanged, Overflow
    <2>2. m \in Store /\ SameArrays(s, m) /\ m.layout = s.layout /\ m.track = s.track
          /\ m.log = <<>> /\ m.exhaustive = TRUE
      BY <2>0, <2>1 DEF Store, SameArrays
    <2> QED BY <1>1, <2>2 DEF Logging
  <1>4. CASE Logging(s) /\ ~(Len(s.log) >= ChangeIdCap)
    <2>1. m = [s EXCEPT !.log = Append(s.log, e)]
      BY <1>4 DEF MarkChanged
    <2>2. m = [s EXCEPT !.log = Append(s.log, e), !.exhaustive = s.exhaustive]
      BY <2>1 DEF Store
    <2>3. Append(s.log, e) \in Seq(Entity) /\ Len(Append(s.log, e)) = Len(s.log) + 1
      BY <1>1
    <2>4. m \in Store /\ SameArrays(s, m) /\ m.layout = s.layout /\ m.track = s.track
          /\ m.log = Append(s.log, e) /\ m.exhaustive = s.exhaustive
      BY <1>1, <2>2, <2>3 DEF Store, SameArrays
    <2> QED BY <1>1, <1>4, <2>3, <2>4 DEF Logging
  <1> QED BY <1>2, <1>3, <1>4

LEMMA MarkAllFacts ==
  ASSUME NEW s \in Store, Len(s.log) <= ChangeIdCap, NEW m, m = MarkAll(s)
  PROVE  /\ m \in Store /\ Len(m.log) <= ChangeIdCap
         /\ SameArrays(s, m) /\ m.layout = s.layout /\ m.track = s.track
         /\ Logging(m) => Logging(s) /\ m.log = s.log \o s.entities
  <1>1. /\ s.log \in Seq(Entity) /\ Len(s.log) \in Nat /\ ChangeIdCap \in Nat
        /\ s.entities \in Seq(Entity) /\ Len(s.entities) \in Nat /\ s.exhaustive \in BOOLEAN
    BY StoreFields, ChangeIdCapAssumption
  <1>2. CASE ~Logging(s)
    BY <1>2 DEF MarkAll, SameArrays
  <1>3. CASE Logging(s) /\ Len(s.log) + Len(s.entities) > ChangeIdCap
    <2>0. <<>> \in Seq(Entity) /\ TRUE \in BOOLEAN
      OBVIOUS
    <2>1. m = [s EXCEPT !.log = <<>>, !.exhaustive = TRUE]
      BY <1>3 DEF MarkAll, Overflow
    <2>2. m \in Store /\ SameArrays(s, m) /\ m.layout = s.layout /\ m.track = s.track
          /\ m.log = <<>> /\ m.exhaustive = TRUE
      BY <2>0, <2>1 DEF Store, SameArrays
    <2>3. ~Logging(m) /\ Len(m.log) = 0
      BY <2>2 DEF Logging
    <2>4. Len(m.log) <= ChangeIdCap
      BY <1>1, <2>3
    <2> QED BY <2>2, <2>3, <2>4, Zenon
  <1>4. CASE Logging(s) /\ ~(Len(s.log) + Len(s.entities) > ChangeIdCap)
    <2>1. m = [s EXCEPT !.log = s.log \o s.entities]
      BY <1>4 DEF MarkAll
    <2>2. m = [s EXCEPT !.log = s.log \o s.entities, !.exhaustive = s.exhaustive]
      BY <2>1 DEF Store
    <2>3. /\ s.log \o s.entities \in Seq(Entity)
          /\ Len(s.log \o s.entities) = Len(s.log) + Len(s.entities)
      BY <1>1
    <2>4. m \in Store /\ SameArrays(s, m) /\ m.layout = s.layout /\ m.track = s.track
          /\ m.log = s.log \o s.entities /\ m.exhaustive = s.exhaustive
      BY <1>1, <2>2, <2>3 DEF Store, SameArrays
    <2>5. Len(m.log) = Len(s.log) + Len(s.entities)
      BY <2>3, <2>4, Zenon
    <2>6. Len(m.log) <= ChangeIdCap
      <3> DEFINE a == Len(s.log)
                 b == Len(s.entities)
      <3>1. a \in Nat /\ b \in Nat /\ ChangeIdCap \in Nat /\ ~(a + b > ChangeIdCap) /\ Len(m.log) = a + b
        BY <1>1, <1>4, <2>5, Zenon
      <3> HIDE DEF a, b
      <3> QED BY <3>1
    <2> QED BY <1>4, <2>4, <2>6, Zenon
  <1> QED BY <1>2, <1>3, <1>4

\* Coherence is a matter of the arrays, the index and the bitset.
LEMMA SameArraysCoherent ==
  ASSUME NEW s, NEW t, SameArrays(s, t), Coherent(s)
  PROVE  Coherent(t)
  BY DEF SameArrays, Coherent, Slot

\* The component of id i is the same in both stores, wherever it lies.
Kept(s, t, i) ==
  /\ t.entities[Slot(t, i)] = s.entities[Slot(s, i)]
  /\ t.data[Slot(t, i)] = s.data[Slot(s, i)]

\* The log has grown by one entity, or says that it is exhaustive.
Grown(s, t, e) == Logging(t) => Logging(s) /\ t.log = Append(s.log, e)

\* The same for every entity of the store.
GrownByAll(s, t) == Logging(t) => Logging(s) /\ t.log = s.log \o s.entities

\* insert(), where the id has no component.
LEMMA InsertNewFacts ==
  ASSUME NEW s, Sane(s), NEW e \in Entity, NEW v \in Values, NEW stamp \in Nat,
         e.id \notin s.bitset, NEW t, t = Insert(s, e, v, stamp)
  PROVE  /\ Sane(t) /\ t.bitset = s.bitset \cup {e.id}
         /\ t.layout = stamp /\ t.track = s.track /\ Grown(s, t, e)
         /\ t.entities[Slot(t, e.id)] = e /\ t.data[Slot(t, e.id)] = v
         /\ \A i \in s.bitset : Kept(s, t, i)
  <1> DEFINE m == MarkChanged(s, e)
             n == Len(s.entities)
  <1>1. /\ s \in Store /\ Len(s.log) <= ChangeIdCap /\ Coherent(s)
        /\ s.data \in Seq(Values) /\ s.entities \in Seq(Entity) /\ n \in Nat
        /\ s.sparse \in [Ids -> Nat] /\ s.bitset \subseteq Ids
        /\ Len(s.data) = n /\ e.id \in Ids
    BY StoreFields, EntityIds DEF Sane, Coherent
  <1>2. /\ m \in Store /\ Len(m.log) <= ChangeIdCap /\ SameArrays(s, m) /\ m.track = s.track
        /\ Logging(m) => Logging(s) /\ m.log = Append(s.log, e)
    BY <1>1, MarkChangedFacts
  <1>3. t = [m EXCEPT !.data = Append(s.data, v), !.entities = Append(s.entities, e),
                      !.sparse = [s.sparse EXCEPT ![e.id] = n],
                      !.bitset = s.bitset \cup {e.id}, !.layout = stamp]
    BY <1>1, <1>2 DEF Insert, InsertNew, SameArrays, Store
  <1> HIDE DEF m, n
  <1>4. /\ t \in Store /\ t.log = m.log /\ t.track = m.track /\ t.exhaustive = m.exhaustive
        /\ t.data = Append(s.data, v) /\ t.entities = Append(s.entities, e)
        /\ t.sparse = [s.sparse EXCEPT ![e.id] = n]
        /\ t.bitset = s.bitset \cup {e.id} /\ t.layout = stamp
    <2>1. /\ Append(s.data, v) \in Seq(Values) /\ Append(s.entities, e) \in Seq(Entity)
          /\ [s.sparse EXCEPT ![e.id] = n] \in [Ids -> Nat]
          /\ s.bitset \cup {e.id} \in SUBSET Ids
      BY <1>1
    <2> QED BY <1>2, <1>3, <2>1 DEF Store
  <1>5. Slot(t, e.id) = n + 1 /\ \A i \in s.bitset : Slot(t, i) = Slot(s, i)
    BY <1>1, <1>4 DEF Slot
  <1>6. /\ Len(t.data) = n + 1 /\ Len(t.entities) = n + 1
        /\ t.entities[n + 1] = e /\ t.data[n + 1] = v
        /\ \A k \in 1 .. n : t.entities[k] = s.entities[k] /\ t.data[k] = s.data[k]
    BY <1>1, <1>4 DEF n
  <1>7. \A i \in s.bitset : Slot(s, i) \in 1 .. n /\ s.entities[Slot(s, i)].id = i
    BY <1>1 DEF Coherent, n
  <1>8. Coherent(t)
    <2>1. ASSUME NEW k \in 1 .. n + 1
          PROVE  t.entities[k].id \in t.bitset /\ Slot(t, t.entities[k].id) = k
      <3>1. CASE k = n + 1
        BY <1>4, <1>5, <1>6, <3>1
      <3>2. CASE k # n + 1
        <4>1. k \in 1 .. n
          BY <1>1, <3>2
        <4> QED BY <1>1, <1>4, <1>5, <1>6, <4>1 DEF Coherent, n
      <3> QED BY <3>1, <3>2
    <2>2. ASSUME NEW i \in t.bitset
          PROVE  Slot(t, i) \in 1 .. n + 1 /\ t.entities[Slot(t, i)].id = i
      <3>1. CASE i = e.id
        BY <1>1, <1>5, <1>6, <3>1
      <3>2. CASE i \in s.bitset
        <4>1. /\ Slot(s, i) \in 1 .. n /\ s.entities[Slot(s, i)].id = i
              /\ Slot(t, i) = Slot(s, i)
          BY <1>5, <1>7, <3>2, Zenon
        <4>2. t.entities[Slot(t, i)].id = i
          BY <1>6, <4>1, Zenon
        <4> QED BY <1>1, <4>1, <4>2
      <3> QED BY <1>4, <3>1, <3>2
    <2> QED BY <1>6, <2>1, <2>2 DEF Coherent
  <1>9. Grown(s, t, e)
    BY <1>2, <1>4 DEF Logging, Grown
  <1>10. \A i \in s.bitset : Kept(s, t, i)
    BY <1>5, <1>6, <1>7 DEF Kept
  <1> QED BY <1>1, <1>2, <1>4, <1>5, <1>6, <1>8, <1>9, <1>10 DEF Sane

\* insert(), where the id has one: the handle is refreshed.
LEMMA InsertOverFacts ==
  ASSUME NEW s, Sane(s), NEW e \in Entity, NEW v \in Values, NEW stamp \in Nat,
         e.id \in s.bitset, NEW t, t = Insert(s, e, v, stamp)
  PROVE  /\ Sane(t) /\ t.bitset = s.bitset
         /\ t.layout = stamp \/ (t.layout = s.layout /\ t.entities = s.entities)
         /\ t.track = s.track /\ Grown(s, t, e)
         /\ t.entities[Slot(t, e.id)] = e /\ t.data[Slot(t, e.id)] = v
         /\ \A i \in s.bitset \ {e.id} : Kept(s, t, i)
  <1> DEFINE m == MarkChanged(s, e)
             n == Len(s.entities)
             k == Slot(s, e.id)
             layout == IF s.entities[k] = e THEN s.layout ELSE stamp
  <1>1. /\ s \in Store /\ Len(s.log) <= ChangeIdCap /\ Coherent(s)
        /\ s.data \in Seq(Values) /\ s.entities \in Seq(Entity) /\ n \in Nat
        /\ s.sparse \in [Ids -> Nat] /\ s.bitset \subseteq Ids
        /\ Len(s.data) = n /\ e.id \in Ids /\ s.layout \in Nat
        /\ k \in 1 .. n
    BY StoreFields, EntityIds, SlotOf DEF Sane, Coherent
  <1>2. /\ m \in Store /\ Len(m.log) <= ChangeIdCap /\ SameArrays(s, m) /\ m.track = s.track
        /\ m.layout = s.layout
        /\ Logging(m) => Logging(s) /\ m.log = Append(s.log, e)
    BY <1>1, MarkChangedFacts
  <1>3. t = [m EXCEPT !.data = [s.data EXCEPT ![k] = v], !.entities = [s.entities EXCEPT ![k] = e],
                      !.layout = layout]
    <2>1. t = [m EXCEPT !.data = [m.data EXCEPT ![k] = v], !.entities = [m.entities EXCEPT ![k] = e],
                        !.layout = IF s.entities[k] = e THEN m.layout ELSE stamp]
      BY DEF Insert, InsertOver
    <2> QED BY <1>2, <2>1 DEF SameArrays
  <1>4. layout \in Nat /\ ((layout = s.layout /\ s.entities[k] = e) \/ layout = stamp)
    BY <1>1
  <1> HIDE DEF m, n, k, layout
  <1>5. /\ t \in Store /\ t.log = m.log /\ t.track = m.track /\ t.exhaustive = m.exhaustive
        /\ t.data = [s.data EXCEPT ![k] = v] /\ t.entities = [s.entities EXCEPT ![k] = e]
        /\ t.sparse = s.sparse /\ t.bitset = s.bitset /\ t.layout = layout
    <2>1. [s.data EXCEPT ![k] = v] \in Seq(Values) /\ [s.entities EXCEPT ![k] = e] \in Seq(Entity)
      BY <1>1 DEF n
    <2> QED BY <1>2, <1>3, <1>4, <2>1 DEF Store, SameArrays
  <1>6. \A i : Slot(t, i) = Slot(s, i)
    BY <1>5 DEF Slot
  <1>7. /\ Len(t.data) = n /\ Len(t.entities) = n
        /\ t.entities[k] = e /\ t.data[k] = v
        /\ \A j \in 1 .. n \ {k} : t.entities[j] = s.entities[j] /\ t.data[j] = s.data[j]
    BY <1>1, <1>5 DEF n
  <1>8. /\ \A i \in s.bitset : Slot(s, i) \in 1 .. n /\ s.entities[Slot(s, i)].id = i
        /\ \A j \in 1 .. n : s.entities[j].id \in s.bitset /\ Slot(s, s.entities[j].id) = j
    BY <1>1 DEF Coherent, n
  <1>9. Coherent(t)
    <2>1. ASSUME NEW j \in 1 .. n
          PROVE  t.entities[j].id \in t.bitset /\ Slot(t, t.entities[j].id) = j
      <3>1. CASE j = k
        BY <1>1, <1>5, <1>6, <1>7, <3>1 DEF k
      <3>2. CASE j # k
        BY <1>5, <1>6, <1>7, <1>8, <3>2
      <3> QED BY <3>1, <3>2
    <2>2. ASSUME NEW i \in t.bitset
          PROVE  Slot(t, i) \in 1 .. n /\ t.entities[Slot(t, i)].id = i
      <3>1. CASE Slot(s, i) = k
        <4>1. s.entities[k].id = i /\ s.entities[k].id = e.id
          BY <1>5, <1>8, <2>2, <3>1 DEF k
        <4> QED BY <1>1, <1>6, <1>7, <3>1, <4>1
      <3>2. CASE Slot(s, i) # k
        BY <1>5, <1>6, <1>7, <1>8, <2>2, <3>2
      <3> QED BY <3>1, <3>2
    <2> QED BY <1>7, <2>1, <2>2 DEF Coherent
  <1>10. Grown(s, t, e)
    BY <1>2, <1>5 DEF Logging, Grown
  <1>11. \A i \in s.bitset \ {e.id} : Kept(s, t, i)
    <2> SUFFICES ASSUME NEW i \in s.bitset \ {e.id} PROVE Kept(s, t, i)
      OBVIOUS
    <2>1. Slot(s, i) \in 1 .. n /\ s.entities[Slot(s, i)].id = i /\ s.entities[k].id = e.id
      BY <1>8 DEF k
    <2>2. Slot(s, i) # k
      BY <2>1
    <2> QED BY <1>6, <1>7, <2>1, <2>2 DEF Kept
  <1>12. t.layout = stamp \/ (t.layout = s.layout /\ t.entities = s.entities)
    <2>1. CASE s.entities[k] = e
      <3>1. [s.entities EXCEPT ![k] = e] = s.entities
        BY <1>1, <2>1
      <3> QED BY <1>4, <1>5, <3>1
    <2> QED BY <1>4, <1>5, <2>1
  <1>13. Slot(t, e.id) = k
    BY <1>6 DEF k
  <1> QED BY <1>1, <1>2, <1>5, <1>7, <1>9, <1>10, <1>11, <1>12, <1>13 DEF Sane

LEMMA FunctionIsSeq ==
  ASSUME NEW S, NEW n \in Nat, NEW q \in [1 .. n -> S]
  PROVE  q \in Seq(S) /\ Len(q) = n
  <1>1. q \in Seq(S)
    BY SeqDef
  <1>2. Len(q) \in Nat /\ DOMAIN q = 1 .. Len(q) /\ DOMAIN q = 1 .. n
    BY <1>1, LenProperties
  <1> QED BY <1>1, <1>2

\* remove() of a handle that is there; any other removes nothing.
LEMMA RemoveFacts ==
  ASSUME NEW s, Sane(s), NEW e \in Entity, NEW stamp \in Nat, Has(s, e),
         NEW t, t = Remove(s, e, stamp)
  PROVE  /\ Sane(t) /\ t.bitset = s.bitset \ {e.id}
         /\ t.layout = stamp /\ t.track = s.track /\ Grown(s, t, e)
         /\ \A i \in t.bitset : Kept(s, t, i)
  <1> DEFINE m == MarkChanged(s, e)
             n == Len(s.entities)
             k == Slot(s, e.id)
             moved == s.entities[n].id
  <1>1. /\ s \in Store /\ Len(s.log) <= ChangeIdCap /\ Coherent(s)
        /\ s.data \in Seq(Values) /\ s.entities \in Seq(Entity) /\ n \in Nat
        /\ s.sparse \in [Ids -> Nat] /\ s.bitset \subseteq Ids
        /\ Len(s.data) = n /\ e.id \in s.bitset /\ k \in 1 .. n
    BY StoreFields, SlotOf DEF Sane, Coherent, Has
  <1>2. /\ m \in Store /\ Len(m.log) <= ChangeIdCap /\ SameArrays(s, m) /\ m.track = s.track
        /\ Logging(m) => Logging(s) /\ m.log = Append(s.log, e)
    BY <1>1, MarkChangedFacts
  <1>3. t = [m EXCEPT !.data = SwapRemove(s.data, k), !.entities = SwapRemove(s.entities, k),
                      !.sparse = MoveLast(s, k), !.bitset = s.bitset \ {e.id}, !.layout = stamp]
    <2>1. t = [m EXCEPT !.data = SwapRemove(m.data, k), !.entities = SwapRemove(m.entities, k),
                        !.sparse = MoveLast(s, k), !.bitset = m.bitset \ {e.id}, !.layout = stamp]
      BY DEF Remove
    <2> QED BY <1>2, <2>1 DEF SameArrays
  <1> HIDE DEF m, n, k
  <1>4. /\ n - 1 \in Nat
        /\ SwapRemove(s.data, k) \in Seq(Values) /\ SwapRemove(s.entities, k) \in Seq(Entity)
        /\ Len(SwapRemove(s.data, k)) = n - 1 /\ Len(SwapRemove(s.entities, k)) = n - 1
        /\ \A j \in 1 .. n - 1 :
              /\ SwapRemove(s.data, k)[j] = IF j = k THEN s.data[n] ELSE s.data[j]
              /\ SwapRemove(s.entities, k)[j] = IF j = k THEN s.entities[n] ELSE s.entities[j]
    <2>1. n - 1 \in Nat
      BY <1>1
    <2>2. /\ SwapRemove(s.data, k) = [j \in 1 .. n - 1 |-> IF j = k THEN s.data[n] ELSE s.data[j]]
          /\ SwapRemove(s.entities, k) =
               [j \in 1 .. n - 1 |-> IF j = k THEN s.entities[n] ELSE s.entities[j]]
      BY <1>1 DEF SwapRemove, n
    <2>3. \A j \in 1 .. n : s.data[j] \in Values /\ s.entities[j] \in Entity
      BY <1>1 DEF n
    <2>4. /\ SwapRemove(s.data, k) \in [1 .. n - 1 -> Values]
          /\ SwapRemove(s.entities, k) \in [1 .. n - 1 -> Entity]
      BY <1>1, <2>2, <2>3
    <2> QED BY <2>1, <2>2, <2>4, FunctionIsSeq
  <1>5. /\ \A i \in s.bitset : Slot(s, i) \in 1 .. n /\ s.entities[Slot(s, i)].id = i
        /\ \A j \in 1 .. n : s.entities[j].id \in s.bitset /\ Slot(s, s.entities[j].id) = j
    BY <1>1, Zenon DEF Coherent, n
  <1>6. moved \in s.bitset /\ Slot(s, moved) = n /\ moved \in Ids
    <2>1. n \in 1 .. n
      BY <1>1
    <2>2. moved \in s.bitset /\ Slot(s, moved) = n
      BY <1>5, <2>1, Zenon
    <2> QED BY <1>1, <2>2
  <1> HIDE DEF moved
  <1>7. MoveLast(s, k) = IF k = n THEN s.sparse ELSE [s.sparse EXCEPT ![moved] = k - 1]
    BY <1>1 DEF MoveLast, moved
  <1>8. /\ t \in Store /\ t.log = m.log /\ t.track = m.track /\ t.exhaustive = m.exhaustive
        /\ t.data = SwapRemove(s.data, k) /\ t.entities = SwapRemove(s.entities, k)
        /\ t.sparse = MoveLast(s, k) /\ t.bitset = s.bitset \ {e.id} /\ t.layout = stamp
    <2>1. MoveLast(s, k) \in [Ids -> Nat] /\ s.bitset \ {e.id} \in SUBSET Ids
      BY <1>1, <1>6, <1>7
    <2> QED BY <1>2, <1>3, <1>4, <2>1 DEF Store
  <1>9. ASSUME NEW i \in s.bitset, i # e.id
        PROVE  /\ Slot(s, i) # k
               /\ Slot(s, i) = n => i = moved /\ k # n /\ Slot(t, i) = k
               /\ Slot(s, i) # n => Slot(s, i) \in 1 .. n - 1 /\ Slot(t, i) = Slot(s, i)
    <2>1. Slot(s, i) \in 1 .. n /\ s.entities[Slot(s, i)].id = i /\ s.entities[k].id = e.id
      BY <1>1, <1>5, <1>9 DEF k
    <2>2. Slot(s, i) # k
      BY <1>9, <2>1
    <2>3. CASE Slot(s, i) = n
      <3>1. i = moved /\ k # n
        BY <2>1, <2>2, <2>3 DEF moved
      <3>2. t.sparse[i] = k - 1
        BY <1>1, <1>6, <1>7, <1>8, <3>1
      <3> QED BY <1>1, <2>2, <2>3, <3>1, <3>2 DEF Slot
    <2>4. CASE Slot(s, i) # n
      <3>1. i # moved
        BY <1>6, <2>4
      <3>2. t.sparse[i] = s.sparse[i]
        BY <1>1, <1>6, <1>7, <1>8, <3>1
      <3> QED BY <1>1, <2>1, <2>2, <2>4, <3>2 DEF Slot
    <2> QED BY <2>3, <2>4
  <1>10. ASSUME NEW i \in s.bitset, i # e.id
         PROVE  /\ Slot(t, i) \in 1 .. n - 1
                /\ t.entities[Slot(t, i)] = s.entities[Slot(s, i)]
                /\ t.data[Slot(t, i)] = s.data[Slot(s, i)]
    <2>1. CASE Slot(s, i) = n
      <3>1. Slot(t, i) = k /\ k \in 1 .. n - 1
        BY <1>1, <1>9, <1>10, <2>1
      <3> QED BY <1>4, <1>8, <2>1, <3>1
    <2>2. CASE Slot(s, i) # n
      BY <1>4, <1>8, <1>9, <1>10, <2>2
    <2> QED BY <2>1, <2>2
  <1>11. Coherent(t)
    <2>1. ASSUME NEW i \in t.bitset
          PROVE  Slot(t, i) \in 1 .. n - 1 /\ t.entities[Slot(t, i)].id = i
      BY <1>5, <1>8, <1>10
    <2>2. ASSUME NEW j \in 1 .. n - 1
          PROVE  t.entities[j].id \in t.bitset /\ Slot(t, t.entities[j].id) = j
      <3> DEFINE i == IF j = k THEN moved ELSE s.entities[j].id
      <3>1. t.entities[j].id = i
        BY <1>4, <1>8 DEF moved
      <3>2. CASE j = k
        <4>1. i \in s.bitset /\ Slot(s, i) = n /\ n # k
          BY <1>1, <1>6, <3>2
        <4>2. i # e.id
          BY <4>1 DEF k
        <4> QED BY <1>8, <1>9, <3>1, <3>2, <4>1, <4>2
      <3>3. CASE j # k
        <4>1. j \in 1 .. n /\ j # n
          BY <1>1
        <4>2. i \in s.bitset /\ Slot(s, i) = j
          BY <1>5, <3>3, <4>1
        <4>3. i # e.id
          BY <3>3, <4>2 DEF k
        <4> QED BY <1>8, <1>9, <3>1, <4>1, <4>2, <4>3
      <3> QED BY <3>2, <3>3
    <2> QED BY <1>4, <1>8, <2>1, <2>2 DEF Coherent
  <1>12. Grown(s, t, e)
    BY <1>2, <1>8 DEF Logging, Grown
  <1> QED BY <1>2, <1>8, <1>10, <1>11, <1>12 DEF Sane, Kept

\* get_mut(): the component of the handle changes in its slot.
LEMMA WriteFacts ==
  ASSUME NEW s, Sane(s), NEW e \in Entity, Has(s, e), NEW v \in Values,
         NEW t, t = Write(s, e, v)
  PROVE  /\ Sane(t) /\ t.bitset = s.bitset /\ t.entities = s.entities
         /\ t.layout = s.layout /\ t.track = s.track /\ Grown(s, t, e)
         /\ t.entities[Slot(t, e.id)] = s.entities[Slot(s, e.id)]
         /\ t.data[Slot(t, e.id)] = v
         /\ \A i \in s.bitset \ {e.id} : Kept(s, t, i)
  <1> DEFINE m == MarkChanged(s, e)
             n == Len(s.entities)
             k == Slot(s, e.id)
  <1>1. /\ s \in Store /\ Len(s.log) <= ChangeIdCap /\ Coherent(s)
        /\ s.data \in Seq(Values) /\ n \in Nat /\ Len(s.data) = n
        /\ e.id \in s.bitset /\ k \in 1 .. n
    BY StoreFields, SlotOf DEF Sane, Coherent, Has
  <1>2. /\ m \in Store /\ Len(m.log) <= ChangeIdCap /\ SameArrays(s, m) /\ m.track = s.track
        /\ m.layout = s.layout
        /\ Logging(m) => Logging(s) /\ m.log = Append(s.log, e)
    BY <1>1, MarkChangedFacts
  <1>3. t = [m EXCEPT !.data = [s.data EXCEPT ![k] = v]]
    <2>1. t = [m EXCEPT !.data = [m.data EXCEPT ![k] = v]]
      BY DEF Write
    <2> QED BY <1>2, <2>1 DEF SameArrays
  <1>4. [s.data EXCEPT ![k] = v] \in Seq(Values) /\ Len([s.data EXCEPT ![k] = v]) = n
    BY <1>1
  <1> HIDE DEF m, n, k
  <1>5. /\ t \in Store /\ t.log = m.log /\ t.track = m.track /\ t.exhaustive = m.exhaustive
        /\ t.data = [s.data EXCEPT ![k] = v] /\ t.entities = s.entities
        /\ t.sparse = s.sparse /\ t.bitset = s.bitset /\ t.layout = s.layout
    BY <1>2, <1>3, <1>4 DEF Store, SameArrays
  <1>6. \A i : Slot(t, i) = Slot(s, i)
    BY <1>5 DEF Slot
  <1>7. Coherent(t)
    BY <1>1, <1>4, <1>5, <1>6 DEF Coherent, n
  <1>8. t.data[k] = v /\ \A j \in 1 .. n \ {k} : t.data[j] = s.data[j]
    BY <1>1, <1>4, <1>5
  <1>9. Grown(s, t, e)
    BY <1>2, <1>5 DEF Logging, Grown
  <1>10. \A i \in s.bitset \ {e.id} : Kept(s, t, i)
    <2> SUFFICES ASSUME NEW i \in s.bitset \ {e.id} PROVE Kept(s, t, i)
      OBVIOUS
    <2>1. /\ Slot(s, i) \in 1 .. n /\ s.entities[Slot(s, i)].id = i
          /\ s.entities[k].id = e.id
      BY <1>1 DEF Coherent, n, k
    <2>2. Slot(s, i) # k
      BY <2>1
    <2> QED BY <1>5, <1>6, <1>8, <2>1, <2>2 DEF Kept
  <1> QED BY <1>1, <1>2, <1>5, <1>6, <1>7, <1>8, <1>9, <1>10 DEF Sane, k

\* iter_mut() and its kin: every component may change, and the log holds them
\* all, or says that it is exhaustive.
LEMMA WriteAllFacts ==
  ASSUME NEW s, Sane(s), NEW d \in Seq(Values), Len(d) = Len(s.entities),
         NEW t, t = WriteAll(s, d)
  PROVE  /\ Sane(t) /\ t.bitset = s.bitset /\ t.entities = s.entities /\ t.data = d
         /\ t.layout = s.layout /\ t.track = s.track /\ \A i : Slot(t, i) = Slot(s, i)
         /\ GrownByAll(s, t)
  <1> DEFINE m == MarkAll(s)
  <1>1. s \in Store /\ Len(s.log) <= ChangeIdCap /\ Coherent(s)
    BY DEF Sane
  <1>2. /\ m \in Store /\ Len(m.log) <= ChangeIdCap /\ SameArrays(s, m) /\ m.track = s.track
        /\ m.layout = s.layout
        /\ Logging(m) => Logging(s) /\ m.log = s.log \o s.entities
    BY <1>1, MarkAllFacts
  <1>3. t = [m EXCEPT !.data = d]
    BY DEF WriteAll
  <1> HIDE DEF m
  <1>5. /\ t \in Store /\ t.log = m.log /\ t.track = m.track /\ t.exhaustive = m.exhaustive
        /\ t.data = d /\ t.entities = s.entities
        /\ t.sparse = s.sparse /\ t.bitset = s.bitset /\ t.layout = s.layout
    BY <1>2, <1>3 DEF Store, SameArrays
  <1>6. \A i : Slot(t, i) = Slot(s, i)
    BY <1>5 DEF Slot
  <1>7. Coherent(t)
    BY <1>1, <1>5, <1>6 DEF Coherent
  <1>8. Logging(t) => Logging(m)
    BY <1>5 DEF Logging
  <1> QED BY <1>2, <1>5, <1>6, <1>7, <1>8, Zenon DEF Sane, GrownByAll

\* A set of naturals has a least member.
LEMMA NatHasLeast ==
  ASSUME NEW S, S \subseteq Nat, S # {}
  PROVE  \E a \in S : \A b \in S : a <= b
  <1> DEFINE R == OpToRel(<, Nat)
  <1>1. \E a \in S : \A b \in S : ~(<<b, a>> \in R)
    BY NatLessThanWellFounded, WFMin, Zenon
  <1>2. ASSUME NEW a \in Nat, NEW b \in Nat, b < a
        PROVE  <<b, a>> \in R
    <2>1. <<b, a>> \in Nat \X Nat
      OBVIOUS
    <2>2. <<b, a>>[1] < <<b, a>>[2]
      BY <1>2
    <2> QED BY <2>1, <2>2 DEF OpToRel
  <1>3. PICK a \in S : \A b \in S : ~(<<b, a>> \in R)
    BY <1>1, Zenon
  <1> HIDE DEF R
  <1>4. \A b \in S : ~(b < a)
    BY <1>2, <1>3, Zenon
  <1> QED BY <1>4
\* An order by ascending id ascends over any distance...
LEMMA OrderAscends ==
  ASSUME NEW s, s \in Store, NEW p, IsIdOrder(s, p),
         NEW j \in DOMAIN p, NEW k \in DOMAIN p, j < k
  PROVE  s.entities[p[j]].id < s.entities[p[k]].id
  <1> DEFINE n == Len(s.entities)
             id(x) == s.entities[p[x]].id
             T == {x \in 1 .. n : j < x /\ ~(id(j) < id(x))}
  <1>1. /\ s.entities \in Seq(Entity) /\ n \in Nat /\ p \in [1 .. n -> 1 .. n]
        /\ \A x \in 1 .. n : id(x) \in Nat
        /\ \A x \in 1 .. n - 1 : id(x) < id(x + 1)
        /\ j \in 1 .. n /\ k \in 1 .. n
    <2>1. /\ s.entities \in Seq(Entity) /\ n \in Nat /\ p \in [1 .. n -> 1 .. n]
          /\ \A x \in 1 .. n - 1 : id(x) < id(x + 1)
      BY StoreFields DEF IsIdOrder
    <2>2. \A y \in 1 .. n : s.entities[y] \in Entity
      BY <2>1, ElementOfSeq, Zenon
    <2>3. \A x \in 1 .. n : p[x] \in 1 .. n
      BY <2>1, Zenon
    <2>4. \A x \in 1 .. n : s.entities[p[x]] \in Entity
      BY <2>2, <2>3, Zenon
    <2> QED BY <2>1, <2>4, EntityIds, IdsAssumption
  <1> HIDE DEF n, id
  <1> SUFFICES T = {}
    BY <1>1 DEF id
  <1> SUFFICES ASSUME T # {} PROVE FALSE
    OBVIOUS
  <1>2. T \subseteq Nat
    BY <1>1
  <1>3. PICK x \in T : \A y \in T : x <= y
    BY <1>2, NatHasLeast
  <1>4. CASE x = j + 1
    <2>1. j \in 1 .. n - 1 /\ x \in T
      BY <1>1, <1>4, <1>3
    <2> QED BY <1>1, <1>4, <2>1
  <1>5. CASE x # j + 1
    <2>1. x - 1 \in 1 .. n - 1 /\ j < x - 1 /\ x - 1 < x /\ (x - 1) + 1 = x
      BY <1>1, <1>5, <1>3
    <2>2. x - 1 \notin T
      BY <1>3, <2>1
    <2>3. id(j) < id(x - 1) /\ id(x - 1) < id(x)
      BY <1>1, <2>1, <2>2
    <2>4. id(j) < id(x)
      BY <1>1, <1>3, <2>1, <2>3
    <2> QED BY <1>3, <2>4
  <1> QED BY <1>4, <1>5

\* ... so it visits no slot twice...
LEMMA OrderIsInjective ==
  ASSUME NEW s, s \in Store, NEW p, IsIdOrder(s, p),
         NEW j \in DOMAIN p, NEW k \in DOMAIN p, p[j] = p[k]
  PROVE  j = k
  <1> SUFFICES ASSUME j # k PROVE FALSE
    OBVIOUS
  <1> DEFINE a == s.entities[p[j]].id
  <1>1. /\ p \in [1 .. Len(s.entities) -> 1 .. Len(s.entities)] /\ s.entities \in Seq(Entity)
        /\ Len(s.entities) \in Nat
    BY StoreFields DEF IsIdOrder
  <1>2. s.entities[p[j]] \in Entity
    BY <1>1, ElementOfSeq, Zenon
  <1>3. a \in Nat /\ a = s.entities[p[k]].id
    BY <1>2, EntityIds, IdsAssumption
  <1>4. j < k => a < a
    BY <1>3, OrderAscends, Zenon
  <1>5. k < j => a < a
    BY <1>3, OrderAscends, Zenon
  <1> HIDE DEF a
  <1> QED BY <1>1, <1>3, <1>4, <1>5

\* ... and every slot once.
LEMMA OrderIsOnto ==
  ASSUME NEW s, s \in Store, NEW p, IsIdOrder(s, p)
  PROVE  \A k \in 1 .. Len(s.entities) : \E j \in DOMAIN p : p[j] = k
  <1> DEFINE n == Len(s.entities)
  <1>1. n \in Nat /\ p \in [1 .. n -> 1 .. n]
    BY StoreFields DEF IsIdOrder
  <1>2. \A j \in DOMAIN p, k \in DOMAIN p : p[j] = p[k] => j = k
    BY OrderIsInjective
  <1> HIDE DEF n
  <1>3. p \in Injection(1 .. n, 1 .. n)
    BY <1>1, <1>2 DEF Injection, IsInjective
  <1>4. IsFiniteSet(1 .. n)
    BY <1>1, FS_Interval
  <1>5. p \in Surjection(1 .. n, 1 .. n)
    BY <1>3, <1>4, FS_Injection
  <1> QED BY <1>1, <1>5 DEF Surjection, n

\* defrag(): every component moves with its entity, and the sparse index follows.
LEMMA ReorderFacts ==
  ASSUME NEW s, Sane(s), NEW p, IsIdOrder(s, p), NEW stamp \in Nat,
         NEW t, t = Reorder(s, p, stamp)
  PROVE  /\ Sane(t) /\ t.bitset = s.bitset /\ t.layout = stamp /\ t.track = s.track
         /\ GrownByAll(s, t)
         /\ \A i \in s.bitset : Kept(s, t, i)
  <1> DEFINE m == MarkAll(s)
             n == Len(s.entities)
             data == [k \in DOMAIN p |-> s.data[p[k]]]
             entities == [k \in DOMAIN p |-> s.entities[p[k]]]
             place(i) == CHOOSE k \in DOMAIN p : s.entities[p[k]].id = i
             sparse == [i \in Ids |-> IF i \in s.bitset THEN place(i) - 1 ELSE s.sparse[i]]
  <1>1. /\ s \in Store /\ Len(s.log) <= ChangeIdCap /\ Coherent(s)
        /\ s.data \in Seq(Values) /\ s.entities \in Seq(Entity) /\ n \in Nat
        /\ s.sparse \in [Ids -> Nat] /\ s.bitset \subseteq Ids /\ Len(s.data) = n
        /\ p \in [1 .. n -> 1 .. n] /\ DOMAIN p = 1 .. n
    BY StoreFields DEF Sane, Coherent, IsIdOrder
  <1>2. /\ m \in Store /\ Len(m.log) <= ChangeIdCap /\ SameArrays(s, m) /\ m.track = s.track
        /\ Logging(m) => Logging(s) /\ m.log = s.log \o s.entities
    BY <1>1, MarkAllFacts
  <1>3. t = [m EXCEPT !.data = data, !.entities = entities, !.sparse = sparse, !.layout = stamp]
    BY DEF Reorder
  <1> HIDE DEF m, n
  <1>4. /\ \A k \in 1 .. n : p[k] \in 1 .. n
        /\ \A k \in 1 .. n : s.data[k] \in Values /\ s.entities[k] \in Entity
    BY <1>1, ElementOfSeq, Zenon DEF n
  <1>5. /\ data \in [1 .. n -> Values] /\ entities \in [1 .. n -> Entity]
        /\ data \in Seq(Values) /\ Len(data) = n /\ entities \in Seq(Entity) /\ Len(entities) = n
        /\ \A k \in 1 .. n : data[k] = s.data[p[k]] /\ entities[k] = s.entities[p[k]]
    <2>1. data \in [1 .. n -> Values] /\ entities \in [1 .. n -> Entity]
      BY <1>1, <1>4
    <2>2. \A k \in 1 .. n : data[k] = s.data[p[k]] /\ entities[k] = s.entities[p[k]]
      BY <1>1
    <2> HIDE DEF data, entities
    <2> QED BY <1>1, <2>1, <2>2, FunctionIsSeq
  <1>6. ASSUME NEW i \in s.bitset
        PROVE  place(i) \in 1 .. n /\ p[place(i)] = Slot(s, i)
    <2>1. Slot(s, i) \in 1 .. n /\ s.entities[Slot(s, i)].id = i
      BY <1>1, Zenon DEF Coherent, n
    <2>2. PICK k \in DOMAIN p : p[k] = Slot(s, i)
      <3>1. \A k \in 1 .. n : \E j \in DOMAIN p : p[j] = k
        BY <1>1, OrderIsOnto DEF n
      <3> QED BY <2>1, <3>1, Zenon
    <2>3. place(i) \in DOMAIN p /\ s.entities[p[place(i)]].id = i
      <3>1. s.entities[p[k]].id = i
        BY <2>1, <2>2
      <3> QED BY <3>1, <2>2
    <2> HIDE DEF place
    <2>4. Slot(s, s.entities[p[place(i)]].id) = p[place(i)]
      <3>1. p[place(i)] \in 1 .. n
        BY <1>1, <1>4, <2>3, Zenon
      <3> QED BY <1>1, <3>1, Zenon DEF Coherent, n
    <2> QED BY <1>1, <2>3, <2>4
  <1> HIDE DEF data, entities, place
  <1>7. sparse \in [Ids -> Nat] /\ \A i \in s.bitset : sparse[i] = place(i) - 1
    <2>1. \A i \in s.bitset : place(i) - 1 \in Nat
      <3>1. \A i \in s.bitset : place(i) \in 1 .. n
        BY <1>6, Zenon
      <3> QED BY <1>1, <3>1
    <2> QED BY <1>1, <2>1
  <1> HIDE DEF sparse
  <1>8. /\ t \in Store /\ t.log = m.log /\ t.track = m.track /\ t.exhaustive = m.exhaustive
        /\ t.data = data /\ t.entities = entities /\ t.sparse = sparse
        /\ t.bitset = s.bitset /\ t.layout = stamp
    BY <1>2, <1>3, <1>5, <1>7 DEF Store, SameArrays
  <1>9. ASSUME NEW i \in s.bitset
        PROVE  Slot(t, i) \in 1 .. n /\ p[Slot(t, i)] = Slot(s, i)
    <2>1. Slot(t, i) = place(i)
      BY <1>1, <1>6, <1>7, <1>8 DEF Slot
    <2> QED BY <1>6, <2>1
  <1>10. \A i \in s.bitset : Kept(s, t, i)
    BY <1>5, <1>8, <1>9 DEF Kept
  <1>11. Coherent(t)
    <2>1. ASSUME NEW i \in t.bitset
          PROVE  Slot(t, i) \in 1 .. n /\ t.entities[Slot(t, i)].id = i
      <3>1. s.entities[Slot(s, i)].id = i
        BY <1>1, <1>8 DEF Coherent
      <3> QED BY <1>8, <1>9, <1>10, <3>1 DEF Kept
    <2>2. ASSUME NEW k \in 1 .. n
          PROVE  t.entities[k].id \in t.bitset /\ Slot(t, t.entities[k].id) = k
      <3> DEFINE i == t.entities[k].id
      <3>1. t.entities[k] = s.entities[p[k]] /\ p[k] \in 1 .. n
        BY <1>4, <1>5, <1>8
      <3>2. i \in s.bitset /\ Slot(s, i) = p[k]
        BY <1>1, <3>1 DEF Coherent, n
      <3>3. Slot(t, i) \in 1 .. n /\ p[Slot(t, i)] = p[k]
        BY <1>9, <3>2
      <3>5. Slot(t, i) = k
        BY <1>1, <3>3, OrderIsInjective
      <3> QED BY <1>8, <3>2, <3>5
    <2> QED BY <1>5, <1>8, <2>1, <2>2 DEF Coherent
  <1>12. Logging(t) => Logging(m)
    BY <1>8 DEF Logging
  <1> QED BY <1>2, <1>8, <1>10, <1>11, <1>12, Zenon DEF Sane, GrownByAll

-----------------------------------------------------------------------------
(* The calls of ComponentStore, as a system makes them.                    *)

\* Every component is the handle that it was written with.
OwnsData(s) == \A i \in s.bitset : s.data[Slot(s, i)] = s.entities[Slot(s, i)]

LEMMA EntityEqual ==
  ASSUME NEW e \in Entity, NEW f \in Entity, e.id = f.id, e.gen = f.gen
  PROVE  e = f
  BY DEF Entity

LEMMA HasEntry ==
  ASSUME NEW s, Sane(s), NEW e \in Entity, Has(s, e)
  PROVE  s.entities[Slot(s, e.id)] = e
  <1>1. e.id \in s.bitset /\ s.entities[Slot(s, e.id)].gen = e.gen
    BY DEF Has
  <1> QED BY <1>1, SlotOf, EntityEqual

\* The entry of e in the map that a store is for its callers.
EntryOf(e) == [gen |-> e.gen, value |-> e]

LEMMA ContentOf ==
  ASSUME NEW s
  PROVE  /\ Content(s) = [i \in Ids |-> Content(s)[i]]
         /\ \A i \in Ids \cap s.bitset :
              Content(s)[i] = [gen |-> s.entities[Slot(s, i)].gen, value |-> s.data[Slot(s, i)]]
         /\ \A i \in Ids \ s.bitset : Content(s)[i] = Absent
  BY Zenon DEF Content

LEMMA KeptContent ==
  ASSUME NEW s, NEW t, NEW i \in Ids, i \in s.bitset, i \in t.bitset, Kept(s, t, i)
  PROVE  Content(t)[i] = Content(s)[i]
  <1>1. i \in Ids \cap s.bitset /\ i \in Ids \cap t.bitset
    OBVIOUS
  <1>2. /\ Content(s)[i] = [gen |-> s.entities[Slot(s, i)].gen, value |-> s.data[Slot(s, i)]]
        /\ Content(t)[i] = [gen |-> t.entities[Slot(t, i)].gen, value |-> t.data[Slot(t, i)]]
    BY <1>1, ContentOf, Zenon
  <1> QED BY <1>2, Zenon DEF Kept

LEMMA InsertCall ==
  ASSUME NEW s, Sane(s), OwnsData(s), NEW e \in Entity, NEW stamp \in Nat,
         NEW t, t = Insert(s, e, e, stamp)
  PROVE  /\ Sane(t) /\ OwnsData(t) /\ Grown(s, t, e)
         /\ t.layout = stamp \/ (t.layout = s.layout /\ t.entities = s.entities)
         /\ Content(t) = [Content(s) EXCEPT ![e.id] = EntryOf(e)]
  <1>0. e \in Values /\ e.id \in Ids
    BY ValuesAssumption, EntityIds
  <1>1. /\ Sane(t) /\ t.bitset = s.bitset \cup {e.id} /\ Grown(s, t, e)
        /\ t.layout = stamp \/ (t.layout = s.layout /\ t.entities = s.entities)
        /\ t.entities[Slot(t, e.id)] = e /\ t.data[Slot(t, e.id)] = e
        /\ \A i \in s.bitset \ {e.id} : Kept(s, t, i)
    <2>1. CASE e.id \in s.bitset
      <3>1. s.bitset = s.bitset \cup {e.id}
        BY <2>1
      <3>2. /\ Sane(t) /\ t.bitset = s.bitset /\ Grown(s, t, e)
            /\ t.layout = stamp \/ (t.layout = s.layout /\ t.entities = s.entities)
            /\ t.entities[Slot(t, e.id)] = e /\ t.data[Slot(t, e.id)] = e
            /\ \A i \in s.bitset \ {e.id} : Kept(s, t, i)
        BY <1>0, <2>1, InsertOverFacts
      <3> QED BY <3>1, <3>2
    <2>2. CASE e.id \notin s.bitset
      <3>1. /\ Sane(t) /\ t.bitset = s.bitset \cup {e.id} /\ Grown(s, t, e)
            /\ t.layout = stamp
            /\ t.entities[Slot(t, e.id)] = e /\ t.data[Slot(t, e.id)] = e
            /\ \A i \in s.bitset : Kept(s, t, i)
        BY <1>0, <2>2, InsertNewFacts
      <3> QED BY <3>1
    <2> QED BY <2>1, <2>2
  <1>2. OwnsData(t)
    <2> SUFFICES ASSUME NEW i \in t.bitset PROVE t.data[Slot(t, i)] = t.entities[Slot(t, i)]
      BY DEF OwnsData
    <2>1. CASE i = e.id
      BY <1>1, <2>1
    <2>2. CASE i # e.id
      <3>1. i \in s.bitset \ {e.id}
        BY <1>1, <2>2
      <3> QED BY <1>1, <3>1 DEF OwnsData, Kept
    <2> QED BY <2>1, <2>2
  <1>3. Content(t) = [Content(s) EXCEPT ![e.id] = EntryOf(e)]
    <2>1. ASSUME NEW i \in Ids
          PROVE  Content(t)[i] = IF i = e.id THEN EntryOf(e) ELSE Content(s)[i]
      <3>1. CASE i = e.id
        <4>1. i \in Ids \cap t.bitset
          BY <1>0, <1>1, <3>1
        <4>2. Content(t)[i] = [gen |-> t.entities[Slot(t, i)].gen, value |-> t.data[Slot(t, i)]]
          BY <4>1, ContentOf, Zenon
        <4> QED BY <1>1, <3>1, <4>2, Zenon DEF EntryOf
      <3>2. CASE i # e.id /\ i \in s.bitset
        <4>1. i \in s.bitset \ {e.id} /\ i \in t.bitset
          BY <1>1, <3>2
        <4> QED BY <1>1, <3>2, <4>1, KeptContent
      <3>3. CASE i # e.id /\ i \notin s.bitset
        <4>1. i \notin t.bitset
          BY <1>1, <3>3
        <4> QED BY <3>3, <4>1, ContentOf
      <3> QED BY <3>1, <3>2, <3>3
    <2> QED BY <2>1, ContentOf
  <1> QED BY <1>1, <1>2, <1>3

LEMMA RemoveCall ==
  ASSUME NEW s, Sane(s), OwnsData(s), NEW e \in Entity, Has(s, e), NEW stamp \in Nat,
         NEW t, t = Remove(s, e, stamp)
  PROVE  /\ Sane(t) /\ OwnsData(t) /\ Grown(s, t, e) /\ t.layout = stamp
         /\ Content(s)[e.id] = EntryOf(e)
         /\ Content(t) = [Content(s) EXCEPT ![e.id] = Absent]
  <1>1. /\ Sane(t) /\ t.bitset = s.bitset \ {e.id} /\ Grown(s, t, e) /\ t.layout = stamp
        /\ \A i \in t.bitset : Kept(s, t, i)
    BY RemoveFacts
  <1>2. OwnsData(t)
    BY <1>1 DEF OwnsData, Kept
  <1>3. Content(s)[e.id] = EntryOf(e)
    <2>1. /\ e.id \in s.bitset /\ e.id \in Ids /\ s.entities[Slot(s, e.id)] = e
          /\ s.data[Slot(s, e.id)] = e
      BY HasEntry, EntityIds DEF Has, OwnsData
    <2>2. Content(s)[e.id] = [gen |-> s.entities[Slot(s, e.id)].gen, value |-> s.data[Slot(s, e.id)]]
      <3>1. e.id \in Ids \cap s.bitset
        BY <2>1
      <3> QED BY <3>1, ContentOf, Zenon
    <2> QED BY <2>1, <2>2, Zenon DEF EntryOf
  <1>4. Content(t) = [Content(s) EXCEPT ![e.id] = Absent]
    <2>1. ASSUME NEW i \in Ids
          PROVE  Content(t)[i] = IF i = e.id THEN Absent ELSE Content(s)[i]
      <3>1. CASE i \in t.bitset
        <4>1. i # e.id /\ i \in s.bitset
          BY <1>1, <3>1
        <4> QED BY <1>1, <3>1, <4>1, KeptContent
      <3>2. CASE i \notin t.bitset
        <4>1. i = e.id \/ i \notin s.bitset
          BY <1>1, <3>2
        <4> QED BY <3>2, <4>1, ContentOf
      <3> QED BY <3>1, <3>2
    <2> QED BY <2>1, ContentOf
  <1> QED BY <1>1, <1>2, <1>3, <1>4

\* A call that keeps every component keeps the map.
LEMMA SameContent ==
  ASSUME NEW s, NEW t, t.bitset = s.bitset, \A i \in s.bitset : Kept(s, t, i), OwnsData(s)
  PROVE  Content(t) = Content(s) /\ OwnsData(t)
  <1>1. ASSUME NEW i \in Ids PROVE Content(t)[i] = Content(s)[i]
    BY KeptContent, ContentOf
  <1>2. Content(t) = Content(s)
    BY <1>1, ContentOf
  <1> QED BY <1>2 DEF OwnsData, Kept

LEMMA WriteCall ==
  ASSUME NEW s, Sane(s), OwnsData(s), NEW e \in Entity, Has(s, e),
         NEW t, t = Write(s, e, e)
  PROVE  /\ Sane(t) /\ OwnsData(t) /\ Grown(s, t, e)
         /\ t.layout = s.layout /\ t.entities = s.entities
         /\ Content(t) = Content(s)
  <1>1. /\ Sane(t) /\ t.bitset = s.bitset /\ t.entities = s.entities
        /\ t.layout = s.layout /\ Grown(s, t, e)
        /\ t.entities[Slot(t, e.id)] = s.entities[Slot(s, e.id)]
        /\ t.data[Slot(t, e.id)] = e
        /\ \A i \in s.bitset \ {e.id} : Kept(s, t, i)
    BY ValuesAssumption, WriteFacts
  <1>2. s.data[Slot(s, e.id)] = e
    BY HasEntry DEF Has, OwnsData
  <1>3. \A i \in s.bitset : Kept(s, t, i)
    BY <1>1, <1>2 DEF Kept
  <1> QED BY <1>1, <1>3, SameContent

LEMMA WriteAllCall ==
  ASSUME NEW s, Sane(s), OwnsData(s), NEW t, t = WriteAll(s, s.entities)
  PROVE  /\ Sane(t) /\ OwnsData(t) /\ t.layout = s.layout /\ t.entities = s.entities
         /\ GrownByAll(s, t)
         /\ Content(t) = Content(s)
  <1>1. s.entities \in Seq(Entity)
    BY StoreFields DEF Sane
  <1>2. s.entities \in Seq(Values)
    <2>1. Seq(Entity) \subseteq Seq(Values)
      BY ValuesAssumption, SeqDef
    <2> QED BY <1>1, <2>1
  <1>3. /\ Sane(t) /\ t.bitset = s.bitset /\ t.entities = s.entities /\ t.data = s.entities
        /\ t.layout = s.layout /\ \A i : Slot(t, i) = Slot(s, i)
        /\ GrownByAll(s, t)
    BY <1>2, WriteAllFacts
  <1>4. \A i \in s.bitset : Kept(s, t, i)
    BY <1>3 DEF Kept, OwnsData
  <1> QED BY <1>3, <1>4, SameContent, Zenon

LEMMA ReorderCall ==
  ASSUME NEW s, Sane(s), OwnsData(s), NEW p, IsIdOrder(s, p), NEW stamp \in Nat,
         NEW t, t = Reorder(s, p, stamp)
  PROVE  /\ Sane(t) /\ OwnsData(t) /\ t.layout = stamp
         /\ GrownByAll(s, t)
         /\ Content(t) = Content(s)
  <1>1. /\ Sane(t) /\ t.bitset = s.bitset /\ t.layout = stamp
        /\ GrownByAll(s, t)
        /\ \A i \in s.bitset : Kept(s, t, i)
    BY ReorderFacts
  <1> QED BY <1>1, SameContent, Zenon

\* Turning tracking on, taking the log and cloning touch the log alone.
LEMMA LogCall ==
  ASSUME NEW s, Sane(s), OwnsData(s), NEW t, SameArrays(s, t), t.layout = s.layout,
         t \in Store, Len(t.log) <= ChangeIdCap
  PROVE  Sane(t) /\ OwnsData(t) /\ t.entities = s.entities /\ Content(t) = Content(s)
  <1>1. Sane(t)
    BY SameArraysCoherent DEF Sane
  <1>2. \A i \in s.bitset : Kept(s, t, i)
    BY DEF SameArrays, Kept, Slot
  <1> QED BY <1>1, <1>2, SameContent DEF SameArrays

LEMMA EnableCall ==
  ASSUME NEW s, Sane(s), OwnsData(s), NEW t, t = EnableChangeTracking(s)
  PROVE  /\ Sane(t) /\ OwnsData(t) /\ t.layout = s.layout /\ t.entities = s.entities
         /\ Logging(t) => Logging(s) /\ t.log = s.log
         /\ Content(t) = Content(s)
  <1>1. CASE s.track
    <2>1. t = s
      BY <1>1 DEF EnableChangeTracking
    <2> QED BY <2>1
  <1>2. CASE ~s.track
    <2>1. t = [s EXCEPT !.track = TRUE, !.exhaustive = TRUE]
      BY <1>2 DEF EnableChangeTracking
    <2>2. /\ s \in Store /\ Len(s.log) <= ChangeIdCap
          /\ TRUE \in BOOLEAN
      BY DEF Sane
    <2>3. t \in Store /\ SameArrays(s, t) /\ t.layout = s.layout /\ t.log = s.log
          /\ t.exhaustive = TRUE
      BY <2>1, <2>2 DEF Store, SameArrays
    <2>4. ~Logging(t)
      BY <2>3 DEF Logging
    <2>5. Len(t.log) <= ChangeIdCap
      BY <2>2, <2>3
    <2> QED BY <2>3, <2>4, <2>5, LogCall
  <1> QED BY <1>1, <1>2

LEMMA TakeCall ==
  ASSUME NEW s, Sane(s), OwnsData(s), NEW t, t = TakeChanges(s)
  PROVE  /\ Sane(t) /\ OwnsData(t) /\ t.layout = s.layout /\ t.entities = s.entities
         /\ Content(t) = Content(s)
  <1>1. t = [s EXCEPT !.log = <<>>, !.exhaustive = FALSE]
    BY DEF TakeChanges
  <1>2. s \in Store /\ <<>> \in Seq(Entity) /\ FALSE \in BOOLEAN
    BY DEF Sane
  <1>3. t \in Store /\ SameArrays(s, t) /\ t.layout = s.layout /\ t.log = <<>>
    BY <1>1, <1>2 DEF Store, SameArrays
  <1>4. Len(t.log) = 0
    BY <1>3
  <1>5. Len(t.log) <= ChangeIdCap
    BY <1>4, ChangeIdCapAssumption
  <1> QED BY <1>3, <1>5, LogCall

LEMMA CloneCall ==
  ASSUME NEW s, Sane(s), OwnsData(s), NEW t, t = Clone(s)
  PROVE  /\ Sane(t) /\ OwnsData(t) /\ t.layout = s.layout /\ t.entities = s.entities
         /\ ~Logging(t) /\ Content(t) = Content(s)
  <1>1. t = [s EXCEPT !.log = <<>>, !.exhaustive = s.track]
    BY DEF Clone
  <1>2. s \in Store /\ <<>> \in Seq(Entity) /\ s.track \in BOOLEAN
    BY StoreFields DEF Sane
  <1>3. /\ t \in Store /\ SameArrays(s, t) /\ t.layout = s.layout /\ t.log = <<>>
        /\ t.exhaustive = s.track /\ t.track = s.track
    BY <1>1, <1>2 DEF Store, SameArrays
  <1>4. Len(t.log) = 0
    BY <1>3
  <1>5. Len(t.log) <= ChangeIdCap
    BY <1>4, ChangeIdCapAssumption
  <1>6. ~Logging(t)
    BY <1>2, <1>3 DEF Logging
  <1> QED BY <1>3, <1>5, <1>6, LogCall

\* The feed of a store names every id of T.
Feeds(s, T) == Logging(s) => \A i \in T : Logged(s, i)

LEMMA GrownFeeds ==
  ASSUME NEW s \in Store, NEW t, NEW e \in Entity, Grown(s, t, e), NEW T, Feeds(s, T)
  PROVE  Feeds(t, T \cup {e.id})
  <1> SUFFICES ASSUME Logging(t), NEW i \in T \cup {e.id} PROVE Logged(t, i)
    BY DEF Feeds
  <1>1. Logging(s) /\ t.log = Append(s.log, e)
    BY DEF Grown
  <1>2. s.log \in Seq(Entity) /\ Len(s.log) \in Nat
    BY StoreFields
  <1>3. /\ Len(t.log) = Len(s.log) + 1 /\ t.log[Len(s.log) + 1] = e
        /\ \A k \in 1 .. Len(s.log) : t.log[k] = s.log[k]
    BY <1>1, <1>2
  <1>4. CASE i = e.id
    BY <1>2, <1>3, <1>4 DEF Logged
  <1>5. CASE i \in T
    <2>1. PICK k \in 1 .. Len(s.log) : s.log[k].id = i
      BY <1>1, <1>5 DEF Feeds, Logged
    <2>2. k \in 1 .. Len(t.log)
      BY <1>2, <1>3
    <2> QED BY <1>3, <2>1, <2>2 DEF Logged
  <1> QED BY <1>4, <1>5

LEMMA AllFeeds ==
  ASSUME NEW s, Sane(s), NEW t, GrownByAll(s, t),
         NEW T, Feeds(s, T)
  PROVE  Feeds(t, T \cup s.bitset)
  <1> SUFFICES ASSUME Logging(t), NEW i \in T \cup s.bitset PROVE Logged(t, i)
    BY DEF Feeds
  <1> DEFINE log == s.log
             entities == s.entities
  <1>1. Logging(s) /\ t.log = log \o entities
    BY DEF GrownByAll
  <1>2. log \in Seq(Entity) /\ entities \in Seq(Entity) /\ Len(log) \in Nat /\ Len(entities) \in Nat
    BY StoreFields DEF Sane
  <1>3. CASE i \in s.bitset
    <2>1. Slot(s, i) \in 1 .. Len(entities) /\ entities[Slot(s, i)].id = i
      BY <1>3, SlotOf
    <2> HIDE DEF log, entities
    <2> DEFINE all == log \o entities
               k == Len(log) + Slot(s, i)
    <2>2. Len(all) = Len(log) + Len(entities) /\ k \in 1 .. Len(all) /\ all[k] = entities[Slot(s, i)]
      BY <1>2, <2>1
    <2>3. k \in 1 .. Len(t.log) /\ t.log[k].id = i
      BY <1>1, <2>1, <2>2
    <2> QED BY <2>3 DEF Logged
  <1>4. CASE i \in T
    <2>1. PICK k \in 1 .. Len(log) : log[k].id = i
      BY <1>1, <1>4 DEF Feeds, Logged
    <2> HIDE DEF log, entities
    <2> DEFINE all == log \o entities
    <2>2. Len(all) = Len(log) + Len(entities) /\ k \in 1 .. Len(all) /\ all[k] = log[k]
      BY <1>2, <2>1
    <2>3. k \in 1 .. Len(t.log) /\ t.log[k].id = i
      BY <1>1, <2>1, <2>2
    <2> QED BY <2>3 DEF Logged
  <1> QED BY <1>3, <1>4

-----------------------------------------------------------------------------
(* The stores that a system walks together.                                *)

\* What Aligned says of the entity sequences q, one of each store.
AlignedIn(q) ==
  /\ \A k \in 1 .. Len(q[1]) - 1 : q[1][k].id < q[1][k + 1].id
  /\ \A x \in Stores : q[x] = q[1]

\* A layout version names one entity sequence, and none is from the future.
LayoutsName ==
  /\ \A x \in Stores : stores[x].layout <= clock
  /\ \A x, y \in Stores :
       stores[x].layout = stores[y].layout => stores[x].entities = stores[y].entities

\* The entity sequences q that the cached answer is about still go by the
\* layout versions cached with it.
Remembers(q) ==
  /\ alignment.layouts \in [Stores -> Nat]
  /\ \A x \in Stores : alignment.layouts[x] <= clock
  /\ alignment.aligned = AlignedIn(q)
  /\ \A x, y \in Stores :
       stores[x].layout = alignment.layouts[y] => stores[x].entities = q[y]

StoreInv ==
  /\ stores \in [Stores -> Store] /\ clock \in Nat /\ touched \in [Stores -> SUBSET Ids]
  /\ \A x \in Stores : Sane(stores[x]) /\ OwnsData(stores[x]) /\ Feeds(stores[x], touched[x])
  /\ LayoutsName
  /\ alignment # <<>> => \E q \in [Stores -> Seq(Entity)] : Remembers(q)

LEMMA StoresFacts == 1 \in Stores /\ Stores \subseteq Nat
  BY NumStoresAssumption DEF Stores

LEMMA StoreInitInv == StoreInit => StoreInv
  <1> SUFFICES ASSUME StoreInit PROVE StoreInv
    OBVIOUS
  <1>1. ASSUME NEW x \in Stores
        PROVE  /\ stores[x] = NewStore(x) /\ stores[x] \in Store /\ Sane(stores[x])
               /\ OwnsData(stores[x]) /\ ~Logging(stores[x]) /\ stores[x].layout = x
    <2> DEFINE s == NewStore(x)
    <2>1. stores[x] = s
      BY DEF StoreInit
    <2>2. /\ s.data = <<>> /\ s.entities = <<>> /\ s.bitset = {} /\ s.layout = x
          /\ s.track = FALSE /\ s.log = <<>>
      BY DEF NewStore
    <2>3. s \in Store
      <3>1. /\ <<>> \in Seq(Values) /\ <<>> \in Seq(Entity) /\ {} \in SUBSET Ids
            /\ [i \in Ids |-> 0] \in [Ids -> Nat] /\ x \in Nat /\ FALSE \in BOOLEAN
        BY StoresFacts
      <3> QED BY <3>1 DEF NewStore, Store
    <2> HIDE DEF s
    <2>4. Len(s.log) = 0 /\ Len(s.data) = 0 /\ Len(s.entities) = 0
      BY <2>2
    <2>5. Coherent(s)
      BY <2>2, <2>4 DEF Coherent
    <2>6. Len(s.log) <= ChangeIdCap
      BY <2>4, ChangeIdCapAssumption
    <2> QED BY <2>1, <2>2, <2>3, <2>5, <2>6 DEF Sane, OwnsData, Logging, s
  <1>2. clock = NumStores /\ alignment = <<>> /\ touched = [x \in Stores |-> {}]
    BY DEF StoreInit
  <1>3. stores \in [Stores -> Store]
    BY <1>1 DEF StoreInit
  <1>4. touched \in [Stores -> SUBSET Ids]
    BY <1>2
  <1>5. \A x \in Stores : Feeds(stores[x], touched[x])
    BY <1>1 DEF Feeds
  <1>6. LayoutsName
    BY <1>1, <1>2, NumStoresAssumption DEF LayoutsName, Stores
  <1> QED BY <1>1, <1>2, <1>3, <1>4, <1>5, <1>6, NumStoresAssumption DEF StoreInv

\* A call on store x leaves it as t: with a fresh layout version, or with the
\* version and the entities that some store already had.
LEMMA CallKeepsInv ==
  ASSUME StoreInv, NEW x \in Stores, NEW t, Set(x, t),
         Sane(t), OwnsData(t),
         \/ t.layout = NextLayout
         \/ \E z \in Stores : t.layout = stores[z].layout /\ t.entities = stores[z].entities,
         NEW ids \in SUBSET Ids, touched' = [touched EXCEPT ![x] = ids], Feeds(t, ids)
  PROVE  StoreInv'
  <1>1. /\ stores \in [Stores -> Store] /\ clock \in Nat /\ touched \in [Stores -> SUBSET Ids]
        /\ \A y \in Stores : Sane(stores[y]) /\ OwnsData(stores[y]) /\ Feeds(stores[y], touched[y])
        /\ t \in Store /\ t.layout \in Nat
        /\ \A y \in Stores : stores[y].layout \in Nat /\ stores[y].layout <= clock
    BY StoreFields DEF StoreInv, Sane, LayoutsName
  <1>2. /\ stores' = [stores EXCEPT ![x] = t]
        /\ clock' = IF t.layout = NextLayout THEN NextLayout ELSE clock
        /\ alignment' = alignment
    BY DEF Set
  <1>3. /\ stores' \in [Stores -> Store] /\ touched' \in [Stores -> SUBSET Ids]
        /\ stores'[x] = t /\ touched'[x] = ids
        /\ \A y \in Stores \ {x} : stores'[y] = stores[y] /\ touched'[y] = touched[y]
    BY <1>1, <1>2
  <1>4. /\ clock' \in Nat /\ clock <= clock'
        /\ (t.layout = NextLayout /\ clock' = clock + 1)
             \/ (t.layout <= clock /\ clock' = clock
                 /\ \E z \in Stores : t.layout = stores[z].layout /\ t.entities = stores[z].entities)
    BY <1>1, <1>2 DEF NextLayout
  <1>5. (\A y \in Stores : Sane(stores[y]) /\ OwnsData(stores[y]) /\ Feeds(stores[y], touched[y]))'
    BY <1>1, <1>3
  <1>6. LayoutsName'
    <2>1. \A y \in Stores : stores'[y].layout <= clock'
      BY <1>1, <1>3, <1>4 DEF NextLayout
    <2>2. ASSUME NEW y \in Stores, NEW w \in Stores, stores'[y].layout = stores'[w].layout
          PROVE  stores'[y].entities = stores'[w].entities
      <3>1. \A a, b \in Stores :
              stores[a].layout = stores[b].layout => stores[a].entities = stores[b].entities
        BY DEF StoreInv, LayoutsName
      <3>2. ASSUME NEW z \in Stores, z # x, stores[z].layout = t.layout
            PROVE  stores[z].entities = t.entities
        <4>1. t.layout # clock + 1
          BY <1>1, <3>2
        <4> QED BY <1>4, <3>1, <3>2, <4>1 DEF NextLayout
      <3> QED BY <1>3, <2>2, <3>1, <3>2
    <2> QED BY <2>1, <2>2 DEF LayoutsName
  <1>7. ASSUME alignment' # <<>>
        PROVE  \E q \in [Stores -> Seq(Entity)] : Remembers(q)'
    <2>1. PICK q \in [Stores -> Seq(Entity)] : Remembers(q)
      BY <1>2, <1>7 DEF StoreInv
    <2>2. /\ alignment.layouts \in [Stores -> Nat]
          /\ \A y \in Stores : alignment.layouts[y] <= clock
          /\ alignment.aligned = AlignedIn(q)
          /\ \A y, w \in Stores :
               stores[y].layout = alignment.layouts[w] => stores[y].entities = q[w]
      BY <2>1 DEF Remembers
    <2>3. \A y \in Stores : alignment.layouts[y] \in Nat /\ alignment.layouts[y] <= clock'
      BY <1>1, <1>4, <2>2
    <2>4. ASSUME NEW w \in Stores, t.layout = alignment.layouts[w]
          PROVE  t.entities = q[w]
      <3>1. t.layout # clock + 1
        BY <1>1, <2>2, <2>3, <2>4
      <3> QED BY <1>4, <2>2, <2>4, <3>1 DEF NextLayout
    <2>5. \A y, w \in Stores :
               stores'[y].layout = alignment.layouts[w] => stores'[y].entities = q[w]
      <3> SUFFICES ASSUME NEW y \in Stores, NEW w \in Stores,
                          stores'[y].layout = alignment.layouts[w]
                   PROVE  stores'[y].entities = q[w]
        OBVIOUS
      <3>1. CASE y = x
        BY <1>3, <2>4, <3>1
      <3>2. CASE y # x
        <4>1. stores'[y] = stores[y]
          BY <1>3, <3>2
        <4>2. stores[y].layout = alignment.layouts[w]
          BY <4>1, Zenon
        <4> QED BY <2>2, <4>1, <4>2, Zenon
      <3> QED BY <3>1, <3>2
    <2>6. Remembers(q)'
      BY <1>2, <2>2, <2>3, <2>5 DEF Remembers, AlignedIn
    <2> QED BY <2>6
  <1> QED BY <1>3, <1>4, <1>5, <1>6, <1>7 DEF StoreInv

\* What one step does to store x, for the invariant and for its callers' map.
LEMMA StoreStep ==
  ASSUME StoreInv, StoreNext
  PROVE  /\ StoreInv'
         /\ \/ \E x \in Stores, e \in Entity :
                 /\ stores' = [stores EXCEPT ![x] = stores'[x]]
                 /\ Content(stores'[x]) = [Content(stores[x]) EXCEPT ![e.id] = EntryOf(e)]
            \/ \E x \in Stores, e \in Entity :
                 /\ stores' = [stores EXCEPT ![x] = stores'[x]]
                 /\ Content(stores[x])[e.id] = EntryOf(e)
                 /\ Content(stores'[x]) = [Content(stores[x]) EXCEPT ![e.id] = Absent]
            \/ \E x, y \in Stores :
                 /\ stores' = [stores EXCEPT ![y] = stores'[y]]
                 /\ Content(stores'[y]) = Content(stores[x])
            \/ stores' = stores
  <1>1. /\ stores \in [Stores -> Store] /\ clock \in Nat /\ touched \in [Stores -> SUBSET Ids]
        /\ \A x \in Stores : Sane(stores[x]) /\ OwnsData(stores[x]) /\ Feeds(stores[x], touched[x])
        /\ NextLayout \in Nat
    BY DEF StoreInv, NextLayout
  <1>2. ASSUME NEW x \in Stores, NEW t, stores' = [stores EXCEPT ![x] = t]
        PROVE  stores'[x] = t /\ stores' = [stores EXCEPT ![x] = stores'[x]]
    BY <1>1, <1>2
  <1>3. ASSUME NEW x \in Stores, InsertAt(x)
        PROVE  StoreInv' /\ \E e \in Entity :
                 /\ stores' = [stores EXCEPT ![x] = stores'[x]]
                 /\ Content(stores'[x]) = [Content(stores[x]) EXCEPT ![e.id] = EntryOf(e)]
    <2>1. PICK e \in Entity : Call(x, Insert(stores[x], e, e, NextLayout), {e.id})
      BY <1>3 DEF InsertAt
    <2> DEFINE s == stores[x]
               t == Insert(s, e, e, NextLayout)
               ids == touched[x] \cup {e.id}
    <2>2. /\ Sane(t) /\ OwnsData(t) /\ Grown(s, t, e)
          /\ t.layout = NextLayout \/ (t.layout = s.layout /\ t.entities = s.entities)
          /\ Content(t) = [Content(s) EXCEPT ![e.id] = EntryOf(e)]
      BY <1>1, InsertCall
    <2>3. Set(x, t) /\ touched' = [touched EXCEPT ![x] = ids]
      BY <2>1 DEF Call
    <2> HIDE DEF t
    <2>4. Feeds(t, ids) /\ ids \in SUBSET Ids
      BY <1>1, <2>2, GrownFeeds, EntityIds DEF Sane
    <2>5. StoreInv'
      BY <2>2, <2>3, <2>4, CallKeepsInv
    <2> QED BY <1>2, <2>2, <2>3, <2>5 DEF Set
  <1>4. ASSUME NEW x \in Stores, RemoveAt(x)
        PROVE  StoreInv' /\ \E e \in Entity :
                 /\ stores' = [stores EXCEPT ![x] = stores'[x]]
                 /\ Content(stores[x])[e.id] = EntryOf(e)
                 /\ Content(stores'[x]) = [Content(stores[x]) EXCEPT ![e.id] = Absent]
    <2>1. PICK e \in Entity : /\ Has(stores[x], e)
                              /\ Call(x, Remove(stores[x], e, NextLayout), {e.id})
      BY <1>4 DEF RemoveAt
    <2> DEFINE s == stores[x]
               t == Remove(s, e, NextLayout)
               ids == touched[x] \cup {e.id}
    <2>2. /\ Sane(t) /\ OwnsData(t) /\ Grown(s, t, e) /\ t.layout = NextLayout
          /\ Content(s)[e.id] = EntryOf(e)
          /\ Content(t) = [Content(s) EXCEPT ![e.id] = Absent]
      BY <1>1, <2>1, RemoveCall
    <2>3. Set(x, t) /\ touched' = [touched EXCEPT ![x] = ids]
      BY <2>1 DEF Call
    <2> HIDE DEF t
    <2>4. Feeds(t, ids) /\ ids \in SUBSET Ids
      BY <1>1, <2>2, GrownFeeds, EntityIds DEF Sane
    <2>5. StoreInv'
      BY <2>2, <2>3, <2>4, CallKeepsInv
    <2> QED BY <1>2, <2>2, <2>3, <2>5 DEF Set
  <1>5. ASSUME NEW x \in Stores, NEW t, Set(x, t), Sane(t), OwnsData(t),
               NEW ids \in SUBSET Ids, touched' = [touched EXCEPT ![x] = ids], Feeds(t, ids),
               NEW z \in Stores, Content(t) = Content(stores[z]),
               t.layout = NextLayout
                 \/ (t.layout = stores[z].layout /\ t.entities = stores[z].entities)
        PROVE  StoreInv' /\ \E a, b \in Stores :
                 /\ stores' = [stores EXCEPT ![b] = stores'[b]]
                 /\ Content(stores'[b]) = Content(stores[a])
    <2>1. \/ t.layout = NextLayout
          \/ \E w \in Stores : t.layout = stores[w].layout /\ t.entities = stores[w].entities
      BY <1>5, Zenon
    <2>2. StoreInv'
      BY <1>5, <2>1, CallKeepsInv
    <2>3. stores' = [stores EXCEPT ![x] = t]
      BY <1>5 DEF Set
    <2>4. stores'[x] = t /\ stores' = [stores EXCEPT ![x] = stores'[x]]
      BY <1>2, <2>3
    <2>5. Content(stores'[x]) = Content(stores[z])
      BY <1>5, <2>4
    <2> QED BY <2>2, <2>4, <2>5, Zenon
  <1>6. ASSUME NEW x \in Stores, WriteAt(x)
        PROVE  StoreInv' /\ \E a, b \in Stores :
                 /\ stores' = [stores EXCEPT ![b] = stores'[b]]
                 /\ Content(stores'[b]) = Content(stores[a])
    <2>1. PICK e \in Entity : /\ Has(stores[x], e)
                              /\ Call(x, Write(stores[x], e, e), {e.id})
      BY <1>6 DEF WriteAt
    <2> DEFINE s == stores[x]
               t == Write(s, e, e)
               ids == touched[x] \cup {e.id}
    <2>2. /\ Sane(t) /\ OwnsData(t) /\ Grown(s, t, e)
          /\ t.layout = s.layout /\ t.entities = s.entities
          /\ Content(t) = Content(s)
      BY <1>1, <2>1, WriteCall
    <2>3. Set(x, t) /\ touched' = [touched EXCEPT ![x] = ids]
      BY <2>1 DEF Call
    <2> HIDE DEF t
    <2>4. Feeds(t, ids) /\ ids \in SUBSET Ids
      BY <1>1, <2>2, GrownFeeds, EntityIds DEF Sane
    <2> QED BY <1>5, <2>2, <2>3, <2>4
  <1>7. ASSUME NEW x \in Stores, WriteAllAt(x)
        PROVE  StoreInv' /\ \E a, b \in Stores :
                 /\ stores' = [stores EXCEPT ![b] = stores'[b]]
                 /\ Content(stores'[b]) = Content(stores[a])
    <2> DEFINE s == stores[x]
               t == WriteAll(s, s.entities)
               ids == touched[x] \cup s.bitset
    <2>2. /\ Sane(t) /\ OwnsData(t) /\ t.layout = s.layout /\ t.entities = s.entities
          /\ GrownByAll(s, t)
          /\ Content(t) = Content(s)
      BY <1>1, WriteAllCall, Zenon
    <2>3. Set(x, t) /\ touched' = [touched EXCEPT ![x] = ids]
      BY <1>7, Zenon DEF WriteAllAt, Call
    <2> HIDE DEF t
    <2>4. Feeds(t, ids)
      BY <1>1, <2>2, AllFeeds, Zenon
    <2>5. ids \in SUBSET Ids
      BY <1>1, StoreFields
    <2> QED BY <1>5, <2>2, <2>3, <2>4, <2>5
  <1>8. ASSUME NEW x \in Stores, DefragAt(x)
        PROVE  StoreInv' /\ \E a, b \in Stores :
                 /\ stores' = [stores EXCEPT ![b] = stores'[b]]
                 /\ Content(stores'[b]) = Content(stores[a])
    <2>1. PICK p : /\ IsIdOrder(stores[x], p)
                   /\ Call(x, Reorder(stores[x], p, NextLayout), {})
      BY <1>8, Zenon DEF DefragAt
    <2> DEFINE s == stores[x]
               t == Reorder(s, p, NextLayout)
               ids == touched[x]
    <2>2. /\ Sane(t) /\ OwnsData(t) /\ t.layout = NextLayout
          /\ GrownByAll(s, t)
          /\ Content(t) = Content(s)
      BY <1>1, <2>1, ReorderCall
    <2>3. Set(x, t) /\ touched' = [touched EXCEPT ![x] = touched[x] \cup {}]
      BY <2>1, Zenon DEF Call
    <2> HIDE DEF t
    <2>4. Feeds(t, touched[x] \cup s.bitset)
      BY <1>1, <2>2, AllFeeds, Zenon
    <2>5. Feeds(t, ids) /\ ids \in SUBSET Ids /\ touched[x] \cup {} = ids
      BY <1>1, <2>4 DEF Feeds
    <2> QED BY <1>5, <2>2, <2>3, <2>5
  <1>9. ASSUME NEW x \in Stores, EnableAt(x)
        PROVE  StoreInv' /\ \E a, b \in Stores :
                 /\ stores' = [stores EXCEPT ![b] = stores'[b]]
                 /\ Content(stores'[b]) = Content(stores[a])
    <2> DEFINE s == stores[x]
               t == EnableChangeTracking(s)
               ids == touched[x]
    <2>2. /\ Sane(t) /\ OwnsData(t) /\ t.layout = s.layout /\ t.entities = s.entities
          /\ Logging(t) => Logging(s) /\ t.log = s.log
          /\ Content(t) = Content(s)
      BY <1>1, EnableCall
    <2>3. Set(x, t) /\ touched' = [touched EXCEPT ![x] = touched[x] \cup {}]
      BY <1>9 DEF EnableAt, Call
    <2> HIDE DEF t
    <2>4. Feeds(t, ids) /\ ids \in SUBSET Ids /\ touched[x] \cup {} = ids
      BY <1>1, <2>2 DEF Feeds, Logged
    <2> QED BY <1>5, <2>2, <2>3, <2>4
  <1>10. ASSUME NEW x \in Stores, TakeAt(x)
         PROVE  StoreInv' /\ \E a, b \in Stores :
                 /\ stores' = [stores EXCEPT ![b] = stores'[b]]
                 /\ Content(stores'[b]) = Content(stores[a])
    <2> DEFINE s == stores[x]
               t == TakeChanges(s)
    <2>2. /\ Sane(t) /\ OwnsData(t) /\ t.layout = s.layout /\ t.entities = s.entities
          /\ Content(t) = Content(s)
      BY <1>1, TakeCall
    <2>3. Set(x, t) /\ touched' = [touched EXCEPT ![x] = {}]
      BY <1>10 DEF TakeAt
    <2> HIDE DEF t
    <2>4. Feeds(t, {}) /\ {} \in SUBSET Ids
      BY DEF Feeds
    <2> QED BY <1>5, <2>2, <2>3, <2>4
  <1>11. ASSUME NEW x \in Stores, NEW y \in Stores, CloneTo(x, y)
         PROVE  StoreInv' /\ \E a, b \in Stores :
                 /\ stores' = [stores EXCEPT ![b] = stores'[b]]
                 /\ Content(stores'[b]) = Content(stores[a])
    <2> DEFINE s == stores[x]
               t == Clone(s)
    <2>2. /\ Sane(t) /\ OwnsData(t) /\ t.layout = s.layout /\ t.entities = s.entities
          /\ ~Logging(t) /\ Content(t) = Content(s)
      BY <1>1, CloneCall
    <2>3. Set(y, t) /\ touched' = [touched EXCEPT ![y] = s.bitset]
      BY <1>11 DEF CloneTo
    <2> HIDE DEF t
    <2>4. Feeds(t, s.bitset) /\ s.bitset \in SUBSET Ids
      BY <1>1, <2>2, StoreFields DEF Feeds
    <2> QED BY <1>5, <2>2, <2>3, <2>4
  <1>12. ASSUME CheckAlignment PROVE StoreInv' /\ stores' = stores
    <2>1. /\ alignment' = [layouts |-> Layouts, aligned |-> Aligned]
          /\ stores' = stores /\ clock' = clock /\ touched' = touched
      BY <1>12 DEF CheckAlignment
    <2>2. PICK q \in [Stores -> Seq(Entity)] : \A x \in Stores : q[x] = stores[x].entities
      <3>1. \A x \in Stores : stores[x].entities \in Seq(Entity)
        BY <1>1, StoreFields
      <3>2. [x \in Stores |-> stores[x].entities] \in [Stores -> Seq(Entity)]
        BY <3>1
      <3> QED BY <3>2
    <2>3. Layouts \in [Stores -> Nat] /\ \A x \in Stores : Layouts[x] = stores[x].layout
      BY <1>1, StoreFields DEF Layouts
    <2>4. Aligned = AlignedIn(q)
      BY <2>2, StoresFacts DEF Aligned, AlignedIn, IsIdOrdered
    <2>5. /\ alignment'.layouts = Layouts /\ alignment'.aligned = Aligned
      BY <2>1
    <2>6. Remembers(q)'
      <3>1. LayoutsName
        BY DEF StoreInv
      <3>2. Aligned = AlignedIn(q)'
        BY <2>4 DEF AlignedIn
      <3>3. \A x, y \in Stores :
              stores[x].layout = Layouts[y] => stores[x].entities = q[y]
        BY <2>2, <2>3, <3>1 DEF LayoutsName
      <3>4. \A x \in Stores : Layouts[x] <= clock
        BY <2>3, <3>1 DEF LayoutsName
      <3> QED BY <2>1, <2>3, <2>5, <3>2, <3>3, <3>4 DEF Remembers
    <2>7. LayoutsName'
      BY <2>1 DEF StoreInv, LayoutsName
    <2> QED BY <1>1, <2>1, <2>2, <2>6, <2>7 DEF StoreInv
  <1> QED BY <1>3, <1>4, <1>6, <1>7, <1>8, <1>9, <1>10, <1>11, <1>12, Zenon DEF StoreNext

\* The inductive invariant of the stores.
THEOREM StoresInvariant == StoreSpec => []StoreInv
  <1>1. ASSUME StoreInv, [StoreNext]_storeVars PROVE StoreInv'
    <2>1. CASE StoreNext
      BY <1>1, <2>1, StoreStep
    <2>2. CASE UNCHANGED storeVars
      <3>1. StoreInv' = StoreInv
        BY <2>2 DEF storeVars, StoreInv, LayoutsName, Remembers, AlignedIn
      <3> QED BY <1>1, <3>1
    <2> QED BY <1>1, <2>1, <2>2
  <1> QED BY <1>1, StoreInitInv, PTL DEF StoreSpec

\* For any number of stores, entities and generations and any cap on the log:
\* after any calls the dense arrays, the sparse index and the bitset of every
\* store describe the same components, and a feed that does not call itself
\* exhaustive names every id that was inserted, mutated or removed since it was
\* last taken (component_store.rs).
THEOREM StoresAreCoherent == StoreSpec => []StoresCoherent
  <1>1. StoreInv => StoresCoherent
    BY DEF StoreInv, StoresCoherent, StoreTypeOK, Sane, Feeds
  <1> QED BY <1>1, StoresInvariant, PTL

\* Equal layout versions mean equal entity sequences, so the alignment that a
\* generated system cached for these versions is the one it would compute now
\* (smart_system_lanes.rs).
THEOREM AlignmentIsFresh == StoreSpec => []AlignmentFresh
  <1>1. StoreInv => AlignmentFresh
    <2> SUFFICES ASSUME StoreInv, CacheHit PROVE alignment.aligned = Aligned
      BY DEF AlignmentFresh
    <2>1. PICK q \in [Stores -> Seq(Entity)] : Remembers(q)
      BY DEF StoreInv, CacheHit
    <2>2. \A x \in Stores : alignment.layouts[x] = stores[x].layout
      BY DEF CacheHit, Layouts
    <2>3. \A x \in Stores : stores[x].entities = q[x]
      BY <2>1, <2>2 DEF Remembers
    <2> QED BY <2>1, <2>3, StoresFacts DEF Remembers, Aligned, AlignedIn, IsIdOrdered
  <1> QED BY <1>1, StoresInvariant, PTL

ContentMaps == [x \in Stores |-> Content(stores[x])]

\* Swap-removal, defrag, refreshed handles and writes are invisible to the
\* callers: every call on a store is one step of the map from ids to the handle
\* and component written last, or none (component_store.rs).
THEOREM StoresAreMaps == StoreSpec => MapsSpec
  <1>1. StoreInit => Maps!Init
    <2> SUFFICES ASSUME StoreInit PROVE Maps!Init
      OBVIOUS
    <2>1. ASSUME NEW x \in Stores PROVE Content(stores[x]) = [i \in Ids |-> Absent]
      <3>1. stores[x] = NewStore(x)
        BY DEF StoreInit
      <3>2. stores[x].bitset = {}
        BY <3>1 DEF NewStore
      <3> QED BY <3>2 DEF Content
    <2> QED BY <2>1 DEF Maps!Init
  <1>2. ASSUME StoreInv, [StoreNext]_storeVars
        PROVE  [Maps!Next]_ContentMaps
    <2>1. CASE UNCHANGED storeVars
      BY <2>1 DEF storeVars, ContentMaps
    <2>2. CASE StoreNext
      <3>0. stores \in [Stores -> Store]
        BY <1>2 DEF StoreInv
      <3>1. ASSUME NEW x \in Stores, stores' = [stores EXCEPT ![x] = stores'[x]]
            PROVE  /\ ContentMaps' = [ContentMaps EXCEPT ![x] = Content(stores'[x])]
                   /\ \A y \in Stores : ContentMaps[y] = Content(stores[y])
        BY <3>0, <3>1 DEF ContentMaps
      <3>2. ASSUME NEW x \in Stores, NEW e \in Entity,
                   stores' = [stores EXCEPT ![x] = stores'[x]],
                   Content(stores'[x]) = [Content(stores[x]) EXCEPT ![e.id] = EntryOf(e)]
            PROVE  Maps!Next
        <4>1. ContentMaps' = [ContentMaps EXCEPT ![x][e.id] = EntryOf(e)]
          BY <3>1, <3>2
        <4>2. Maps!Insert(x, e)
          BY <4>1 DEF Maps!Insert, Maps!Entry, EntryOf, ContentMaps
        <4> QED BY <4>2 DEF Maps!Next
      <3>3. ASSUME NEW x \in Stores, NEW e \in Entity,
                   stores' = [stores EXCEPT ![x] = stores'[x]],
                   Content(stores[x])[e.id] = EntryOf(e),
                   Content(stores'[x]) = [Content(stores[x]) EXCEPT ![e.id] = Absent]
            PROVE  Maps!Next
        <4>1. /\ ContentMaps[x][e.id] = EntryOf(e)
              /\ ContentMaps' = [ContentMaps EXCEPT ![x][e.id] = Absent]
          BY <3>1, <3>3
        <4>2. Maps!Remove(x, e)
          BY <4>1 DEF Maps!Remove, Maps!Entry, EntryOf, ContentMaps
        <4> QED BY <4>2 DEF Maps!Next
      <3>4. ASSUME NEW x \in Stores, NEW y \in Stores,
                   stores' = [stores EXCEPT ![y] = stores'[y]],
                   Content(stores'[y]) = Content(stores[x])
            PROVE  Maps!Next
        <4>1. ContentMaps' = [ContentMaps EXCEPT ![y] = ContentMaps[x]]
          BY <3>1, <3>4
        <4>2. Maps!Clone(x, y)
          BY <4>1 DEF Maps!Clone, ContentMaps
        <4> QED BY <4>2 DEF Maps!Next
      <3>5. stores' = stores => UNCHANGED ContentMaps
        BY DEF ContentMaps
      <3> QED BY <1>2, <2>2, <3>2, <3>3, <3>4, <3>5, StoreStep
    <2> QED BY <1>2, <2>1, <2>2
  <1> QED BY <1>1, <1>2, StoresInvariant, PTL DEF StoreSpec, MapsSpec, Maps!Spec, ContentMaps

-----------------------------------------------------------------------------
(* The renderer's records over the same operators.  Of the assumptions on  *)
(* constants only those of SparseSet and InstanceRecords are used here.    *)

\* The entities of the cached list.
Cached == {cache.entities[k] : k \in 1 .. Len(cache.entities)}

\* The records and the motion history are the frame on screen.
OnScreen ==
  /\ cache = [entities |-> cache.entities, records |-> cache.records, pending |-> cache.pending]
  /\ last = <<last[1], last[2]>> /\ previous = last[2]
  /\ previous \in [Cached -> Values]
  /\ \A k \in 1 .. Len(cache.entities) :
       /\ cache.records[k].model = previous[cache.entities[k]]
       /\ cache.records[k].valid => cache.entities[k] \in DOMAIN last[1]

\* The entity is in the log of the pose lane.
Named(e) == \E n \in 1 .. Len(poses.log) : poses.log[n] = e

\* The entry of id i is on screen as it is in the lane.
Shown(s, i) ==
  s.entities[Slot(s, i)] \in Cached /\ s.data[Slot(s, i)] = previous[s.entities[Slot(s, i)]]

\* What the log does not name has not changed since the last frame.
FeedNamesChanges ==
  Logging(poses) =>
    \A i \in poses.bitset : Named(poses.entities[Slot(poses, i)]) \/ Shown(poses, i)

RecordInv == RecordTypeOK /\ Sane(poses) /\ OnScreen /\ FeedNamesChanges

Record == [model : Values, previous : Values, valid : BOOLEAN]

LEMMA RecordInitInv == RecordInit => RecordInv
  <1> SUFFICES ASSUME RecordInit PROVE RecordInv
    OBVIOUS
  <1> DEFINE nothing == [e \in {} |-> 0]
  <1>1. /\ poses = NewStore(0) /\ previous = nothing /\ last = <<nothing, nothing>>
        /\ cache = [entities |-> <<>>, records |-> <<>>, pending |-> {}]
    BY DEF RecordInit
  <1>2. poses \in Store /\ poses.log = <<>> /\ poses.entities = <<>> /\ poses.data = <<>>
        /\ poses.bitset = {} /\ ~Logging(poses)
    BY <1>1 DEF NewStore, Store, Logging
  <1>3. Sane(poses)
    BY <1>2, ChangeIdCapAssumption DEF Sane, Coherent
  <1>4. /\ cache.entities = <<>> /\ cache.records = <<>> /\ cache.pending = {}
        /\ Cached = {}
    BY <1>1 DEF Cached
  <1>5. RecordTypeOK
    BY <1>2, <1>4 DEF RecordTypeOK
  <1>6. OnScreen
    <2>1. nothing \in [{} -> Values]
      OBVIOUS
    <2>2. last = <<last[1], last[2]>> /\ previous = last[2]
      BY <1>1
    <2>3. cache = [entities |-> cache.entities, records |-> cache.records, pending |-> cache.pending]
      BY <1>1
    <2> QED BY <1>1, <1>4, <2>1, <2>2, <2>3 DEF OnScreen
  <1> QED BY <1>2, <1>3, <1>5, <1>6 DEF RecordInv, FeedNamesChanges

\* Entries that a call keeps stay shown or named; the one it touches is named.
LEMMA TouchedIsNamed ==
  ASSUME RecordInv, NEW e \in Entity, UNCHANGED <<cache, previous, last>>,
         Sane(poses'), Grown(poses, poses', e),
         \A i \in poses'.bitset :
            \/ poses'.entities[Slot(poses', i)] = e
            \/ i \in poses.bitset /\ Kept(poses, poses', i)
  PROVE  RecordInv'
  <1>1. Cached' = Cached /\ OnScreen' /\ RecordTypeOK'
    BY DEF RecordInv, OnScreen, Cached, RecordTypeOK, Sane
  <1>2. ASSUME Logging(poses') , NEW i \in poses'.bitset
        PROVE  Named(poses.entities[Slot(poses, i)])' \/ Shown(poses, i)'
    <2> DEFINE f == poses'.entities[Slot(poses', i)]
    <2>1. /\ Logging(poses) /\ poses'.log = Append(poses.log, e)
          /\ poses.log \in Seq(Entity)
      BY <1>2, StoreFields DEF Grown, RecordInv, Sane
    <2>2. /\ Len(poses'.log) = Len(poses.log) + 1 /\ Len(poses.log) \in Nat
          /\ poses'.log[Len(poses.log) + 1] = e
          /\ \A n \in 1 .. Len(poses.log) : poses'.log[n] = poses.log[n]
      BY <2>1
    <2>3. CASE f = e
      <3>1. Len(poses.log) + 1 \in 1 .. Len(poses'.log)
        BY <2>2
      <3> QED BY <2>2, <2>3, <3>1 DEF Named
    <2>4. CASE i \in poses.bitset /\ Kept(poses, poses', i)
      <3>1. f = poses.entities[Slot(poses, i)] /\ poses'.data[Slot(poses', i)] = poses.data[Slot(poses, i)]
        BY <2>4 DEF Kept
      <3>2. CASE Named(poses.entities[Slot(poses, i)])
        <4>1. PICK n \in 1 .. Len(poses.log) : poses.log[n] = poses.entities[Slot(poses, i)]
          BY <3>2 DEF Named
        <4>2. n \in 1 .. Len(poses'.log) /\ poses'.log[n] = f
          BY <2>2, <3>1, <4>1
        <4> QED BY <4>2 DEF Named
      <3>3. CASE Shown(poses, i)
        BY <1>1, <3>1, <3>3 DEF Shown
      <3> QED BY <2>1, <2>4, <3>2, <3>3 DEF RecordInv, FeedNamesChanges
    <2> QED BY <2>3, <2>4
  <1> QED BY <1>1, <1>2 DEF RecordInv, FeedNamesChanges

LEMMA ChangeLaneKeeps == ASSUME RecordInv, ChangeLane PROVE RecordInv'
  <1>1. PICK e \in Drawn :
       \/ \E v \in Values : poses' = Insert(poses, e, v, 0)
       \/ Has(poses, e) /\ poses' = Remove(poses, e, 0)
       \/ Has(poses, e) /\ \E v \in Values : poses' = Write(poses, e, v)
    BY DEF ChangeLane
  <1>2. e \in Entity /\ Sane(poses) /\ 0 \in Nat /\ UNCHANGED <<cache, previous, last>>
    BY DrawnAssumption DEF RecordInv, ChangeLane
  <1>3. ASSUME NEW v \in Values, poses' = Insert(poses, e, v, 0) PROVE RecordInv'
    <2>1. CASE e.id \notin poses.bitset
      <3>1. /\ Sane(poses') /\ Grown(poses, poses', e) /\ poses'.bitset = poses.bitset \cup {e.id}
            /\ poses'.entities[Slot(poses', e.id)] = e
            /\ \A i \in poses.bitset : Kept(poses, poses', i)
        BY <1>2, <1>3, <2>1, InsertNewFacts
      <3> QED BY <1>2, <3>1, TouchedIsNamed
    <2>2. CASE e.id \in poses.bitset
      <3>1. /\ Sane(poses') /\ Grown(poses, poses', e) /\ poses'.bitset = poses.bitset
            /\ poses'.entities[Slot(poses', e.id)] = e
            /\ \A i \in poses.bitset \ {e.id} : Kept(poses, poses', i)
        BY <1>2, <1>3, <2>2, InsertOverFacts
      <3> QED BY <1>2, <3>1, TouchedIsNamed
    <2> QED BY <2>1, <2>2
  <1>4. ASSUME Has(poses, e), poses' = Remove(poses, e, 0) PROVE RecordInv'
    <2>1. /\ Sane(poses') /\ Grown(poses, poses', e) /\ poses'.bitset = poses.bitset \ {e.id}
          /\ \A i \in poses'.bitset : Kept(poses, poses', i)
      BY <1>2, <1>4, RemoveFacts
    <2> QED BY <1>2, <2>1, TouchedIsNamed
  <1>5. ASSUME Has(poses, e), NEW v \in Values, poses' = Write(poses, e, v) PROVE RecordInv'
    <2>1. /\ Sane(poses') /\ Grown(poses, poses', e) /\ poses'.bitset = poses.bitset
          /\ poses'.entities[Slot(poses', e.id)] = poses.entities[Slot(poses, e.id)]
          /\ \A i \in poses.bitset \ {e.id} : Kept(poses, poses', i)
      BY <1>2, <1>5, WriteFacts
    <2>2. poses.entities[Slot(poses, e.id)] = e
      BY <1>2, <1>5, HasEntry
    <2> QED BY <1>2, <2>1, <2>2, TouchedIsNamed
  <1> QED BY <1>1, <1>3, <1>4, <1>5

\* enable_change_tracking and take_changes leave the components alone, and an
\* unfinished feed says that it is exhaustive.
LEMMA DrainFacts ==
  ASSUME Sane(poses), NEW f, f = Feed, NEW t, t = TakeChanges(f)
  PROVE  /\ SameArrays(poses, t) /\ Sane(t) /\ t.log = <<>>
         /\ ~f.exhaustive => f = poses /\ Logging(poses)
  <1>1. poses \in Store /\ Coherent(poses) /\ poses.exhaustive \in BOOLEAN
    BY StoreFields DEF Sane
  <1>2. f \in Store /\ SameArrays(poses, f) /\ (~f.exhaustive => f = poses /\ Logging(poses))
    <2>1. CASE poses.track
      BY <1>1, <2>1 DEF Feed, EnableChangeTracking, SameArrays, Logging
    <2>2. CASE ~poses.track
      <3>1. f = [poses EXCEPT !.track = TRUE, !.exhaustive = TRUE]
        BY <2>2 DEF Feed, EnableChangeTracking
      <3>2. TRUE \in BOOLEAN
        OBVIOUS
      <3> QED BY <1>1, <3>1, <3>2 DEF Store, SameArrays
    <2> QED BY <2>1, <2>2
  <1>3. t = [f EXCEPT !.log = <<>>, !.exhaustive = FALSE]
    BY DEF TakeChanges
  <1>4. t \in Store /\ SameArrays(f, t) /\ t.log = <<>>
    <2>1. <<>> \in Seq(Entity) /\ FALSE \in BOOLEAN
      OBVIOUS
    <2> QED BY <1>2, <1>3, <2>1 DEF Store, SameArrays
  <1>5. SameArrays(poses, t)
    BY <1>2, <1>4 DEF SameArrays
  <1>6. Coherent(t)
    BY <1>1, <1>5, SameArraysCoherent
  <1> QED BY <1>2, <1>4, <1>5, <1>6, ChangeIdCapAssumption DEF Sane

\* What the frame extracts: each entity of the lane with its component.
LEMMA ExtractedFacts ==
  ASSUME Sane(poses)
  PROVE  /\ Len(poses.entities) \in Nat
         /\ \A k \in Indices :
              /\ poses.entities[k] \in Entity /\ poses.data[k] \in Values
              /\ poses.entities[k].id \in poses.bitset /\ Slot(poses, poses.entities[k].id) = k
              /\ poses.entities[k] \in DOMAIN Extracted
              /\ Extracted[poses.entities[k]] = poses.data[k]
         /\ DOMAIN Extracted = {poses.entities[k] : k \in Indices}
         /\ Extracted \in [DOMAIN Extracted -> Values]
  <1>1. /\ poses.entities \in Seq(Entity) /\ poses.data \in Seq(Values)
        /\ Len(poses.entities) \in Nat /\ Len(poses.data) = Len(poses.entities)
    BY StoreFields DEF Sane, Coherent
  <1>2. \A k \in Indices :
          /\ poses.entities[k] \in Entity /\ poses.data[k] \in Values
          /\ poses.entities[k].id \in poses.bitset /\ Slot(poses, poses.entities[k].id) = k
    <2>1. \A k \in Indices : poses.entities[k] \in Entity /\ poses.data[k] \in Values
      BY <1>1, ElementOfSeq DEF Indices
    <2> QED BY <2>1 DEF Indices, Sane, Coherent
  <1>3. DOMAIN Extracted = {poses.entities[k] : k \in Indices}
    BY DEF Extracted
  <1>4. \A k \in Indices : Extracted[poses.entities[k]] = poses.data[k]
    BY <1>2 DEF Extracted
  <1>5. \A e \in DOMAIN Extracted : Extracted[e] \in Values
    BY <1>2, <1>3, <1>4
  <1>6. Extracted \in [DOMAIN Extracted -> Values]
    BY <1>5 DEF Extracted
  <1> QED BY <1>1, <1>2, <1>3, <1>4, <1>6

\* record_for: the model is the lane's, and motion is claimed from the history.
LEMMA RecordForFacts ==
  ASSUME Sane(poses), OnScreen, NEW k \in Indices
  PROVE  /\ RecordFor(k) \in Record /\ RecordFor(k).model = poses.data[k]
         /\ RecordFor(k).valid => poses.entities[k] \in DOMAIN previous
  <1> DEFINE h == HistoryOf(poses.entities[k])
             old == IF h = {} THEN poses.data[k] ELSE previous[CHOOSE f \in h : TRUE]
  <1>1. poses.data[k] \in Values
    BY ExtractedFacts
  <1>2. h \subseteq DOMAIN previous /\ (h # {} => poses.entities[k] \in DOMAIN previous)
    BY DEF HistoryOf
  <1>3. h # {} => (CHOOSE f \in h : TRUE) \in h
    OBVIOUS
  <1>4. old \in Values
    <2>1. CASE h = {}
      BY <1>1, <2>1
    <2>2. CASE h # {}
      <3>1. (CHOOSE f \in h : TRUE) \in DOMAIN previous
        BY <1>2, <1>3, <2>2
      <3> QED BY <2>2, <3>1 DEF OnScreen
    <2> QED BY <2>1, <2>2
  <1>5. RecordFor(k) = [model |-> poses.data[k], previous |-> old, valid |-> h # {}]
    BY DEF RecordFor
  <1> HIDE DEF h, old
  <1>6. /\ RecordFor(k).model = poses.data[k] /\ RecordFor(k).valid = (h # {})
        /\ (h # {}) \in BOOLEAN
    BY <1>5
  <1>7. RecordFor(k) \in Record
    BY <1>1, <1>4, <1>5, <1>6 DEF Record
  <1>8. RecordFor(k).valid => poses.entities[k] \in DOMAIN previous
    BY <1>2, <1>6, Zenon
  <1> QED BY <1>6, <1>7, <1>8, Zenon

\* However the frame was built: records with this frame's models and the
\* history of the last frame.
LEMMA StagedFrame ==
  ASSUME RecordInv, RenderFrame, NEW c, c = cache', NEW p, p = previous',
         c = [entities |-> c.entities, records |-> c.records, pending |-> c.pending],
         c.entities = poses.entities, p = Extracted,
         c.records \in [Indices -> Record], c.pending \subseteq Indices,
         \A k \in Indices : c.records[k].model = poses.data[k],
         \A k \in Indices : c.records[k].valid => poses.entities[k] \in DOMAIN previous
  PROVE  RecordInv'
  <1>1. Sane(poses) /\ OnScreen
    BY DEF RecordInv
  <1>2. /\ SameArrays(poses, poses') /\ Sane(poses') /\ poses'.log = <<>>
    BY <1>1, DrainFacts DEF RenderFrame
  <1>3. /\ Len(poses.entities) \in Nat /\ Indices = 1 .. Len(poses.entities)
        /\ poses.entities \in Seq(Entity)
    BY <1>1, StoreFields, ExtractedFacts DEF Indices, Sane
  <1>4. c.records \in Seq(Record) /\ Len(c.records) = Len(poses.entities)
    BY <1>3, FunctionIsSeq
  <1>5. Cached' = DOMAIN Extracted /\ DOMAIN Extracted = {poses.entities[k] : k \in Indices}
    BY <1>1, <1>3, ExtractedFacts DEF Cached
  <1>6. last' = <<last[2], Extracted>> /\ last[2] = previous
    BY <1>1 DEF RenderFrame, OnScreen
  <1>7. RecordTypeOK'
    BY <1>2, <1>3, <1>4 DEF RecordTypeOK, Record, Sane
  <1>8. OnScreen'
    <2>1. last'[1] = previous /\ last'[2] = Extracted /\ last' = <<last'[1], last'[2]>>
      BY <1>6
    <2>2. previous' \in [Cached' -> Values]
      BY <1>1, <1>5, ExtractedFacts
    <2>3. ASSUME NEW k \in 1 .. Len(cache'.entities)
          PROVE  /\ cache'.records[k].model = previous'[cache'.entities[k]]
                 /\ cache'.records[k].valid => cache'.entities[k] \in DOMAIN last'[1]
      <3>1. k \in Indices
        BY <1>3
      <3> QED BY <1>1, <2>1, <3>1, ExtractedFacts
    <2> QED BY <2>1, <2>2, <2>3 DEF OnScreen
  <1>9. FeedNamesChanges'
    <2> SUFFICES ASSUME NEW i \in poses'.bitset PROVE Shown(poses, i)'
      BY DEF FeedNamesChanges
    <2>1. /\ i \in poses.bitset /\ Slot(poses', i) = Slot(poses, i)
          /\ poses'.entities = poses.entities /\ poses'.data = poses.data
      BY <1>2 DEF SameArrays, Slot
    <2>2. Slot(poses, i) \in Indices
      BY <1>1, <1>3, <2>1, SlotOf
    <2>3. /\ poses.entities[Slot(poses, i)] \in Cached'
          /\ poses.data[Slot(poses, i)] = previous'[poses.entities[Slot(poses, i)]]
      BY <1>1, <1>5, <2>2, ExtractedFacts
    <2> QED BY <2>1, <2>3 DEF Shown
  <1> QED BY <1>2, <1>7, <1>8, <1>9 DEF RecordInv

LEMMA RebuildKeeps == ASSUME RecordInv, RenderFrame, Rebuild PROVE RecordInv'
  <1>1. Sane(poses) /\ OnScreen
    BY DEF RecordInv
  <1>2. PICK c : c = [entities |-> poses.entities, records |-> [k \in Indices |-> RecordFor(k)],
                      pending |-> {k \in Indices : HistoryOf(poses.entities[k]) = {}}]
    OBVIOUS
  <1>3. /\ c = cache' /\ c.entities = poses.entities
        /\ c = [entities |-> c.entities, records |-> c.records, pending |-> c.pending]
        /\ c.records = [k \in Indices |-> RecordFor(k)] /\ c.pending \subseteq Indices
        /\ previous' = Extracted
    BY <1>2 DEF Rebuild
  <1>4. /\ c.records \in [Indices -> Record]
        /\ \A k \in Indices : c.records[k].model = poses.data[k]
        /\ \A k \in Indices : c.records[k].valid => poses.entities[k] \in DOMAIN previous
    BY <1>1, <1>3, RecordForFacts
  <1> QED BY <1>3, <1>4, StagedFrame

LEMMA PatchKeeps == ASSUME RecordInv, RenderFrame, Patch PROVE RecordInv'
  <1>1. Sane(poses) /\ OnScreen /\ RecordTypeOK /\ FeedNamesChanges
    BY DEF RecordInv
  <1>2. cache.entities = poses.entities /\ Feed = poses /\ Logging(poses)
    BY <1>1, DrainFacts DEF Patch, Reusable
  <1>3. PICK records : records = [k \in Indices |-> IF k \in Dirty THEN RecordFor(k) ELSE cache.records[k]]
    OBVIOUS
  <1>4. cache' = [cache EXCEPT !.records = records, !.pending = Changed]
    BY <1>3 DEF Patch
  <1>5. /\ Indices = 1 .. Len(cache.entities)
        /\ \A k \in Indices : cache.records[k] \in Record
        /\ Cached = DOMAIN Extracted /\ previous \in [Cached -> Values]
    <2>1. Indices = 1 .. Len(cache.entities)
      BY <1>2 DEF Indices
    <2>2. \A k \in Indices : cache.records[k] \in Record
      BY <1>1, <2>1, ElementOfSeq DEF RecordTypeOK, Record
    <2> QED BY <1>1, <1>2, <2>1, <2>2, ExtractedFacts DEF Cached, OnScreen
  <1>6. ASSUME NEW k \in Indices, k \notin Dirty
        PROVE  poses.entities[k] \in DOMAIN previous /\ previous[poses.entities[k]] = poses.data[k]
    <2>1. /\ poses.entities[k].id \in poses.bitset /\ Slot(poses, poses.entities[k].id) = k
      BY <1>1, ExtractedFacts
    <2>2. ~Named(poses.entities[k])
      BY <1>2, <1>6 DEF Dirty, Changed, Named
    <2>3. Shown(poses, poses.entities[k].id)
      BY <1>1, <1>2, <2>1, <2>2 DEF FeedNamesChanges
    <2> QED BY <1>5, <2>1, <2>3 DEF Shown
  <1>7. /\ records \in [Indices -> Record]
        /\ \A k \in Indices : records[k].model = poses.data[k]
        /\ \A k \in Indices : records[k].valid => poses.entities[k] \in DOMAIN previous
    <2>1. ASSUME NEW k \in Indices
          PROVE  /\ records[k] \in Record /\ records[k].model = poses.data[k]
                 /\ records[k].valid => poses.entities[k] \in DOMAIN previous
      <3>1. CASE k \in Dirty
        BY <1>1, <1>3, <3>1, RecordForFacts
      <3>2. CASE k \notin Dirty
        <4>1. records[k] = cache.records[k] /\ cache.records[k].model = previous[poses.entities[k]]
          BY <1>1, <1>2, <1>3, <1>5, <3>2 DEF OnScreen
        <4> QED BY <1>5, <1>6, <3>2, <4>1
      <3> QED BY <3>1, <3>2
    <2> QED BY <1>3, <2>1
  <1>8. previous' = Extracted
    <2>1. previous' = [e \in DOMAIN previous |->
                         IF \E k \in Dirty : poses.entities[k] = e THEN Extracted[e] ELSE previous[e]]
      BY DEF Patch
    <2>2. DOMAIN previous = DOMAIN Extracted /\ DOMAIN Extracted = {poses.entities[k] : k \in Indices}
      BY <1>1, <1>5, ExtractedFacts
    <2>3. ASSUME NEW e \in DOMAIN Extracted PROVE previous'[e] = Extracted[e]
      <3>1. PICK k \in Indices : e = poses.entities[k]
        BY <2>2
      <3>2. Extracted[e] = poses.data[k]
        BY <1>1, <3>1, ExtractedFacts
      <3>3. CASE \E j \in Dirty : poses.entities[j] = e
        BY <2>1, <2>2, <3>3
      <3>4. CASE ~\E j \in Dirty : poses.entities[j] = e
        BY <1>6, <2>1, <2>2, <3>1, <3>2, <3>4
      <3> QED BY <3>3, <3>4
    <2>4. Extracted = [e \in DOMAIN Extracted |-> Extracted[e]]
      BY DEF Extracted
    <2> QED BY <2>1, <2>2, <2>3, <2>4
  <1>9. PICK c : c = [entities |-> cache.entities, records |-> records, pending |-> Changed]
    OBVIOUS
  <1>10. c.entities = cache.entities /\ c.records = records /\ c.pending = Changed
    BY <1>9
  <1>11. c = cache'
    <2>1. cache = [entities |-> cache.entities, records |-> cache.records, pending |-> cache.pending]
      BY <1>1 DEF OnScreen
    <2> QED BY <1>4, <1>9, <2>1
  <1>12. c = [entities |-> c.entities, records |-> c.records, pending |-> c.pending]
    BY <1>9, <1>10
  <1>13. Changed \subseteq Indices
    BY DEF Changed
  <1> QED BY <1>2, <1>7, <1>8, <1>10, <1>11, <1>12, <1>13, StagedFrame

LEMMA RecordNextInv == ASSUME RecordInv, [RecordNext]_recordVars PROVE RecordInv'
  <1>1. ASSUME RenderFrame PROVE RecordInv'
    BY <1>1, RebuildKeeps, PatchKeeps DEF RenderFrame
  <1>2. ASSUME UNCHANGED recordVars PROVE RecordInv'
    BY <1>2 DEF recordVars, RecordInv, RecordTypeOK, Sane, OnScreen, Cached, FeedNamesChanges,
                Named, Shown
  <1> QED BY <1>1, <1>2, ChangeLaneKeeps DEF RecordNext

\* The inductive invariant of the records.
THEOREM RecordsInvariant == RecordSpec => []RecordInv
  BY RecordInitInv, RecordNextInv, PTL DEF RecordSpec

\* However the frames were built, rebuilt or patched from the drained feed, with
\* any cap on the log: each record carries the model its entity was extracted
\* with in the frame just staged (stage_instance_records_with).
THEOREM ModelsAreCurrent == RecordSpec => []ModelsCurrent
  <1>1. RecordInv => ModelsCurrent
    BY DEF RecordInv, OnScreen, ModelsCurrent
  <1> QED BY <1>1, RecordsInvariant, PTL

\* The history that motion vectors start from is the frame on screen, and an
\* entity claims motion only if the frame before drew that very entity, whatever
\* slots were recycled (previous_instance_state, patch_instance_records).
THEOREM MotionIsTheEntitysOwn == RecordSpec => []MotionIsOwn
  <1>1. RecordInv => MotionIsOwn
    BY DEF RecordInv, OnScreen, MotionIsOwn
  <1> QED BY <1>1, RecordsInvariant, PTL
=============================================================================
