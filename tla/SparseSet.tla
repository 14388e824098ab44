----------------------------- MODULE SparseSet -----------------------------
(***************************************************************************)
(* crates/core/src/component_store.rs: ComponentStore<T> as a value and    *)
(* its methods as operators on that value.  The dense arrays are           *)
(* sequences; sparse holds zero-based dense indices, as in the code, so    *)
(* the dense slot of an id is sparse[id] + 1.  A page of the PageTable is  *)
(* created filled with 0, and an id without its bit is never looked up, so *)
(* sparse is total here.                                                   *)
(*                                                                         *)
(* A method that changes the entity sequence takes a stamp from the        *)
(* process-wide layout clock; the caller passes the clock's next value.    *)
(***************************************************************************)
EXTENDS Integers, Sequences

CONSTANTS Ids,          \* entity ids
          Gens,         \* generations
          Values,       \* component values
          ChangeIdCap   \* CHANGE_ID_CAP: 16384 in the code

ASSUME IdsAssumption == Ids \subseteq Nat
ASSUME ChangeIdCapAssumption == ChangeIdCap \in Nat

Entity == [id : Ids, gen : Gens]

Store == [data : Seq(Values), entities : Seq(Entity), sparse : [Ids -> Nat],
          bitset : SUBSET Ids, layout : Nat,
          track : BOOLEAN, log : Seq(Entity), exhaustive : BOOLEAN]

NewStore(stamp) ==
  [data |-> <<>>, entities |-> <<>>, sparse |-> [i \in Ids |-> 0],
   bitset |-> {}, layout |-> stamp,
   track |-> FALSE, log |-> <<>>, exhaustive |-> FALSE]

Slot(s, i) == s.sparse[i] + 1

\* Mutant of Has: a stale handle finds its successor's component.
BugHas(s, e) == e.id \in s.bitset

\* The lookup of get, get_mut, contains, dense_index and remove.
Has(s, e) ==
  /\ e.id \in s.bitset
  /\ s.entities[Slot(s, e.id)].gen = e.gen

IsIdOrdered(s) ==
  \A k \in 1 .. Len(s.entities) - 1 : s.entities[k].id < s.entities[k + 1].id
-----------------------------------------------------------------------------
(* The change log. *)

Logging(s) == s.track /\ ~s.exhaustive

\* Mutant of Overflow: the ids are dropped and nothing says so.
BugOverflow(s) == [s EXCEPT !.log = <<>>]

Overflow(s) == [s EXCEPT !.log = <<>>, !.exhaustive = TRUE]

MarkChanged(s, e) ==
  IF ~Logging(s) THEN s
  ELSE IF Len(s.log) >= ChangeIdCap THEN Overflow(s)
  ELSE [s EXCEPT !.log = Append(@, e)]

\* The loop over the entities reaches the cap if they do not all fit.
MarkAll(s) ==
  IF ~Logging(s) THEN s
  ELSE IF Len(s.log) + Len(s.entities) > ChangeIdCap THEN Overflow(s)
  ELSE [s EXCEPT !.log = @ \o s.entities]

EnableChangeTracking(s) ==
  IF s.track THEN s ELSE [s EXCEPT !.track = TRUE, !.exhaustive = TRUE]

TakeChanges(s) == [s EXCEPT !.log = <<>>, !.exhaustive = FALSE]
-----------------------------------------------------------------------------
(* The mutating methods. *)

InsertNew(s, e, v, stamp) ==
  [MarkChanged(s, e) EXCEPT
     !.data = Append(@, v),
     !.entities = Append(@, e),
     !.sparse = [@ EXCEPT ![e.id] = Len(s.data)],
     !.bitset = @ \cup {e.id},
     !.layout = stamp]

\* The id already has a component: the handle is not compared first, and the
\* entry takes the generation of the handle that wrote last.
InsertOver(s, e, v, stamp) ==
  [MarkChanged(s, e) EXCEPT
     !.data = [@ EXCEPT ![Slot(s, e.id)] = v],
     !.entities = [@ EXCEPT ![Slot(s, e.id)] = e],
     !.layout = IF s.entities[Slot(s, e.id)] = e THEN @ ELSE stamp]

Insert(s, e, v, stamp) ==
  IF e.id \in s.bitset THEN InsertOver(s, e, v, stamp) ELSE InsertNew(s, e, v, stamp)

\* remove() fills the hole at slot k with the last entity.
MoveLast(s, k) ==
  LET last == Len(s.data) IN
  IF k = last THEN s.sparse ELSE [s.sparse EXCEPT ![s.entities[last].id] = k - 1]

SwapRemove(q, k) == [i \in 1 .. Len(q) - 1 |-> IF i = k THEN q[Len(q)] ELSE q[i]]

\* remove() of a handle that Has accepts.
Remove(s, e, stamp) ==
  LET k == Slot(s, e.id) IN
  [MarkChanged(s, e) EXCEPT
     !.data = SwapRemove(@, k),
     !.entities = SwapRemove(@, k),
     !.sparse = MoveLast(s, k),
     !.bitset = @ \ {e.id},
     !.layout = stamp]

\* get_mut() of a handle that Has accepts, written through.
Write(s, e, v) == [MarkChanged(s, e) EXCEPT !.data = [@ EXCEPT ![Slot(s, e.id)] = v]]

\* iter_mut, par_iter_mut, chunked_iter_mut: any element may be written.
WriteAll(s, d) == [MarkAll(s) EXCEPT !.data = d]

\* Mutant of Reorder: the sequence changes and keeps its layout version.
BugReorder(s, p, stamp) ==
  [MarkAll(s) EXCEPT
     !.data = [k \in DOMAIN p |-> s.data[p[k]]],
     !.entities = [k \in DOMAIN p |-> s.entities[p[k]]],
     !.sparse = [i \in Ids |-> IF i \in s.bitset
                   THEN (CHOOSE k \in DOMAIN p : s.entities[p[k]].id = i) - 1
                   ELSE s.sparse[i]]]

\* defrag() along the permutation p of the dense slots.
Reorder(s, p, stamp) ==
  [MarkAll(s) EXCEPT
     !.data = [k \in DOMAIN p |-> s.data[p[k]]],
     !.entities = [k \in DOMAIN p |-> s.entities[p[k]]],
     !.sparse = [i \in Ids |-> IF i \in s.bitset
                   THEN (CHOOSE k \in DOMAIN p : s.entities[p[k]].id = i) - 1
                   ELSE s.sparse[i]],
     !.layout = stamp]

\* p visits the dense slots of s by ascending entity id.
IsIdOrder(s, p) ==
  /\ p \in [1 .. Len(s.entities) -> 1 .. Len(s.entities)]
  /\ \A k \in 1 .. Len(s.entities) - 1 : s.entities[p[k]].id < s.entities[p[k + 1]].id

\* A clone's log is empty, so it is exhaustive if it logs at all.
Clone(s) == [s EXCEPT !.log = <<>>, !.exhaustive = s.track]
-----------------------------------------------------------------------------
(* What a store promises between two calls. *)

\* data[k] belongs to entities[k], the sparse index and the bitset agree with
\* the dense arrays, and no id has two slots.
Coherent(s) ==
  /\ Len(s.data) = Len(s.entities)
  /\ \A k \in 1 .. Len(s.entities) :
       s.entities[k].id \in s.bitset /\ Slot(s, s.entities[k].id) = k
  /\ \A i \in s.bitset :
       Slot(s, i) \in 1 .. Len(s.entities) /\ s.entities[Slot(s, i)].id = i

\* Each id is mapped to the generation and the value stored for it.
Absent == [gen |-> -1]
Content(s) ==
  [i \in Ids |-> IF i \in s.bitset
                 THEN [gen |-> s.entities[Slot(s, i)].gen, value |-> s.data[Slot(s, i)]]
                 ELSE Absent]

Logged(s, i) == \E k \in 1 .. Len(s.log) : s.log[k].id = i
=============================================================================
