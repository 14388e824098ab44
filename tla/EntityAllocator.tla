-------------------------- MODULE EntityAllocator --------------------------
(***************************************************************************)
(* crates/core/src/entity.rs: the allocator that hands out entity handles  *)
(* (slot id, generation).  A freed id goes onto a stack and is handed out  *)
(* again with the generation its deallocation wrote.                       *)
(*                                                                         *)
(* Vec<u32> generations is a function on 0..len-1.  Two history variables  *)
(* that the code does not have record what allocate returned and how often *)
(* a slot was freed; no action reads them except the bound MaxRecycles.    *)
(***************************************************************************)
EXTENDS Integers, Sequences

CONSTANTS GenModulus,    \* width of a generation: 2^32 in the code
          MaxIds,        \* bound on next_id
          MaxRecycles    \* bound on how often one slot is freed

ASSUME GenModulusAssumption == GenModulus \in Nat \ {0}
ASSUME MaxIdsAssumption == MaxIds \in Nat
\* A slot is freed fewer times than a generation has values, so that
\* wrapping_add never returns a slot to a generation it had before.
ASSUME MaxRecyclesAssumption == MaxRecycles \in Nat /\ MaxRecycles < GenModulus

VARIABLES next_id, free_list, generations,
          issue_log,     \* history: the handles allocate returned, in order
          recycles       \* history: how often each slot was freed

allocVars == <<next_id, free_list, generations, issue_log, recycles>>

Slots == 0 .. (next_id - 1)
Generation == 0 .. (GenModulus - 1)
Handle(i, g) == [id |-> i, gen |-> g]
Handles == [id : 0 .. (MaxIds - 1), gen : Generation]

\* The handle that is_alive accepts for slot i.
Current(i) == Handle(i, generations[i])

\* The handles that callers may hold, stale ones included.
Issued == {issue_log[k] : k \in 1 .. Len(issue_log)}

IsAlive(h) ==
  /\ h.id \in DOMAIN generations
  /\ generations[h.id] = h.gen

AllocInit ==
  /\ next_id = 0
  /\ free_list = <<>>
  /\ generations = [i \in {} |-> 0]
  /\ issue_log = <<>>
  /\ recycles = [i \in {} |-> 0]

\* Mutant of AllocateRecycled: the id is read but not popped.
BugAllocateRecycled(h) ==
  /\ free_list # <<>>
  /\ h = Current(free_list[Len(free_list)])
  /\ issue_log' = Append(issue_log, h)
  /\ UNCHANGED <<next_id, free_list, generations, recycles>>

\* allocate() with a freed id at hand: pop it, keep its generation.
AllocateRecycled(h) ==
  /\ free_list # <<>>
  /\ h = Current(free_list[Len(free_list)])
  /\ free_list' = SubSeq(free_list, 1, Len(free_list) - 1)
  /\ issue_log' = Append(issue_log, h)
  /\ UNCHANGED <<next_id, generations, recycles>>

\* allocate() with an empty free list: a new slot at generation 0.
AllocateFresh(h) ==
  /\ free_list = <<>>
  /\ next_id < MaxIds
  /\ h = Handle(next_id, 0)
  /\ next_id' = next_id + 1
  /\ generations' = [i \in 0 .. next_id |-> IF i = next_id THEN 0 ELSE generations[i]]
  /\ recycles' = [i \in 0 .. next_id |-> IF i = next_id THEN 0 ELSE recycles[i]]
  /\ issue_log' = Append(issue_log, h)
  /\ UNCHANGED free_list

\* Mutant of DeallocateAlive: the liveness of the handle is not checked.
BugDeallocateAny(h) ==
  /\ h.id \in DOMAIN generations
  /\ generations' = [generations EXCEPT ![h.id] = (h.gen + 1) % GenModulus]
  /\ free_list' = Append(free_list, h.id)
  /\ UNCHANGED <<next_id, issue_log, recycles>>

\* deallocate(): a stale or unknown handle is ignored.
DeallocateAlive(h) ==
  /\ IsAlive(h)
  /\ recycles[h.id] < MaxRecycles
  /\ generations' = [generations EXCEPT ![h.id] = (h.gen + 1) % GenModulus]
  /\ free_list' = Append(free_list, h.id)
  /\ recycles' = [recycles EXCEPT ![h.id] = @ + 1]
  /\ UNCHANGED <<next_id, issue_log>>

DeallocateIgnored(h) ==
  /\ ~IsAlive(h)
  /\ UNCHANGED allocVars

Deallocate(h) == DeallocateAlive(h) \/ DeallocateIgnored(h)

\* Callers hold the handles that were issued to them, stale ones included.
AllocNext ==
  \/ \E h \in Handles : AllocateRecycled(h)
  \/ \E h \in Handles : AllocateFresh(h)
  \/ \E h \in Issued : Deallocate(h)

AllocSpec == AllocInit /\ [][AllocNext]_allocVars
-----------------------------------------------------------------------------
Live == {h \in Issued : IsAlive(h)}

\* The variables have their types.
AllocTypeOK ==
  /\ next_id \in 0 .. MaxIds
  /\ free_list \in Seq(Slots)
  /\ generations \in [Slots -> Generation]
  /\ recycles \in [Slots -> 0 .. MaxRecycles]
  /\ issue_log \in Seq(Handles)

\* A freed slot is on the free list once, however often its stale handles are
\* deallocated: otherwise two allocations would return the same handle.
FreeListDistinct ==
  \A i, j \in 1 .. Len(free_list) : free_list[i] = free_list[j] => i = j

\* Every slot is in exactly one of two states: it has a live handle, or it is
\* on the free list.  Nothing leaks and nothing that is free answers to a
\* handle a caller holds.
SlotFreeXorLive ==
  \A s \in Slots :
    (\E k \in 1 .. Len(free_list) : free_list[k] = s) <=> (Current(s) \notin Issued)

\* The free list is exact: it names each free slot, once, and no other.
FreeListExact == FreeListDistinct /\ SlotFreeXorLive

Registry == INSTANCE EntityRegistry WITH issued <- issue_log, live <- Live

\* The allocator implements the registry: a handle is issued once, live
\* handles have distinct slots, a dead handle stays dead.
RegistrySpec == Registry!Spec
=============================================================================
