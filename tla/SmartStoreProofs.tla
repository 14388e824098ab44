-------------------------- MODULE SmartStoreProofs --------------------------
(***************************************************************************)
(* The smart store for every number of slots, lanes and threads: the       *)
(* allocator keeps its free list exact and implements the registry, as     *)
(* long as no slot is freed as often as a generation has values; the       *)
(* lanes stay true to the entities whatever is destroyed and created       *)
(* meanwhile; a lock-free lane uses no freed snapshot and is an atomic     *)
(* lane for those who call it.                                             *)
(***************************************************************************)
EXTENDS SmartStore, LockFreeLane, TLAPS

-----------------------------------------------------------------------------
(* The entity allocator.                                                   *)

\* A slot's generation counts how often it was freed.
GenerationCounts == \A s \in Slots : generations[s] = recycles[s]

\* No handle was issued for a slot or a generation that lies in the future.
IssuedInThePast ==
  \A h \in Issued : h.id \in Slots /\ h.gen <= generations[h.id]

AllocInv ==
  /\ AllocTypeOK
  /\ FreeListDistinct
  /\ SlotFreeXorLive
  /\ GenerationCounts
  /\ IssuedInThePast

\* The empty allocator satisfies the invariant.
LEMMA AllocInitInv == AllocInit => AllocInv
  BY MaxIdsAssumption, SMT
  DEF AllocInit, AllocInv, AllocTypeOK, FreeListDistinct, SlotFreeXorLive,
      GenerationCounts, IssuedInThePast, Slots, Current, Handle, Issued

\* Popping the last element of a sequence keeps the others.
LEMMA PopLast ==
  ASSUME NEW S, NEW q \in Seq(S), q # <<>>
  PROVE  /\ Len(q) \in Nat \ {0}
         /\ \A k \in 1 .. Len(q) : q[k] \in S
         /\ SubSeq(q, 1, Len(q) - 1) \in Seq(S)
         /\ Len(SubSeq(q, 1, Len(q) - 1)) = Len(q) - 1
         /\ \A k \in 1 .. Len(q) - 1 : SubSeq(q, 1, Len(q) - 1)[k] = q[k]
<1>1. Len(q) \in Nat /\ \A k \in 1 .. Len(q) : q[k] \in S
  OBVIOUS
<1>2. Len(q) # 0
  OBVIOUS
<1> QED BY <1>1, <1>2

\* Appending to a sequence keeps its elements and adds one at the end.
LEMMA AppendLast ==
  ASSUME NEW S, NEW q \in Seq(S), NEW x \in S
  PROVE  /\ Len(q) \in Nat
         /\ Append(q, x) \in Seq(S)
         /\ Len(Append(q, x)) = Len(q) + 1
         /\ \A k \in 1 .. Len(q) : Append(q, x)[k] = q[k] /\ q[k] \in S
         /\ Append(q, x)[Len(q) + 1] = x
  OBVIOUS

\* Handing out a handle adds it to the handles that were issued.
LEMMA IssueLog ==
  ASSUME issue_log \in Seq(Handles), NEW h \in Handles, issue_log' = Append(issue_log, h)
  PROVE  Issued' = Issued \cup {h} /\ issue_log' \in Seq(Handles) /\ Issued \subseteq Handles
<1>1. /\ Len(issue_log) \in Nat /\ Len(issue_log') = Len(issue_log) + 1
      /\ \A k \in 1 .. Len(issue_log) : issue_log'[k] = issue_log[k] /\ issue_log[k] \in Handles
      /\ issue_log'[Len(issue_log) + 1] = h
      /\ issue_log' \in Seq(Handles)
  BY AppendLast
<1>2. 1 .. Len(issue_log') = (1 .. Len(issue_log)) \cup {Len(issue_log) + 1}
  BY <1>1
<1> QED BY <1>1, <1>2 DEF Issued

\* Every handle that was issued is a handle.
LEMMA IssuedHandles ==
  ASSUME issue_log \in Seq(Handles)
  PROVE  Issued \subseteq Handles
  BY DEF Issued

\* allocate() popping a freed id preserves the invariant.
LEMMA RecycledInv ==
  ASSUME AllocInv, NEW h \in Handles, AllocateRecycled(h)
  PROVE  AllocInv'
<1> DEFINE n == Len(free_list)
<1> USE DEF AllocInv
<1>1. /\ n \in Nat \ {0}
      /\ Len(free_list') = n - 1
      /\ \A k \in 1 .. n - 1 : free_list'[k] = free_list[k]
      /\ free_list' \in Seq(Slots)
      /\ \A k \in 1 .. n : free_list[k] \in Slots
      /\ next_id' = next_id /\ generations' = generations /\ recycles' = recycles
  BY PopLast DEF AllocateRecycled, AllocTypeOK
<1>2. /\ h = Current(free_list[n])
      /\ Issued' = Issued \cup {h} /\ issue_log' \in Seq(Handles)
  BY IssueLog DEF AllocateRecycled, AllocTypeOK
<1>3. AllocTypeOK'
  BY <1>1, <1>2 DEF AllocTypeOK, Slots
<1>4. FreeListDistinct'
  BY <1>1 DEF FreeListDistinct
<1>5. SlotFreeXorLive'
  <2> SUFFICES ASSUME NEW s \in Slots
               PROVE (\E k \in 1 .. n - 1 : free_list[k] = s) <=> (Current(s) \notin Issued')
    BY <1>1 DEF SlotFreeXorLive, Slots, Current
  <2>1. CASE s = free_list[n]
    <3>1. \A k \in 1 .. n - 1 : free_list[k] # s
      BY <2>1, <1>1 DEF FreeListDistinct
    <3> QED BY <3>1, <2>1, <1>2
  <2>2. CASE s # free_list[n]
    <3>1. Current(s) # h
      BY <2>2, <1>2 DEF Current, Handle
    <3>2. (\E k \in 1 .. n - 1 : free_list[k] = s) <=> (\E k \in 1 .. n : free_list[k] = s)
      BY <2>2, <1>1
    <3> QED BY <3>1, <3>2, <1>2 DEF SlotFreeXorLive
  <2> QED BY <2>1, <2>2
<1>6. GenerationCounts'
  BY <1>1 DEF GenerationCounts, Slots
<1>7. IssuedInThePast'
  <2>1. h.id \in Slots /\ h.gen = generations[h.id]
    BY <1>1, <1>2 DEF Current, Handle
  <2>2. generations[h.id] \in Int
    BY <2>1 DEF AllocTypeOK, Generation
  <2> QED BY <1>1, <1>2, <2>1, <2>2 DEF IssuedInThePast, Slots
<1> QED BY <1>3, <1>4, <1>5, <1>6, <1>7

\* allocate() creating a slot preserves the invariant.
LEMMA FreshInv ==
  ASSUME AllocInv, NEW h \in Handles, AllocateFresh(h)
  PROVE  AllocInv'
<1> USE DEF AllocInv
<1>1. /\ next_id \in Nat /\ next_id < MaxIds /\ next_id' = next_id + 1
      /\ free_list = <<>> /\ free_list' = <<>>
      /\ h = Handle(next_id, 0)
      /\ Issued' = Issued \cup {h} /\ issue_log' \in Seq(Handles)
      /\ Slots' = Slots \cup {next_id} /\ next_id \notin Slots
  <2>1. Issued' = Issued \cup {h} /\ issue_log' \in Seq(Handles)
    BY IssueLog DEF AllocateFresh, AllocTypeOK
  <2> QED BY <2>1, MaxIdsAssumption DEF AllocateFresh, AllocTypeOK, Slots
<1>2. /\ generations' \in [Slots' -> Generation]
      /\ recycles' \in [Slots' -> 0 .. MaxRecycles]
      /\ \A s \in Slots : generations'[s] = generations[s] /\ recycles'[s] = recycles[s]
      /\ generations'[next_id] = 0 /\ recycles'[next_id] = 0
  <2>1. Slots' = 0 .. next_id
    BY <1>1 DEF Slots
  <2>2. 0 \in Generation /\ 0 \in 0 .. MaxRecycles
    BY GenModulusAssumption, MaxRecyclesAssumption DEF Generation
  <2> QED BY <1>1, <2>1, <2>2 DEF AllocateFresh, AllocTypeOK
<1>3. AllocTypeOK'
  BY <1>1, <1>2, MaxIdsAssumption DEF AllocTypeOK
<1>4. FreeListDistinct'
  BY <1>1 DEF FreeListDistinct
<1>5. SlotFreeXorLive'
  <2> SUFFICES ASSUME NEW s \in Slots'
               PROVE  Current(s)' \in Issued'
    BY <1>1 DEF SlotFreeXorLive
  <2>1. CASE s \in Slots
    <3>1. Current(s) \in Issued
      BY <2>1, <1>1 DEF SlotFreeXorLive
    <3> QED BY <3>1, <2>1, <1>1, <1>2 DEF Current
  <2>2. CASE s = next_id
    BY <2>2, <1>1, <1>2 DEF Current
  <2> QED BY <1>1, <2>1, <2>2
<1>6. GenerationCounts'
  BY <1>1, <1>2 DEF GenerationCounts
<1>7. IssuedInThePast'
  BY <1>1, <1>2 DEF IssuedInThePast, Handle
<1> QED BY <1>3, <1>4, <1>5, <1>6, <1>7

\* A step of deallocate() on a live handle frees the slot of that handle and
\* moves its generation one up, without wrapping.
LEMMA DeallocateStep ==
  ASSUME AllocInv, NEW h \in Issued, DeallocateAlive(h)
  PROVE  /\ h.id \in Slots /\ h = Current(h.id)
         /\ generations'[h.id] = h.gen + 1
         /\ generations' \in [Slots -> Generation]
         /\ recycles' \in [Slots -> 0 .. MaxRecycles]
         /\ recycles'[h.id] = recycles[h.id] + 1
         /\ \A s \in Slots : s # h.id => /\ generations'[s] = generations[s]
                                         /\ recycles'[s] = recycles[s]
         /\ next_id' = next_id /\ Issued' = Issued
<1> USE DEF AllocInv
<1>1. h.id \in Slots /\ h.gen = generations[h.id] /\ h \in Handles
  BY IssuedHandles DEF DeallocateAlive, IsAlive, AllocTypeOK
<1>2. h = Current(h.id)
  BY <1>1 DEF Current, Handle, Handles
<1>3. h.gen \in Nat /\ h.gen + 1 < GenModulus
  <2>1. recycles[h.id] < MaxRecycles /\ recycles[h.id] \in Nat /\ generations[h.id] = recycles[h.id]
    BY <1>1 DEF DeallocateAlive, GenerationCounts, AllocTypeOK
  <2> QED BY <2>1, <1>1, GenModulusAssumption, MaxRecyclesAssumption
<1>4. (h.gen + 1) % GenModulus = h.gen + 1 /\ h.gen + 1 \in Generation
  BY <1>3, GenModulusAssumption DEF Generation
<1>5. recycles[h.id] + 1 \in 0 .. MaxRecycles
  BY <1>1, MaxRecyclesAssumption DEF DeallocateAlive, AllocTypeOK
<1>6. Issued' = Issued
  BY DEF DeallocateAlive, Issued
<1> QED BY <1>1, <1>2, <1>4, <1>5, <1>6 DEF DeallocateAlive, AllocTypeOK

\* deallocate() of a live handle preserves the invariant.
LEMMA DeallocateInv ==
  ASSUME AllocInv, NEW h \in Issued, DeallocateAlive(h)
  PROVE  AllocInv'
<1> DEFINE n == Len(free_list)
<1> USE DeallocateStep DEF AllocInv
<1>1. /\ n \in Nat /\ Len(free_list') = n + 1 /\ free_list' \in Seq(Slots)
      /\ \A k \in 1 .. n : free_list'[k] = free_list[k] /\ free_list[k] \in Slots
      /\ free_list'[n + 1] = h.id
  <2>1. free_list \in Seq(Slots) /\ h.id \in Slots /\ free_list' = Append(free_list, h.id)
    BY DEF DeallocateAlive, AllocTypeOK
  <2> HIDE DeallocateStep
  <2> QED BY <2>1, AppendLast
<1>2. Slots' = Slots
  BY DEF Slots
<1>3. \A k \in 1 .. n : free_list[k] # h.id
  BY DEF SlotFreeXorLive
<1>4. AllocTypeOK'
  BY <1>1, <1>2 DEF AllocTypeOK, DeallocateAlive
<1>5. FreeListDistinct'
  <2> HIDE DeallocateStep
  <2> SUFFICES ASSUME NEW i \in 1 .. n + 1, NEW j \in 1 .. n + 1,
                      free_list'[i] = free_list'[j]
               PROVE  i = j
    BY <1>1 DEF FreeListDistinct
  <2>1. (i \in 1 .. n \/ i = n + 1) /\ (j \in 1 .. n \/ j = n + 1)
    BY <1>1
  <2>2. CASE i \in 1 .. n /\ j \in 1 .. n
    BY <2>2, <1>1 DEF FreeListDistinct
  <2>3. CASE i \in 1 .. n /\ j = n + 1
    BY <2>3, <1>1, <1>3
  <2>4. CASE i = n + 1 /\ j \in 1 .. n
    BY <2>4, <1>1, <1>3
  <2> QED BY <2>1, <2>2, <2>3, <2>4
<1>6. GenerationCounts'
  <2>1. generations[h.id] = h.gen
    BY DEF Current, Handle
  <2> QED BY <1>2, <2>1 DEF GenerationCounts
<1>7. IssuedInThePast'
  <2> SUFFICES ASSUME NEW g \in Issued
               PROVE  g.id \in Slots /\ g.gen <= generations'[g.id]
    BY <1>2 DEF IssuedInThePast
  <2>1. g.id \in Slots /\ g.gen <= generations[g.id] /\ g.gen \in Int
    BY IssuedHandles DEF IssuedInThePast, AllocTypeOK, Handles, Generation
  <2>2. h.gen = generations[h.id] /\ h.gen \in Int
    BY IssuedHandles DEF Current, Handle, AllocTypeOK, Handles, Generation
  <2> QED BY <2>1, <2>2
<1>8. SlotFreeXorLive'
  <2> SUFFICES ASSUME NEW s \in Slots
               PROVE  (\E k \in 1 .. n + 1 : free_list'[k] = s) <=> (Current(s)' \notin Issued)
    BY <1>1, <1>2 DEF SlotFreeXorLive
  <2>1. CASE s = h.id
    <3>1. Current(s)'.id = h.id /\ Current(s)'.gen = generations[h.id] + 1
      BY <2>1 DEF Current, Handle
    <3>2. generations[h.id] \in Int
      BY DEF AllocTypeOK, Generation
    <3>3. Current(s)' \notin Issued
      BY <3>1, <3>2 DEF IssuedInThePast
    <3> QED BY <3>3, <2>1, <1>1
  <2>2. CASE s # h.id
    <3>1. Current(s)' = Current(s)
      BY <2>2 DEF Current
    <3>2. (\E k \in 1 .. n + 1 : free_list'[k] = s) <=> (\E k \in 1 .. n : free_list[k] = s)
      <4> HIDE DeallocateStep
      <4>1. \A k \in 1 .. n + 1 : k = n + 1 \/ k \in 1 .. n
        BY <1>1
      <4>2. 1 .. n \subseteq 1 .. n + 1
        BY <1>1
      <4> QED BY <2>2, <1>1, <4>1, <4>2
    <3> QED BY <3>1, <3>2 DEF SlotFreeXorLive
  <2> QED BY <2>1, <2>2
<1> QED BY <1>4, <1>5, <1>6, <1>7, <1>8

\* Every step keeps the invariant.
LEMMA AllocNextInv == AllocInv /\ [AllocNext]_allocVars => AllocInv'
<1> SUFFICES ASSUME AllocInv, [AllocNext]_allocVars
             PROVE  AllocInv'
  OBVIOUS
<1>1. ASSUME UNCHANGED allocVars
      PROVE  AllocInv'
  BY <1>1 DEF allocVars, AllocInv, AllocTypeOK, FreeListDistinct, SlotFreeXorLive,
              GenerationCounts, IssuedInThePast, Slots, Current, Issued
<1>2. ASSUME NEW h \in Handles, AllocateRecycled(h)
      PROVE  AllocInv'
  BY <1>2, RecycledInv
<1>3. ASSUME NEW h \in Handles, AllocateFresh(h)
      PROVE  AllocInv'
  BY <1>3, FreshInv
<1>4. ASSUME NEW h \in Issued, Deallocate(h)
      PROVE  AllocInv'
  BY <1>4, <1>1, DeallocateInv DEF Deallocate, DeallocateIgnored
<1> QED BY <1>1, <1>2, <1>3, <1>4 DEF AllocNext

\* The allocator's inductive invariant holds in every reachable state.
THEOREM AllocatorInvariant == AllocSpec => []AllocInv
  BY AllocInitInv, AllocNextInv, PTL DEF AllocSpec

\* EntityAllocator::deallocate never queues an id twice: no sequence of
\* allocations and (stale, repeated) deallocations puts a slot on the free
\* list twice, leaks it, or lists it while a caller's handle is live.
THEOREM FreeListStaysExact == AllocSpec => []FreeListExact
  BY AllocatorInvariant, PTL DEF AllocInv, FreeListExact
-----------------------------------------------------------------------------
\* The two ways of allocating issue a handle in the sense of the registry.
LEMMA AllocateIssues ==
  ASSUME AllocInv, NEW h \in Handles, AllocateRecycled(h) \/ AllocateFresh(h)
  PROVE  Registry!Issue(h)
<1> USE DEF AllocInv
<1>0. /\ Issued \subseteq Handles /\ Issued' = Issued \cup {h}
      /\ issue_log' = Append(issue_log, h)
  BY IssueLog DEF AllocateRecycled, AllocateFresh, AllocTypeOK
<1>1. h \notin Issued
  <2>1. CASE AllocateRecycled(h)
    <3>1. free_list \in Seq(Slots) /\ free_list # <<>>
      BY <2>1 DEF AllocateRecycled, AllocTypeOK
    <3>2. Len(free_list) \in 1 .. Len(free_list) /\ free_list[Len(free_list)] \in Slots
      BY <3>1, PopLast
    <3> QED BY <2>1, <3>2 DEF AllocateRecycled, SlotFreeXorLive
  <2>2. CASE AllocateFresh(h)
    BY <2>2 DEF AllocateFresh, IssuedInThePast, Handle, Slots, AllocTypeOK
  <2> QED BY <2>1, <2>2
<1>2. /\ h.id \notin {g.id : g \in Live}
      /\ \A g \in Issued : IsAlive(g)' = IsAlive(g)
      /\ IsAlive(h)'
  <2>1. CASE AllocateRecycled(h)
    <3>1. free_list \in Seq(Slots) /\ free_list # <<>>
      BY <2>1 DEF AllocateRecycled, AllocTypeOK
    <3>2. Len(free_list) \in 1 .. Len(free_list) /\ free_list[Len(free_list)] \in Slots
      BY <3>1, PopLast
    <3>3. h.id \in Slots /\ h = Current(h.id) /\ h.gen = generations[h.id]
      BY <2>1, <3>2 DEF AllocateRecycled, Current, Handle
    <3>4. ASSUME NEW g \in Live, g.id = h.id
          PROVE  FALSE
      <4>1. g.gen = generations[h.id] /\ g \in Handles /\ g \in Issued
        BY <3>4, <1>0 DEF Live, IsAlive
      <4>2. g = h
        BY <4>1, <3>3, <3>4 DEF Handles
      <4> QED BY <4>1, <4>2, <1>1
    <3>5. generations' = generations
      BY <2>1 DEF AllocateRecycled
    <3> QED BY <3>3, <3>4, <3>5 DEF IsAlive, AllocTypeOK
  <2>2. CASE AllocateFresh(h)
    <3>1. /\ h.id = next_id /\ h.gen = 0 /\ next_id \in Nat
          /\ DOMAIN generations = Slots /\ DOMAIN generations' = 0 .. next_id
          /\ \A s \in Slots : generations'[s] = generations[s]
          /\ generations'[next_id] = 0
      BY <2>2 DEF AllocateFresh, Handle, AllocTypeOK, Slots
    <3>2. \A g \in Issued : g.id \in Slots
      BY DEF IssuedInThePast
    <3>3. next_id \notin Slots /\ Slots \subseteq 0 .. next_id /\ next_id \in 0 .. next_id
      BY <3>1 DEF Slots
    <3> QED BY <3>1, <3>2, <3>3 DEF IsAlive, Live
  <2> QED BY <2>1, <2>2
<1>3. Live' = Live \cup {h}
  BY <1>0, <1>1, <1>2 DEF Live
<1>4. \A k \in 1 .. Len(issue_log) : issue_log[k] # h
  BY <1>1 DEF Issued
<1> QED BY <1>0, <1>2, <1>3, <1>4 DEF Registry!Issue

\* Deallocating a live handle retires it, and it alone.
LEMMA DeallocateRetires ==
  ASSUME AllocInv, NEW h \in Issued, DeallocateAlive(h)
  PROVE  Registry!Retire(h)
<1>1. h \in Live /\ Issued' = Issued /\ issue_log' = issue_log
  BY DEF DeallocateAlive, Live, Issued
<1>2. ASSUME NEW g \in Issued
      PROVE  IsAlive(g)' <=> (IsAlive(g) /\ g # h)
  <2>1. /\ g \in Handles /\ h \in Handles
        /\ g.id \in Slots /\ g.gen <= generations[g.id]
        /\ DOMAIN generations = Slots
    BY IssuedHandles DEF AllocInv, AllocTypeOK, IssuedInThePast
  <2>2. /\ h.id \in Slots /\ h.gen = generations[h.id] /\ h.gen \in Int
        /\ generations'[h.id] = h.gen + 1 /\ DOMAIN generations' = Slots
        /\ \A s \in Slots : s # h.id => generations'[s] = generations[s]
    BY <2>1, DeallocateStep DEF Current, Handle, Handles, Generation
  <2>3. CASE g.id = h.id
    <3>1. g.gen \in Int /\ g.gen # h.gen + 1
      BY <2>1, <2>2, <2>3 DEF Handles, Generation
    <3>2. g.gen = h.gen => g = h
      BY <2>1, <2>3 DEF Handles
    <3> QED BY <2>1, <2>2, <2>3, <3>1, <3>2 DEF IsAlive
  <2>4. CASE g.id # h.id
    BY <2>1, <2>2, <2>4 DEF IsAlive
  <2> QED BY <2>3, <2>4
<1>3. Live' = Live \ {h}
  BY <1>1, <1>2 DEF Live
<1> QED BY <1>1, <1>3 DEF Registry!Retire

\* The allocator implements the registry: what entity.rs promises of its
\* handles ("stale handles ... are detected instead of silently aliasing a
\* newly created one") holds of its stack of free ids and its generations.
THEOREM AllocatorImplementsRegistry == AllocSpec => RegistrySpec
<1>1. AllocInit => Registry!Init
  BY DEF AllocInit, Registry!Init, Live, Issued
<1>2. AllocInv /\ [AllocNext]_allocVars => [Registry!Next]_(Registry!vars)
  <2> SUFFICES ASSUME AllocInv, [AllocNext]_allocVars
               PROVE  Registry!Next \/ UNCHANGED Registry!vars
    OBVIOUS
  <2>1. ASSUME UNCHANGED allocVars
        PROVE  UNCHANGED Registry!vars
    BY <2>1 DEF allocVars, Registry!vars, Live, IsAlive, Issued
  <2>2. ASSUME NEW h \in Handles, AllocateRecycled(h) \/ AllocateFresh(h)
        PROVE  Registry!Next
    BY <2>2, AllocateIssues DEF Registry!Next
  <2>3. ASSUME NEW h \in Issued, DeallocateAlive(h)
        PROVE  Registry!Next
    BY <2>3, DeallocateRetires, IssuedHandles DEF Registry!Next, AllocInv, AllocTypeOK
  <2> QED BY <2>1, <2>2, <2>3 DEF AllocNext, Deallocate, DeallocateIgnored
<1> QED BY <1>1, <1>2, AllocatorInvariant, PTL DEF AllocSpec, RegistrySpec, Registry!Spec

-----------------------------------------------------------------------------
(* The smart store: destroy_entity against everybody else.                 *)

\* An entry belongs to a handle that was issued for its id.
LanesTypeOK ==
  /\ lanes \in [Lanes -> [0 .. MaxIds - 1 -> Handles \cup {None}]]
  /\ \A l \in Lanes, i \in 0 .. MaxIds - 1 :
       lanes[l][i] # None => lanes[l][i] \in Issued /\ lanes[l][i].id = i

\* A thread destroys an issued handle, or none.
DestroyingOK ==
  /\ destroying \in [Destroyers -> [handle : Handles \cup {None}, left : SUBSET Lanes]]
  /\ \A t \in Destroyers :
       IF destroying[t].handle = None THEN destroying[t].left = {}
                                      ELSE destroying[t].handle \in Issued

\* A lane that a destroying thread has been at is clear of its handle, unless
\* somebody inserted for the handle meanwhile or the lane is poisoned.
LanesCleared ==
  \A t \in Destroyers, l \in Lanes, h \in Handles :
    (h = destroying[t].handle /\ h \notin raced /\ l \notin poisoned
       /\ l \notin destroying[t].left) => lanes[l][h.id] # h

SmartInv ==
  AllocInv /\ LanesTypeOK /\ DestroyingOK /\ LanesCleared /\ DestroyedLeavesNothing

LEMMA SmartInitInv == SmartInit => SmartInv
  <1> SUFFICES ASSUME SmartInit PROVE SmartInv
    OBVIOUS
  <1>1. AllocInv /\ Issued = {}
    BY AllocInitInv DEF SmartInit, AllocInit, Issued
  <1>2. LanesTypeOK
    BY DEF SmartInit, LanesTypeOK
  <1>3. DestroyingOK
    BY NoneAssumption DEF SmartInit, DestroyingOK, Idle
  <1>4. LanesCleared
    BY NoneAssumption DEF SmartInit, LanesCleared, Idle
  <1>5. DestroyedLeavesNothing
    BY <1>1 DEF DestroyedLeavesNothing
  <1> QED BY <1>1, <1>2, <1>3, <1>4, <1>5 DEF SmartInv

\* The id of an issued handle is a slot, and handles are told apart by their
\* ids and generations.
LEMMA IssuedIds ==
  ASSUME AllocInv
  PROVE  /\ Issued \subseteq Handles
         /\ \A h \in Handles : h.id \in 0 .. MaxIds - 1 /\ h # None
         /\ \A g, h \in Handles : g.id = h.id /\ g.gen = h.gen => g = h
  <1>1. issue_log \in Seq(Handles)
    BY DEF AllocInv, AllocTypeOK
  <1> QED BY <1>1, IssuedHandles, NoneAssumption DEF Handles

\* The calls that leave the allocator alone keep it and every liveness.
LEMMA AllocStays ==
  ASSUME AllocInv, UNCHANGED allocVars
  PROVE  AllocInv' /\ Issued' = Issued /\ \A h : IsAlive(h)' = IsAlive(h)
  <1>1. AllocInv'
    BY AllocNextInv
  <1> QED BY <1>1 DEF allocVars, Issued, IsAlive

\* allocate(): one more handle is issued, it is new, and those that were there
\* stay alive or dead.
LEMMA AllocateStep ==
  ASSUME AllocInv, NEW h \in Handles, AllocateRecycled(h) \/ AllocateFresh(h)
  PROVE  /\ AllocInv' /\ h \notin Issued /\ Issued' = Issued \cup {h} /\ IsAlive(h)'
         /\ \A g \in Issued : IsAlive(g)' = IsAlive(g)
         /\ issue_log' = Append(issue_log, h)
  <1>1. AllocInv'
    BY RecycledInv, FreshInv
  <1>2. Registry!Issue(h)
    BY AllocateIssues
  <1>3. Issued' = Issued \cup {h} /\ issue_log' = Append(issue_log, h)
    BY IssueLog DEF AllocateRecycled, AllocateFresh, AllocInv, AllocTypeOK
  <1>4. h \notin Issued
    BY <1>2 DEF Registry!Issue, Issued
  <1>5. Live' = Live \cup {h}
    BY <1>2 DEF Registry!Issue
  <1>6. \A g \in Issued' : IsAlive(g)' <=> g \in Live'
    BY DEF Live
  <1>7. \A g \in Issued : IsAlive(g) <=> g \in Live
    BY DEF Live
  <1> QED BY <1>1, <1>3, <1>4, <1>5, <1>6, <1>7 DEF IsAlive

\* deallocate(): the handle is dead afterwards, and nobody else's changes.
LEMMA DeallocateEffect ==
  ASSUME AllocInv, NEW h \in Issued, Deallocate(h)
  PROVE  /\ AllocInv' /\ Issued' = Issued
         /\ \A g \in Issued : IsAlive(g)' <=> (IsAlive(g) /\ g # h)
  <1>1. CASE DeallocateAlive(h)
    <2>1. AllocInv' /\ Issued' = Issued
      BY <1>1, DeallocateInv, DeallocateStep
    <2>2. Live' = Live \ {h}
      BY <1>1, DeallocateRetires DEF Registry!Retire
    <2>3. \A g \in Issued : (IsAlive(g) <=> g \in Live) /\ (IsAlive(g)' <=> g \in Live')
      BY <2>1 DEF Live
    <2> QED BY <2>1, <2>2, <2>3
  <1>2. CASE DeallocateIgnored(h)
    <2>1. AllocInv' /\ Issued' = Issued /\ \A g : IsAlive(g)' = IsAlive(g)
      BY <1>2, AllocStays DEF DeallocateIgnored
    <2> QED BY <1>2, <2>1 DEF DeallocateIgnored
  <1> QED BY <1>1, <1>2 DEF Deallocate

LEMMA CreateKeeps == ASSUME SmartInv, CreateEntity PROVE SmartInv'
  <1>1. PICK h \in Handles : AllocateRecycled(h) \/ AllocateFresh(h)
    BY DEF CreateEntity
  <1>2. /\ AllocInv' /\ h \notin Issued /\ Issued' = Issued \cup {h} /\ IsAlive(h)'
        /\ \A g \in Issued : IsAlive(g)' = IsAlive(g)
    BY <1>1, AllocateStep DEF SmartInv
  <1>3. UNCHANGED <<lanes, destroying, poisoned, raced>>
    BY DEF CreateEntity
  <1>4. LanesTypeOK'
    BY <1>2, <1>3 DEF SmartInv, LanesTypeOK
  <1>5. DestroyingOK'
    BY <1>2, <1>3 DEF SmartInv, DestroyingOK
  <1>6. LanesCleared'
    BY <1>3 DEF SmartInv, LanesCleared
  <1>7. DestroyedLeavesNothing'
    BY <1>2, <1>3 DEF SmartInv, DestroyedLeavesNothing
  <1> QED BY <1>2, <1>4, <1>5, <1>6, <1>7 DEF SmartInv

LEMMA DestroyBeginKeeps ==
  ASSUME SmartInv, NEW t \in Destroyers, NEW h \in Issued, DestroyBegin(t, h)
  PROVE  SmartInv'
  <1>1. /\ AllocInv' /\ Issued' = Issued /\ \A g : IsAlive(g)' = IsAlive(g)
    BY AllocStays DEF SmartInv, DestroyBegin
  <1>2. /\ UNCHANGED <<lanes, poisoned, raced>>
        /\ destroying' = [destroying EXCEPT ![t] = [handle |-> h, left |-> Lanes]]
        /\ h \in Handles /\ h # None
    BY IssuedIds DEF DestroyBegin, SmartInv
  <1>3. /\ destroying' \in [Destroyers -> [handle : Handles \cup {None}, left : SUBSET Lanes]]
        /\ destroying'[t].handle = h /\ destroying'[t].left = Lanes
        /\ \A u \in Destroyers \ {t} : destroying'[u] = destroying[u]
    BY <1>2 DEF SmartInv, DestroyingOK
  <1>4. LanesTypeOK'
    BY <1>1, <1>2 DEF SmartInv, LanesTypeOK
  <1>5. DestroyingOK'
    BY <1>1, <1>2, <1>3 DEF SmartInv, DestroyingOK
  <1>6. LanesCleared'
    BY <1>2, <1>3 DEF SmartInv, LanesCleared
  <1>7. DestroyedLeavesNothing'
    BY <1>1, <1>2 DEF SmartInv, DestroyedLeavesNothing
  <1> QED BY <1>1, <1>4, <1>5, <1>6, <1>7 DEF SmartInv

\* Removing for a handle clears its entry and no other.
LEMMA RemoveFromFacts ==
  ASSUME SmartInv, NEW l \in Lanes, NEW h \in Handles
  PROVE  /\ RemoveFrom(l, h) \in [Lanes -> [0 .. MaxIds - 1 -> Handles \cup {None}]]
         /\ RemoveFrom(l, h)[l][h.id] # h
         /\ \A m \in Lanes, i \in 0 .. MaxIds - 1 :
              \/ RemoveFrom(l, h)[m][i] = lanes[m][i]
              \/ m = l /\ i = h.id /\ lanes[m][i] = h /\ RemoveFrom(l, h)[m][i] = None
  <1>1. h.id \in 0 .. MaxIds - 1 /\ h # None
    BY IssuedIds DEF SmartInv
  <1> QED BY <1>1 DEF SmartInv, LanesTypeOK, RemoveFrom

\* A step that only takes entries away, from lanes or from destroys.
LEMMA TakingKeeps ==
  ASSUME SmartInv, UNCHANGED allocVars, UNCHANGED <<poisoned, raced>>,
         lanes' \in [Lanes -> [0 .. MaxIds - 1 -> Handles \cup {None}]],
         \A l \in Lanes, i \in 0 .. MaxIds - 1 : lanes'[l][i] \in {lanes[l][i], None}
  PROVE  AllocInv' /\ LanesTypeOK' /\ DestroyedLeavesNothing'
  <1>1. /\ AllocInv' /\ Issued' = Issued /\ \A g : IsAlive(g)' = IsAlive(g)
    BY AllocStays DEF SmartInv
  <1>2. LanesTypeOK'
    BY <1>1 DEF SmartInv, LanesTypeOK
  <1>3. DestroyedLeavesNothing'
    <2> SUFFICES ASSUME NEW h \in Issued \ raced, ~IsAlive(h), NEW l \in Lanes \ poisoned
                 PROVE  lanes'[l][h.id] # h
      BY <1>1 DEF DestroyedLeavesNothing
    <2>1. h.id \in 0 .. MaxIds - 1 /\ h # None
      BY IssuedIds DEF SmartInv
    <2>2. lanes[l][h.id] # h
      BY DEF SmartInv, DestroyedLeavesNothing
    <2> QED BY <2>1, <2>2
  <1> QED BY <1>1, <1>2, <1>3

LEMMA DestroyLaneKeeps ==
  ASSUME SmartInv, NEW t \in Destroyers, NEW l \in Lanes, DestroyLane(t, l)
  PROVE  SmartInv'
  <1> DEFINE h == destroying[t].handle
  <1>1. h \in Issued /\ h \in Handles /\ h # None /\ h.id \in 0 .. MaxIds - 1
    BY IssuedIds DEF SmartInv, DestroyingOK, DestroyLane
  <1>2. /\ destroying' = [destroying EXCEPT ![t].left = @ \ {l}]
        /\ lanes' = IF l \in poisoned THEN lanes ELSE RemoveFrom(l, h)
        /\ UNCHANGED allocVars /\ UNCHANGED <<poisoned, raced>>
    BY DEF DestroyLane
  <1> HIDE DEF h
  <1>3. /\ destroying' \in [Destroyers -> [handle : Handles \cup {None}, left : SUBSET Lanes]]
        /\ destroying'[t].handle = h /\ destroying'[t].left = destroying[t].left \ {l}
        /\ \A u \in Destroyers \ {t} : destroying'[u] = destroying[u]
    BY <1>2 DEF SmartInv, DestroyingOK, h
  <1>4. /\ lanes' \in [Lanes -> [0 .. MaxIds - 1 -> Handles \cup {None}]]
        /\ l \notin poisoned => lanes'[l][h.id] # h
        /\ \A m \in Lanes, i \in 0 .. MaxIds - 1 : lanes'[m][i] \in {lanes[m][i], None}
    <2>1. CASE l \in poisoned
      BY <1>2, <2>1 DEF SmartInv, LanesTypeOK
    <2>2. CASE l \notin poisoned
      BY <1>1, <1>2, <2>2, RemoveFromFacts
    <2> QED BY <2>1, <2>2
  <1>5. AllocInv' /\ LanesTypeOK' /\ DestroyedLeavesNothing' /\ Issued' = Issued
    BY <1>2, <1>4, TakingKeeps, AllocStays DEF SmartInv
  <1>6. DestroyingOK'
    BY <1>1, <1>3, <1>5 DEF SmartInv, DestroyingOK
  <1>7. LanesCleared'
    <2> SUFFICES ASSUME NEW u \in Destroyers, NEW m \in Lanes, NEW g \in Handles,
                        g = destroying'[u].handle, g \notin raced, m \notin poisoned,
                        m \notin destroying'[u].left
                 PROVE  lanes'[m][g.id] # g
      BY <1>2 DEF LanesCleared
    <2>1. g.id \in 0 .. MaxIds - 1 /\ g # None
      BY IssuedIds DEF SmartInv
    <2>2. CASE u = t /\ m = l
      BY <1>3, <1>4, <2>2
    <2>3. CASE ~(u = t /\ m = l)
      <3>1. g = destroying[u].handle /\ m \notin destroying[u].left
        BY <1>3, <2>3 DEF h
      <3>2. lanes[m][g.id] # g
        BY <3>1 DEF SmartInv, LanesCleared
      <3> QED BY <1>4, <2>1, <3>2
    <2> QED BY <2>2, <2>3
  <1> QED BY <1>5, <1>6, <1>7 DEF SmartInv

LEMMA LaneRemoveKeeps ==
  ASSUME SmartInv, NEW l \in Lanes, NEW h \in Issued, LaneRemove(l, h)
  PROVE  SmartInv'
  <1>1. h \in Handles
    BY IssuedIds DEF SmartInv
  <1>2. /\ lanes' = RemoveFrom(l, h) /\ destroying' = destroying
        /\ UNCHANGED allocVars /\ UNCHANGED <<poisoned, raced>>
    BY DEF LaneRemove
  <1>3. /\ lanes' \in [Lanes -> [0 .. MaxIds - 1 -> Handles \cup {None}]]
        /\ \A m \in Lanes, i \in 0 .. MaxIds - 1 : lanes'[m][i] \in {lanes[m][i], None}
    <2>1. /\ RemoveFrom(l, h) \in [Lanes -> [0 .. MaxIds - 1 -> Handles \cup {None}]]
          /\ \A m \in Lanes, i \in 0 .. MaxIds - 1 :
               RemoveFrom(l, h)[m][i] = lanes[m][i] \/ RemoveFrom(l, h)[m][i] = None
      BY <1>1, RemoveFromFacts
    <2> QED BY <1>2, <2>1
  <1>4. AllocInv' /\ LanesTypeOK' /\ DestroyedLeavesNothing' /\ Issued' = Issued
    BY <1>2, <1>3, TakingKeeps, AllocStays DEF SmartInv
  <1>5. DestroyingOK'
    BY <1>2, <1>4 DEF SmartInv, DestroyingOK
  <1>6. LanesCleared'
    BY <1>2, <1>3, IssuedIds DEF SmartInv, LanesCleared
  <1> QED BY <1>4, <1>5, <1>6 DEF SmartInv

LEMMA DestroyFreeKeeps ==
  ASSUME SmartInv, NEW t \in Destroyers, DestroyFree(t)
  PROVE  SmartInv'
  <1> DEFINE h == destroying[t].handle
  <1>1. /\ destroying \in [Destroyers -> [handle : Handles \cup {None}, left : SUBSET Lanes]]
        /\ destroying[t] # Idle /\ destroying[t].left = {} /\ Deallocate(h)
        /\ destroying' = [destroying EXCEPT ![t] = Idle]
        /\ UNCHANGED <<lanes, poisoned, raced>>
    BY DEF SmartInv, DestroyingOK, DestroyFree, LanesDone
  <1>2. h # None
    BY <1>1 DEF Idle
  <1>3. h \in Issued /\ h \in Handles
    BY <1>2, IssuedIds DEF SmartInv, DestroyingOK
  <1>4. /\ AllocInv' /\ Issued' = Issued
        /\ \A g \in Issued : IsAlive(g)' <=> (IsAlive(g) /\ g # h)
    BY <1>1, <1>3, DeallocateEffect DEF SmartInv
  <1> HIDE DEF h
  <1>5. /\ destroying' \in [Destroyers -> [handle : Handles \cup {None}, left : SUBSET Lanes]]
        /\ destroying'[t].handle = None /\ destroying'[t].left = {}
        /\ \A u \in Destroyers \ {t} : destroying'[u] = destroying[u]
    BY <1>1 DEF Idle
  <1>6. LanesTypeOK'
    BY <1>1, <1>4 DEF SmartInv, LanesTypeOK
  <1>7. DestroyingOK'
    BY <1>4, <1>5 DEF SmartInv, DestroyingOK
  <1>8. LanesCleared'
    BY <1>1, <1>5, NoneAssumption DEF SmartInv, LanesCleared
  <1>9. DestroyedLeavesNothing'
    <2> SUFFICES ASSUME NEW g \in Issued \ raced, ~IsAlive(g)', NEW l \in Lanes \ poisoned
                 PROVE  lanes[l][g.id] # g
      BY <1>1, <1>4 DEF DestroyedLeavesNothing
    <2>1. CASE g = h
      BY <1>1, <1>3, <2>1 DEF SmartInv, LanesCleared, h
    <2>2. CASE g # h
      BY <1>4, <2>2 DEF SmartInv, DestroyedLeavesNothing
    <2> QED BY <2>1, <2>2
  <1> QED BY <1>4, <1>6, <1>7, <1>8, <1>9 DEF SmartInv

LEMMA LaneInsertKeeps ==
  ASSUME SmartInv, NEW l \in Lanes, NEW h \in Issued, LaneInsert(l, h)
  PROVE  SmartInv'
  <1>1. /\ AllocInv' /\ Issued' = Issued /\ \A g : IsAlive(g)' = IsAlive(g)
    BY AllocStays DEF SmartInv, LaneInsert
  <1>2. /\ lanes' = [lanes EXCEPT ![l][h.id] = h]
        /\ raced' = IF BeingDestroyed(h) \/ ~IsAlive(h) THEN raced \cup {h} ELSE raced
        /\ destroying' = destroying /\ poisoned' = poisoned
        /\ h \in Handles /\ h.id \in 0 .. MaxIds - 1 /\ h # None
    BY IssuedIds DEF SmartInv, LaneInsert
  <1>3. /\ lanes' \in [Lanes -> [0 .. MaxIds - 1 -> Handles \cup {None}]]
        /\ \A m \in Lanes, i \in 0 .. MaxIds - 1 :
             lanes'[m][i] = IF m = l /\ i = h.id THEN h ELSE lanes[m][i]
    BY <1>2 DEF SmartInv, LanesTypeOK
  <1>4. LanesTypeOK'
    BY <1>1, <1>2, <1>3 DEF SmartInv, LanesTypeOK
  <1>5. DestroyingOK'
    BY <1>1, <1>2 DEF SmartInv, DestroyingOK
  <1>6. ASSUME NEW g \in Handles, g \notin raced', NEW m \in Lanes, lanes[m][g.id] # g,
               g # h \/ BeingDestroyed(h) \/ ~IsAlive(h)
        PROVE  lanes'[m][g.id] # g
    <2>1. g.id \in 0 .. MaxIds - 1
      BY IssuedIds DEF SmartInv
    <2>2. g # h
      BY <1>2, <1>6
    <2> QED BY <1>3, <1>6, <2>1, <2>2
  <1>7. raced \subseteq raced'
    BY <1>2
  <1>8. LanesCleared'
    <2> SUFFICES ASSUME NEW u \in Destroyers, NEW m \in Lanes, NEW g \in Handles,
                        g = destroying[u].handle, g \notin raced', m \notin poisoned,
                        m \notin destroying[u].left
                 PROVE  lanes'[m][g.id] # g
      BY <1>2 DEF LanesCleared
    <2>1. lanes[m][g.id] # g
      BY <1>7 DEF SmartInv, LanesCleared
    <2>2. g = h => BeingDestroyed(h)
      BY DEF BeingDestroyed
    <2> QED BY <1>6, <2>1, <2>2
  <1>9. DestroyedLeavesNothing'
    <2> SUFFICES ASSUME NEW g \in Issued, g \notin raced', ~IsAlive(g), NEW m \in Lanes \ poisoned
                 PROVE  lanes'[m][g.id] # g
      BY <1>1, <1>2 DEF DestroyedLeavesNothing
    <2>1. lanes[m][g.id] # g
      BY <1>7 DEF SmartInv, DestroyedLeavesNothing
    <2>2. g \in Handles
      BY IssuedIds DEF SmartInv
    <2> QED BY <1>6, <2>1, <2>2
  <1> QED BY <1>1, <1>4, <1>5, <1>8, <1>9 DEF SmartInv

LEMMA PanicKeeps ==
  ASSUME SmartInv, NEW l \in RwLanes, PanicInLane(l)
  PROVE  SmartInv'
  <1>1. /\ AllocInv' /\ Issued' = Issued /\ \A g : IsAlive(g)' = IsAlive(g)
    BY AllocStays DEF SmartInv, PanicInLane
  <1>2. /\ poisoned \subseteq poisoned'
        /\ UNCHANGED <<lanes, destroying, raced>>
    BY DEF PanicInLane
  <1>3. LanesTypeOK' /\ DestroyingOK'
    BY <1>1, <1>2 DEF SmartInv, LanesTypeOK, DestroyingOK
  <1>4. LanesCleared' /\ DestroyedLeavesNothing'
    BY <1>1, <1>2 DEF SmartInv, LanesCleared, DestroyedLeavesNothing
  <1> QED BY <1>1, <1>3, <1>4 DEF SmartInv

LEMMA SmartNextInv == ASSUME SmartInv, [SmartNext]_smartVars PROVE SmartInv'
  <1>1. ASSUME UNCHANGED smartVars PROVE SmartInv'
    <2>1. /\ AllocInv' /\ Issued' = Issued /\ \A g : IsAlive(g)' = IsAlive(g)
          /\ UNCHANGED <<lanes, destroying, poisoned, raced>>
      BY <1>1, AllocStays DEF SmartInv, smartVars, allocVars
    <2> QED BY <2>1 DEF SmartInv, LanesTypeOK, DestroyingOK, LanesCleared, DestroyedLeavesNothing
  <1> QED BY <1>1, CreateKeeps, DestroyBeginKeeps, DestroyLaneKeeps, DestroyFreeKeeps,
             LaneInsertKeeps, LaneRemoveKeeps, PanicKeeps DEF SmartNext

\* The inductive invariant of the smart store.
THEOREM SmartInvariant == SmartSpec => []SmartInv
  BY SmartInitInv, SmartNextInv, PTL DEF SmartSpec

\* destroy_entity visits the lanes one by one and frees the id last, while
\* others create, destroy and insert: a dead handle is left in no lane, unless
\* somebody inserted for it after its destroy began or the lane is poisoned.
THEOREM DestroyedLeaveNothing == SmartSpec => []DestroyedLeavesNothing
  <1>1. SmartInv => DestroyedLeavesNothing
    BY DEF SmartInv
  <1> QED BY <1>1, SmartInvariant, PTL

\* No lane answers to the handle of an entity that was just created, and no
\* destroy and no removal through another handle takes the components of a live one
\* (smart_store.rs, ComponentStore::remove).
THEOREM LiveComponentsStay == SmartSpec => LiveComponentStays
  <1> DEFINE Bare == \A h \in Handles :
                       issue_log' = Append(issue_log, h) => \A l \in Lanes : lanes[l][h.id] # h
             Stay(l, h) ==
               (lanes[l][h.id] = h /\ lanes'[l][h.id] # h /\ IsAlive(h))
                 => \/ TakenThrough(l, h)
                    \/ lanes'[l][h.id] # None /\ ~IsAlive(lanes'[l][h.id])
  <1>1. ASSUME SmartInv, SmartNext PROVE Bare
    <2> SUFFICES ASSUME NEW h \in Handles, issue_log' = Append(issue_log, h),
                        NEW l \in Lanes, lanes[l][h.id] = h
                 PROVE  FALSE
      OBVIOUS
    <2>1. h \in Issued /\ issue_log \in Seq(Handles)
      <3>1. h.id \in 0 .. MaxIds - 1 /\ h # None
        BY <1>1, IssuedIds DEF SmartInv
      <3> QED BY <1>1, <3>1 DEF SmartInv, LanesTypeOK, AllocInv, AllocTypeOK
    <2>2. issue_log' # issue_log
      <3>1. Len(Append(issue_log, h)) = Len(issue_log) + 1 /\ Len(issue_log) \in Nat
        BY <2>1
      <3> QED BY <3>1
    <2>3. CreateEntity
      BY <1>1, <2>2 DEF SmartNext, DestroyBegin, LaneInsert, LaneRemove, DestroyFree,
                        DestroyLane, PanicInLane, Deallocate, DeallocateAlive,
                        DeallocateIgnored, allocVars
    <2>4. PICK g \in Handles : AllocateRecycled(g) \/ AllocateFresh(g)
      BY <2>3 DEF CreateEntity
    <2>5. g \notin Issued /\ issue_log' = Append(issue_log, g)
      BY <1>1, <2>4, AllocateStep DEF SmartInv
    <2>6. g = h
      <3>1. /\ Len(issue_log) \in Nat
            /\ Append(issue_log, g)[Len(issue_log) + 1] = g
            /\ Append(issue_log, h)[Len(issue_log) + 1] = h
        BY <2>1
      <3> QED BY <2>5, <3>1
    <2> QED BY <2>1, <2>5, <2>6
  <1>2. ASSUME SmartInv, SmartNext, NEW l \in Lanes, NEW h \in Issued PROVE Stay(l, h)
    <2> SUFFICES ASSUME lanes[l][h.id] = h, lanes'[l][h.id] # h, IsAlive(h)
                 PROVE  \/ TakenThrough(l, h)
                        \/ lanes'[l][h.id] # None /\ ~IsAlive(lanes'[l][h.id])
      OBVIOUS
    <2>1. h \in Handles /\ h.id \in 0 .. MaxIds - 1 /\ lanes' # lanes
      BY <1>2, IssuedIds DEF SmartInv
    <2>2. ASSUME NEW t \in Destroyers, NEW m \in Lanes, DestroyLane(t, m)
          PROVE  TakenThrough(l, h)
      <3> DEFINE g == destroying[t].handle
      <3>1. /\ g \in Handles /\ m \in destroying[t].left
            /\ destroying \in [Destroyers -> [handle : Handles \cup {None}, left : SUBSET Lanes]]
            /\ destroying' = [destroying EXCEPT ![t].left = @ \ {m}]
            /\ lanes' = RemoveFrom(m, g)
        BY <1>2, <2>1, <2>2, IssuedIds DEF SmartInv, DestroyingOK, DestroyLane
      <3> HIDE DEF g
      <3>2. lanes[l][h.id] = g
        BY <1>2, <2>1, <3>1, RemoveFromFacts
      <3>3. destroying'[t].left # destroying[t].left
        BY <3>1
      <3> QED BY <1>2, <3>2, <3>3 DEF TakenThrough, g
    <2>3. ASSUME NEW m \in Lanes, NEW g \in Issued, LaneRemove(m, g)
          PROVE  TakenThrough(l, h)
      <3>1. ASSUME NEW n \in Lanes, NEW f \in Issued, LaneRemove(n, f) PROVE n = l /\ f = h
        <4>1. f \in Handles /\ lanes' = RemoveFrom(n, f)
          BY <1>2, <3>1, IssuedIds DEF SmartInv, LaneRemove
        <4> QED BY <1>2, <2>1, <4>1, RemoveFromFacts
      <3>2. m = l /\ g = h /\ \A f \in Issued \ {h} : ~LaneRemove(l, f)
        BY <1>2, <2>3, <3>1
      <3> QED BY <2>3, <3>2 DEF TakenThrough
    <2>4. ASSUME NEW m \in Lanes, NEW g \in Issued, LaneInsert(m, g)
          PROVE  lanes'[l][h.id] # None /\ ~IsAlive(lanes'[l][h.id])
      <3>1. g \in Handles /\ g # None /\ lanes' = [lanes EXCEPT ![m][g.id] = g]
        BY <1>2, <2>4, IssuedIds DEF SmartInv, LaneInsert
      <3>2. lanes \in [Lanes -> [0 .. MaxIds - 1 -> Handles \cup {None}]]
        BY <1>2 DEF SmartInv, LanesTypeOK
      <3>3. g.id = h.id /\ lanes'[l][h.id] = g
        BY <2>1, <3>1, <3>2
      <3>4. g.gen # h.gen
        BY <1>2, <2>1, <3>1, <3>3, IssuedIds DEF SmartInv
      <3> QED BY <3>1, <3>3, <3>4 DEF IsAlive
    <2> QED BY <1>2, <2>1, <2>2, <2>3, <2>4
            DEF SmartNext, CreateEntity, DestroyBegin, DestroyFree, PanicInLane
  <1>3. SmartInv /\ [SmartNext]_smartVars
          => [Bare /\ \A l \in Lanes, h \in Issued : Stay(l, h)]_smartVars
    BY <1>1, <1>2
  <1> QED BY <1>3, SmartInvariant, PTL DEF SmartSpec, LiveComponentStays

-----------------------------------------------------------------------------
(* Inside a lock-free lane.                                                *)

(* Where a thread holds the pointer it loaded. *)
Holding(t) == pc[t] \in {"clone", "exchange", "read", "retire"}

TypeInv ==
    /\ store \in Addresses
    /\ free \subseteq Addresses
    /\ DOMAIN waits \subseteq Addresses
    /\ pc \in [Threads -> {"idle", "load", "clone", "exchange", "read", "retire"}]
    /\ shared \in [Threads -> Addresses \union {Null}]
    /\ fresh \in [Threads -> Addresses \union {Null}]
    /\ pinned = {t \in Threads : pc[t] # "idle"}

(* Every address has at most one role: published, waiting to be freed,     *)
(* free, one writer's clone, or replaced and not yet retired.              *)
RolesApart ==
    /\ store \notin free /\ store \notin DOMAIN waits
    /\ \A a \in DOMAIN waits : a \notin free
    /\ \A t \in Threads : pc[t] = "exchange" =>
          /\ fresh[t] \in Addresses /\ fresh[t] \notin free
          /\ fresh[t] # store /\ fresh[t] \notin DOMAIN waits
    /\ \A t \in Threads : pc[t] = "retire" =>
          shared[t] \notin free /\ shared[t] # store /\ shared[t] \notin DOMAIN waits
    /\ \A t, u \in Threads : pc[t] = "exchange" /\ Holding(u) => shared[u] # fresh[t]

OwnersApart ==
    \A t, u \in Threads : t # u =>
        /\ pc[t] = "exchange" /\ pc[u] = "exchange" => fresh[t] # fresh[u]
        /\ pc[t] = "retire" /\ pc[u] = "retire" => shared[t] # shared[u]

(* A snapshot in use is published, or kept for its user, or still in the   *)
(* hands of the thread that will retire it.                                *)
KeptFor(t, a) ==
    \/ a = store
    \/ a \in DOMAIN waits /\ t \in waits[a]
    \/ \E u \in Threads : pc[u] = "retire" /\ shared[u] = a

SnapshotsKept ==
    \A t \in Threads : Holding(t) => shared[t] \in Addresses /\ KeptFor(t, shared[t])

GuardInv == TypeInv /\ RolesApart /\ OwnersApart /\ SnapshotsKept

-----------------------------------------------------------------------------
(* What is held is not free. *)
LEMMA HeldIsNotFree ==
    ASSUME GuardInv, NEW t \in Threads, Holding(t)
    PROVE  shared[t] \notin free
  BY DEF GuardInv, RolesApart, SnapshotsKept, KeptFor

LEMMA GuardInitially == LockFreeInit => GuardInv
  BY LaneAssumption
  DEF LockFreeInit, GuardInv, TypeInv, RolesApart, OwnersApart, SnapshotsKept, Holding

(* Pinning takes no pointer. *)
LEMMA PinKeeps == ASSUME GuardInv, NEW t \in Threads, Pin(t) PROVE GuardInv'
  <1> USE DEF GuardInv, Pin, Goto
  <1>1. TypeInv'
    BY DEF TypeInv
  <1>2. \A u \in Threads \ {t} : pc'[u] = pc[u]
    BY DEF TypeInv
  <1>3. pc[t] = "idle" /\ pc'[t] = "load"
    BY DEF TypeInv
  <1>4. RolesApart' /\ OwnersApart'
    BY <1>2, <1>3 DEF RolesApart, OwnersApart, Holding
  <1>5. SnapshotsKept'
    BY <1>2, <1>3 DEF SnapshotsKept, KeptFor, Holding
  <1> QED BY <1>1, <1>4, <1>5

(* A load takes the published pointer, which is nobody's clone. *)
LEMMA LoadKeeps == ASSUME GuardInv, NEW t \in Threads, Load(t) PROVE GuardInv'
  <1> USE DEF GuardInv, Load, Goto
  <1>1. TypeInv'
    BY DEF TypeInv
  <1>2. \A u \in Threads \ {t} : pc'[u] = pc[u] /\ shared'[u] = shared[u]
    BY DEF TypeInv
  <1>3. pc[t] = "load" /\ pc'[t] \in {"clone", "read"} /\ shared'[t] = store
    BY DEF TypeInv
  <1>4. RolesApart'
    BY <1>2, <1>3 DEF RolesApart, Holding, TypeInv
  <1>5. OwnersApart'
    BY <1>2, <1>3 DEF OwnersApart
  <1>6. SnapshotsKept'
    BY <1>2, <1>3 DEF SnapshotsKept, KeptFor, Holding, TypeInv
  <1> QED BY <1>1, <1>4, <1>5, <1>6

(* A clone takes a free address, which nobody holds. *)
LEMMA CloneKeeps == ASSUME GuardInv, NEW t \in Threads, CloneAndEdit(t) PROVE GuardInv'
  <1> USE DEF GuardInv, Goto
  <1>1. PICK a \in free : free' = free \ {a} /\ fresh' = [fresh EXCEPT ![t] = a]
    BY DEF CloneAndEdit
  <1>2. /\ pc[t] = "clone" /\ pc' = [pc EXCEPT ![t] = "exchange"]
        /\ UNCHANGED <<store, waits, pinned, shared>>
    BY DEF CloneAndEdit
  <1>3. TypeInv'
    BY <1>1, <1>2 DEF TypeInv
  <1>4. /\ \A u \in Threads \ {t} : pc'[u] = pc[u] /\ fresh'[u] = fresh[u]
        /\ pc'[t] = "exchange" /\ fresh'[t] = a /\ a \in Addresses
    BY <1>1, <1>2 DEF TypeInv
  <1>5. \A u \in Threads : Holding(u) => shared[u] # a
    BY <1>1, HeldIsNotFree
  <1>6. \A u \in Threads : Holding(u)' => Holding(u)
    BY <1>2, <1>4 DEF Holding
  <1>7. RolesApart'
    BY <1>1, <1>2, <1>4, <1>5, <1>6 DEF RolesApart
  <1>8. OwnersApart'
    BY <1>1, <1>2, <1>4 DEF OwnersApart, RolesApart
  <1>9. SnapshotsKept'
    BY <1>2, <1>4, <1>6 DEF SnapshotsKept, KeptFor
  <1> QED BY <1>3, <1>7, <1>8, <1>9

(* The winner's clone is published; what it replaced is its own to retire. *)
LEMMA WinKeeps == ASSUME GuardInv, NEW t \in Threads, ExchangeWins(t) PROVE GuardInv'
  <1> USE DEF GuardInv, ExchangeWins, Unchanged, Goto
  <1>1. TypeInv'
    BY DEF TypeInv, RolesApart
  <1>2. /\ \A u \in Threads \ {t} : pc'[u] = pc[u] /\ fresh'[u] = fresh[u]
        /\ pc[t] = "exchange" /\ pc'[t] = "retire"
        /\ store' = fresh[t] /\ shared[t] = store
        /\ UNCHANGED <<free, waits, shared>>
    BY DEF TypeInv
  <1>3. \A u \in Threads : Holding(u)' => Holding(u)
    BY <1>2 DEF Holding
  <1>4. RolesApart'
    BY <1>2, <1>3 DEF RolesApart, OwnersApart, Holding
  <1>5. OwnersApart'
    BY <1>2 DEF OwnersApart, RolesApart
  <1>6. SnapshotsKept'
    BY <1>2, <1>3 DEF SnapshotsKept, KeptFor
  <1> QED BY <1>1, <1>4, <1>5, <1>6

(* The loser frees a clone nobody else has seen. *)
LEMMA LoseKeeps == ASSUME GuardInv, NEW t \in Threads, ExchangeLoses(t) PROVE GuardInv'
  <1> USE DEF GuardInv, ExchangeLoses, Retry, Released, Goto
  <1>1. TypeInv'
    BY DEF TypeInv, RolesApart
  <1>2. /\ \A u \in Threads \ {t} : pc'[u] = pc[u] /\ fresh'[u] = fresh[u]
        /\ pc[t] = "exchange" /\ pc'[t] = "idle"
        /\ free' = free \union {fresh[t]}
        /\ DOMAIN waits' = DOMAIN waits
        /\ \A a \in DOMAIN waits : waits'[a] = waits[a] \ {t}
        /\ UNCHANGED <<store, shared>>
    BY DEF TypeInv
  <1>3. \A u \in Threads : Holding(u)' => Holding(u) /\ u # t
    BY <1>2 DEF Holding
  <1>4. Holding(t)
    BY <1>2 DEF Holding
  <1>5. \A u \in Threads : pc'[u] = "retire" => Holding(u) /\ u # t
    BY <1>2 DEF Holding
  <1>6. RolesApart'
    BY <1>2, <1>3, <1>5 DEF RolesApart, OwnersApart
  <1>7. OwnersApart'
    BY <1>2 DEF OwnersApart
  <1>8. SnapshotsKept'
    BY <1>2, <1>3 DEF SnapshotsKept, KeptFor
  <1> QED BY <1>1, <1>6, <1>7, <1>8

(* Retiring waits for every other guard, those of all its users included. *)
LEMMA RetireKeeps == ASSUME GuardInv, NEW t \in Threads, Retire(t) PROVE GuardInv'
  <1> USE DEF GuardInv, Retire, Guards, Goto
  <1>1. TypeInv'
    BY DEF TypeInv, SnapshotsKept, Holding
  <1>2. /\ \A u \in Threads \ {t} : pc'[u] = pc[u] /\ shared'[u] = shared[u]
        /\ pc[t] = "retire" /\ pc'[t] = "idle"
        /\ DOMAIN waits' = DOMAIN waits \union {shared[t]}
        /\ waits'[shared[t]] = pinned \ {t}
        /\ \A a \in DOMAIN waits \ {shared[t]} : waits'[a] = waits[a] \ {t}
        /\ UNCHANGED <<store, free, fresh>>
    BY DEF TypeInv
  <1>3. \A u \in Threads : Holding(u)' => Holding(u) /\ u # t /\ u \in pinned
    BY <1>2 DEF Holding, TypeInv
  <1>4. Holding(t)
    BY <1>2 DEF Holding
  <1>5. \A u \in Threads : pc'[u] \in {"exchange", "retire"} => u # t /\ pc'[u] = pc[u]
    BY <1>2
  <1>6. RolesApart'
    BY <1>2, <1>3, <1>4, <1>5 DEF RolesApart, OwnersApart
  <1>7. OwnersApart'
    BY <1>2, <1>5 DEF OwnersApart
  <1>8. SnapshotsKept'
    <2> SUFFICES ASSUME NEW u \in Threads, Holding(u)'
                 PROVE  shared'[u] \in Addresses /\ KeptFor(u, shared[u])'
      BY <1>2, <1>3 DEF SnapshotsKept
    <2>1. Holding(u) /\ u # t /\ u \in pinned /\ shared'[u] = shared[u]
      BY <1>2, <1>3
    <2>2. shared[u] \in Addresses /\ KeptFor(u, shared[u])
      BY <2>1 DEF SnapshotsKept
    <2>3. CASE shared[u] = shared[t]
      BY <1>2, <2>1, <2>2, <2>3 DEF KeptFor
    <2>4. CASE shared[u] # shared[t]
      BY <1>2, <2>1, <2>2, <2>4 DEF KeptFor
    <2> QED BY <2>3, <2>4
  <1> QED BY <1>1, <1>6, <1>7, <1>8

(* A reader lets its guard go. *)
LEMMA EndReadKeeps == ASSUME GuardInv, NEW t \in Threads, EndRead(t) PROVE GuardInv'
  <1> USE DEF GuardInv, EndRead, Released, Goto
  <1>1. TypeInv'
    BY DEF TypeInv
  <1>2. /\ \A u \in Threads \ {t} : pc'[u] = pc[u] /\ shared'[u] = shared[u]
        /\ pc[t] = "read" /\ pc'[t] = "idle"
        /\ DOMAIN waits' = DOMAIN waits
        /\ \A a \in DOMAIN waits : waits'[a] = waits[a] \ {t}
        /\ UNCHANGED <<store, free, fresh>>
    BY DEF TypeInv
  <1>3. \A u \in Threads : Holding(u)' => Holding(u) /\ u # t
    BY <1>2 DEF Holding
  <1>4. RolesApart'
    BY <1>2, <1>3 DEF RolesApart
  <1>5. OwnersApart'
    BY <1>2 DEF OwnersApart
  <1>6. SnapshotsKept'
    BY <1>2, <1>3 DEF SnapshotsKept, KeptFor
  <1> QED BY <1>1, <1>4, <1>5, <1>6

(* The collector frees what no guard keeps. *)
LEMMA ReclaimKeeps == ASSUME GuardInv, NEW a \in Addresses, Reclaim(a) PROVE GuardInv'
  <1> USE DEF GuardInv, Reclaim
  <1>1. TypeInv'
    BY DEF TypeInv
  <1>2. /\ a \in DOMAIN waits /\ waits[a] = {}
        /\ DOMAIN waits' = DOMAIN waits \ {a}
        /\ \A b \in DOMAIN waits \ {a} : waits'[b] = waits[b]
        /\ free' = free \union {a}
        /\ UNCHANGED <<store, pc, shared, fresh>>
    OBVIOUS
  <1>3. RolesApart'
    BY <1>2 DEF RolesApart, Holding
  <1>4. OwnersApart'
    BY <1>2 DEF OwnersApart
  <1>5. SnapshotsKept'
    BY <1>2 DEF SnapshotsKept, KeptFor, Holding
  <1> QED BY <1>1, <1>3, <1>4, <1>5

LEMMA GuardStep == ASSUME GuardInv, [LockFreeNext]_lockFreeVars PROVE GuardInv'
  <1>1. ASSUME NEW t \in Threads, ThreadStep(t) PROVE GuardInv'
    BY <1>1, PinKeeps, LoadKeeps, CloneKeeps, WinKeeps, LoseKeeps, RetireKeeps,
       EndReadKeeps DEF ThreadStep
  <1>2. ASSUME Collect PROVE GuardInv'
    BY <1>2, ReclaimKeeps DEF Collect
  <1>3. ASSUME UNCHANGED lockFreeVars PROVE GuardInv'
    BY <1>3 DEF lockFreeVars, GuardInv, TypeInv, RolesApart, OwnersApart, SnapshotsKept,
                KeptFor, Holding
  <1> QED BY <1>1, <1>2, <1>3 DEF LockFreeNext, Finished

(* The roles of addresses and the guards of their users, in every state. *)
THEOREM GuardInvariant == LockFreeSpec => []GuardInv
  BY GuardInitially, GuardStep, PTL DEF LockFreeSpec

(* The SAFETY comments of read and write and the CAS loop's comment: a     *)
(* pointer a thread dereferences is never one the collector has freed, and *)
(* a replaced snapshot is retired once, by the thread that replaced it.    *)
THEOREM SnapshotsAreAlwaysSafe == LockFreeSpec => []SnapshotsAreSafe
  <1>1. GuardInv => NoUseAfterFree
    BY DEF GuardInv, RolesApart, SnapshotsKept, KeptFor, Holding, NoUseAfterFree, Uses
  <1>2. GuardInv => RetiredOnce
    BY DEF GuardInv, RolesApart, OwnersApart, RetiredOnce
  <1>3. GuardInv => SnapshotsAreSafe
    BY <1>1, <1>2 DEF SnapshotsAreSafe
  <1> QED BY <1>3, GuardInvariant, PTL

-----------------------------------------------------------------------------
(* A lock-free lane is an atomic one.                                      *)

(* A clone is the snapshot its writer loaded with the writer's next write  *)
(* on top; a thread in a call has calls left to make.                      *)
SnapInv ==
    /\ GuardInv
    /\ memory \in [Addresses -> Seq(Threads \X Nat)]
    /\ round \in [Threads -> Nat]
    /\ \A t \in Threads :
          /\ pc[t] \in {"clone", "exchange", "retire"} => t \in Writers
          /\ pc[t] = "read" => t \notin Writers
          /\ pc[t] \notin {"idle", "retire"} => round[t] < Rounds
          /\ pc[t] = "exchange" =>
                memory[fresh[t]] = Append(memory[shared[t]], <<t, round[t] + 1>>)

(* What anybody can still see.                                             *)
InUse(a) == \/ a = store
            \/ \E t \in Threads : Holding(t) /\ shared[t] = a
            \/ \E t \in Threads : pc[t] = "exchange" /\ fresh[t] = a

LEMMA FreeIsNotInUse ==
    ASSUME GuardInv, NEW a \in free PROVE ~InUse(a)
  BY HeldIsNotFree DEF InUse, GuardInv, RolesApart

LEMMA ReclaimedIsNotInUse ==
    ASSUME GuardInv, NEW a \in DOMAIN waits, waits[a] = {} PROVE ~InUse(a)
  <1>1. ASSUME NEW t \in Threads, Holding(t), shared[t] = a PROVE FALSE
    <2>1. KeptFor(t, a)
      BY <1>1 DEF GuardInv, SnapshotsKept
    <2> QED BY <2>1 DEF KeptFor, GuardInv, RolesApart
  <1> QED BY <1>1 DEF InUse, GuardInv, RolesApart

(* Only snapshots that nobody sees are written.                            *)
LEMMA InUseStays ==
    ASSUME SnapInv, LockFreeNext, NEW a \in Addresses, InUse(a),
           \A t \in Threads : ~(ExchangeLoses(t) /\ fresh[t] = a)
    PROVE  memory'[a] = memory[a]
  <1>1. ASSUME NEW t \in Threads, CloneAndEdit(t) PROVE memory'[a] = memory[a]
    <2>1. PICK b \in free :
             memory' = [memory EXCEPT ![b] = Append(memory[shared[t]], <<t, round[t] + 1>>)]
      BY <1>1 DEF CloneAndEdit
    <2>2. b # a
      BY FreeIsNotInUse DEF SnapInv
    <2> QED BY <2>1, <2>2 DEF SnapInv
  <1>2. ASSUME NEW t \in Threads, ExchangeLoses(t) PROVE memory'[a] = memory[a]
    <2>1. memory' = [memory EXCEPT ![fresh[t]] = <<>>] /\ fresh[t] # a
      BY <1>2 DEF ExchangeLoses
    <2> QED BY <2>1 DEF SnapInv
  <1>3. ASSUME NEW b \in Addresses, Reclaim(b) PROVE memory'[a] = memory[a]
    <2>1. b # a /\ memory' = [memory EXCEPT ![b] = <<>>]
      BY <1>3, ReclaimedIsNotInUse DEF SnapInv, Reclaim
    <2> QED BY <2>1 DEF SnapInv
  <1> QED BY <1>1, <1>2, <1>3 DEF LockFreeNext, ThreadStep, Collect, Finished, lockFreeVars,
                                  Pin, Load, ExchangeWins, Retire, EndRead

LEMMA SnapInitially == LockFreeInit => SnapInv
  <1> SUFFICES ASSUME LockFreeInit PROVE SnapInv
    OBVIOUS
  <1>1. memory \in [Addresses -> Seq(Threads \X Nat)]
    BY DEF LockFreeInit
  <1> QED BY <1>1, GuardInitially DEF LockFreeInit, SnapInv

(* A thread that is not at its clone keeps what SnapInv says of it.        *)
LEMMA SnapStep == ASSUME SnapInv, LockFreeNext PROVE SnapInv'
  <1> USE DEF SnapInv
  <1>1. /\ GuardInv' /\ TypeInv
        /\ pc \in [Threads -> {"idle", "load", "clone", "exchange", "read", "retire"}]
        /\ shared \in [Threads -> Addresses \union {Null}]
        /\ fresh \in [Threads -> Addresses \union {Null}]
        /\ round \in [Threads -> Nat] /\ memory \in [Addresses -> Seq(Threads \X Nat)]
        /\ free \subseteq Addresses
    BY GuardStep DEF GuardInv, TypeInv
  <1>2. \A t \in Threads : Holding(t) => shared[t] \in Addresses
    BY DEF GuardInv, SnapshotsKept
  <1>3. \A t \in Threads : pc[t] = "exchange" => fresh[t] \in Addresses
    BY DEF GuardInv, RolesApart
  <1>4. memory' \in [Addresses -> Seq(Threads \X Nat)]
    <2>1. ASSUME NEW t \in Threads, CloneAndEdit(t)
          PROVE  memory' \in [Addresses -> Seq(Threads \X Nat)]
      <3>1. PICK b \in free :
               memory' = [memory EXCEPT ![b] = Append(memory[shared[t]], <<t, round[t] + 1>>)]
        BY <2>1 DEF CloneAndEdit
      <3>2. shared[t] \in Addresses /\ round[t] \in Nat
        BY <1>1, <1>2, <2>1 DEF CloneAndEdit, Holding
      <3>3. memory[shared[t]] \in Seq(Threads \X Nat) /\ <<t, round[t] + 1>> \in Threads \X Nat
        BY <1>1, <3>2
      <3>4. Append(memory[shared[t]], <<t, round[t] + 1>>) \in Seq(Threads \X Nat)
        BY <3>3
      <3> QED BY <1>1, <3>1, <3>4
    <2>2. ASSUME NEW a, memory' = [memory EXCEPT ![a] = <<>>]
          PROVE  memory' \in [Addresses -> Seq(Threads \X Nat)]
      <3>1. <<>> \in Seq(Threads \X Nat)
        OBVIOUS
      <3> QED BY <1>1, <2>2, <3>1
    <2> QED BY <1>1, <2>1, <2>2 DEF LockFreeNext, ThreadStep, Collect, Finished, lockFreeVars,
                 Pin, Load, ExchangeWins, ExchangeLoses, Retire, EndRead, Reclaim
  <1>5. round' \in [Threads -> Nat]
    <2>1. \/ round' = round
          \/ \E t \in Threads : round' = [round EXCEPT ![t] = round[t] + 1]
      BY DEF LockFreeNext, ThreadStep, Collect, Finished, lockFreeVars, Pin, Load,
             CloneAndEdit, ExchangeWins, ExchangeLoses, Retire, EndRead, Reclaim
    <2> QED BY <1>1, <2>1
  <1>6. ASSUME NEW t \in Threads
        PROVE  /\ pc'[t] \in {"clone", "exchange", "retire"} => t \in Writers
               /\ pc'[t] = "read" => t \notin Writers
               /\ pc'[t] \notin {"idle", "retire"} => round'[t] < Rounds
    <2>1. ASSUME NEW u \in Threads, ThreadStep(u), u # t
          PROVE  pc'[t] = pc[t] /\ round'[t] = round[t]
      BY <1>1, <2>1 DEF ThreadStep, Pin, Load, CloneAndEdit, ExchangeWins, ExchangeLoses,
                        Retire, EndRead, Goto
    <2>2. ASSUME ThreadStep(t)
          PROVE  /\ pc'[t] \in {"clone", "exchange", "retire"} => t \in Writers
                 /\ pc'[t] = "read" => t \notin Writers
                 /\ pc'[t] \notin {"idle", "retire"} => round'[t] < Rounds
      BY <1>1, <2>2 DEF ThreadStep, Pin, Load, CloneAndEdit, ExchangeWins, ExchangeLoses,
                        Retire, EndRead, Goto, Retry
    <2> QED BY <2>1, <2>2 DEF LockFreeNext, Collect, Finished, lockFreeVars, Reclaim
  <1>7. ASSUME NEW t \in Threads, pc'[t] = "exchange"
        PROVE  memory'[fresh'[t]] = Append(memory'[shared'[t]], <<t, round'[t] + 1>>)
    <2>1. CASE CloneAndEdit(t)
      <3>1. PICK b \in free :
              /\ memory' = [memory EXCEPT ![b] = Append(memory[shared[t]], <<t, round[t] + 1>>)]
              /\ fresh' = [fresh EXCEPT ![t] = b]
        BY <2>1 DEF CloneAndEdit
      <3>2. shared' = shared /\ round' = round /\ shared[t] \in Addresses /\ Holding(t)
        BY <1>2, <2>1 DEF CloneAndEdit, Holding
      <3>3. b # shared[t] /\ b \in Addresses
        BY <1>1, <3>2, HeldIsNotFree
      <3> QED BY <1>1, <3>1, <3>2, <3>3
    <2>2. CASE ~CloneAndEdit(t)
      <3>1. pc[t] = "exchange" /\ fresh'[t] = fresh[t] /\ shared'[t] = shared[t] /\ round'[t] = round[t]
        <4>1. ASSUME NEW u \in Threads, ThreadStep(u), u # t
              PROVE  pc'[t] = pc[t] /\ fresh'[t] = fresh[t] /\ shared'[t] = shared[t]
                     /\ round'[t] = round[t]
          BY <1>1, <4>1 DEF ThreadStep, Pin, Load, CloneAndEdit, ExchangeWins, ExchangeLoses,
                            Retire, EndRead, Goto
        <4>2. ~ThreadStep(t)
          BY <1>1, <1>7, <2>2 DEF ThreadStep, Pin, Load, ExchangeWins, ExchangeLoses,
                                  Retire, EndRead, Goto, Retry
        <4> QED BY <1>7, <4>1, <4>2 DEF LockFreeNext, Collect, Finished, lockFreeVars, Reclaim
      <3>2. /\ fresh[t] \in Addresses /\ shared[t] \in Addresses
            /\ InUse(fresh[t]) /\ InUse(shared[t])
        BY <1>2, <1>3, <3>1 DEF InUse, Holding
      <3>3. ASSUME NEW u \in Threads, ExchangeLoses(u)
            PROVE  fresh[u] # fresh[t] /\ fresh[u] # shared[t]
        <4>1. u # t /\ pc[u] = "exchange" /\ Holding(t)
          BY <1>1, <1>7, <3>1, <3>3 DEF ExchangeLoses, Goto, Retry, Holding
        <4> QED BY <3>1, <4>1 DEF GuardInv, OwnersApart, RolesApart
      <3>4. memory'[fresh[t]] = memory[fresh[t]] /\ memory'[shared[t]] = memory[shared[t]]
        BY <3>2, <3>3, InUseStays
      <3> QED BY <3>1, <3>4
    <2> QED BY <2>1, <2>2
  <1> QED BY <1>1, <1>4, <1>5, <1>6, <1>7

LaneNow == memory[store]
ViewNow == [r \in Readers |-> IF pc[r] = "read" THEN <<memory[shared[r]]>> ELSE <<>>]

(* What a reader sees changes with its own steps alone.                    *)
LEMMA ViewStays ==
    ASSUME SnapInv, LockFreeNext, NEW r \in Readers, pc'[r] = pc[r], shared'[r] = shared[r]
    PROVE  ViewNow'[r] = ViewNow[r]
  <1>1. CASE pc[r] = "read"
    <2>1. Holding(r) /\ r \in Threads
      BY <1>1 DEF Holding, Threads
    <2>2. shared[r] \in Addresses /\ InUse(shared[r])
      BY <2>1 DEF SnapInv, GuardInv, SnapshotsKept, InUse
    <2>3. ASSUME NEW u \in Threads, ExchangeLoses(u) PROVE fresh[u] # shared[r]
      BY <2>1, <2>3 DEF SnapInv, GuardInv, RolesApart, ExchangeLoses
    <2>4. memory'[shared[r]] = memory[shared[r]]
      BY <2>2, <2>3, InUseStays
    <2> QED BY <2>4 DEF ViewNow
  <1> QED BY <1>1 DEF ViewNow

LEMMA LaneStep ==
    ASSUME SnapInv, LockFreeNext
    PROVE  Lane!LaneNext \/ UNCHANGED <<LaneNow, round, ViewNow>>
  <1>1. /\ pc \in [Threads -> {"idle", "load", "clone", "exchange", "read", "retire"}]
        /\ shared \in [Threads -> Addresses \union {Null}]
        /\ round \in [Threads -> Nat] /\ store \in Addresses
        /\ Readers \subseteq Threads /\ Writers \subseteq Threads
        /\ Writers \intersect Readers = {} /\ Threads = Writers \union Readers
    BY LaneAssumption DEF SnapInv, GuardInv, TypeInv, Threads
  <1>2. memory'[store] = memory[store]
    <2>1. ASSUME NEW t \in Threads, ExchangeLoses(t) PROVE fresh[t] # store
      BY <2>1 DEF SnapInv, GuardInv, RolesApart, ExchangeLoses
    <2> QED BY <1>1, <2>1, InUseStays DEF InUse
  <1>3. ASSUME NEW t \in Threads, ThreadStep(t), NEW r \in Readers, r # t
        PROVE  ViewNow'[r] = ViewNow[r]
    <2>1. pc'[r] = pc[r] /\ shared'[r] = shared[r]
      BY <1>1, <1>3 DEF ThreadStep, Pin, Load, CloneAndEdit, ExchangeWins, ExchangeLoses,
                        Retire, EndRead, Goto
    <2> QED BY <2>1, ViewStays
  <1>4. ASSUME NEW t \in Threads, ThreadStep(t), store' = store, round' = round,
               pc[t] # "read", pc'[t] # "read"
        PROVE  UNCHANGED <<LaneNow, round, ViewNow>>
    <2>1. \A r \in Readers : ViewNow'[r] = ViewNow[r]
      BY <1>3, <1>4 DEF ViewNow
    <2>2. ViewNow' = ViewNow
      BY <2>1 DEF ViewNow
    <2> QED BY <1>2, <1>4, <2>2 DEF LaneNow
  <1>5. ASSUME NEW t \in Threads, Pin(t) \/ CloneAndEdit(t) \/ ExchangeLoses(t) \/ Retire(t)
        PROVE  UNCHANGED <<LaneNow, round, ViewNow>>
    <2>1. ThreadStep(t) /\ store' = store /\ round' = round /\ pc[t] # "read" /\ pc'[t] # "read"
      BY <1>1, <1>5 DEF ThreadStep, Pin, CloneAndEdit, ExchangeLoses, Retire, Goto, Retry
    <2> QED BY <1>4, <2>1
  <1>6. ASSUME NEW t \in Threads, Load(t)
        PROVE  Lane!LaneNext \/ UNCHANGED <<LaneNow, round, ViewNow>>
    <2>1. CASE t \in Writers
      <3>1. ThreadStep(t) /\ store' = store /\ round' = round /\ pc[t] # "read" /\ pc'[t] # "read"
        BY <1>1, <1>6, <2>1 DEF ThreadStep, Load, Goto
      <3> QED BY <1>4, <3>1
    <2>2. CASE t \notin Writers
      <3>1. /\ t \in Readers /\ pc[t] = "load" /\ pc'[t] = "read" /\ shared'[t] = store
            /\ memory' = memory /\ store' = store /\ round' = round /\ ThreadStep(t)
        BY <1>1, <1>6, <2>2 DEF ThreadStep, Load, Goto
      <3>2. ViewNow[t] = <<>> /\ ViewNow'[t] = <<LaneNow>>
        BY <3>1 DEF ViewNow, LaneNow
      <3>3. ViewNow' = [ViewNow EXCEPT ![t] = <<LaneNow>>]
        <4>1. \A r \in Readers : ViewNow'[r] = IF r = t THEN <<LaneNow>> ELSE ViewNow[r]
          BY <1>3, <3>1, <3>2
        <4> QED BY <4>1 DEF ViewNow
      <3>4. round[t] < Rounds
        BY <1>1, <3>1 DEF SnapInv
      <3>5. Lane!Look(t)
        BY <3>1, <3>2, <3>3, <3>4 DEF Lane!Look, ViewNow, LaneNow
      <3> QED BY <3>1, <3>5 DEF Lane!LaneNext
    <2> QED BY <2>1, <2>2
  <1>7. ASSUME NEW t \in Threads, ExchangeWins(t) PROVE Lane!LaneNext
    <2>1. /\ pc[t] = "exchange" /\ pc'[t] = "retire" /\ store = shared[t] /\ store' = fresh[t]
          /\ memory' = memory /\ round' = [round EXCEPT ![t] = round[t] + 1]
          /\ shared' = shared /\ ThreadStep(t)
      BY <1>1, <1>7 DEF ThreadStep, ExchangeWins, Unchanged, Goto
    <2>2. t \in Writers /\ round[t] < Rounds
      BY <1>1, <2>1 DEF SnapInv
    <2>3. LaneNow' = Append(LaneNow, <<t, round[t] + 1>>)
      BY <2>1 DEF SnapInv, LaneNow
    <2>4. ViewNow' = ViewNow
      <3>1. \A r \in Readers : ViewNow'[r] = ViewNow[r]
        BY <1>1, <1>3, <2>1, <2>2
      <3> QED BY <3>1 DEF ViewNow
    <2>5. Lane!Write(t)
      BY <2>1, <2>2, <2>3, <2>4 DEF Lane!Write, LaneNow, ViewNow
    <2> QED BY <2>2, <2>5 DEF Lane!LaneNext
  <1>8. ASSUME NEW t \in Threads, EndRead(t) PROVE Lane!LaneNext
    <2>1. /\ pc[t] = "read" /\ pc'[t] = "idle" /\ store' = store /\ memory' = memory
          /\ round' = [round EXCEPT ![t] = round[t] + 1] /\ ThreadStep(t)
      BY <1>1, <1>8 DEF ThreadStep, EndRead, Goto
    <2>2. t \in Readers
      BY <1>1, <2>1 DEF SnapInv
    <2>3. ViewNow[t] = <<memory[shared[t]]>> /\ ViewNow'[t] = <<>>
      BY <2>1, <2>2 DEF ViewNow
    <2>4. ViewNow' = [ViewNow EXCEPT ![t] = <<>>]
      <3>1. \A r \in Readers : ViewNow'[r] = IF r = t THEN <<>> ELSE ViewNow[r]
        BY <1>3, <2>1, <2>3
      <3> QED BY <3>1 DEF ViewNow
    <2>5. ViewNow[t] # <<>>
      BY <2>3
    <2>6. Lane!Return(t)
      BY <2>1, <2>4, <2>5 DEF Lane!Return, LaneNow, ViewNow
    <2> QED BY <2>2, <2>6 DEF Lane!LaneNext
  <1>9. ASSUME Collect \/ Finished PROVE UNCHANGED <<LaneNow, round, ViewNow>>
    <2>1. pc' = pc /\ shared' = shared /\ round' = round /\ store' = store
      BY <1>9 DEF Collect, Reclaim, Finished, lockFreeVars
    <2>2. \A r \in Readers : ViewNow'[r] = ViewNow[r]
      BY <2>1, ViewStays
    <2>3. ViewNow' = ViewNow
      BY <2>2 DEF ViewNow
    <2> QED BY <1>2, <2>1, <2>3 DEF LaneNow
  <1> QED BY <1>5, <1>6, <1>7, <1>8, <1>9 DEF LockFreeNext, ThreadStep

(* Readers and writers of a lock-free lane see an atomic one: a write      *)
(* takes effect at its exchange, on top of every write before it, and a    *)
(* reader keeps the snapshot that was published when it loaded, whatever   *)
(* addresses the allocator hands out again (smart_store.rs).               *)
THEOREM LockFreeLaneIsAtomic == LockFreeSpec => LaneSpec
  <1>1. LockFreeInit => Lane!LaneInit
    BY LaneAssumption DEF LockFreeInit, Lane!LaneInit, Threads
  <1>2. ASSUME SnapInv, [LockFreeNext]_lockFreeVars PROVE SnapInv'
    <2>1. CASE UNCHANGED lockFreeVars
      <3>1. GuardInv'
        BY <1>2, GuardStep DEF SnapInv
      <3> QED BY <1>2, <2>1, <3>1 DEF SnapInv, lockFreeVars
    <2> QED BY <1>2, <2>1, SnapStep
  <1>3. ASSUME SnapInv, [LockFreeNext]_lockFreeVars
        PROVE  [Lane!LaneNext]_<<LaneNow, round, ViewNow>>
    <2>1. CASE UNCHANGED lockFreeVars
      BY <2>1 DEF lockFreeVars, LaneNow, ViewNow
    <2> QED BY <1>3, <2>1, LaneStep
  <1> QED BY <1>1, <1>2, <1>3, SnapInitially, PTL
          DEF LockFreeSpec, LaneSpec, Lane!LaneSpec, LaneNow, ViewNow
=============================================================================
