----------------------------- MODULE SmartStore -----------------------------
(***************************************************************************)
(* crates/core/src/smart_store.rs: the allocator and the component lanes,  *)
(* shared by threads through &SmartStore.  Each lane and the allocator     *)
(* have a lock of their own, so destroy_entity is not atomic: it visits    *)
(* the lanes one by one and then frees the id, while other threads create, *)
(* destroy and write lanes in between.                                     *)
(*                                                                         *)
(* A lane is the map that ComponentMaps shows a component store to be;     *)
(* only the owning handle of an entry matters here.  A lock-free lane      *)
(* takes effect at its compare_exchange and is one step too.               *)
(***************************************************************************)
EXTENDS EntityAllocator

CONSTANTS Destroyers,    \* threads that destroy entities
          RwLanes,       \* hot and cold lanes behind an RwLock
          LockFreeLanes,
          None

ASSUME NoneAssumption == None \notin Handles

VARIABLES lanes,       \* lane -> id -> the handle that owns the entry, or None
          destroying,  \* thread -> the destroy_entity call it is in
          poisoned,    \* RwLock lanes whose lock is poisoned
          raced        \* history: handles inserted somewhere after a destroy of
                       \* them began

smartVars == <<next_id, free_list, generations, issue_log, recycles,
               lanes, destroying, poisoned, raced>>

Lanes == RwLanes \cup LockFreeLanes
Idle == [handle |-> None, left |-> {}]

SmartInit ==
  /\ AllocInit
  /\ lanes = [l \in Lanes |-> [i \in 0 .. MaxIds - 1 |-> None]]
  /\ destroying = [t \in Destroyers |-> Idle]
  /\ poisoned = {}
  /\ raced = {}

BeingDestroyed(h) == \E t \in Destroyers : destroying[t].handle = h

CreateEntity ==
  /\ \E h \in Handles : AllocateRecycled(h) \/ AllocateFresh(h)
  /\ UNCHANGED <<lanes, destroying, poisoned, raced>>

DestroyBegin(t, h) ==
  /\ destroying[t] = Idle
  /\ destroying' = [destroying EXCEPT ![t] = [handle |-> h, left |-> Lanes]]
  /\ UNCHANGED <<allocVars, lanes, poisoned, raced>>

\* Mutant of RemoveFrom: the lane drops whatever the id has.
BugRemoveFrom(l, h) == [lanes EXCEPT ![l][h.id] = None]

\* ComponentStore::remove: a handle of another generation removes nothing.
RemoveFrom(l, h) ==
  IF lanes[l][h.id] = h THEN [lanes EXCEPT ![l][h.id] = None] ELSE lanes

\* Lane::remove_entity: a lock-free lane always writes, an RwLock lane gives
\* up when its lock is poisoned.
DestroyLane(t, l) ==
  /\ l \in destroying[t].left
  /\ destroying' = [destroying EXCEPT ![t].left = @ \ {l}]
  /\ lanes' = IF l \in poisoned THEN lanes ELSE RemoveFrom(l, destroying[t].handle)
  /\ UNCHANGED <<allocVars, poisoned, raced>>

\* Mutant of LanesDone: the id is freed before the lanes are cleared.
BugLanesDone(t) == destroying[t].left = Lanes

LanesDone(t) == destroying[t].left = {}

DestroyFree(t) ==
  /\ destroying[t] # Idle
  /\ LanesDone(t)
  /\ Deallocate(destroying[t].handle)
  /\ destroying' = [destroying EXCEPT ![t] = Idle]
  /\ UNCHANGED <<lanes, poisoned, raced>>

\* insert() and write_lane().insert() ask the allocator nothing: a caller that
\* kept the handle of a dead entity writes under its id all the same.
LaneInsert(l, h) ==
  /\ lanes' = [lanes EXCEPT ![l][h.id] = h]
  /\ raced' = IF BeingDestroyed(h) \/ ~IsAlive(h) THEN raced \cup {h} ELSE raced
  /\ UNCHANGED <<allocVars, destroying, poisoned>>

LaneRemove(l, h) ==
  /\ lanes' = RemoveFrom(l, h)
  /\ UNCHANGED <<allocVars, destroying, poisoned, raced>>

\* A thread panics while it holds the lane's write guard.
PanicInLane(l) ==
  /\ poisoned' = poisoned \cup {l}
  /\ UNCHANGED <<allocVars, lanes, destroying, raced>>

SmartNext ==
  \/ CreateEntity
  \/ \E h \in Issued :
       \/ \E t \in Destroyers : DestroyBegin(t, h)
       \/ \E l \in Lanes : LaneInsert(l, h) \/ LaneRemove(l, h)
  \/ \E t \in Destroyers : DestroyFree(t) \/ \E l \in Lanes : DestroyLane(t, l)
  \/ \E l \in RwLanes : PanicInLane(l)

SmartSpec == SmartInit /\ [][SmartNext]_smartVars
-----------------------------------------------------------------------------
\* destroy_entity "removes its components from every hot and cold lane
\* (including lock-free ones), then returns the id": a dead handle owns no
\* entry anywhere unless somebody inserted for it after its destroy began.
\* A lane whose lock a panic poisoned is the exception the code makes:
\* Lane::remove_entity skips it, though every other access recovers the lock.
DestroyedLeavesNothing ==
  \A h \in Issued \ raced :
    ~IsAlive(h) => \A l \in Lanes \ poisoned : lanes[l][h.id] # h

\* The call that takes the entry of h out of lane l is one through h itself: a
\* removal, which would have been none through another handle, or the visit of
\* a thread that destroys h.
TakenThrough(l, h) ==
  \/ LaneRemove(l, h) /\ \A g \in Issued \ {h} : ~LaneRemove(l, g)
  \/ \E t \in Destroyers :
        destroying[t].handle = h /\ destroying'[t].left # destroying[t].left

\* An entity starts bare: whatever destroys and inserts raced on its slot, no
\* lane already answers to the handle that create_entity returns.  And a live
\* entity keeps its components: no destroy of an earlier entity of the slot,
\* however late its thread gets to the lane, and no removal through an earlier
\* handle takes them.  Besides the calls through its own handle one thing ends
\* an entry: an insert through a dead handle, which ComponentStore::insert lets
\* take over the id's entry.
LiveComponentStays ==
  [][/\ \A h \in Handles :
          issue_log' = Append(issue_log, h) => \A l \in Lanes : lanes[l][h.id] # h
     /\ \A l \in Lanes, h \in Issued :
          (lanes[l][h.id] = h /\ lanes'[l][h.id] # h /\ IsAlive(h))
            => \/ TakenThrough(l, h)
               \/ lanes'[l][h.id] # None /\ ~IsAlive(lanes'[l][h.id])]_smartVars
=============================================================================
