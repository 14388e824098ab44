-------------------------- MODULE InstanceRecords --------------------------
(***************************************************************************)
(* The renderer's per-object records                                       *)
(* (crates/render/src/renderer/buffers/instance_records.rs) built from the *)
(* pose lane and its change feed (crates/render/src/extraction/mod.rs).    *)
(* Systems change the lane between frames; a frame drains the feed and     *)
(* either rebuilds every record or patches the ones the feed names.        *)
(*                                                                         *)
(* Values are model matrices.  The layout version of the lane plays no     *)
(* part here and stays 0.                                                  *)
(***************************************************************************)
EXTENDS SparseSet, FiniteSets

CONSTANT Drawn    \* the entities, slots' successors included, that systems draw

ASSUME DrawnAssumption == Drawn \subseteq Entity

VARIABLES poses,      \* ComponentStore<TransformDesc>
          cache,      \* RecordCache: entities, records, pending
          previous,   \* previous_instance_models: entity -> model
          last        \* history: the entities and models of the last two frames

recordVars == <<poses, cache, previous, last>>

Indices == 1 .. Len(poses.entities)

RecordInit ==
  /\ poses = NewStore(0)
  /\ cache = [entities |-> <<>>, records |-> <<>>, pending |-> {}]
  /\ previous = [e \in {} |-> 0]
  /\ last = <<[e \in {} |-> 0], [e \in {} |-> 0]>>

\* What systems do to the lane between two frames.
ChangeLane ==
  /\ \E e \in Drawn :
       \/ \E v \in Values : poses' = Insert(poses, e, v, 0)
       \/ Has(poses, e) /\ poses' = Remove(poses, e, 0)
       \/ Has(poses, e) /\ \E v \in Values : poses' = Write(poses, e, v)
  /\ UNCHANGED <<cache, previous, last>>

\* Mutant of HistoryOf: the history is looked up by slot id.
BugHistoryOf(e) == {f \in DOMAIN previous : f.id = e.id}

\* The entry of previous_instance_models that entity e finds.
HistoryOf(e) == {f \in DOMAIN previous : f = e}

\* previous_instance_state and record_for: without history the record claims
\* no motion.
RecordFor(k) ==
  LET h == HistoryOf(poses.entities[k]) IN
  [model |-> poses.data[k],
   previous |-> IF h = {} THEN poses.data[k] ELSE previous[CHOOSE f \in h : TRUE],
   valid |-> h # {}]

Extracted ==
  [e \in {poses.entities[k] : k \in Indices} |-> poses.data[Slot(poses, e.id)]]

\* The change feed: tracking is enabled at the latest now.
Feed == EnableChangeTracking(poses)

Reusable == cache.entities = poses.entities

\* names_most_of_the_frame
Dense == 2 * Len(Feed.log) >= Len(poses.entities)

\* rebuild_instance_records
Rebuild ==
  /\ ~Reusable \/ Feed.exhaustive \/ Dense
  /\ cache' = [entities |-> poses.entities,
               records |-> [k \in Indices |-> RecordFor(k)],
               pending |-> {k \in Indices : HistoryOf(poses.entities[k]) = {}}]
  /\ previous' = Extracted

Changed == {k \in Indices : \E n \in 1 .. Len(Feed.log) : Feed.log[n] = poses.entities[k]}

\* The records a patch rebuilds.
Dirty == Changed \cup cache.pending

\* Mutant of Patch: an exhaustive feed is taken for an empty one.
BugPatch ==
  /\ Reusable /\ ~Dense
  /\ cache' = [cache EXCEPT
                 !.records = [k \in Indices |-> IF k \in Dirty THEN RecordFor(k) ELSE @[k]],
                 !.pending = Changed]
  /\ previous' = [e \in DOMAIN previous |->
                    IF \E k \in Dirty : poses.entities[k] = e THEN Extracted[e] ELSE previous[e]]

\* patch_instance_records
Patch ==
  /\ Reusable /\ ~Feed.exhaustive /\ ~Dense
  /\ cache' = [cache EXCEPT
                 !.records = [k \in Indices |-> IF k \in Dirty THEN RecordFor(k) ELSE @[k]],
                 !.pending = Changed]
  /\ previous' = [e \in DOMAIN previous |->
                    IF \E k \in Dirty : poses.entities[k] = e THEN Extracted[e] ELSE previous[e]]

\* One frame: RenderUpload extracts the lane, drains the feed, stages records.
RenderFrame ==
  /\ Rebuild \/ Patch
  /\ poses' = TakeChanges(Feed)
  /\ last' = <<last[2], Extracted>>

RecordNext == ChangeLane \/ RenderFrame

RecordSpec == RecordInit /\ [][RecordNext]_recordVars
-----------------------------------------------------------------------------
\* The cached list and its records stay parallel and settle indices are valid.
RecordTypeOK ==
  /\ poses \in Store
  /\ cache.entities \in Seq(Entity)
  /\ cache.records \in Seq([model : Values, previous : Values, valid : BOOLEAN])
  /\ Len(cache.records) = Len(cache.entities)
  /\ cache.pending \subseteq 1 .. Len(cache.entities)

\* However the last frames were built, every record carries the model its
\* entity was extracted with in the frame just staged.
ModelsCurrent ==
  /\ RecordTypeOK
  /\ \A k \in 1 .. Len(cache.entities) : cache.records[k].model = last[2][cache.entities[k]]

\* The history that the next frame's motion vectors start from is exactly the
\* frame on screen: no patch leaves an entity with an older transform.  And an
\* entity claims motion only if the frame before drew it too: on its first
\* frame, on a recycled slot and after an absence it has no history to show.
MotionIsOwn ==
  /\ previous = last[2]
  /\ \A k \in 1 .. Len(cache.entities) :
       cache.records[k].valid => cache.entities[k] \in DOMAIN last[1]

\* RecordCache.pending of instance_records.rs says of the indices that moved
\* last frame that "their previous_model must settle to their own model this
\* frame": a record never reports motion from a frame older than the last.
MotionSettles ==
  \A k \in 1 .. Len(cache.entities) :
    cache.records[k].valid => cache.records[k].previous = last[1][cache.entities[k]]
=============================================================================
