----------------------------- MODULE FramePlan -----------------------------
(***************************************************************************)
(* A frame of the renderer: the declarations of SystemSet                  *)
(* (crates/render/src/system.rs), the layout TransientPool compiles from   *)
(* them (transient_pool.rs), and FrameExecutor, which memoizes the layout, *)
(* keeps the pooled textures and submits the passes (frame_exec.rs).       *)
(* Transient resources whose lifetimes do not overlap share a texture.     *)
(*                                                                         *)
(* Passes and resources are numbered from 1 in registration order, the     *)
(* passes of a layout from 0 as in the level loops.  Between two frames    *)
(* only the textures survive: what an earlier frame left in one is garbage *)
(* to the next.                                                            *)
(***************************************************************************)
EXTENDS ComputeLevels, FiniteSetsExt

CONSTANTS
    Resources,     \* the declared resources: format, multisampled, external, imported
    Accesses,      \* the read and write sets a pass may declare
    Declarations,  \* bounds: the passes of a plan and the changes made to it later
    Surfaces,      \* surface sizes
    SampleCounts,  \* negotiated sample counts
    Budgets        \* texture budgets

Unbounded == -1

ASSUME PlanAssumption ==
    /\ Surfaces \subseteq Nat /\ SampleCounts \subseteq Nat \ {0}
    /\ Budgets \subseteq Nat \cup {Unbounded}
    /\ \A d \in Declarations : d.passes \in Seq(Accesses) /\ d.changes \in Nat
    /\ Resources \in Seq([format : STRING, multisampled : BOOLEAN, external : BOOLEAN,
                         imported : BOOLEAN])
    /\ Accesses \subseteq [reads : SUBSET DOMAIN Resources, writes : SUBSET DOMAIN Resources]

VARIABLES
    passes, ordering, surface, samples, budget,  \* SystemSet
    generation,  \* SystemSet::generation
    cached,      \* the executor's memoized layout and its generation
    textures,    \* the executor's textures: spec and size
    changes,     \* how many changes may still be made
    phase, mode, \* the frame in progress and how it is executed
    layout,      \* its layout
    order,       \* its passes in the order they are submitted
    at,          \* how many of them have run
    content      \* what its passes wrote, per location

declarations == <<passes, ordering, surface, samples, budget, generation>>
frame == <<mode, layout, order, at, content>>
planVars == <<declarations, cached, textures, changes, phase, frame, levelVars>>

ResourceIds == DOMAIN Resources
-----------------------------------------------------------------------------
(* TransientPool::compile.                                                 *)

\* collect_enabled_passes
Enabled ==
    LET kept[m \in 0 .. Len(passes)] ==
            IF m = 0 THEN <<>>
            ELSE IF passes[m].enabled THEN Append(kept[m - 1], m) ELSE kept[m - 1]
    IN  kept[Len(passes)]

Positions(enabled) == 0 .. Len(enabled) - 1
Reads(enabled, p) == passes[enabled[p + 1]].access.reads
Writes(enabled, p) == passes[enabled[p + 1]].access.writes
Users(enabled, r) ==
    {p \in Positions(enabled) : r \in Reads(enabled, p) \cup Writes(enabled, p)}

\* compute_resource_lifetimes
FirstUse(enabled, r) == Min(Users(enabled, r))
LastUse(enabled, r) == Max(Users(enabled, r))

\* validate_first_touch_is_write
FirstTouchIsWrite(enabled) ==
    \A p \in Positions(enabled) : \A r \in Reads(enabled, p) :
        Resources[r].imported \/ FirstUse(enabled, r) < p \/ r \in Writes(enabled, p)

Spec(r) == [format |-> Resources[r].format,
            samples |-> IF Resources[r].multisampled THEN samples ELSE 1]

\* Imported resources are pooled too; only external ones are not.
Pooled(enabled) == {r \in ResourceIds : Users(enabled, r) # {} /\ ~Resources[r].external}

\* A sort: the element with k - 1 others before it is the k-th.
InOrder(set, before) ==
    [k \in 1 .. Cardinality(set) |->
        CHOOSE x \in set : Cardinality({y \in set : <<y, x>> \in before}) = k - 1]

Lifetime(enabled, r) ==
    [of |-> r, spec |-> Spec(r), first |-> FirstUse(enabled, r), last |-> LastUse(enabled, r)]

Sooner(life, other) ==
    \/ life.first < other.first
    \/ life.first = other.first /\ \/ life.last < other.last
                                   \/ life.last = other.last /\ life.of < other.of

ByLifetime(enabled) ==
    LET lives == {Lifetime(enabled, r) : r \in Pooled(enabled)}
    IN  InOrder(lives, {e \in lives \X lives : Sooner(e[1], e[2])})

\* Mutant of Free: lifetimes that touch do not overlap.
BugFree(slot, first) == slot.last <= first

Free(slot, first) == slot.last < first

\* One round of assign_pool_slots: the first free slot of the same spec.
Place(pool, life) ==
    LET fit == {x \in DOMAIN pool : pool[x].spec = life.spec /\ Free(pool[x], life.first)}
    IN  IF fit = {}
        THEN Append(pool, [spec |-> life.spec, last |-> life.last, holds |-> {life.of}])
        ELSE [pool EXCEPT ![Min(fit)].last = life.last, ![Min(fit)].holds = @ \cup {life.of}]

Slots(lifetimes) ==
    LET placed[m \in 0 .. Len(lifetimes)] ==
            IF m = 0 THEN <<>> ELSE Place(placed[m - 1], lifetimes[m])
    IN  placed[Len(lifetimes)]

\* planned_pool_bytes, in units of a texel of one format.
Planned(slots) ==
    LET sum[m \in 0 .. Len(slots)] ==
            IF m = 0 THEN 0 ELSE sum[m - 1] + slots[m].spec.samples * surface
    IN  sum[Len(slots)]

Compiled == [passes |-> Enabled, slots |-> Slots(ByLifetime(Enabled)), surface |-> surface]
FitsBudget == budget = Unbounded \/ Planned(Compiled.slots) <= budget

\* layout_levels: conflicts, and the edges whose passes are enabled.
Edges(enabled) ==
    {e \in Positions(enabled) \X Positions(enabled) :
        /\ e[1] < e[2]
        /\ \/ Writes(enabled, e[1]) \cap (Reads(enabled, e[2]) \cup Writes(enabled, e[2])) # {}
           \/ Reads(enabled, e[1]) \cap Writes(enabled, e[2]) # {}
           \/ <<enabled[e[1] + 1], enabled[e[2] + 1]>> \in ordering}

EmptyLayout == [passes |-> <<>>, slots |-> <<>>, surface |-> surface, levels |-> <<>>]
NoLayout == [generation |-> -1, layout |-> [passes |-> <<>>, slots |-> <<>>,
                                            surface |-> 0, levels |-> <<>>]]
-----------------------------------------------------------------------------
(* The registry.                                                           *)

PlanInit ==
    /\ \E d \in Declarations :
           /\ passes = [k \in DOMAIN d.passes |-> [access |-> d.passes[k], enabled |-> TRUE]]
           /\ changes = d.changes
    /\ ordering = {} /\ budget = Unbounded
    /\ surface \in Surfaces /\ samples \in SampleCounts
    /\ generation = Len(passes)
    /\ cached = NoLayout /\ textures = <<>>
    /\ phase = "idle" /\ mode = "none" /\ layout = NoLayout.layout
    /\ order = <<>> /\ at = 0 /\ content = <<>>
    /\ n = 0 /\ ordered = {} /\ level = <<>> /\ j = 1 /\ i = 0 /\ best = 0
    /\ grouped = 0 /\ groups = <<>>

\* Mutant of Touch: the generation stays.
BugTouch == generation' = generation

\* touch
Touch == generation' = generation + 1

Changing ==
    /\ phase = "idle" /\ changes > 0
    /\ changes' = changes - 1
    /\ UNCHANGED <<textures, phase, frame, levelVars>>

AddPass(access) ==
    /\ Changing /\ Touch
    /\ passes' = Append(passes, [access |-> access, enabled |-> TRUE])
    /\ UNCHANGED <<ordering, surface, samples, budget, cached>>

SetPassState(k, enabled) ==
    /\ Changing /\ Touch
    /\ passes' = [passes EXCEPT ![k].enabled = enabled]
    /\ UNCHANGED <<ordering, surface, samples, budget, cached>>

SetSurfaceSize(size) ==
    /\ Changing /\ Touch
    /\ surface' = size
    /\ UNCHANGED <<passes, ordering, samples, budget, cached>>

\* The specs of multisampled resources follow, unless the count is the same.
SetSampleCount(count) ==
    /\ count # samples
    /\ Changing /\ Touch
    /\ samples' = count
    /\ UNCHANGED <<passes, ordering, surface, budget, cached>>

SetBudget(cap) ==
    /\ Changing /\ Touch
    /\ budget' = cap
    /\ UNCHANGED <<passes, ordering, surface, samples, cached>>

\* try_order_before: a backward edge is refused.
OrderBefore(before, after) ==
    /\ before < after
    /\ Changing /\ Touch
    /\ ordering' = ordering \cup {<<before, after>>}
    /\ UNCHANGED <<passes, surface, samples, budget, cached>>

\* FrameExecutor::invalidate_layout
InvalidateLayout ==
    /\ Changing
    /\ cached' = NoLayout
    /\ UNCHANGED declarations
-----------------------------------------------------------------------------
(* ensure_layout: a memoized layout of this generation, or a new one.      *)

Begin(how) == phase = "idle" /\ mode' = how

FrameHit(how) ==
    /\ Begin(how)
    /\ cached.generation = generation
    /\ layout' = cached.layout
    /\ phase' = "prepare"
    /\ UNCHANGED <<declarations, cached, textures, changes, order, at, content, levelVars>>

\* A plan that reads before it writes panics.
FrameMiss(how) ==
    /\ Begin(how)
    /\ cached.generation # generation
    /\ IF FirstTouchIsWrite(Enabled)
       THEN /\ phase' = "levels"
            /\ n' = Len(Enabled) /\ ordered' = Edges(Enabled)
            /\ level' = [k \in Positions(Enabled) |-> 0]
            /\ j' = 1 /\ i' = 0 /\ best' = 0 /\ grouped' = 0 /\ groups' = <<>>
       ELSE phase' = "panicked" /\ UNCHANGED levelVars
    /\ UNCHANGED <<declarations, cached, textures, changes, layout, order, at, content>>

LevelStep ==
    /\ phase = "levels"
    /\ LevelsNext
    /\ UNCHANGED <<declarations, cached, textures, changes, phase, frame>>

\* A layout that exceeds the budget is dropped: the frame keeps the last one.
FrameCompiled ==
    /\ phase = "levels" /\ Finished
    /\ IF FitsBudget
       THEN /\ layout' = [passes |-> Compiled.passes, slots |-> Compiled.slots,
                          surface |-> surface, levels |-> groups]
            /\ cached' = [generation |-> generation, layout |-> layout']
       ELSE /\ layout' = IF cached = NoLayout THEN EmptyLayout ELSE cached.layout
            /\ UNCHANGED cached
    /\ phase' = "prepare"
    /\ UNCHANGED <<declarations, textures, changes, mode, order, at, content, levelVars>>
-----------------------------------------------------------------------------
(* execute, execute_parallel and execute_in_order.                         *)

\* ensure_pool: a texture is kept while the surface and its slot's spec stay.
Stale(texture, slot) == texture.spec # slot.spec

EnsuredPool ==
    [x \in DOMAIN layout.slots |->
        IF x \in DOMAIN textures /\ textures[x].size = layout.surface
           /\ ~Stale(textures[x], layout.slots[x])
        THEN textures[x]
        ELSE [spec |-> layout.slots[x].spec, size |-> layout.surface]]

\* The order of execute is the layout's; the projected schedule levels the
\* passes enabled now, which is what the level loops did last.
Flattened(levels) ==
    LET joined[m \in 0 .. Len(levels)] == IF m = 0 THEN <<>> ELSE joined[m - 1] \o levels[m]
    IN  joined[Len(levels)]

Given == IF mode = "projected" THEN Flattened(groups) ELSE Flattened(layout.levels)

Prepare ==
    /\ phase = "prepare"
    /\ textures' = EnsuredPool
    /\ IF mode = "parallel"
       THEN order' = <<>> /\ phase' = "record"
       ELSE order' = Given /\ phase' = "passes"
    /\ at' = 0
    /\ content' = [x \in {} |-> 0]
    /\ UNCHANGED <<declarations, cached, changes, mode, layout, levelVars>>

\* The passes of a level record in parallel, the levels one after the other.
Recorded == Range(order)
Recording(p) ==
    \E l \in DOMAIN layout.levels :
        /\ p \in Range(layout.levels[l])
        /\ \A k \in 1 .. l - 1 : Range(layout.levels[k]) \subseteq Recorded

Record(p) ==
    /\ phase = "record" /\ Recording(p) /\ p \notin Recorded
    /\ order' = Append(order, p)
    /\ UNCHANGED <<declarations, cached, textures, changes, phase, mode, layout, at, content,
                   levelVars>>

\* The command buffers sort by the index of their pass: one submission, in
\* registration order.
Submit ==
    /\ phase = "record" /\ Len(order) = Len(layout.passes)
    /\ order' = InOrder(Recorded, {e \in Recorded \X Recorded : e[1] < e[2]})
    /\ phase' = "passes"
    /\ UNCHANGED <<declarations, cached, textures, changes, mode, layout, at, content, levelVars>>

\* Where a resource lives: its slot, or its external view.
Home(r) ==
    IF Resources[r].external THEN <<"external", r>>
    ELSE <<"slot", CHOOSE x \in DOMAIN layout.slots : r \in layout.slots[x].holds>>

\* A pass the layout does not have panics.
RunPass ==
    /\ phase = "passes" /\ at < Len(order)
    /\ IF order[at + 1] \in Positions(layout.passes)
       THEN LET written == Writes(layout.passes, order[at + 1])
                homes == {Home(r) : r \in written}
            IN  /\ content' = [x \in DOMAIN content \cup homes |->
                                  IF x \in homes
                                  THEN [of |-> CHOOSE r \in written : Home(r) = x,
                                        by |-> order[at + 1]]
                                  ELSE content[x]]
                /\ at' = at + 1
                /\ UNCHANGED phase
       ELSE phase' = "panicked" /\ UNCHANGED <<content, at>>
    /\ UNCHANGED <<declarations, cached, textures, changes, mode, layout, order, levelVars>>

FrameEnd ==
    /\ phase = "passes" /\ at = Len(order)
    /\ phase' = "idle"
    /\ UNCHANGED <<declarations, cached, textures, changes, frame, levelVars>>
-----------------------------------------------------------------------------
PlanNext ==
    \/ \E access \in Accesses : AddPass(access)
    \/ \E k \in DOMAIN passes : \E enabled \in BOOLEAN : SetPassState(k, enabled)
    \/ \E size \in Surfaces : SetSurfaceSize(size)
    \/ \E count \in SampleCounts : SetSampleCount(count)
    \/ \E cap \in Budgets : SetBudget(cap)
    \/ \E before, after \in DOMAIN passes : OrderBefore(before, after)
    \/ InvalidateLayout
    \/ \E how \in {"execute", "parallel", "projected"} : FrameHit(how) \/ FrameMiss(how)
    \/ LevelStep \/ FrameCompiled
    \/ Prepare
    \/ \E p \in Positions(layout.passes) : Record(p)
    \/ Submit \/ RunPass \/ FrameEnd

PlanSpec == PlanInit /\ [][PlanNext]_planVars
-----------------------------------------------------------------------------
InRegistrationOrder == \A x \in DOMAIN order : order[x] = x - 1

\* The pass that runs next finds in every texture it reads what the last pass
\* registered before it wrote to that resource, and not what another resource
\* left in the shared slot, and writes to no texture that it reads or writes as
\* another resource.
FindsItsOwn ==
    LET p == order[at + 1]
        used == Reads(layout.passes, p) \cup Writes(layout.passes, p)
    IN  /\ \A r \in Reads(layout.passes, p) :
              LET writers == {q \in Positions(layout.passes) :
                                 q < p /\ r \in Writes(layout.passes, q)}
              IN  writers # {} => /\ Home(r) \in DOMAIN content
                                  /\ content[Home(r)] = [of |-> r, by |-> Max(writers)]
        /\ \A w \in Writes(layout.passes, p) : \A r \in used \ {w} : Home(w) # Home(r)

Running == phase = "passes" /\ at < Len(order) /\ order[at + 1] \in Positions(layout.passes)

\* Sharing textures is invisible to the passes of a parallel frame, which
\* submits in registration order in whatever order the passes were recorded
\* (execute_parallel), and to any other whose order is that of registration.
SharingIsInvisible == Running /\ (mode = "parallel" \/ InRegistrationOrder) => FindsItsOwn

\* execute, execute_in_order: "passes within a level are independent by
\* construction - so the flattened order is a valid topological order".
FlattenedOrderIsValid == Running => FindsItsOwn

\* A frame is drawn with the layout of the declarations as they are now, after
\* whatever changes and however it was memoized: its levels respect every
\* conflict and every edge, and it runs every pass once - unless that layout
\* exceeds the budget (ensure_layout).  In any case every slot's texture has the
\* spec of the resources that live in it and the size of the surface the layout
\* was made for, whatever it was made for before (ensure_pool).
LevelOf(p) == CHOOSE l \in DOMAIN layout.levels : p \in Range(layout.levels[l])

FrameIsCurrent ==
    /\ FitsBudget /\ phase \in {"prepare", "record", "passes"} =>
           /\ [passes |-> layout.passes, slots |-> layout.slots, surface |-> layout.surface]
                  = Compiled
           /\ \A e \in Edges(Enabled) : LevelOf(e[1]) < LevelOf(e[2])
    /\ FitsBudget /\ phase = "passes" =>
           Len(order) = Len(Enabled) /\ Range(order) = Positions(Enabled)
    /\ phase \in {"record", "passes"} =>
           /\ DOMAIN textures = DOMAIN layout.slots
           /\ \A x \in DOMAIN textures :
                 textures[x] = [spec |-> layout.slots[x].spec, size |-> layout.surface]
=============================================================================
