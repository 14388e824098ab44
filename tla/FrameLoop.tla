----------------------------- MODULE FrameLoop -----------------------------
(***************************************************************************)
(* Engine::run_frame and Engine::run_fixed_step (crates/core/src/engine.rs)*)
(* with the two structural queues they drain (crates/core/src/mutation.rs) *)
(* and the writers that fill them (system_param/structural.rs).            *)
(*                                                                         *)
(* The gameplay plan is deterministic: in tick t its systems run in        *)
(* registration order (their writers serialise them) and make the calls    *)
(* load.plan[t] on the entities they observe.  A handle is the number of   *)
(* its allocation.  Systems of the frame stages call the writers of the    *)
(* other queue and write lanes of the same store, whatever they like; the  *)
(* value of a frame call is its serial number, negated.                    *)
(***************************************************************************)
EXTENDS FixedClock, Sequences

CONSTANTS FrameDeltas,   \* host deltas run_frame may be given
          Loads,         \* what a program may do, see Load
          MaxTicks,      \* bound on ticks a run makes
          MaxFrames      \* bound on frames

(* The calls of StructuralWriter, and "write": a component written in place*)
(* through a lane.                                                         *)
Calls == {"spawn", "spawn_deferred", "insert", "remove", "despawn", "write"}

(* A program: its gameplay plan (tick -> calls), the calls its frame stages*)
(* may make and a bound on how many, and whether the host takes SmartStore *)
(* out of the world and puts it back.                                      *)
Load == [plan : [1 .. MaxTicks -> Seq(Calls)], calls : SUBSET Calls,
         ops : Nat, moves : BOOLEAN]

ASSUME FrameAssumption == /\ FrameDeltas \subseteq Nat
                          /\ MaxTicks \in Nat
                          /\ \A l \in Loads : l \in Load

VARIABLES clock,        \* FixedTime
          host,         \* Time::elapsed_seconds
          phase, left,  \* where the frame is; fixed updates still to run
          frame,        \* Time::frame
          replay,       \* driven by run_fixed_step instead of run_frame
          load,         \* the program that runs
          world,        \* born: allocations so far; alive: handles; holds: component
          fixedQueue, frameQueue,
          stored        \* is SmartStore in the world?

(* History: frame calls made, frame ops in the order queued and in the     *)
(* order landed, and after each tick the ops frame stages ran on the store.*)
VARIABLES made, issued, landed, effects

time == <<clock, host, phase, left, frame, replay>>
frameOps == <<frameQueue, made, issued, landed, effects>>
ops == <<load, world, fixedQueue, stored, frameOps>>
vars == <<time, ops>>

-----------------------------------------------------------------------------
(* The store, its writers and the queues. *)

EmptyWorld == [born |-> 0, alive |-> {}, holds |-> <<>>]

Reserve(w) == [w EXCEPT !.born = @ + 1, !.alive = @ \union {w.born + 1}]

Youngest(w) == CHOOSE e \in w.alive : \A o \in w.alive : o <= e
Oldest(w) == CHOOSE e \in w.alive : \A o \in w.alive : e <= o

Held(w, e, value) == [w EXCEPT !.holds = [x \in DOMAIN @ \union {e} |->
                                             IF x = e THEN value ELSE @[x]]]
Bare(w, e) == [w EXCEPT !.holds = [x \in DOMAIN @ \ {e} |-> @[x]]]

(* One call with value t: the ops it runs on the store at once (spawn      *)
(* reserves the id, a lane is written) and the ops it queues.              *)
Issue(w, call, t) ==
    LET Op(name, e) == [op |-> name, entity |-> e, value |-> t]
    IN  CASE call = "spawn" -> [now |-> <<Op("reserve", 0)>>,
                                queued |-> <<Op("insert", w.born + 1)>>]
          [] call = "spawn_deferred" -> [now |-> <<>>, queued |-> <<Op("create", 0)>>]
          [] call = "insert" /\ w.alive # {} ->
               [now |-> <<>>, queued |-> <<Op("insert", Youngest(w))>>]
          [] call \in {"remove", "despawn"} /\ w.alive # {} ->
               [now |-> <<>>, queued |-> <<Op(call, Oldest(w))>>]
          [] call = "write" /\ w.alive # {} ->
               [now |-> <<Op("write", Youngest(w))>>, queued |-> <<>>]
          [] OTHER -> [now |-> <<>>, queued |-> <<>>]

(* The is_alive guard every queued closure repeats at the boundary. *)
Reaches(w, o) == o.entity \in w.alive

(* An op run on the store: a queued closure at its boundary, or the part   *)
(* of a call that is done at once.                                         *)
ApplyOp(w, o) ==
    CASE o.op = "reserve" -> Reserve(w)
      [] o.op = "write" /\ o.entity \in DOMAIN w.holds -> Held(w, o.entity, o.value)
      [] o.op = "create" -> Held(Reserve(w), w.born + 1, o.value)
      [] o.op = "insert" /\ Reaches(w, o) -> Held(w, o.entity, o.value)
      [] o.op = "remove" /\ Reaches(w, o) -> Bare(w, o.entity)
      [] o.op = "despawn" -> [Bare(w, o.entity) EXCEPT !.alive = @ \ {o.entity}]
      [] OTHER -> w

ApplyAll(w, queue) ==
    LET done[n \in 0 .. Len(queue)] ==
            IF n = 0 THEN w ELSE ApplyOp(done[n - 1], queue[n])
    IN  done[Len(queue)]

(* The calls of a tick: the world they leave and the ops they queue. *)
IssueAll(w, calls, t) ==
    LET done[n \in 0 .. Len(calls)] ==
            IF n = 0 THEN [world |-> w, queued |-> <<>>]
            ELSE LET i == Issue(done[n - 1].world, calls[n], t)
                 IN  [world |-> ApplyAll(done[n - 1].world, i.now),
                      queued |-> done[n - 1].queued \o i.queued]
    IN  done[Len(calls)]

-----------------------------------------------------------------------------
FrameInit ==
    /\ clock = NewClock /\ host = 0 /\ phase = "idle" /\ left = 0 /\ frame = 0
    /\ replay \in BOOLEAN
    /\ load \in Loads
    /\ world = EmptyWorld
    /\ fixedQueue = <<>> /\ frameQueue = <<>>
    /\ stored = TRUE
    /\ made = 0 /\ issued = <<>> /\ landed = <<>>
    /\ effects = [k \in 0 .. MaxTicks |-> <<>>]

(* run_frame up to the stages: Time::advance, FixedTime::begin_frame. *)
BeginFrame ==
    /\ phase = "idle" /\ ~replay
    /\ frame < MaxFrames
    /\ \E d \in FrameDeltas :
          /\ clock.tick + Steps(clock, d) <= MaxTicks
          /\ host' = host + d
          /\ clock' = ClockBeginFrame(clock, d)
          /\ left' = Steps(clock, d)
    /\ frame' = frame + 1
    /\ phase' = "pre_update"
    /\ UNCHANGED <<replay, ops>>

After == [pre_update |-> "input", input |-> "fixed",
          post_frame |-> "boundary", last |-> "idle"]

(* Ops run on the store between ticks. *)
Between(run) ==
    /\ world' = ApplyAll(world, run)
    /\ effects' = [effects EXCEPT ![clock.tick] = @ \o run]

(* A frame system's call.  A writer's fetch needs the store.               *)
FrameCall(call) ==
    /\ stored /\ made < load.ops
    /\ made' = made + 1
    /\ LET i == Issue(world, call, -made')
       IN  /\ Between(i.now)
           /\ frameQueue' = frameQueue \o i.queued
           /\ issued' = issued \o i.queued

(* One once-per-frame stage, with at most one call. *)
RunStage ==
    /\ phase \in DOMAIN After
    /\ phase' = After[phase]
    /\ \/ UNCHANGED <<world, frameQueue, made, issued, effects>>
       \/ \E call \in load.calls : FrameCall(call)
    /\ UNCHANGED <<clock, host, left, frame, replay, load, fixedQueue, landed, stored>>

(* Head of the fixed loop: start_step. *)
StartStep ==
    /\ phase = "fixed" /\ left > 0
    /\ clock' = ClockStartStep(clock)
    /\ left' = left - 1
    /\ phase' = "gameplay"
    /\ UNCHANGED <<host, frame, replay, ops>>

LeaveFixed ==
    /\ phase = "fixed" /\ left = 0
    /\ phase' = "post_frame"
    /\ UNCHANGED <<clock, host, left, frame, replay, ops>>

(* run_fixed_step up to the plan: no frame around the tick. *)
StartReplayStep ==
    /\ phase = "idle" /\ replay
    /\ clock.tick < MaxTicks
    /\ clock' = ClockStartReplayStep(clock)
    /\ phase' = "gameplay"
    /\ UNCHANGED <<host, left, frame, replay, ops>>

(* world.run(&fixed_schedule). *)
RunGameplay ==
    /\ phase = "gameplay"
    /\ LET run == IssueAll(world, IF stored THEN load.plan[clock.tick] ELSE <<>>, clock.tick)
       IN  /\ world' = run.world
           /\ fixedQueue' = fixedQueue \o run.queued
    /\ phase' = "drain"
    /\ UNCHANGED <<clock, host, left, frame, replay, load, stored, frameOps>>

(* The fixed queue is drained by the last tick of a frame only. *)
BugDrainFixed(w, queue) ==
    IF left = 0 THEN [world |-> ApplyAll(w, queue), queue |-> <<>>]
                ELSE [world |-> w, queue |-> queue]

(* apply_queue: with the store away the ops go back to the front. *)
DrainFixed(w, queue) == IF stored THEN [world |-> ApplyAll(w, queue), queue |-> <<>>]
                                  ELSE [world |-> w, queue |-> queue]

ApplyFixed ==
    /\ phase = "drain"
    /\ world' = DrainFixed(world, fixedQueue).world
    /\ fixedQueue' = DrainFixed(world, fixedQueue).queue
    /\ phase' = IF replay THEN "idle" ELSE "fixed"
    /\ UNCHANGED <<clock, host, left, frame, replay, load, stored, frameOps>>

(* Ops are dropped when the store is away. *)
BugDrainFrame(queue) == [run |-> IF stored THEN queue ELSE <<>>, queue |-> <<>>]

DrainFrame(queue) == IF stored THEN [run |-> queue, queue |-> <<>>]
                               ELSE [run |-> <<>>, queue |-> queue]

ApplyFrame ==
    /\ phase = "boundary"
    /\ LET drain == DrainFrame(frameQueue)
       IN  /\ Between(drain.run)
           /\ landed' = landed \o drain.run
           /\ frameQueue' = drain.queue
    /\ phase' = "last"
    /\ UNCHANGED <<clock, host, left, frame, replay, load, fixedQueue, made, issued, stored>>

(* World::remove::<SmartStore>() and insert back, between frames; a host   *)
(* that does it has no structural writers in its gameplay plan.            *)
MoveStore ==
    /\ load.moves /\ phase = "idle"
    /\ \A t \in DOMAIN load.plan : load.plan[t] = <<>>
    /\ stored' = ~stored
    /\ UNCHANGED <<time, load, world, fixedQueue, frameOps>>

(* The bounds are reached: the host stops. *)
Stopped ==
    /\ phase = "idle"
    /\ UNCHANGED vars

FrameNext ==
    \/ BeginFrame \/ RunStage \/ StartStep \/ LeaveFixed
    \/ StartReplayStep \/ RunGameplay \/ ApplyFixed \/ ApplyFrame
    \/ MoveStore \/ Stopped

FrameSpec == FrameInit /\ [][FrameNext]_vars
-----------------------------------------------------------------------------
(* Properties. *)

(* Type invariant of the loop's state. *)
FrameTypeOK ==
    /\ clock \in FixedTime
    /\ host \in Nat /\ left \in 0 .. MaxSteps /\ frame \in Nat
    /\ phase \in DOMAIN After \union {"idle", "fixed", "gameplay", "drain", "boundary"}
    /\ replay \in BOOLEAN /\ stored \in BOOLEAN
    /\ DOMAIN world.holds \subseteq world.alive
    /\ world.alive \subseteq 1 .. world.born
    /\ clock.current <= clock.steps /\ clock.steps <= MaxSteps

(* Every quantum the host fed is simulated, waiting or counted as dropped: *)
(* begin_frame's clamping and the per-step withdrawals lose no time.       *)
TimeConserved == ~replay => host = clock.elapsed + clock.accumulator + clock.dropped

(* The accumulator holds the updates this frame still owes and less than   *)
(* one tick more: start_step never overdraws it (its debug_assert) and a   *)
(* hitch never leaves lag behind for later frames.                         *)
RemainderOnly ==
    /\ 0 <= clock.accumulator - left * Delta
    /\ clock.accumulator - left * Delta < Delta
    /\ ~replay => clock.steps = clock.current + left

(* The clock of the loop, over whatever frames. *)
ClockKeepsTime == TimeConserved /\ RemainderOnly

(* The reference: the world after tick k of plan p, ticks back to back and *)
(* after each, at once, whatever frame stages did to the store up to the   *)
(* next: e[k].                                                             *)
World(p, e) ==
    LET w[k \in 0 .. MaxTicks] ==
            IF k = 0 THEN ApplyAll(EmptyWorld, e[0])
            ELSE LET run == IssueAll(w[k - 1], p[k], k)
                 IN  ApplyAll(ApplyAll(run.world, run.queued), e[k])
    IN  w

(* The world after tick k is a function of k and of what frame stages did  *)
(* to the store after each tick, and where they leave it alone of k only:  *)
(* neither how the host sliced its frames nor replay through run_fixed_step*)
(* shows in it, a frame op still queued does not either, and no op is      *)
(* carried from one tick to the next, so that a snapshot needs no queue    *)
(* (FixedStructuralQueue).                                                 *)
SlicesAgree ==
    /\ FrameTypeOK
    /\ phase \notin {"gameplay", "drain"} =>
           /\ fixedQueue = <<>>
           /\ world = World(load.plan, effects)[clock.tick]

(* Frame ops run once each, in the order they were queued, and none is     *)
(* lost: not by a drain, not by a frame that finds no store.  A Last system*)
(* finds every earlier op landed.                                          *)
FrameOpsLandOnce ==
    /\ landed \o frameQueue = issued
    /\ phase = "last" /\ stored => frameQueue = <<>>

=============================================================================
