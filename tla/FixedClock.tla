---------------------------- MODULE FixedClock ----------------------------
(***************************************************************************)
(* FixedTime of crates/core/src/engine.rs: the accumulator that turns host *)
(* frame deltas into fixed simulation ticks.  Durations are whole quanta;  *)
(* the rounding of f32 is abstracted away.                                 *)
(***************************************************************************)
EXTENDS Integers

CONSTANTS Delta,        \* duration of one fixed tick
          MaxSteps      \* max_steps_per_frame

ASSUME ClockAssumption == /\ Delta \in Nat \ {0}
                          /\ MaxSteps \in Nat \ {0}

Lesser(a, b) == IF a <= b THEN a ELSE b

FixedTime == [accumulator : Nat, elapsed : Nat, tick : Nat, steps : Nat,
              current : Nat, dropped : Nat, alpha : 0 .. Delta]

NewClock == [accumulator |-> 0, elapsed |-> 0, tick |-> 0, steps |-> 0,
             current |-> 0, dropped |-> 0, alpha |-> 0]

(* accumulator / delta, clamped; counted in quanta of one tick. *)
Alpha(accumulator) == Lesser(accumulator, Delta)

Capacity == Delta * (MaxSteps + 1)

(* What begin_frame lets into the accumulator, the whole ticks the probing *)
(* loop finds there, and those the frame may run.                          *)
Filled(c, d) == c.accumulator + Lesser(d, Capacity - c.accumulator)

Available(c, d) == Lesser(Filled(c, d) \div Delta, MaxSteps + 1)
Steps(c, d) == Lesser(Available(c, d), MaxSteps)
Spare(c, d) == Available(c, d) - Steps(c, d)

(* The spare tick is thrown away without being counted as dropped. *)
BugLost(c, d) == c.accumulator + d - Filled(c, d)

Lost(c, d) == c.accumulator + d - Filled(c, d) + Spare(c, d) * Delta

ClockBeginFrame(c, d) ==
    LET left == Filled(c, d) - Spare(c, d) * Delta
    IN  [c EXCEPT !.dropped = @ + Lost(c, d),
                  !.accumulator = left,
                  !.steps = Steps(c, d),
                  !.current = 0,
                  !.alpha = Alpha(left)]

ClockStartStep(c) ==
    [c EXCEPT !.accumulator = @ - Delta,
              !.tick = @ + 1,
              !.elapsed = @ + Delta,
              !.current = @ + 1,
              !.alpha = Alpha(c.accumulator - Delta)]

ClockStartReplayStep(c) ==
    [c EXCEPT !.accumulator = 0,
              !.tick = @ + 1,
              !.elapsed = @ + Delta,
              !.steps = 1,
              !.current = 1,
              !.alpha = 0]

=============================================================================
