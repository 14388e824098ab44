----------------------------- MODULE AtomicLane -----------------------------
(***************************************************************************)
(* What a lock-free lane promises its callers: a write takes effect once,  *)
(* at one moment, on top of every write before it; a reader keeps the one  *)
(* snapshot it was given until its call returns.                           *)
(***************************************************************************)
EXTENDS Naturals, Sequences

CONSTANTS Writers, Readers, Rounds

VARIABLES lane,    \* the writes in effect, in order
          round,   \* calls each thread has completed
          view     \* what each reader sees: <<>>, or its snapshot as <<snapshot>>

LaneInit == /\ lane = <<>>
            /\ round = [t \in Writers \union Readers |-> 0]
            /\ view = [r \in Readers |-> <<>>]

Write(w) == /\ round[w] < Rounds
            /\ lane' = Append(lane, <<w, round[w] + 1>>)
            /\ round' = [round EXCEPT ![w] = @ + 1]
            /\ UNCHANGED view

Look(r) == /\ view[r] = <<>> /\ round[r] < Rounds
           /\ view' = [view EXCEPT ![r] = <<lane>>]
           /\ UNCHANGED <<lane, round>>

Return(r) == /\ view[r] # <<>>
             /\ view' = [view EXCEPT ![r] = <<>>]
             /\ round' = [round EXCEPT ![r] = @ + 1]
             /\ UNCHANGED lane

LaneNext == \/ \E w \in Writers : Write(w)
            \/ \E r \in Readers : Look(r) \/ Return(r)

LaneSpec == LaneInit /\ [][LaneNext]_<<lane, round, view>>
=============================================================================
