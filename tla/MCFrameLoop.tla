---------------------------- MODULE MCFrameLoop ----------------------------
(* Small programs for TLC. *)
EXTENDS FrameLoop

(* Ticks of two systems: one creates or destroys, one edits or destroys;   *)
(* frame stages leave the store alone.                                     *)
Builders == {[plan |-> p, calls |-> {}, ops |-> 0, moves |-> FALSE] :
               p \in [1 .. MaxTicks -> {<<a, b>> : a \in {"spawn", "despawn"},
                       b \in {"spawn_deferred", "insert", "remove", "despawn"}}]}

Plan(calls) == [t \in 1 .. MaxTicks |-> calls]

(* Frame stages with every call and a host that takes the store away; frame*)
(* stages that spawn, destroy and write next to a simulation that does.    *)
MCLoads == Builders \union
           {[plan |-> Plan(<<>>), calls |-> Calls, ops |-> 3, moves |-> TRUE],
            [plan |-> Plan(<<"spawn", "write">>), ops |-> 2, moves |-> FALSE,
             calls |-> {"spawn", "spawn_deferred", "despawn", "write"}]}

=============================================================================
