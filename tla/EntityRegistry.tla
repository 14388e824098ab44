--------------------------- MODULE EntityRegistry ---------------------------
(***************************************************************************)
(* What the entity allocator promises: a handle is issued at most once,    *)
(* two live handles never name the same slot, and a handle that was        *)
(* retired never comes back to life.                                       *)
(***************************************************************************)
EXTENDS Integers, Sequences

CONSTANT Handles        \* records with the fields id and gen

VARIABLES issued,       \* every handle ever handed out, in order
          live          \* the handles that are alive

vars == <<issued, live>>

Init == issued = <<>> /\ live = {}

Issue(h) ==
  /\ \A k \in 1 .. Len(issued) : issued[k] # h
  /\ \A g \in live : g.id # h.id
  /\ issued' = Append(issued, h)
  /\ live' = live \cup {h}

Retire(h) ==
  /\ h \in live
  /\ live' = live \ {h}
  /\ UNCHANGED issued

Next == \E h \in Handles : Issue(h) \/ Retire(h)

Spec == Init /\ [][Next]_vars
=============================================================================
