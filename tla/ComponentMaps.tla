--------------------------- MODULE ComponentMaps ---------------------------
(***************************************************************************)
(* What component stores promise their callers: each is a map from entity  *)
(* ids to the generation and the component of the last handle inserted     *)
(* there, in which a handle of another generation finds nothing to remove. *)
(* The component written for a handle is the handle itself.                *)
(***************************************************************************)
CONSTANTS Stores, Entity, Ids, Absent

VARIABLE maps

Init == maps = [x \in Stores |-> [i \in Ids |-> Absent]]

Entry(e) == [gen |-> e.gen, value |-> e]

Insert(x, e) == maps' = [maps EXCEPT ![x][e.id] = Entry(e)]

Remove(x, e) ==
  /\ maps[x][e.id] = Entry(e)
  /\ maps' = [maps EXCEPT ![x][e.id] = Absent]

Clone(x, y) == maps' = [maps EXCEPT ![y] = maps[x]]

Next ==
  \E x \in Stores :
    \/ \E e \in Entity : Remove(x, e) \/ Insert(x, e)
    \/ \E y \in Stores : Clone(x, y)

Spec == Init /\ [][Next]_maps
=============================================================================
