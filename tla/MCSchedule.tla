----------------------------- MODULE MCSchedule -----------------------------
(***************************************************************************)
(* Instances of Schedule: three systems over two keys, with every mix of   *)
(* the declarations that make levels interesting.                          *)
(***************************************************************************)
EXTENDS Schedule

CONSTANTS s1, s2, s3, k1, k2

MCSystems == {s1, s2, s3}
MCKeys == {k1, k2}
MCAccesses == {[reads |-> {k1}, writes |-> {}],
               [reads |-> {}, writes |-> {k1}],
               [reads |-> {k1}, writes |-> {k2}],
               [reads |-> {k2}, writes |-> {}],
               [reads |-> {}, writes |-> {k1, k2}]}
=============================================================================
