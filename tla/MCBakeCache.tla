---------------------------- MODULE MCBakeCache ----------------------------
(* BakeCache with two servers, of one process or of two. *)
EXTENDS BakeCache

CONSTANTS s1, s2, p1, p2

MCServers == {s1, s2}
MCProcesses == {p1, p2}
MCHomes == {[s \in MCServers |-> p1], [s \in MCServers |-> IF s = s1 THEN p1 ELSE p2]}
=============================================================================
