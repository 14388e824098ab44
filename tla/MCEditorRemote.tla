--------------------------- MODULE MCEditorRemote ---------------------------
(***************************************************************************)
(* EditorRemote for one page, in the environments where its hazards meet:  *)
(* a burst of events longer than the history with a socket that is lost    *)
(* and replaced, beside the polling; scene requests answered out of order  *)
(* around a completion and a restart; a stop with connections of both      *)
(* kinds coming up.                                                        *)
(***************************************************************************)
EXTENDS EditorRemote

Outside == [capacity |-> 2, commands |-> 0, frames |-> 0, ticks |-> 0,
            restarts |-> 0, conns |-> 0, plain |-> {}, slots |-> {}, stop |-> FALSE]

MCEnvironments == {
    [Outside EXCEPT !.commands = 2, !.conns = 1],
    [Outside EXCEPT !.capacity = 1, !.commands = 1, !.conns = 2],
    [Outside EXCEPT !.commands = 1, !.conns = 2, !.restarts = 1],
    [Outside EXCEPT !.commands = 1, !.ticks = 1, !.restarts = 1, !.slots = {1, 2}],
    [Outside EXCEPT !.frames = 1, !.conns = 2, !.plain = {2}, !.stop = TRUE]
    }
=============================================================================
