---------------------------- MODULE MCEditorData ----------------------------
(***************************************************************************)
(* What an editing session keeps of the user's work: the undo history of a *)
(* mesh and the world with its scene files.  They share no state, so each  *)
(* behaviour is one of either.                                             *)
(***************************************************************************)
EXTENDS UndoStack, EditorSession

VARIABLE part

DataInit ==
    /\ part \in {"mesh", "session"}
    /\ UndoInit /\ SessionInit
    /\ part = "session" => base = CHOOSE mesh \in Mesh : TRUE

DataNext ==
    \/ part = "mesh" /\ UndoNext /\ UNCHANGED <<part, sessionVars>>
    \/ part = "session" /\ SessionNext /\ UNCHANGED <<part, undoVars>>

DataSpec == DataInit /\ [][DataNext]_<<part, undoVars, sessionVars>>
=============================================================================
