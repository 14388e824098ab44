------------------------------ MODULE UndoStack ------------------------------
(***************************************************************************)
(* The undo history of the mesh editor (crates/mesh-editor/src/undo.rs)    *)
(* and the edits that go through it (EditableMesh::apply_op, undo, redo in *)
(* crates/mesh-editor/src/editable.rs).  A mesh is an identity and the     *)
(* bytes a snapshot of it takes; an op is a drag (a rigid transform) or    *)
(* any other.                                                              *)
(***************************************************************************)
EXTENDS Integers, Sequences, SequencesExt

CONSTANTS
    Ids,          \* mesh identities
    Sizes,        \* snapshot sizes
    Cap,          \* entry capacity
    Snapshots,    \* UndoStrategy::Snapshots rather than ::Ops
    MaxBytes      \* its byte budget

ASSUME UndoAssumption ==
    /\ Cap \in Nat \ {0} /\ MaxBytes \in Nat
    /\ 0 \notin Ids /\ Sizes \subseteq Nat
    /\ Snapshots \in BOOLEAN

VARIABLES
    ops,        \* whether each logged op is a drag, oldest first
    before,     \* the pre-op view of each
    redoOps,    \* the same for what was undone
    redoAfter,  \* the view at undo time of each
    retained,   \* retained_bytes
    base,       \* EditableMesh::base
    preview,    \* EditableMesh::preview
    outcome     \* what the last call did, or why it was refused

stack == <<ops, before, redoOps, redoAfter, retained>>
undoVars == <<stack, base, preview, outcome>>

Mesh == [id : Ids, bytes : Sizes]
NoMesh == [id |-> 0, bytes |-> 0]

View == IF preview = NoMesh THEN base ELSE preview

UndoInit ==
    /\ ops = <<>> /\ before = <<>> /\ redoOps = <<>> /\ redoAfter = <<>>
    /\ retained = 0
    /\ base \in Mesh /\ preview = NoMesh
    /\ outcome = "none"

-----------------------------------------------------------------------------
BytesOf(meshes) ==
    LET sum[n \in 0 .. Len(meshes)] ==
            IF n = 0 THEN 0 ELSE sum[n - 1] + meshes[n].bytes
    IN  sum[Len(meshes)]

\* saturating_sub
Less(a, b) == IF a > b THEN a - b ELSE 0

Denied(bytes) == Snapshots /\ bytes > MaxBytes

BugOver(evicted, bytes) ==
    \/ Len(before) - evicted > Cap
    \/ Snapshots /\ Less(retained, BytesOf(SubSeq(before, 1, evicted))) + bytes > MaxBytes

\* After evicting so many entries, the stack is still too full for one more.
Over(evicted, bytes) ==
    \/ Len(before) - evicted >= Cap
    \/ Snapshots /\ Less(retained, BytesOf(SubSeq(before, 1, evicted))) + bytes > MaxBytes

\* make_room evicts the oldest entry until the new one fits.
Evicted(bytes) ==
    CHOOSE k \in 0..Len(before) :
        ~Over(k, bytes) /\ \A j \in 0..(k - 1) : Over(j, bytes)

\* make_room, then the entry is logged.
LogEntry(drag, mesh) ==
    LET k == Evicted(mesh.bytes) IN
    /\ ops' = Append(SubSeq(ops, k + 1, Len(ops)), drag)
    /\ before' = Append(SubSeq(before, k + 1, Len(before)), mesh)
    /\ retained' = Less(retained, BytesOf(SubSeq(before, 1, k))) + mesh.bytes

Coalesces(drag) == drag /\ ops # <<>> /\ Last(ops)

\* UndoStack::push; the redo stack is cleared whatever comes of it.
ClearRedo == redoOps' = <<>> /\ redoAfter' = <<>>

Push(drag, mesh) ==
    /\ ClearRedo
    /\ outcome' = "edit"
    /\ \/ Coalesces(drag) /\ UNCHANGED <<ops, before, retained>>
       \/ ~Coalesces(drag) /\ ~Denied(mesh.bytes) /\ LogEntry(drag, mesh)

PushDenied(drag, mesh) ==
    /\ ~Coalesces(drag) /\ Denied(mesh.bytes)
    /\ ClearRedo
    /\ outcome' = "budget"
    /\ UNCHANGED <<ops, before, retained, base, preview>>

-----------------------------------------------------------------------------
(* EditableMesh::apply_op: the entry is logged before anything changes.    *)
Transform ==
    /\ Push(TRUE, View)
    /\ preview' \in {m \in Mesh : m.bytes = View.bytes}
    /\ UNCHANGED base

\* An extrusion or a subdivision; it may leave the mesh as it is.
Reshape ==
    /\ Push(FALSE, View)
    /\ preview' \in {m \in Mesh : m.bytes >= View.bytes}
    /\ UNCHANGED base

\* EditableMesh::commit, which apply_op's CommitExact goes through as well.
Accept ==
    /\ base' = View
    /\ preview' = NoMesh

CommitExact ==
    /\ Push(FALSE, base)
    /\ Accept

CancelPreview ==
    /\ Push(FALSE, View)
    /\ preview' = NoMesh
    /\ UNCHANGED base

ApplyDenied ==
    \/ \E drag \in BOOLEAN : PushDenied(drag, View)
    \/ PushDenied(FALSE, base)

\* The calls that bypass the log, and an exact result that lands.
Commit == Accept /\ outcome' = "replace" /\ UNCHANGED stack

Cancel == preview' = NoMesh /\ outcome' = "replace" /\ UNCHANGED <<stack, base>>

SwapExact ==
    /\ base' \in Mesh
    /\ preview' = NoMesh
    /\ outcome' = "replace"
    /\ UNCHANGED stack

Undo ==
    /\ ops # <<>>
    /\ preview' = Last(before)
    /\ ops' = Front(ops) /\ before' = Front(before)
    /\ retained' = Less(retained, Last(before).bytes)
    /\ redoOps' = Append(redoOps, Last(ops))
    /\ redoAfter' = Append(redoAfter, View)
    /\ outcome' = "undo"
    /\ UNCHANGED base

BugRedo ==
    /\ redoOps # <<>>
    /\ ~Denied(View.bytes)
    /\ LogEntry(Last(redoOps), Last(redoAfter))
    /\ preview' = Last(redoAfter)
    /\ redoOps' = Front(redoOps) /\ redoAfter' = Front(redoAfter)
    /\ outcome' = "redo"
    /\ UNCHANGED base

Redo ==
    /\ redoOps # <<>>
    /\ ~Denied(View.bytes)
    /\ LogEntry(Last(redoOps), View)
    /\ preview' = Last(redoAfter)
    /\ redoOps' = Front(redoOps) /\ redoAfter' = Front(redoAfter)
    /\ outcome' = "redo"
    /\ UNCHANGED base

RedoDenied ==
    /\ redoOps # <<>>
    /\ Denied(View.bytes)
    /\ outcome' = "budget"
    /\ UNCHANGED <<stack, base, preview>>

NothingThere ==
    /\ ops = <<>> \/ redoOps = <<>>
    /\ outcome' = "empty"
    /\ UNCHANGED <<stack, base, preview>>

Clear ==
    /\ ops' = <<>> /\ before' = <<>> /\ ClearRedo
    /\ retained' = 0
    /\ outcome' = "clear"
    /\ UNCHANGED <<base, preview>>

UndoNext ==
    \/ Transform \/ Reshape \/ CommitExact \/ CancelPreview \/ ApplyDenied
    \/ Commit \/ Cancel \/ SwapExact
    \/ Undo \/ Redo \/ RedoDenied \/ NothingThere \/ Clear

UndoSpec == UndoInit /\ [][UndoNext]_undoVars

-----------------------------------------------------------------------------
\* Type invariant: both pairs of vectors stay in lockstep (UndoStack).
UndoTypeOK ==
    /\ ops \in Seq(BOOLEAN) /\ before \in Seq(Mesh) /\ Len(ops) = Len(before)
    /\ redoOps \in Seq(BOOLEAN) /\ redoAfter \in Seq(Mesh)
    /\ Len(redoOps) = Len(redoAfter)
    /\ retained \in Nat
    /\ base \in Mesh /\ preview \in Mesh \cup {NoMesh}
    /\ outcome \in {"none", "edit", "undo", "redo", "replace", "clear",
                    "budget", "empty"}

\* The running byte count is what the snapshots really take, and both limits
\* hold after every call.  Because undo and redo only move entries across, the
\* capacity bounds the redo stack too, which has no limit of its own
\* (make_room, undo, redo).
HistoryIsBounded ==
    /\ UndoTypeOK
    /\ retained = BytesOf(before)
    /\ Len(ops) + Len(redoOps) <= Cap
    /\ Snapshots => retained <= MaxBytes

\* A call that answers that the budget is exceeded leaves the history as it
\* was (UndoError::BudgetExceeded of push: "history untouched"; and of redo).
DenialLeavesHistory == [][outcome' = "budget" => UNCHANGED stack]_undoVars

\* Undo and redo walk the line of views the user saw, a logged commit going
\* back to the view committed before it (push, undo, redo and apply_op
\* implement Timeline).
Entries(drags, meshes) ==
    [i \in DOMAIN drags |-> [drag |-> drags[i], view |-> meshes[i]]]

Line == INSTANCE Timeline WITH
    Views <- Mesh,
    past <- Entries(ops, before),
    now <- View,
    future <- Reverse(Entries(redoOps, redoAfter)),
    saved <- base,
    call <- outcome

UndoFollowsTheLine == Line!TimelineSpec
=============================================================================
