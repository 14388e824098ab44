----------------------------- MODULE ExactWorker -----------------------------
(***************************************************************************)
(* Background exact geometry of the mesh editor: the job pool of          *)
(* crates/mesh-editor/src/exact.rs and the way EditableMesh submits jobs   *)
(* to it and adopts their results (crates/mesh-editor/src/editable.rs).    *)
(*                                                                         *)
(* A mesh is identified by the user-visible version it is a rendition of:  *)
(* an exact result of version v still is version v, so adopting it keeps   *)
(* what the user sees.  A job carries the preview sequence and the version *)
(* it was submitted at, and its submission number for the properties.      *)
(***************************************************************************)
EXTENDS Naturals, Sequences, FiniteSets

CONSTANTS
    Threads,   \* worker threads
    Pools,     \* the sets of them a pool may be spawned with
    MaxEdits,  \* bound on preview edits, undos and redos
    MaxJobs    \* bound on submissions

ASSUME ExactAssumption ==
    /\ IsFiniteSet(Threads) /\ Pools \subseteq SUBSET Threads /\ {} \notin Pools
    /\ MaxEdits \in Nat /\ MaxJobs \in Nat

VARIABLES
    team,        \* the threads this pool was spawned with
    jobs,        \* the mpsc job queue
    worker,      \* the job each thread is running
    alive,       \* threads that have not left pool_loop
    results,     \* the mpsc result queue
    handle,      \* whether the ExactWorker handle is still alive
    previewSeq,  \* EditableMesh::preview_seq
    hasPreview,  \* EditableMesh::preview is Some
    coherent,    \* the last preview op fitted the frame budget
    view,        \* version displayed
    base,        \* version of the committed base
    versions,    \* versions made so far
    cancelled,   \* history: the latest preview was cancelled
    submitted,   \* submissions made so far
    polled,      \* history: the result the last successful poll returned
    adopted      \* history: submission number of the last swap

pool == <<team, jobs, worker, alive, results, handle>>
mesh == <<previewSeq, hasPreview, coherent, view, base, versions>>
history == <<cancelled, submitted, polled, adopted>>
vars == <<pool, mesh, history>>

Idle == [id |-> 0, seq |-> 0, snapshot |-> 0]
NoJob == Idle
ExactInit ==
    /\ jobs = <<>> /\ results = <<>> /\ handle = TRUE
    /\ team \in Pools /\ alive = team
    /\ worker = [t \in Threads |-> Idle]
    /\ previewSeq = 0 /\ hasPreview = FALSE /\ coherent = TRUE
    /\ view = 0 /\ base = 0 /\ versions = 0
    /\ cancelled = FALSE /\ submitted = 0 /\ polled = NoJob /\ adopted = 0

-----------------------------------------------------------------------------
(* Both drains keep a later element when its sequence is at least the one  *)
(* kept so far: the last of those with the greatest sequence.              *)
IsNewest(queue, i) ==
    \A j \in DOMAIN queue :
        queue[j].seq < queue[i].seq \/ (queue[j].seq = queue[i].seq /\ j <= i)

BugFirstNewest(queue) ==
    queue[CHOOSE i \in DOMAIN queue :
            \A j \in DOMAIN queue : queue[j].seq < queue[i].seq
                                    \/ (queue[j].seq = queue[i].seq /\ i <= j)]

Newest(queue) == queue[CHOOSE i \in DOMAIN queue : IsNewest(queue, i)]

-----------------------------------------------------------------------------
(* The frame loop's side: EditableMesh.                                    *)
NewVersion ==
    /\ versions < MaxEdits
    /\ versions' = versions + 1
    /\ view' = versions + 1
    /\ hasPreview' = TRUE
    /\ cancelled' = FALSE
    /\ UNCHANGED <<base, pool, submitted, polled, adopted>>

\* A transform, extrusion or subdivision: it may overrun the frame budget.
Edit(fits) ==
    /\ NewVersion
    /\ previewSeq' = previewSeq + 1
    /\ coherent' = fits

BugRestore ==
    /\ NewVersion
    /\ UNCHANGED <<previewSeq, coherent>>

\* An undo or a redo of a logged edit puts another mesh on display.
Restore ==
    /\ versions > 0
    /\ NewVersion
    /\ previewSeq' = previewSeq + 1
    /\ UNCHANGED coherent

Commit ==
    /\ hasPreview
    /\ base' = view
    /\ hasPreview' = FALSE
    /\ UNCHANGED <<previewSeq, coherent, view, versions, pool, history>>

Cancel ==
    /\ hasPreview
    /\ view' = base
    /\ hasPreview' = FALSE
    /\ cancelled' = TRUE
    /\ UNCHANGED <<previewSeq, coherent, base, versions, pool>>
    /\ UNCHANGED <<submitted, polled, adopted>>

Submit ==
    /\ handle
    /\ submitted < MaxJobs
    /\ submitted' = submitted + 1
    /\ jobs' = Append(jobs, [id |-> submitted + 1, seq |-> previewSeq,
                             snapshot |-> view])
    /\ UNCHANGED <<team, worker, alive, results, handle, mesh>>
    /\ UNCHANGED <<cancelled, polled, adopted>>

DecideSwap(result) == coherent /\ result.seq >= previewSeq

Swap(result) ==
    /\ DecideSwap(result)
    /\ base' = result.snapshot
    /\ view' = result.snapshot
    /\ hasPreview' = FALSE
    /\ adopted' = result.id
    /\ UNCHANGED <<previewSeq, coherent, versions>>

KeepPreview(result) ==
    /\ ~DecideSwap(result)
    /\ UNCHANGED <<mesh, adopted>>

PollExact ==
    /\ handle /\ results # <<>>
    /\ results' = <<>>
    /\ polled' = Newest(results)
    /\ Swap(Newest(results)) \/ KeepPreview(Newest(results))
    /\ UNCHANGED <<team, jobs, worker, alive, handle, cancelled, submitted>>

\* Dropping the handle drops the job sender and the result receiver.
DropHandle ==
    /\ handle
    /\ handle' = FALSE
    /\ results' = <<>>
    /\ UNCHANGED <<team, jobs, worker, alive, mesh, history>>

-----------------------------------------------------------------------------
(* A pool thread.  The queue lock is held from the recv to the end of the  *)
(* drain, so taking a job is one step; running it happens outside.         *)
Take(t) ==
    /\ t \in alive /\ worker[t] = Idle /\ jobs # <<>>
    /\ worker' = [worker EXCEPT ![t] = Newest(jobs)]
    /\ jobs' = <<>>
    /\ UNCHANGED <<team, alive, results, handle, mesh, history>>

\* The result is sent, or the receiver is gone and the thread ends.
Finish(t) ==
    /\ worker[t] # Idle
    /\ worker' = [worker EXCEPT ![t] = Idle]
    /\ \/ handle /\ results' = Append(results, worker[t]) /\ UNCHANGED alive
       \/ ~handle /\ alive' = alive \ {t} /\ UNCHANGED results
    /\ UNCHANGED <<team, jobs, handle, mesh, history>>

BugHangUp(t) ==
    /\ t \in alive /\ worker[t] = Idle /\ ~handle /\ jobs = <<>>
    /\ UNCHANGED vars

\* recv fails once the sender is gone and the queue is empty.
HangUp(t) ==
    /\ t \in alive /\ worker[t] = Idle /\ ~handle /\ jobs = <<>>
    /\ alive' = alive \ {t}
    /\ UNCHANGED <<team, jobs, worker, results, handle, mesh, history>>

PoolLoop(t) == Take(t) \/ Finish(t) \/ HangUp(t)

ExactNext ==
    \/ \E fits \in BOOLEAN : Edit(fits)
    \/ Restore \/ Commit \/ Cancel \/ Submit \/ PollExact \/ DropHandle
    \/ \E t \in Threads : PoolLoop(t)

\* The threads run, the kernel returns, and the editor polls every frame.
Fairness == WF_vars(PollExact) /\ \A t \in Threads : WF_vars(PoolLoop(t))

ExactSpec == ExactInit /\ [][ExactNext]_vars
FairExactSpec == ExactSpec /\ Fairness

-----------------------------------------------------------------------------
InFlight ==
    {jobs[i] : i \in DOMAIN jobs} \cup {results[i] : i \in DOMAIN results}
        \cup {worker[t] : t \in {u \in Threads : worker[u] # Idle}}

OneThread == Cardinality(team) = 1

\* Polls of a one-thread pool return results in the order their jobs were
\* submitted, although jobs are dropped: an older job's geometry never follows
\* a newer one's, also at one preview sequence (ExactWorker::try_recv,
\* pool_loop).  Two threads may finish out of order, across polls too.
\* Whatever the pool's size, adopting an exact mesh changes which version is
\* on display only after the preview it was computed from was cancelled: a
\* result at the current preview sequence was computed from what the user sees
\* (decide_swap's equality case, fed by every path that bumps preview_seq).
SwapKeepsTheView ==
    [][/\ polled' # polled /\ OneThread => polled'.id > polled.id
       /\ adopted' # adopted /\ ~cancelled => view' = view]_vars

\* Every submitted job is answered, unless the handle is dropped, by a poll
\* result at least as new (the newest-wins drains lose only superseded work).
\* When the handle goes, every pool thread ends, whether it was waiting for
\* the queue lock, for a job or running one (pool_loop's two returns).
EverySubmissionIsAnswered ==
    /\ \A s \in 0..MaxEdits :
          (\E job \in InFlight : job.seq = s)
              ~> (polled.id # 0 /\ polled.seq >= s) \/ ~handle
    /\ (~handle) ~> (alive = {})

\* While nobody edits, the job computed from the current preview lands in the
\* base itself or through a job submitted after it (poll_exact's swap).  With
\* more threads an earlier job of the same preview may land in its place.
FreshResultLands ==
    \A n \in 1..MaxJobs, s \in 0..MaxEdits :
        (/\ OneThread /\ coherent /\ previewSeq = s
         /\ \E job \in InFlight : job.id = n /\ job.seq = s)
            ~> adopted >= n \/ previewSeq > s \/ ~handle
=============================================================================
