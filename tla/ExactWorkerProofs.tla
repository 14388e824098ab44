-------------------------- MODULE ExactWorkerProofs --------------------------
(***************************************************************************)
(* For every pool, and any number of edits and jobs: adopting an exact     *)
(* mesh does not change what the user sees, and one thread answers in the  *)
(* order of the submissions.                                               *)
(***************************************************************************)
EXTENDS ExactWorker, FiniteSetTheorems, WellFoundedInduction, TLAPS

Jobs == [id : Nat \ {0}, seq : Nat, snapshot : Nat]

\* The type of every variable the orders below are about.
ExactTypeOK ==
    /\ team \in Pools /\ alive \subseteq team
    /\ jobs \in Seq(Jobs) /\ results \in Seq(Jobs)
    /\ worker \in [Threads -> Jobs \cup {Idle}]
    /\ \A t \in Threads : worker[t] # Idle => t \in team
    /\ previewSeq \in Nat /\ view \in Nat /\ base \in Nat /\ versions \in Nat
    /\ submitted \in Nat /\ polled \in Jobs \cup {NoJob}
    /\ handle \in BOOLEAN /\ cancelled \in BOOLEAN

\* A job of the current preview is a rendition of what is on display, until
\* the preview is cancelled.
Fits(job) ==
    /\ job.seq <= previewSeq
    /\ job.seq = previewSeq /\ ~cancelled => job.snapshot = view

JobsFit ==
    /\ \A i \in DOMAIN jobs : Fits(jobs[i])
    /\ \A i \in DOMAIN results : Fits(results[i])
    /\ \A t \in Threads : worker[t] # Idle => Fits(worker[t])

\* With one thread, what is nearer to the editor was submitted earlier.
JobsInOrder ==
    /\ polled.id <= submitted
    /\ \A r \in DOMAIN results : polled.id < results[r].id /\ results[r].id <= submitted
    /\ \A t \in Threads : worker[t] # Idle =>
          /\ polled.id < worker[t].id /\ worker[t].id <= submitted
          /\ \A r \in DOMAIN results : results[r].id < worker[t].id
    /\ \A j \in DOMAIN jobs :
          /\ polled.id < jobs[j].id /\ jobs[j].id <= submitted
          /\ \A r \in DOMAIN results : results[r].id < jobs[j].id
          /\ \A t \in Threads : worker[t] # Idle => worker[t].id < jobs[j].id

ExactInv == ExactTypeOK /\ JobsFit /\ (OneThread => JobsInOrder)

-----------------------------------------------------------------------------
\* Every set of naturals has a least one.
LEMMA LeastExists ==
  ASSUME NEW S, S \subseteq Nat, S # {}
  PROVE  \E a \in S : \A b \in S : a <= b
<1> DEFINE R == OpToRel(<, Nat)
<1>1. PICK a \in S : \A b \in S : ~(<<b, a>> \in R)
  BY NatLessThanWellFounded, WFMin, Zenon
<1>2. ASSUME NEW m \in Nat, NEW n \in Nat, m < n PROVE <<m, n>> \in R
  <2>1. <<m, n>> \in Nat \X Nat /\ <<m, n>>[1] < <<m, n>>[2]
    BY <1>2
  <2> QED BY <2>1 DEF OpToRel
<1> HIDE DEF R
<1>3. \A b \in S : ~(b < a)
  BY <1>1, <1>2, Zenon
<1> QED BY <1>3

\* Both drains find the job they keep: among the greatest sequences, whatever
\* the order they come in, there is a last one (pool_loop, try_recv).
LEMMA NewestIsQueued ==
  ASSUME NEW queue \in Seq(Jobs), queue # <<>>, NEW m \in Nat,
         \A i \in DOMAIN queue : queue[i].seq <= m
  PROVE  \E i \in DOMAIN queue : Newest(queue) = queue[i]
<1>1. /\ DOMAIN queue = 1 .. Len(queue) /\ Len(queue) \in Nat \ {0}
      /\ \A i \in DOMAIN queue : queue[i].seq \in Nat
  <2>1. DOMAIN queue = 1 .. Len(queue) /\ Len(queue) \in Nat \ {0}
    OBVIOUS
  <2>2. \A i \in DOMAIN queue : queue[i] \in Jobs
    OBVIOUS
  <2> QED BY <2>1, <2>2 DEF Jobs
<1> DEFINE lag == {m - queue[i].seq : i \in DOMAIN queue}
<1>2. PICK i \in DOMAIN queue : \A j \in DOMAIN queue : queue[j].seq <= queue[i].seq
  <2>1. lag \subseteq Nat /\ lag # {}
    BY <1>1
  <2>2. PICK a \in lag : \A b \in lag : a <= b
    BY <2>1, LeastExists
  <2>3. PICK i \in DOMAIN queue : a = m - queue[i].seq
    BY <2>2
  <2>4. ASSUME NEW j \in DOMAIN queue PROVE queue[j].seq <= queue[i].seq
    <3>1. m - queue[j].seq \in lag
      OBVIOUS
    <3>2. a <= m - queue[j].seq
      BY <2>2, <3>1
    <3> QED BY <1>1, <2>3, <3>2
  <2> QED BY <2>4
<1> DEFINE later == {Len(queue) - j : j \in {k \in DOMAIN queue : queue[k].seq = queue[i].seq}}
<1>3. PICK n \in DOMAIN queue :
        /\ queue[n].seq = queue[i].seq
        /\ \A j \in DOMAIN queue : queue[j].seq = queue[i].seq => j <= n
  <2>1. later \subseteq Nat /\ later # {}
    BY <1>1
  <2>2. PICK a \in later : \A b \in later : a <= b
    BY <2>1, LeastExists
  <2>3. PICK n \in DOMAIN queue : a = Len(queue) - n /\ queue[n].seq = queue[i].seq
    BY <2>2
  <2>4. ASSUME NEW j \in DOMAIN queue, queue[j].seq = queue[i].seq PROVE j <= n
    <3>1. Len(queue) - j \in later
      BY <2>4
    <3>2. a <= Len(queue) - j
      BY <2>2, <3>1
    <3> QED BY <1>1, <2>3, <3>2
  <2> QED BY <2>3, <2>4
<1>4. IsNewest(queue, n)
  BY <1>1, <1>2, <1>3 DEF IsNewest
<1>5. (CHOOSE k \in DOMAIN queue : IsNewest(queue, k)) \in DOMAIN queue
  BY <1>4
<1> QED BY <1>5 DEF Newest

\* Sending puts an element behind the others.
LEMMA AppendFacts ==
  ASSUME NEW queue \in Seq(Jobs), NEW job \in Jobs, NEW longer, longer = Append(queue, job)
  PROVE  /\ longer \in Seq(Jobs)
         /\ \A i \in DOMAIN longer : longer[i] = job \/ \E k \in DOMAIN queue : longer[i] = queue[k]
<1>1. /\ longer \in Seq(Jobs) /\ DOMAIN longer = 1 .. Len(queue) + 1 /\ DOMAIN queue = 1 .. Len(queue)
      /\ Len(queue) \in Nat /\ longer[Len(queue) + 1] = job
      /\ \A i \in 1 .. Len(queue) : longer[i] = queue[i]
  OBVIOUS
<1> QED BY <1>1

-----------------------------------------------------------------------------
(* The invariant.                                                          *)

\* What is in a queue, or with a thread, is a job.
LEMMA ExactTypes ==
  ASSUME ExactTypeOK
  PROVE  /\ \A i \in DOMAIN jobs : jobs[i] \in Jobs /\ jobs[i].id \in Nat /\ jobs[i].seq \in Nat
         /\ \A i \in DOMAIN results :
               results[i] \in Jobs /\ results[i].id \in Nat /\ results[i].seq \in Nat
         /\ \A t \in Threads : worker[t].id \in Nat /\ worker[t].seq \in Nat
         /\ polled.id \in Nat
<1>1. \A job \in Jobs \cup {Idle} : job.id \in Nat /\ job.seq \in Nat
  BY DEF Jobs, Idle
<1>2. jobs \in Seq(Jobs) /\ results \in Seq(Jobs)
  BY DEF ExactTypeOK
<1>3. /\ \A i \in DOMAIN jobs : jobs[i] \in Jobs
      /\ \A i \in DOMAIN results : results[i] \in Jobs
  BY <1>2
<1>4. \A t \in Threads : worker[t] \in Jobs \cup {Idle}
  BY DEF ExactTypeOK
<1>5. polled \in Jobs \cup {Idle}
  BY DEF ExactTypeOK, NoJob
<1> HIDE DEF Jobs
<1> QED BY <1>1, <1>3, <1>4, <1>5

\* The initial state.
LEMMA ExactInitHolds == ExactInit => ExactInv
<1> SUFFICES ASSUME ExactInit PROVE ExactInv
  OBVIOUS
<1>1. ExactTypeOK
  <2>1. jobs \in Seq(Jobs) /\ results \in Seq(Jobs)
    BY DEF ExactInit
  <2>2. worker \in [Threads -> Jobs \cup {Idle}] /\ \A t \in Threads : worker[t] = Idle
    BY DEF ExactInit
  <2> QED BY <2>1, <2>2 DEF ExactInit, ExactTypeOK
<1>2. JobsFit /\ JobsInOrder
  BY DEF ExactInit, JobsFit, JobsInOrder, NoJob, Idle
<1> QED BY <1>1, <1>2 DEF ExactInv

\* A new version is a new preview: no job in flight was computed from it.
LEMMA NewVersionKeeps ==
  ASSUME ExactInv, NewVersion, previewSeq' = previewSeq + 1
  PROVE  ExactInv'
<1>1. ExactTypeOK'
  <2>1. versions + 1 \in Nat /\ previewSeq + 1 \in Nat
    BY DEF ExactInv, ExactTypeOK
  <2>2. UNCHANGED <<team, alive, jobs, results, worker, handle, base, submitted, polled>>
    BY DEF NewVersion, pool
  <2> QED BY <2>1, <2>2 DEF ExactInv, ExactTypeOK, NewVersion
<1>2. JobsFit'
  <2>1. \A job : job.seq \in Nat /\ Fits(job) => Fits(job)'
    BY DEF ExactInv, ExactTypeOK, Fits
  <2>2. /\ \A i \in DOMAIN jobs : jobs[i].seq \in Nat
        /\ \A i \in DOMAIN results : results[i].seq \in Nat
        /\ \A t \in Threads : worker[t].seq \in Nat
    BY ExactTypes DEF ExactInv
  <2> QED BY <2>1, <2>2 DEF ExactInv, JobsFit, NewVersion, pool
<1>3. (OneThread => JobsInOrder)'
  BY DEF ExactInv, OneThread, JobsInOrder, NewVersion, pool
<1> QED BY <1>1, <1>2, <1>3 DEF ExactInv

\* A job is submitted with the current preview.
LEMMA SubmitKeeps == ASSUME ExactInv, Submit PROVE ExactInv'
<1>1. PICK job : job = [id |-> submitted + 1, seq |-> previewSeq, snapshot |-> view]
  OBVIOUS
<1>2. /\ job \in Jobs /\ job.id = submitted + 1 /\ job.seq = previewSeq /\ job.snapshot = view
      /\ submitted \in Nat /\ jobs \in Seq(Jobs)
  BY <1>1 DEF ExactInv, ExactTypeOK, Jobs
<1>3. jobs' = Append(jobs, job) /\ submitted' = submitted + 1
  BY <1>1 DEF Submit
<1>4. /\ jobs' \in Seq(Jobs)
      /\ \A i \in DOMAIN jobs' : jobs'[i] = job \/ \E k \in DOMAIN jobs : jobs'[i] = jobs[k]
  BY <1>2, <1>3, AppendFacts
<1>5. /\ UNCHANGED <<team, worker, alive, results, handle, polled, cancelled>>
      /\ UNCHANGED <<previewSeq, hasPreview, coherent, view, base, versions>>
  BY DEF Submit, mesh
<1>6. ExactTypeOK'
  BY <1>2, <1>3, <1>4, <1>5 DEF ExactInv, ExactTypeOK
<1>7. JobsFit'
  <2>1. ASSUME NEW i \in DOMAIN jobs' PROVE Fits(jobs[i])'
    <3>1. CASE jobs'[i] = job
      BY <1>2, <1>5, <3>1 DEF Fits, ExactInv, ExactTypeOK
    <3>2. CASE \E k \in DOMAIN jobs : jobs'[i] = jobs[k]
      BY <1>5, <3>2 DEF ExactInv, JobsFit, Fits
    <3> QED BY <1>4, <3>1, <3>2
  <2>2. /\ \A i \in DOMAIN results : Fits(results[i])'
        /\ \A t \in Threads : worker[t] # Idle => Fits(worker[t])'
    BY <1>5 DEF ExactInv, JobsFit, Fits
  <2> QED BY <1>5, <2>1, <2>2 DEF JobsFit
<1>8. ASSUME OneThread PROVE JobsInOrder'
  <2>1. JobsInOrder
    BY <1>8 DEF ExactInv
  <2>2. /\ polled.id \in Nat /\ \A r \in DOMAIN results : results[r].id \in Nat
        /\ \A t \in Threads : worker[t].id \in Nat
        /\ \A j \in DOMAIN jobs : jobs[j].id \in Nat
    BY ExactTypes DEF ExactInv
  <2>3. /\ polled.id <= submitted'
        /\ \A r \in DOMAIN results : polled.id < results[r].id /\ results[r].id <= submitted'
        /\ \A t \in Threads : worker[t] # Idle =>
              /\ polled.id < worker[t].id /\ worker[t].id <= submitted'
              /\ \A r \in DOMAIN results : results[r].id < worker[t].id
    BY <1>2, <1>3, <2>1, <2>2 DEF JobsInOrder
  <2>4. ASSUME NEW j \in DOMAIN jobs'
        PROVE  /\ polled.id < jobs'[j].id /\ jobs'[j].id <= submitted'
               /\ \A r \in DOMAIN results : results[r].id < jobs'[j].id
               /\ \A t \in Threads : worker[t] # Idle => worker[t].id < jobs'[j].id
    <3>1. CASE jobs'[j] = job
      BY <1>2, <1>3, <2>1, <2>2, <3>1 DEF JobsInOrder
    <3>2. CASE \E k \in DOMAIN jobs : jobs'[j] = jobs[k]
      BY <1>2, <1>3, <2>1, <2>2, <3>2 DEF JobsInOrder
    <3> QED BY <1>4, <3>1, <3>2
  <2> QED BY <1>5, <2>3, <2>4 DEF JobsInOrder
<1> QED BY <1>5, <1>6, <1>7, <1>8 DEF ExactInv, OneThread

\* A poll returns a queued result; the swap shows what is on display already.
LEMMA PollReturnsAResult ==
  ASSUME ExactInv, results # <<>>
  PROVE  \E i \in DOMAIN results : Newest(results) = results[i]
<1>1. results \in Seq(Jobs) /\ previewSeq \in Nat
      /\ \A i \in DOMAIN results : results[i].seq <= previewSeq
  BY DEF ExactInv, ExactTypeOK, JobsFit, Fits
<1> QED BY <1>1, NewestIsQueued

LEMMA PollKeeps == ASSUME ExactInv, PollExact PROVE ExactInv'
<1>1. PICK i \in DOMAIN results : Newest(results) = results[i]
  BY PollReturnsAResult DEF PollExact
<1>2. PICK result : result = results[i]
  OBVIOUS
<1>3. result \in Jobs /\ Fits(result) /\ polled' = result /\ results' = <<>>
  BY <1>1, <1>2 DEF PollExact, ExactInv, ExactTypeOK, JobsFit
<1>4. UNCHANGED <<team, jobs, worker, alive, handle, cancelled, submitted, previewSeq, versions>>
  BY DEF PollExact, Swap, KeepPreview, mesh
<1>5. \/ result.seq >= previewSeq /\ view' = result.snapshot /\ base' = result.snapshot
      \/ view' = view /\ base' = base
  BY <1>1, <1>2 DEF PollExact, Swap, KeepPreview, DecideSwap, mesh
<1>6. ~cancelled => view' = view
  BY <1>3, <1>5 DEF Fits, Jobs, ExactInv, ExactTypeOK
<1>7. ExactTypeOK'
  <2>1. view' \in Nat /\ base' \in Nat
    BY <1>3, <1>5 DEF ExactInv, ExactTypeOK, Jobs
  <2>2. results' \in Seq(Jobs) /\ polled' \in Jobs
    BY <1>3
  <2> QED BY <1>4, <2>1, <2>2 DEF ExactInv, ExactTypeOK
<1>8. JobsFit'
  BY <1>3, <1>4, <1>6 DEF ExactInv, JobsFit, Fits
<1>9. ASSUME OneThread PROVE JobsInOrder'
  BY <1>1, <1>2, <1>3, <1>4, <1>9 DEF ExactInv, JobsInOrder
<1> QED BY <1>4, <1>7, <1>8, <1>9 DEF ExactInv, OneThread

\* A thread takes a queued job.
LEMMA TakeKeeps == ASSUME ExactInv, NEW t \in Threads, Take(t) PROVE ExactInv'
<1>1. jobs \in Seq(Jobs) /\ jobs # <<>> /\ previewSeq \in Nat
      /\ \A i \in DOMAIN jobs : jobs[i].seq <= previewSeq
  BY DEF Take, ExactInv, ExactTypeOK, JobsFit, Fits
<1>2. PICK i \in DOMAIN jobs : Newest(jobs) = jobs[i]
  BY <1>1, NewestIsQueued
<1>3. PICK job : job = jobs[i]
  OBVIOUS
<1>4. /\ job \in Jobs /\ Fits(job) /\ worker' = [worker EXCEPT ![t] = job] /\ jobs' = <<>>
      /\ worker \in [Threads -> Jobs \cup {Idle}]
  BY <1>1, <1>2, <1>3 DEF Take, ExactInv, ExactTypeOK, JobsFit
<1>5. /\ worker' \in [Threads -> Jobs \cup {Idle}] /\ worker'[t] = job
      /\ \A u \in Threads : u # t => worker'[u] = worker[u]
  BY <1>4
<1>6. /\ UNCHANGED <<team, alive, results, handle, previewSeq, view, base, versions>>
      /\ UNCHANGED <<cancelled, submitted, polled>> /\ t \in alive
  BY DEF Take, mesh, history
<1>7. ExactTypeOK'
  BY <1>4, <1>5, <1>6 DEF ExactInv, ExactTypeOK
<1>8. JobsFit'
  BY <1>4, <1>5, <1>6 DEF ExactInv, JobsFit, Fits
<1>9. ASSUME OneThread PROVE JobsInOrder'
  <2>1. JobsInOrder
    BY <1>9 DEF ExactInv
  <2>2. /\ polled.id < job.id /\ job.id <= submitted
        /\ \A r \in DOMAIN results : results[r].id < job.id
    BY <1>3, <2>1 DEF JobsInOrder
  <2> QED BY <1>4, <1>5, <1>6, <2>1, <2>2 DEF JobsInOrder
<1> QED BY <1>6, <1>7, <1>8, <1>9 DEF ExactInv, OneThread

\* A pool of one thread runs one job at a time.
LEMMA OneWorks ==
  ASSUME ExactInv, OneThread, NEW t \in Threads, worker[t] # Idle,
         NEW u \in Threads, worker[u] # Idle
  PROVE  t = u
<1>1. team \subseteq Threads /\ IsFiniteSet(team)
  BY ExactAssumption, FS_Subset DEF ExactInv, ExactTypeOK
<1>2. PICK x : team = {x}
  BY <1>1, FS_Singleton DEF OneThread
<1> QED BY <1>2 DEF ExactInv, ExactTypeOK

\* A result is sent, or the thread ends.
LEMMA FinishKeeps == ASSUME ExactInv, NEW t \in Threads, Finish(t) PROVE ExactInv'
<1>1. /\ worker \in [Threads -> Jobs \cup {Idle}] /\ worker[t] # Idle
      /\ worker' = [worker EXCEPT ![t] = Idle] /\ results \in Seq(Jobs)
  BY DEF Finish, ExactInv, ExactTypeOK
<1>2. PICK job \in Jobs : job = worker[t]
  BY <1>1
<1>3. /\ worker' \in [Threads -> Jobs \cup {Idle}] /\ worker'[t] = Idle
      /\ \A u \in Threads : u # t => worker'[u] = worker[u]
  BY <1>1
<1>4. /\ UNCHANGED <<team, jobs, handle, previewSeq, view, base, versions>>
      /\ UNCHANGED <<cancelled, submitted, polled>> /\ alive' \subseteq alive
  BY DEF Finish, mesh, history
<1>5. results' = results \/ results' = Append(results, job)
  BY <1>2 DEF Finish
<1>6. /\ results' \in Seq(Jobs)
      /\ \A i \in DOMAIN results' : results'[i] = job \/ \E k \in DOMAIN results : results'[i] = results[k]
  <2>1. CASE results' = results
    BY <1>1, <2>1
  <2>2. CASE results' = Append(results, job)
    BY <1>1, <2>2, AppendFacts
  <2> QED BY <1>5, <2>1, <2>2
<1>7. ExactTypeOK'
  BY <1>3, <1>4, <1>6 DEF ExactInv, ExactTypeOK
<1>8. JobsFit'
  <2>1. Fits(job)
    BY <1>1, <1>2 DEF ExactInv, JobsFit
  <2>2. ASSUME NEW i \in DOMAIN results' PROVE Fits(results[i])'
    <3>1. CASE results'[i] = job
      BY <1>4, <2>1, <3>1 DEF Fits
    <3>2. CASE \E k \in DOMAIN results : results'[i] = results[k]
      BY <1>4, <3>2 DEF ExactInv, JobsFit, Fits
    <3> QED BY <1>6, <3>1, <3>2
  <2>3. /\ \A i \in DOMAIN jobs : Fits(jobs[i])'
        /\ \A u \in Threads : worker'[u] # Idle => Fits(worker[u])'
    BY <1>3, <1>4 DEF ExactInv, JobsFit, Fits
  <2> QED BY <1>4, <2>2, <2>3 DEF JobsFit
<1>9. ASSUME OneThread PROVE JobsInOrder'
  <2>1. JobsInOrder
    BY <1>9 DEF ExactInv
  <2>2. \A u \in Threads : worker'[u] = Idle
    BY <1>1, <1>3, <1>9, OneWorks
  <2>3. polled.id < job.id /\ job.id <= submitted
        /\ \A j \in DOMAIN jobs : job.id < jobs[j].id
    BY <1>1, <1>2, <2>1 DEF JobsInOrder
  <2>4. ASSUME NEW r \in DOMAIN results'
        PROVE  /\ polled.id < results'[r].id /\ results'[r].id <= submitted
               /\ \A j \in DOMAIN jobs : results'[r].id < jobs[j].id
    BY <1>6, <2>1, <2>3 DEF JobsInOrder
  <2> QED BY <1>4, <2>1, <2>2, <2>4 DEF JobsInOrder
<1> QED BY <1>4, <1>7, <1>8, <1>9 DEF ExactInv, OneThread

\* Every step keeps the invariant.
LEMMA ExactNextKeeps == ExactInv /\ [ExactNext]_vars => ExactInv'
<1> SUFFICES ASSUME ExactInv, [ExactNext]_vars PROVE ExactInv'
  OBVIOUS
<1>1. ASSUME NEW fits \in BOOLEAN, Edit(fits) PROVE ExactInv'
  BY <1>1, NewVersionKeeps DEF Edit
<1>2. CASE Restore
  BY <1>2, NewVersionKeeps DEF Restore
<1>3. CASE Commit
  BY <1>3 DEF Commit, pool, history, ExactInv, ExactTypeOK, JobsFit, Fits, OneThread, JobsInOrder
<1>4. CASE Cancel
  BY <1>4 DEF Cancel, pool, ExactInv, ExactTypeOK, JobsFit, Fits, OneThread, JobsInOrder
<1>5. CASE Submit
  BY <1>5, SubmitKeeps
<1>6. CASE PollExact
  BY <1>6, PollKeeps
<1>7. CASE DropHandle
  <2>1. /\ results' = <<>> /\ handle' = FALSE
        /\ UNCHANGED <<team, jobs, worker, alive, mesh, history>>
    BY <1>7 DEF DropHandle
  <2>2. ExactTypeOK'
    <3>1. results' \in Seq(Jobs)
      BY <2>1
    <3> QED BY <2>1, <3>1 DEF mesh, history, ExactInv, ExactTypeOK
  <2>4. JobsFit'
    BY <2>1 DEF mesh, history, ExactInv, JobsFit, Fits
  <2>3. (OneThread => JobsInOrder)'
    BY <2>1 DEF mesh, history, ExactInv, OneThread, JobsInOrder
  <2> QED BY <2>2, <2>3, <2>4 DEF ExactInv
<1>8. ASSUME NEW t \in Threads, PoolLoop(t) PROVE ExactInv'
  <2>1. CASE HangUp(t)
    BY <2>1 DEF HangUp, mesh, history, ExactInv, ExactTypeOK, JobsFit, Fits, OneThread, JobsInOrder
  <2> QED BY <1>8, <2>1, TakeKeeps, FinishKeeps DEF PoolLoop
<1>9. CASE UNCHANGED vars
  BY <1>9 DEF vars, pool, mesh, history, ExactInv, ExactTypeOK, JobsFit, Fits, OneThread, JobsInOrder
<1> QED BY <1>1, <1>2, <1>3, <1>4, <1>5, <1>6, <1>7, <1>8, <1>9 DEF ExactNext

\* A job of the current preview renders what is on display, and one thread
\* keeps the order of the submissions (poll_exact, ExactWorker::submit).
THEOREM ExactInvariant == ExactSpec => []ExactInv
<1> QED BY ExactInitHolds, ExactNextKeeps, PTL DEF ExactSpec

\* Adopting an exact mesh changes what is on display only after a cancelled
\* preview, and a pool of one thread answers in submission order (decide_swap,
\* pool_loop, ExactWorker::try_recv).
THEOREM AdoptingKeepsTheView == ExactSpec => SwapKeepsTheView
<1> DEFINE Step == /\ polled' # polled /\ OneThread => polled'.id > polled.id
                   /\ adopted' # adopted /\ ~cancelled => view' = view
<1>1. ExactInv /\ [ExactNext]_vars => [Step]_vars
  <2> SUFFICES ASSUME ExactInv, ExactNext PROVE Step
    OBVIOUS
  <2>1. CASE PollExact
    <3>1. PICK i \in DOMAIN results : Newest(results) = results[i]
      BY <2>1, PollReturnsAResult DEF PollExact
    <3>2. results[i] \in Jobs /\ Fits(results[i]) /\ polled' = results[i]
      BY <2>1, <3>1 DEF PollExact, ExactInv, ExactTypeOK, JobsFit
    <3>3. OneThread => polled'.id > polled.id
      BY <3>1, <3>2 DEF ExactInv, JobsInOrder, ExactTypeOK, Jobs, NoJob, Idle
    <3>4. adopted' # adopted =>
            results[i].seq >= previewSeq /\ view' = results[i].snapshot
      BY <2>1, <3>1 DEF PollExact, Swap, KeepPreview, DecideSwap
    <3>5. adopted' # adopted /\ ~cancelled => view' = view
      BY <3>2, <3>4 DEF Fits, Jobs, ExactInv, ExactTypeOK
    <3> QED BY <3>3, <3>5
  <2>2. CASE ~PollExact
    <3>1. polled' = polled /\ adopted' = adopted
      BY <2>2 DEF ExactNext, Edit, Restore, NewVersion, Commit, Cancel, Submit, DropHandle,
         PoolLoop, Take, Finish, HangUp, history
    <3> QED BY <3>1
  <2> QED BY <2>1, <2>2
<1> QED BY <1>1, ExactInvariant, PTL DEF ExactSpec, SwapKeepsTheView
=============================================================================
