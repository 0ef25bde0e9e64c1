------------------------ MODULE KnowledgeIndex_proofs ------------------------
(* Machine-checked proofs about KnowledgeIndex, for any number of revisions *)
(* and workers and any bounds.                                              *)
EXTENDS KnowledgeIndex, TLAPS

\* A job has a lease exactly while it runs; the current revision has a job.
JobsInv ==
  /\ \A r \in Revisions : job[r].state = "running" <=> job[r].lease # None
  /\ status = "absent" <=> current = None
  /\ current # None => job[current].state # "absent"

\* A worker has a revision exactly while it works.
WorkersInv == \A w \in Workers : pc[w] # "idle" <=> rev[w] # None

\* What the holder of the job of the current revision knows.  Every change of
\* the item takes the lease away, so what it read of the item still holds; and
\* the index only grows through the holder itself, so the rows it found are
\* still all the rows there are.
HolderInv ==
  \A w \in Workers :
    Holds(w) /\ rev[w] = current =>
      /\ pc[w] \in {"build", "commitIndex"} => status = "active"
      /\ pc[w] \in {"removeAll", "commitRemoval"} => status = "trashed"
      /\ pc[w] # "removeOwn"
      /\ pc[w] = "commitIndex" => fts \subseteq rows[w] \cup {current}
      /\ pc[w] = "commitRemoval" => fts \subseteq rows[w]

IndexInv ==
  /\ OnlyCurrentIsFound /\ TrashedIsNotFound /\ IndexedStatusIsCurrent

Inv == TypeOK /\ JobsInv /\ WorkersInv /\ HolderInv /\ IndexInv

\* Before the first publication there are no jobs and no rows.
LEMMA InitInv == Init => Inv
BY IndexAssumption DEF Init, Inv, TypeOK, JobType, Steps, NoJob, JobsInv, WorkersInv, HolderInv,
   Holds, IndexInv, OnlyCurrentIsFound, TrashedIsNotFound, IndexedStatusIsCurrent

\* Requeuing leaves a pending job without a lease.
LEMMA RequeueResult ==
  ASSUME TypeOK, JobsInv, NEW r \in Revisions, Requeue(r)
  PROVE  /\ job' \in [Revisions -> JobType] /\ expired' \in [Revisions -> BOOLEAN]
         /\ job'[r].state = "pending" /\ job'[r].lease = None
         /\ \A q \in Revisions \ {r} : job'[q] = job[q]
BY IndexAssumption DEF TypeOK, JobType, JobsInv, Requeue, Fresh

\* A change of the item leaves a current revision whose job nobody holds.
LEMMA ChangeInv ==
  ASSUME Inv, NEW r \in Revisions, Requeue(r),
         Change, current' = r, search' = "pending",
         status' \in {"active", "trashed"},
         UNCHANGED <<fts, worker, faults>>, reachable' \in BOOLEAN
  PROVE  Inv'
<1> USE DEF Inv
<1>1. /\ job' \in [Revisions -> JobType] /\ expired' \in [Revisions -> BOOLEAN]
      /\ job'[r].state = "pending" /\ job'[r].lease = None
      /\ \A q \in Revisions \ {r} : job'[q] = job[q]
  BY RequeueResult
<1>2. TypeOK'
  BY <1>1, IndexAssumption DEF TypeOK, Change, worker
<1>3. JobsInv'
  BY <1>1, IndexAssumption DEF JobsInv
<1>4. WorkersInv'
  BY DEF WorkersInv, worker
<1>5. HolderInv'
  BY <1>1 DEF HolderInv, Holds, worker
<1>6. IndexInv'
  BY <1>1 DEF IndexInv, OnlyCurrentIsFound, TrashedIsNotFound, IndexedStatusIsCurrent, Indexed
<1> QED BY <1>2, <1>3, <1>4, <1>5, <1>6

\* Publication, rollback, trash and restore are such changes; a target that is
\* archived and a lease that runs out change nothing the invariant looks at.
LEMMA ItemInv ==
  ASSUME Inv,
         \/ \E r \in Revisions : Publish(r) \/ Rollback(r) \/ Expire(r)
         \/ Trash \/ Restore \/ ToggleTarget
  PROVE  Inv'
<1>1. ASSUME NEW r \in Revisions, Publish(r) \/ Rollback(r) PROVE Inv'
  BY <1>1, ChangeInv DEF Publish, Rollback, Inv, TypeOK
<1>2. CASE Trash \/ Restore
  <2>1. current \in Revisions
    BY <1>2 DEF Trash, Restore, Transition, Inv, TypeOK, JobsInv
  <2> QED BY <1>2, <2>1, ChangeInv DEF Trash, Restore, Transition, Inv, TypeOK
<1>3. ASSUME ToggleTarget \/ \E r \in Revisions : Expire(r) PROVE Inv'
  <2> USE <1>3 DEF ToggleTarget, Expire, Change, item, worker, jobs, bounds, Inv
  <2>1. TypeOK'
    <3>1. reachable' \in BOOLEAN
      BY DEF TypeOK
    <3>2. expired' \in [Revisions -> BOOLEAN]
      BY DEF TypeOK
    <3>3. changes' \in 0..MaxChanges
      BY IndexAssumption DEF TypeOK
    <3> QED BY <3>1, <3>2, <3>3 DEF TypeOK
  <2>2. (JobsInv /\ WorkersInv)'
    BY DEF JobsInv, WorkersInv
  <2>3. HolderInv'
    BY DEF HolderInv, Holds
  <2>4. IndexInv'
    BY DEF IndexInv, OnlyCurrentIsFound, TrashedIsNotFound, IndexedStatusIsCurrent, Indexed
  <2> QED BY <2>1, <2>2, <2>3, <2>4
<1> QED BY <1>1, <1>2, <1>3

\* A claimed job has one holder, which has not read anything yet.
LEMMA ClaimInv ==
  ASSUME Inv, NEW w \in Workers, NEW r \in Revisions, Claim(w, r)
  PROVE  Inv'
<1> USE IndexAssumption DEF Inv, Claim, item, bounds
<1>1. TypeOK'
  BY DEF TypeOK, JobType, Steps
<1>2. JobsInv'
  BY DEF JobsInv, TypeOK, JobType
<1>3. WorkersInv'
  BY DEF WorkersInv, TypeOK
<1>4. HolderInv'
  BY DEF HolderInv, Holds, TypeOK, JobType
<1>5. IndexInv'
  <2>1. job'[current].state = "completed" => job[current].state = "completed"
    BY DEF TypeOK, JobType
  <2>2. Claimable(r) => job[r].state # "completed"
    BY DEF Claimable
  <2> QED BY <2>1, <2>2 DEF IndexInv, OnlyCurrentIsFound, TrashedIsNotFound,
             IndexedStatusIsCurrent, Indexed, TypeOK, JobType
<1> QED BY <1>1, <1>2, <1>3, <1>4, <1>5

\* A worker that reads, gives up or dies changes only what it knows.
LEMMA LocalInv ==
  ASSUME Inv, NEW w \in Workers,
         ReadJob(w) \/ ReadRows(w) \/ Caught(w) \/ Fault(w) \/ Die(w)
  PROVE  Inv'
<1> USE IndexAssumption DEF Inv, ReadJob, ReadRows, Caught, Fault, Die, Goto, Leave, item, bounds, jobs
<1>1. TypeOK'
  <2>1. CASE ReadJob(w)
    BY <2>1 DEF TypeOK, Steps, Plan
  <2>2. CASE ReadRows(w)
    <3>1. Found(w) \in SUBSET Revisions
      BY <2>2 DEF Found, TypeOK
    <3> QED BY <2>2, <3>1 DEF TypeOK, Steps
  <2>3. CASE Caught(w) \/ Fault(w) \/ Die(w)
    BY <2>3 DEF TypeOK, Steps
  <2> QED BY <2>1, <2>2, <2>3
<1>2. JobsInv' /\ IndexInv'
  BY DEF JobsInv, IndexInv, OnlyCurrentIsFound, TrashedIsNotFound, IndexedStatusIsCurrent, Indexed
<1>3. WorkersInv'
  BY DEF WorkersInv, TypeOK, Plan
<1>4. HolderInv'
  <2>1. CASE ReadJob(w)
    BY <2>1 DEF HolderInv, Holds, Plan, TypeOK, JobsInv
  <2>2. CASE ReadRows(w)
    BY <2>2 DEF HolderInv, Holds, Found, TypeOK
  <2>3. CASE Caught(w) \/ Fault(w) \/ Die(w)
    BY <2>3 DEF HolderInv, Holds, TypeOK
  <2> QED BY <2>1, <2>2, <2>3
<1> QED BY <1>1, <1>2, <1>3, <1>4

\* Giving a job back leaves it in its new state without a lease, and every
\* other job alone.
LEMMA ReleaseResult ==
  ASSUME TypeOK, NEW w \in Workers, Holds(w),
         NEW s \in {"failed_retryable", "failed_terminal", "completed"},
         job' = [job EXCEPT ![rev[w]] = [@ EXCEPT !.state = s, !.lease = None]]
  PROVE  /\ job' \in [Revisions -> JobType]
         /\ rev[w] \in Revisions
         /\ job'[rev[w]].state = s /\ job'[rev[w]].lease = None
         /\ \A q \in Revisions \ {rev[w]} : job'[q] = job[q]
<1>1. rev[w] \in Revisions
  BY IndexAssumption DEF TypeOK, Holds
<1>2. job[rev[w]] \in JobType
  BY <1>1 DEF TypeOK
<1>3. [job[rev[w]] EXCEPT !.state = s, !.lease = None] \in JobType
  BY <1>2 DEF JobType
<1> QED BY <1>1, <1>2, <1>3 DEF TypeOK, JobType

\* Removing rows only completes the job of the current revision when the item
\* is trashed, and then nothing is left.
LEMMA CommitRemovalInv ==
  ASSUME Inv, NEW w \in Workers, CommitRemoval(w)
  PROVE  Inv'
<1> USE DEF Inv
<1>0. Holds(w) => /\ job' \in [Revisions -> JobType]
            /\ rev[w] \in Revisions
            /\ job'[rev[w]].state = "completed" /\ job'[rev[w]].lease = None
            /\ \A q \in Revisions \ {rev[w]} : job'[q] = job[q]
  BY ReleaseResult DEF CommitRemoval, Finished
<1> USE IndexAssumption DEF CommitRemoval, Committed, Leave, Goto, item, bounds
<1>1. TypeOK'
  BY <1>0 DEF TypeOK, Steps
<1>2. JobsInv'
  BY <1>0 DEF JobsInv, TypeOK
<1>3. WorkersInv'
  BY DEF WorkersInv, TypeOK
<1>4. HolderInv'
  BY <1>0 DEF HolderInv, Holds, TypeOK
<1>5. IndexInv'
  <2>1. CASE Holds(w) /\ rev[w] = current
    BY <1>0, <2>1 DEF IndexInv, OnlyCurrentIsFound, TrashedIsNotFound, IndexedStatusIsCurrent,
           Indexed, HolderInv, TypeOK, JobsInv
  <2>2. CASE Holds(w) /\ rev[w] # current
    <3>1. current \in Revisions => job'[current] = job[current]
      BY <1>0, <2>2 DEF TypeOK
    <3> QED BY <2>2, <3>1 DEF IndexInv, OnlyCurrentIsFound, TrashedIsNotFound,
               IndexedStatusIsCurrent, Indexed, TypeOK, JobsInv
  <2>3. CASE ~Holds(w)
    BY <2>3 DEF IndexInv, OnlyCurrentIsFound, TrashedIsNotFound, IndexedStatusIsCurrent, Indexed
  <2> QED BY <2>1, <2>2, <2>3
<1> QED BY <1>1, <1>2, <1>3, <1>4, <1>5

\* Indexing leaves exactly the current revision.
LEMMA CommitIndexInv ==
  ASSUME Inv, NEW w \in Workers, CommitIndex(w)
  PROVE  Inv'
<1> USE DEF Inv
<1>0. MayIndex(w) => /\ job' \in [Revisions -> JobType]
            /\ rev[w] \in Revisions
            /\ job'[rev[w]].state = "completed" /\ job'[rev[w]].lease = None
            /\ \A q \in Revisions \ {rev[w]} : job'[q] = job[q]
  BY ReleaseResult DEF CommitIndex, Finished, MayIndex
<1> USE IndexAssumption DEF CommitIndex, MayIndex, Committed, Leave, Goto, item, bounds
<1>1. TypeOK'
  BY <1>0 DEF TypeOK, Steps
<1>2. JobsInv'
  BY <1>0 DEF JobsInv, TypeOK
<1>3. WorkersInv'
  BY DEF WorkersInv, TypeOK
<1>4. HolderInv'
  BY <1>0 DEF HolderInv, Holds, TypeOK
<1>5. IndexInv'
  BY <1>0 DEF IndexInv, OnlyCurrentIsFound, TrashedIsNotFound, IndexedStatusIsCurrent, Indexed,
         HolderInv, Holds, TypeOK
<1> QED BY <1>1, <1>2, <1>3, <1>4, <1>5

\* A failure takes rows away and never completes a job.
LEMMA MarkFailureInv ==
  ASSUME Inv, NEW w \in Workers, MarkFailure(w)
  PROVE  Inv'
<1> USE DEF Inv
<1>0. Holds(w) => /\ job' \in [Revisions -> JobType]
            /\ rev[w] \in Revisions
            /\ job'[rev[w]].state = AfterFailure(job[rev[w]]) /\ job'[rev[w]].lease = None
            /\ \A q \in Revisions \ {rev[w]} : job'[q] = job[q]
  BY ReleaseResult DEF MarkFailure, AfterFailure
<1> USE IndexAssumption DEF MarkFailure, Leave, item, bounds
<1>1. TypeOK'
  BY <1>0 DEF TypeOK, Steps
<1>2. JobsInv'
  BY <1>0 DEF JobsInv, TypeOK, AfterFailure
<1>3. WorkersInv'
  BY DEF WorkersInv, TypeOK
<1>4. HolderInv'
  BY <1>0 DEF HolderInv, Holds, TypeOK
<1>5. IndexInv'
  <2>1. CASE Holds(w) /\ rev[w] = current
    BY <1>0, <2>1 DEF IndexInv, OnlyCurrentIsFound, TrashedIsNotFound, IndexedStatusIsCurrent,
           Indexed, AfterFailure, TypeOK, JobsInv
  <2>2. CASE Holds(w) /\ rev[w] # current
    <3>1. current \in Revisions => job'[current] = job[current]
      BY <1>0, <2>2 DEF TypeOK
    <3> QED BY <2>2, <3>1 DEF IndexInv, OnlyCurrentIsFound, TrashedIsNotFound,
               IndexedStatusIsCurrent, Indexed, TypeOK, JobsInv
  <2>3. CASE ~Holds(w)
    BY <2>3 DEF IndexInv, OnlyCurrentIsFound, TrashedIsNotFound, IndexedStatusIsCurrent, Indexed
  <2> QED BY <2>1, <2>2, <2>3
<1> QED BY <1>1, <1>2, <1>3, <1>4, <1>5

\* The inductive invariant holds of every behaviour of the index.
THEOREM Invariance == Spec => []Inv
<1>1. Inv /\ UNCHANGED vars => Inv'
  BY DEF vars, item, jobs, worker, bounds, Inv, TypeOK, JobsInv, WorkersInv, HolderInv, Holds,
         IndexInv, OnlyCurrentIsFound, TrashedIsNotFound, IndexedStatusIsCurrent, Indexed
<1>2. Inv /\ Next => Inv'
  BY ItemInv, ClaimInv, LocalInv, CommitRemovalInv, CommitIndexInv, MarkFailureInv DEF Next, Step
<1> QED BY InitInv, <1>1, <1>2, PTL DEF Spec

\* Every state of the index is well typed.
THEOREM TypeCorrect == Spec => []TypeOK
BY Invariance, PTL DEF Inv

\* A superseded revision of an active item does not stay in the index.
THEOREM SupersededCorrect == Spec => []OnlyCurrentIsFound
BY Invariance, PTL DEF Inv, IndexInv

\* Nothing of a trashed item stays in the index.
THEOREM TrashedCorrect == Spec => []TrashedIsNotFound
BY Invariance, PTL DEF Inv, IndexInv

\* The item's status is that of its current revision's job.
THEOREM StatusCorrect == Spec => []IndexedStatusIsCurrent
BY Invariance, PTL DEF Inv, IndexInv

\* The holder of the current revision's job works for the item as it is.
THEOREM LeaseCorrect == Spec => []LeaseMatchesItem
<1>1. Inv => LeaseMatchesItem
  BY DEF Inv, HolderInv, LeaseMatchesItem
<1> QED BY <1>1, Invariance, PTL

-----------------------------------------------------------------------------
(* What is indexed can be found, as long as the item is not restored. *)

\* While the item is not in the trash, a worker that may still remove rows has
\* found those of its own revision only.
RemovesItsOwn ==
  status # "trashed" =>
    \A w \in Workers : Holds(w) =>
      /\ pc[w] # "removeAll"
      /\ pc[w] = "commitRemoval" => rows[w] \subseteq {rev[w]}

FoundInv == RemovesItsOwn /\ IndexedIsFound

\* A change of the item but its restoration.
LEMMA ChangeFound ==
  ASSUME Inv, FoundInv,
         (\E r \in Revisions : Publish(r) \/ Rollback(r)) \/ Trash
  PROVE  FoundInv'
<1>1. search' = "pending" /\ UNCHANGED worker
  BY DEF Publish, Rollback, Trash, Transition
<1>2. CASE Trash
  BY <1>1, <1>2 DEF Trash, Transition, FoundInv, RemovesItsOwn, IndexedIsFound
<1>3. ASSUME NEW r \in Revisions, Publish(r) \/ Rollback(r)
      PROVE  FoundInv'
  <2>1. /\ job'[r].lease = None /\ job'[r].state = "pending"
        /\ \A q \in Revisions \ {r} : job'[q] = job[q]
        /\ status # "trashed"
    BY <1>3, RequeueResult DEF Publish, Rollback, Inv
  <2>2. \A w \in Workers : Holds(w)' => Holds(w)
    BY <1>1, <2>1 DEF Holds, worker, Inv, TypeOK
  <2> QED
    BY <1>1, <2>1, <2>2 DEF FoundInv, RemovesItsOwn, IndexedIsFound, worker
<1> QED
  BY <1>2, <1>3

\* A step of a worker that leaves the index and the item alone.
LEMMA LocalFound ==
  ASSUME Inv, FoundInv, NEW w \in Workers,
         \/ ReadJob(w) \/ ReadRows(w) \/ Caught(w) \/ Fault(w) \/ Die(w)
         \/ \E r \in Revisions : Claim(w, r)
  PROVE  FoundInv'
<1>1. UNCHANGED <<item, fts>>
  BY DEF ReadJob, ReadRows, Caught, Fault, Die, Claim
<1>2. IndexedIsFound'
  BY <1>1 DEF item, FoundInv, IndexedIsFound
<1>3. CASE \E r \in Revisions : Claim(w, r)
  <2>1. PICK r \in Revisions : Claim(w, r)
    BY <1>3
  <2>2. /\ job'[r].lease = w /\ \A q \in Revisions : q # r => job'[q] = job[q]
        /\ pc'[w] = "claimed"
        /\ \A u \in Workers : u # w => pc'[u] = pc[u] /\ rev'[u] = rev[u]
        /\ UNCHANGED rows
    BY <2>1 DEF Claim, Inv, TypeOK, JobType
  <2>3. \A u \in Workers : u # w /\ Holds(u)' => Holds(u)
    BY <2>2 DEF Holds, Inv, TypeOK
  <2> QED
    BY <1>1, <1>2, <2>2, <2>3 DEF item, FoundInv, RemovesItsOwn
<1>4. CASE ~\E r \in Revisions : Claim(w, r)
  <2>1. UNCHANGED job
    BY <1>4 DEF ReadJob, ReadRows, Caught, Fault, Die, jobs
  <2>2. \A u \in Workers : u # w =>
          pc'[u] = pc[u] /\ rev'[u] = rev[u] /\ rows'[u] = rows[u]
    BY <1>4 DEF ReadJob, ReadRows, Caught, Fault, Die, Goto, Leave, Inv, TypeOK
  <2>3. \/ pc'[w] \notin {"removeAll", "commitRemoval"}
        \/ pc'[w] = "removeAll" /\ status = "trashed"
        \/ /\ pc'[w] = "commitRemoval" /\ UNCHANGED rev
           /\ pc[w] \in {"removeAll", "removeOwn"} /\ rows'[w] = Found(w)
    BY <1>4 DEF ReadJob, Plan, ReadRows, Caught, Fault, Die, Goto, Leave, Inv, TypeOK
  <2>4. pc[w] = "removeOwn" => Found(w) \subseteq {rev[w]}
    BY DEF Found
  <2> QED
    BY <1>1, <1>2, <2>1, <2>2, <2>3, <2>4 DEF item, FoundInv, RemovesItsOwn, Holds
<1> QED
  BY <1>3, <1>4

\* Rows are removed of another revision, or of an item that is not indexed.
LEMMA CommitFound ==
  ASSUME Inv, FoundInv, NEW w \in Workers,
         CommitRemoval(w) \/ CommitIndex(w) \/ MarkFailure(w)
  PROVE  FoundInv'
<1>1. UNCHANGED <<status, current>>
  BY DEF CommitRemoval, CommitIndex, MarkFailure, item
<1>2. /\ \A u \in Workers : u # w =>
           pc'[u] = pc[u] /\ rev'[u] = rev[u] /\ rows'[u] = rows[u]
      /\ pc'[w] \in {"idle", "caught"}
  BY DEF CommitRemoval, CommitIndex, MarkFailure, Committed, Goto, Leave, Inv, TypeOK
<1>3. \A u \in Workers : u # w /\ Holds(u)' => Holds(u)
  <2> SUFFICES ASSUME NEW u \in Workers, u # w, Holds(u)'
      PROVE  Holds(u)
    OBVIOUS
  <2>1. CASE UNCHANGED job
    BY <1>2, <2>1 DEF Holds
  <2>2. CASE ~UNCHANGED job
    <3>1. /\ Holds(w) /\ rev[w] \in Revisions /\ job'[rev[w]].lease = None
          /\ \A q \in Revisions \ {rev[w]} : job'[q] = job[q]
      BY <2>2, ReleaseResult
         DEF CommitRemoval, CommitIndex, MarkFailure, MayIndex, Finished, AfterFailure, Inv
    <3> QED
      BY <1>2, <3>1, IndexAssumption DEF Holds, Inv, TypeOK
  <2> QED
    BY <2>1, <2>2
<1>4. RemovesItsOwn'
  BY <1>1, <1>2, <1>3 DEF FoundInv, RemovesItsOwn
<1>5. IndexedIsFound'
  <2>1. CASE CommitRemoval(w)
    <3>1. UNCHANGED search
      BY <2>1 DEF CommitRemoval, item
    <3>2. status = "active" /\ Holds(w) => rev[w] # current /\ rows[w] \subseteq {rev[w]}
      BY <2>1 DEF CommitRemoval, FoundInv, RemovesItsOwn, Inv, HolderInv
    <3> QED
      BY <1>1, <2>1, <3>1, <3>2 DEF CommitRemoval, FoundInv, IndexedIsFound
  <2>2. CASE CommitIndex(w)
    BY <1>1, <2>2 DEF CommitIndex, MayIndex, FoundInv, IndexedIsFound
  <2>3. CASE MarkFailure(w)
    BY <1>1, <2>3 DEF MarkFailure, FoundInv, IndexedIsFound
  <2> QED
    BY <2>1, <2>2, <2>3
<1> QED
  BY <1>4, <1>5 DEF FoundInv

\* An item that says it is indexed can be found, whatever else happens to it, as
\* long as it is not restored: that a worker of an older revision, which saw the
\* item in the trash, outlives its restoration is the only way to lose its rows.
THEOREM LostOnlyByRestore == Spec /\ [][~Restore]_vars => []IndexedIsFound
<1>1. Init => FoundInv
  BY IndexAssumption DEF Init, FoundInv, RemovesItsOwn, IndexedIsFound, Holds
<1>2. Inv /\ FoundInv /\ [Next]_vars /\ [~Restore]_vars => FoundInv'
  <2> SUFFICES ASSUME Inv, FoundInv, [Next]_vars, [~Restore]_vars
      PROVE  FoundInv'
    OBVIOUS
  <2>1. CASE \/ UNCHANGED vars
             \/ ToggleTarget \/ \E r \in Revisions : Expire(r)
    BY <2>1 DEF vars, item, jobs, worker, ToggleTarget, Expire, FoundInv, RemovesItsOwn,
                IndexedIsFound, Holds
  <2>2. CASE Next /\ ~Restore
    BY <2>1, <2>2, ChangeFound, LocalFound, CommitFound DEF Next, Step
  <2> QED
    BY <2>1, <2>2
<1>3. FoundInv => IndexedIsFound
  BY DEF FoundInv
<1> QED
  BY <1>1, <1>2, <1>3, Invariance, PTL DEF Spec
=============================================================================
