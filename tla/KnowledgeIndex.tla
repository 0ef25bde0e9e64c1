--------------------------- MODULE KnowledgeIndex ---------------------------
(***************************************************************************)
(* The search index of one knowledge item: its revisions, the index job    *)
(* of each revision, the rows of the full-text index, and the workers that *)
(* process jobs under a lease while the item is published, rolled back,    *)
(* trashed and restored.  Code: src/src/publication/repository.ts          *)
(* (processIndexJob and what it calls, finalize, rollback, changeLifecycle).*)
(*                                                                         *)
(* A worker is one call of processIndexJob: after a publication, after a   *)
(* lifecycle change or from a recovery run.  A batch writes or deletes all *)
(* rows of a revision at once, so the index is a set of revisions.  The    *)
(* name of a worker stands for the lease token it draws.                   *)
(***************************************************************************)
EXTENDS Naturals

CONSTANTS
  Revisions,     \* revisions of the item
  Workers,       \* concurrent calls of processIndexJob
  MaxAttempts,   \* MAX_INDEX_ATTEMPTS
  MaxClaims,     \* bound on attempts, for lease takeovers that never fail
  MaxChanges,    \* bound on lifecycle changes
  MaxFaults,     \* bound on D1 calls that fail and workers that die
  None

ASSUME IndexAssumption ==
  /\ MaxAttempts \in Nat /\ MaxClaims \in Nat
  /\ MaxChanges \in Nat /\ MaxFaults \in Nat
  /\ None \notin Revisions /\ None \notin Workers

VARIABLES
  status,      \* knowledge_items.status; "absent" before the first publication
  current,     \* knowledge_items.current_revision_id
  search,      \* knowledge_items.search_status
  reachable,   \* its Space and Collection are active
  job,         \* jobs of kind index_revision, one per revision
  expired,     \* whether the lease of a running job has run out
  fts,         \* revisions whose rows are in the full-text index
  pc, rev,     \* where a worker is and the revision it works on
  rows,        \* the revisions whose row ids it has read
  changes, faults

item   == <<status, current, search>>
jobs   == <<job, expired>>
worker == <<pc, rev, rows>>
bounds == <<changes, faults>>
vars   == <<item, reachable, jobs, fts, worker, bounds>>

JobType ==
  [state : {"absent", "pending", "running", "failed_retryable", "failed_terminal", "completed"},
   attempts : 0..MaxClaims, lease : Workers \cup {None}]

Steps == {"idle", "claimed", "removeAll", "removeOwn", "build",
          "commitRemoval", "commitIndex", "caught", "mark"}

TypeOK ==
  /\ status \in {"absent", "active", "trashed"}
  /\ current \in Revisions \cup {None}
  /\ search \in {"pending", "indexed", "search_degraded"}
  /\ reachable \in BOOLEAN
  /\ job \in [Revisions -> JobType]
  /\ expired \in [Revisions -> BOOLEAN]
  /\ fts \subseteq Revisions
  /\ pc \in [Workers -> Steps]
  /\ rev \in [Workers -> Revisions \cup {None}]
  /\ rows \in [Workers -> SUBSET Revisions]
  /\ changes \in 0..MaxChanges /\ faults \in 0..MaxFaults

NoJob == [state |-> "absent", attempts |-> 0, lease |-> None]
Fresh == [state |-> "pending", attempts |-> 0, lease |-> None]

Init ==
  /\ status = "absent" /\ current = None /\ search = "pending" /\ reachable = TRUE
  /\ job = [r \in Revisions |-> NoJob]
  /\ expired = [r \in Revisions |-> FALSE]
  /\ fts = {}
  /\ pc = [w \in Workers |-> "idle"]
  /\ rev = [w \in Workers |-> None]
  /\ rows = [w \in Workers |-> {}]
  /\ changes = 0 /\ faults = 0

-----------------------------------------------------------------------------
(* The item changes.  Each change is one guarded batch that also puts the   *)
(* job of the revision that is current afterwards back to pending.          *)

Change == changes < MaxChanges /\ changes' = changes + 1

\* A new job, or the old one with its attempts and its lease forgotten; a
\* pending job stays as it is.
Requeue(r) ==
  /\ job' = [job EXCEPT ![r] = IF @.state = "pending" THEN @ ELSE Fresh]
  /\ expired' = [expired EXCEPT ![r] = FALSE]

\* finalize: a new revision of a new or an active item becomes current.
Publish(r) ==
  /\ Change
  /\ job[r].state = "absent" /\ status \in {"absent", "active"}
  /\ status' = "active" /\ current' = r /\ search' = "pending"
  /\ Requeue(r)
  /\ UNCHANGED <<reachable, fts, worker, faults>>

Rollback(r) ==
  /\ Change
  /\ status = "active" /\ r # current /\ job[r].state # "absent"
  /\ current' = r /\ search' = "pending"
  /\ Requeue(r)
  /\ UNCHANGED <<status, reachable, fts, worker, faults>>

Transition(from, to) ==
  /\ Change
  /\ status = from
  /\ status' = to /\ search' = "pending"
  /\ Requeue(current)
  /\ UNCHANGED <<current, reachable, fts, worker, faults>>

Trash   == Transition("active", "trashed")
Restore == Transition("trashed", "active")

\* The Space or the Collection is archived or reactivated.
ToggleTarget ==
  /\ Change
  /\ reachable' = ~reachable
  /\ UNCHANGED <<item, jobs, fts, worker, faults>>

-----------------------------------------------------------------------------
(* processIndexJob *)

Holds(w) == rev[w] # None /\ job[rev[w]].state = "running" /\ job[rev[w]].lease = w

Goto(w, step) == pc' = [pc EXCEPT ![w] = step] /\ UNCHANGED <<rev, rows>>

Leave(w) ==
  /\ pc' = [pc EXCEPT ![w] = "idle"]
  /\ rev' = [rev EXCEPT ![w] = None]
  /\ rows' = [rows EXCEPT ![w] = {}]

\* Mutant: a lease that ran out is never taken over.
ClaimableOnce(r) ==
  /\ job[r].state \in {"pending", "failed_retryable"}
  /\ status = "trashed" \/ current # r \/ (status = "active" /\ reachable)

\* Waiting or abandoned, and either to be removed or reachable.
Claimable(r) ==
  /\ \/ job[r].state \in {"pending", "failed_retryable"}
     \/ job[r].state = "running" /\ expired[r]
  /\ status = "trashed" \/ current # r \/ (status = "active" /\ reachable)

\* The claiming UPDATE.  A claim that is refused ends the call without effect.
Claim(w, r) ==
  /\ pc[w] = "idle"
  /\ Claimable(r) /\ job[r].attempts < MaxClaims
  /\ job' = [job EXCEPT ![r] = [state |-> "running", attempts |-> @.attempts + 1, lease |-> w]]
  /\ expired' = [expired EXCEPT ![r] = FALSE]
  /\ pc' = [pc EXCEPT ![w] = "claimed"]
  /\ rev' = [rev EXCEPT ![w] = r]
  /\ UNCHANGED <<item, reachable, fts, rows, bounds>>

\* What the worker sees of its job decides what it will do.
Plan(w) ==
  IF ~Holds(w) THEN "caught"
  ELSE IF status = "trashed" THEN "removeAll"
  ELSE IF current # rev[w] THEN "removeOwn"
  ELSE "build"

ReadJob(w) ==
  /\ pc[w] = "claimed"
  /\ Goto(w, Plan(w))
  /\ UNCHANGED <<item, reachable, jobs, fts, bounds>>

\* Mutant: removing a trashed item only looks for the rows of its revision.
FoundOwn(w) == IF pc[w] = "build" THEN fts \ {rev[w]} ELSE fts \cap {rev[w]}
\* Mutant: indexing does not look for the rows of other revisions.
FoundNoOther(w) ==
  CASE pc[w] = "removeAll" -> fts
    [] pc[w] = "removeOwn" -> fts \cap {rev[w]}
    [] OTHER -> {}

\* The indexed rows of the item, of the revision, or of every other revision.
Found(w) ==
  CASE pc[w] = "removeAll" -> fts
    [] pc[w] = "removeOwn" -> fts \cap {rev[w]}
    [] OTHER -> fts \ {rev[w]}

ReadRows(w) ==
  /\ pc[w] \in {"removeAll", "removeOwn", "build"}
  /\ rows' = [rows EXCEPT ![w] = Found(w)]
  /\ pc' = [pc EXCEPT ![w] = IF @ = "build" THEN "commitIndex" ELSE "commitRemoval"]
  /\ UNCHANGED <<item, reachable, jobs, fts, rev, bounds>>

Finished(w) == [job EXCEPT ![rev[w]] = [@ EXCEPT !.state = "completed", !.lease = None]]

\* A batch that committed is not always known to have: the worker may find
\* itself in the catch block all the same.
Committed(w) == Leave(w) \/ Goto(w, "caught")

\* completeRemovedIndexJob: guarded by the lease alone.
CommitRemoval(w) ==
  /\ pc[w] = "commitRemoval"
  /\ IF Holds(w)
     THEN /\ fts' = fts \ rows[w]
          /\ job' = Finished(w)
          /\ Committed(w)
     ELSE UNCHANGED <<fts, job>> /\ Goto(w, "caught")
  /\ UNCHANGED <<item, reachable, expired, bounds>>

\* activeIndexTargetGuard.
MayIndex(w) == Holds(w) /\ status = "active" /\ current = rev[w] /\ reachable

CommitIndex(w) ==
  /\ pc[w] = "commitIndex"
  /\ IF MayIndex(w)
     THEN /\ fts' = (fts \ rows[w]) \cup {rev[w]}
          /\ search' = "indexed"
          /\ job' = Finished(w)
          /\ Committed(w)
     ELSE UNCHANGED <<fts, search, job>> /\ Goto(w, "caught")
  /\ UNCHANGED <<status, current, reachable, expired, bounds>>

\* A D1 call of the worker fails.
Fault(w) ==
  /\ faults < MaxFaults /\ faults' = faults + 1
  /\ pc[w] \notin {"idle", "caught", "mark"}
  /\ Goto(w, "caught")
  /\ UNCHANGED <<item, reachable, jobs, fts, changes>>

\* The catch block looks at the job again: one that is over, or was taken by
\* somebody else, is left alone.
Caught(w) ==
  /\ pc[w] = "caught"
  /\ IF Holds(w) THEN Goto(w, "mark") ELSE Leave(w)
  /\ UNCHANGED <<item, reachable, jobs, fts, bounds>>

AfterFailure(j) ==
  IF j.attempts >= MaxAttempts THEN "failed_terminal" ELSE "failed_retryable"

\* commitIndexFailure, guarded by the lease.
MarkFailure(w) ==
  /\ pc[w] = "mark"
  /\ Leave(w)
  /\ IF Holds(w)
     THEN /\ fts' = fts \ {rev[w]}
          /\ search' = IF current = rev[w] /\ status = "active" THEN "search_degraded" ELSE search
          /\ job' = [job EXCEPT ![rev[w]] =
                       [@ EXCEPT !.state = AfterFailure(job[rev[w]]), !.lease = None]]
     ELSE UNCHANGED <<fts, search, job>>
  /\ UNCHANGED <<status, current, reachable, expired, bounds>>

\* The worker dies, or marking its failure fails too; its lease stays.
Die(w) ==
  /\ faults < MaxFaults /\ faults' = faults + 1
  /\ pc[w] # "idle"
  /\ Leave(w)
  /\ UNCHANGED <<item, reachable, jobs, fts, changes>>

\* INDEX_LEASE_MS have passed, whether or not the holder still works.
Expire(r) ==
  /\ job[r].state = "running" /\ ~expired[r]
  /\ expired' = [expired EXCEPT ![r] = TRUE]
  /\ UNCHANGED <<item, reachable, job, fts, worker, bounds>>

Step(w) ==
  \/ ReadJob(w) \/ ReadRows(w) \/ CommitRemoval(w) \/ CommitIndex(w)
  \/ Caught(w) \/ MarkFailure(w)

Next ==
  \/ \E r \in Revisions : Publish(r) \/ Rollback(r) \/ Expire(r)
  \/ Trash \/ Restore \/ ToggleTarget
  \/ \E w \in Workers : Step(w) \/ Fault(w) \/ Die(w) \/ \E r \in Revisions : Claim(w, r)

Spec == Init /\ [][Next]_vars

\* Recovery keeps processing the jobs it lists, a call that has started goes
\* on, and time passes.
Fairness ==
  /\ \A w \in Workers : WF_vars(Step(w))
  /\ \A r \in Revisions : WF_vars(Expire(r)) /\ SF_vars(\E w \in Workers : Claim(w, r))

FairSpec == Spec /\ Fairness

-----------------------------------------------------------------------------
(* Properties *)

Indexed == job[current].state = "completed"

\* Once the job of the current revision is over, no other revision of an
\* active item can be found: a superseded revision never stays searchable,
\* whatever workers of older jobs still did.
OnlyCurrentIsFound == status = "active" /\ Indexed => fts \subseteq {current}

\* Once the job of a trashed item is over, nothing of it can be found.
TrashedIsNotFound == status = "trashed" /\ Indexed => fts = {}

\* An item says it is indexed only while the job of its current revision is
\* completed, so a change of the item is never hidden by the status of the
\* revision before.
IndexedStatusIsCurrent == status = "active" /\ search = "indexed" => Indexed

\* One worker at a time holds a job, and it is the one that works on it for
\* the state it read: a worker about to index holds its lease only while its
\* revision is current and the item active, one about to remove only while it
\* is not.
LeaseMatchesItem ==
  \A w \in Workers :
    Holds(w) /\ rev[w] = current =>
      /\ pc[w] \in {"build", "commitIndex"} => status = "active"
      /\ pc[w] \in {"removeAll", "removeOwn"} => status = "trashed"

\* While the Space stays active and the item is left alone, its job ends.
JobEnds ==
  <>[](status # "absent" /\ (status = "trashed" \/ reachable)) =>
    <>[](status # "absent" /\ job[current].state \in {"completed", "failed_terminal"})

\* docs/superpowers/specs/2026-08-22-m1-gate-completion-design.md:78: "Current
\* Revision switching, retry, degraded recovery, and any future trash
\* transition update or remove the same Revision's FTS rows
\* deterministically."  So an item that says it is indexed can be found.
IndexedIsFound == status = "active" /\ search = "indexed" => current \in fts
=============================================================================
