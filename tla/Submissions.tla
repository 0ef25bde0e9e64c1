----------------------------- MODULE Submissions -----------------------------
(***************************************************************************)
(* The submissions of one member to one Space: creation under an           *)
(* idempotency key, the rejection of content that is there already,        *)
(* resubmission after a revision request, and what a purge of what was     *)
(* published leaves.  Code: src/src/submissions/service.ts and             *)
(* repository.ts, findDuplicateCandidate of src/src/sources/repository.ts, *)
(* the tables of migrations 0003 and 0027, and finalizePurge of            *)
(* src/src/publication/repository.ts.                                      *)
(*                                                                         *)
(* Each step of a request is one statement or batch of D1.  A submission   *)
(* has the name of the request that inserts it.  Drafts, which nothing     *)
(* turns into submissions, and the pairing with an asset, which is in      *)
(* AssetIngestion, are left out.                                           *)
(***************************************************************************)
EXTENDS Requests

CONSTANTS
  SubmissionKeys,  \* idempotency keys
  Inputs,          \* what is submitted: title, Collection, visibility, content
  ContentOf        \* the content of each, as its hash tells it

VARIABLES
  submission,   \* submissions, with their source versions and duplicate_candidates
  spaceActive,  \* whether the Space takes submissions
  published     \* the knowledge item of each: None, active, trashed or gone

sources == <<submission, spaceActive, published>>
submissionsVars == <<sources, request>>

SubmissionType ==
  [key : SubmissionKeys, input : Inputs,
   status : {"review_pending", "published", "rejected", "revision_requested"},
   versioned : BOOLEAN,               \* whether it has its source version
   prior : Requests \cup {None},      \* supersedes_submission_id
   original : Requests \cup {None}]   \* canonical_submission_id

ASSUME SubmissionsAssumption ==
  None \notin Requests \cup SubmissionType \cup {"active", "trashed", "gone"}

SubmissionSteps ==
  {"new", "prior", "rejected", "candidate", "creation", "insert", "supersede", "concurrent",
   "converge", "target", "duplicate", "reject", "winner", "loser", "finalize"}

SubmissionAnswers == {"ok", "conflict", "missing", "target_invalid", "changed", "error"}

SubmissionRequest ==
  [op : {"none", "submit", "resubmit", "purge"},
   at : SubmissionSteps \cup SubmissionAnswers,
   key : SubmissionKeys \cup {None},
   input : Inputs \cup {None},
   prior : Requests \cup {None},      \* what is resubmitted, or purged
   answer : Requests \cup {None},     \* the submission it is answered with
   candidate : Requests \cup {None}]  \* duplicateCandidate

SubmissionsTypeOK ==
  /\ submission \in [Requests -> SubmissionType \cup {None}]
  /\ spaceActive \in BOOLEAN
  /\ published \in [Requests -> {"active", "trashed", "gone", None}]
  /\ request \in [Requests -> SubmissionRequest]

NoInput ==
  [op |-> "none", at |-> "new", key |-> None, input |-> None, prior |-> None,
   answer |-> None, candidate |-> None]

SubmissionsInit ==
  /\ submission = [r \in Requests |-> None]
  /\ spaceActive = TRUE
  /\ published = [r \in Requests |-> None]
  /\ request = [r \in Requests |-> NoInput]

Finds(r, change) == Do(r, change) /\ UNCHANGED sources

Steps(r, step) == Go(r, step) /\ UNCHANGED sources

Submitted == {s \in Requests : submission[s] # None}

OfKey(k) == {s \in Submitted : submission[s].key = k}

\* findCreationByIdempotencyKey: it joins the source version.
Creation(k) == {s \in OfKey(k) : submission[s].versioned}

\* findRejectedByIdempotencyKey, whoever rejected it.
RejectedUnder(k) == {s \in OfKey(k) : submission[s].status = "rejected"}

\* The source versions with the content of an input.
Stored(i) ==
  {s \in Submitted : submission[s].versioned /\ ContentOf[submission[s].input] = ContentOf[i]}

Answered(r, s, candidate) ==
  [request[r] EXCEPT !.at = "ok", !.answer = s, !.candidate = candidate]

-----------------------------------------------------------------------------
(* createWithSourceVersion and resubmit. *)

Submit(r, k, i) ==
  /\ At(r, "new")
  /\ Finds(r, [NoInput EXCEPT !.op = "submit", !.at = "rejected", !.key = k, !.input = i])

Resubmit(r, k, i, p) ==
  /\ At(r, "new") /\ p \in Submitted
  /\ Finds(r, [NoInput EXCEPT !.op = "resubmit", !.at = "prior", !.key = k, !.input = i,
                              !.prior = p])

IsResubmittable(p) == submission[p].status = "revision_requested"

\* findResubmittable
FindPrior(r) ==
  /\ At(r, "prior")
  /\ Steps(r, IF IsResubmittable(request[r].prior) THEN "creation" ELSE "missing")

FindRejected(r) ==
  /\ At(r, "rejected")
  /\ \/ RejectedUnder(request[r].key) = {} /\ Steps(r, "creation")
     \/ \E s \in RejectedUnder(request[r].key) :
          Finds(r, [request[r] EXCEPT !.at = "candidate", !.answer = s])

\* sameDuplicateSubmission
FindCandidate(r) ==
  LET s == request[r].answer IN
  /\ At(r, "candidate")
  /\ \/ /\ submission[s].input = request[r].input
        /\ \E d \in Stored(request[r].input) : Finds(r, Answered(r, s, d))
     \/ /\ submission[s].input # request[r].input \/ Stored(request[r].input) = {}
        /\ Finds(r, [request[r] EXCEPT !.at = "conflict", !.answer = None])

\* exactReplayOrThrow
IsReplay(r, s) ==
  submission[s].input = request[r].input /\ submission[s].prior = request[r].prior

\* The submission of the key is the answer, or there is none yet.
ReplayOr(r, otherwise) ==
  \/ Creation(request[r].key) = {} /\ Steps(r, otherwise)
  \/ \E s \in Creation(request[r].key) :
       Finds(r, IF IsReplay(r, s) THEN Answered(r, s, None)
                ELSE [request[r] EXCEPT !.at = "conflict"])

FindCreation(r) ==
  /\ At(r, "creation")
  /\ ReplayOr(r, IF request[r].op = "submit" THEN "insert" ELSE "supersede")

\* Mutant: the key is not unique.
KeyUnusedAlways(k) == OfKey(k) \subseteq Requests

\* UNIQUE (submitter_id, idempotency_key)
KeyUnused(k) == OfKey(k) = {}

\* A batch that adds a submission, or fails as the key has one.  Its answer may
\* be lost.
Adds(r, row, answer, failed) ==
  /\ IF KeyUnused(request[r].key)
     THEN /\ submission' = [submission EXCEPT ![r] = row]
          /\ Do(r, answer) \/ Go(r, failed)
     ELSE Go(r, failed) /\ UNCHANGED submission
  /\ UNCHANGED <<spaceActive, published>>

Row(r, status, original) ==
  [key |-> request[r].key, input |-> request[r].input, status |-> status,
   versioned |-> original = None, prior |-> request[r].prior, original |-> original]

\* Mutant: the same content is taken again.
IsNewAlways(r) == Stored(request[r].input) \subseteq Requests

IsNew(r) == Stored(request[r].input) = {}

Insert(r) ==
  /\ At(r, "insert")
  /\ IF spaceActive /\ IsNew(r)
     THEN Adds(r, Row(r, "review_pending", None), Answered(r, r, None), "concurrent")
     ELSE Steps(r, "converge")

\* createResubmissionWithSourceVersion; a batch that adds nothing fails
\* (changeGuard).
Supersede(r) ==
  /\ At(r, "supersede")
  /\ IF /\ spaceActive /\ IsResubmittable(request[r].prior)
        /\ submission[request[r].prior].key # request[r].key
     THEN Adds(r, Row(r, "review_pending", None), Answered(r, r, None), "concurrent")
     ELSE Steps(r, "concurrent")

\* The catch of both: without a submission of the key the failure is told.
FindConcurrent(r) ==
  /\ At(r, "concurrent")
  /\ ReplayOr(r, "error")

\* Nothing was inserted: it was there, the Space does not take it, or it is a
\* duplicate.
FindInserted(r) ==
  /\ At(r, "converge")
  /\ ReplayOr(r, "target")

CheckTarget(r) ==
  /\ At(r, "target")
  /\ Steps(r, IF spaceActive THEN "duplicate" ELSE "target_invalid")

FindDuplicate(r) ==
  /\ At(r, "duplicate")
  /\ \/ Stored(request[r].input) = {} /\ Steps(r, "error")
     \/ \E d \in Stored(request[r].input) :
          Finds(r, [request[r] EXCEPT !.at = "reject", !.candidate = d])

\* The row of duplicate_candidates needs its original.
Reject(r) ==
  LET d == request[r].candidate IN
  /\ At(r, "reject")
  /\ IF submission[d].versioned
     THEN Adds(r, Row(r, "rejected", d), Answered(r, r, d), "winner")
     ELSE Steps(r, "winner")

FindWinner(r) ==
  /\ At(r, "winner")
  /\ ReplayOr(r, "loser")

FindLoser(r) ==
  /\ At(r, "loser")
  /\ \/ \E s \in RejectedUnder(request[r].key) :
          /\ submission[s].input = request[r].input
          /\ Finds(r, Answered(r, s, request[r].candidate))
     \/ /\ \A s \in RejectedUnder(request[r].key) : submission[s].input # request[r].input
        /\ Steps(r, "error")

-----------------------------------------------------------------------------
(* What review and governance do.  An item is only trashed and purged here;  *)
(* how it is restored and what a purge makes of that is KnowledgeLifecycle.  *)

Decide(s, status) ==
  /\ s \in Submitted /\ submission[s].status = "review_pending"
  /\ submission' = [submission EXCEPT ![s].status = status]
  /\ published' = IF status = "published" THEN [published EXCEPT ![s] = "active"] ELSE published
  /\ UNCHANGED <<spaceActive, request>>

TrashItem(s) ==
  /\ published[s] = "active"
  /\ published' = [published EXCEPT ![s] = "trashed"]
  /\ UNCHANGED <<submission, spaceActive, request>>

ToggleSpace ==
  /\ spaceActive' = ~spaceActive
  /\ UNCHANGED <<submission, published, request>>

\* preparePurge, after which the Markdown is removed.
PurgeItem(r, s) ==
  /\ At(r, "new") /\ published[s] = "trashed"
  /\ Finds(r, [NoInput EXCEPT !.op = "purge", !.at = "finalize", !.prior = s])

\* The foreign keys of duplicate_candidates have no delete action.
Unreferenced(s) == \A t \in Submitted : submission[t].original # s

\* finalizePurge: the source version goes, or the batch fails.
FinalizePurge(r) ==
  LET s == request[r].prior IN
  /\ At(r, "finalize")
  /\ IF published[s] = "trashed" /\ Unreferenced(s)
     THEN /\ published' = [published EXCEPT ![s] = "gone"]
          /\ submission' = [submission EXCEPT ![s].versioned = FALSE]
          /\ Go(r, "ok")
     ELSE Go(r, "changed") /\ UNCHANGED <<submission, published>>
  /\ UNCHANGED spaceActive

SubmissionsNext ==
  \/ \E r \in Requests :
       \/ \E k \in SubmissionKeys, i \in Inputs :
            Submit(r, k, i) \/ \E p \in Requests : Resubmit(r, k, i, p)
       \/ FindPrior(r) \/ FindRejected(r) \/ FindCandidate(r) \/ FindCreation(r)
       \/ Insert(r) \/ Supersede(r) \/ FindConcurrent(r) \/ FindInserted(r) \/ CheckTarget(r)
       \/ FindDuplicate(r) \/ Reject(r) \/ FindWinner(r) \/ FindLoser(r)
       \/ (\E s \in Requests : PurgeItem(r, s)) \/ FinalizePurge(r)
  \/ \E s \in Requests :
       \/ \E status \in {"published", "rejected", "revision_requested"} : Decide(s, status)
       \/ TrashItem(s)
  \/ ToggleSpace

SubmissionsSpec == SubmissionsInit /\ [][SubmissionsNext]_submissionsVars

-----------------------------------------------------------------------------
\* A key stands for one submission: creations, resubmissions and their retries
\* that are answered under it are answered with the same one, and it is what
\* they asked for, also when review, a duplicate or a purge comes in between.
\* Only a creation that is told of a duplicate may be answered with a
\* resubmission, one of the same content that was rejected.
SameKeySameSubmission ==
  \A r \in Requests : request[r].op \in {"submit", "resubmit"} /\ At(r, "ok") =>
    LET s == request[r].answer IN
    /\ OfKey(request[r].key) = {s}
    /\ submission[s].input = request[r].input
    /\ \/ submission[s].prior = request[r].prior
       \/ request[r].candidate # None /\ submission[s].status = "rejected"

\* Content is taken once: two submissions of the same content are an original
\* and a resubmission, or one of them was purged; and a rejected duplicate names
\* an original that is still there.
OneOriginal ==
  \A s, t \in Submitted :
    /\ s # t /\ t \in Stored(submission[s].input)
         => \/ ~submission[s].versioned
            \/ submission[s].prior # None \/ submission[t].prior # None
    /\ submission[s].original = t => s # t /\ t \in Stored(submission[s].input)

\* What is called a duplicate is one of another submission.
DuplicateIsAnother ==
  \A r \in Requests : At(r, "ok") /\ request[r].candidate # None
    => request[r].candidate # request[r].answer

\* src/src/publication/repository.ts:867: rows that would make a purge abort are
\* removed in its batch; a purge that is refused because its item changed finds
\* that it did.
PurgeRefusalIsTrue ==
  \A r \in Requests : request[r].op = "purge" /\ At(r, "changed")
    => published[request[r].prior] # "trashed"
=============================================================================
