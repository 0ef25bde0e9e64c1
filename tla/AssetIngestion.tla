--------------------------- MODULE AssetIngestion ---------------------------
(***************************************************************************)
(* The binary assets of one owner, in two stores: rows in D1 (an asset and *)
(* its parse job) and objects in R2 (the original under staging/<id>, the  *)
(* parsed Markdown under parsed/<id>.md).  Code: src/src/assets/service.ts *)
(* and repository.ts, the submit route of src/src/routes/member.ts and     *)
(* createWithSourceVersion of src/src/submissions/repository.ts.           *)
(*                                                                         *)
(* An upload is one POST with its idempotency key; the asset it makes has  *)
(* the upload's name, as each upload draws a fresh id.  A worker is any    *)
(* other request, or the cron sweep, at work on one asset.  A fault is a   *)
(* call that throws, with or without having had its effect, or a process   *)
(* that dies.  Every asset has size one, and Capacity such assets fit.     *)
(***************************************************************************)
EXTENDS Naturals, FiniteSets

CONSTANTS
  Uploads,       \* upload requests, and the ids of the assets they create
  Keys,          \* idempotency keys of the owner
  Workers,       \* requests and sweeps acting on assets
  Capacity,      \* maxTotalBytes
  MaxAttempts,   \* claims a job is given before an administrator resets it
  MaxRetries,    \* bound on those resets
  MaxFaults,     \* bound on faults
  None

JobStates == {"queued", "processing", "succeeded", "failed_retryable", "failed_terminal"}

RowType ==
  [key : Keys, status : {"ready", "failed"}, job : JobStates,
   attempts : 0..MaxAttempts, paired : BOOLEAN]

ASSUME AssetAssumption ==
  /\ Capacity \in Nat /\ MaxAttempts \in Nat
  /\ MaxRetries \in Nat /\ MaxFaults \in Nat
  /\ None \notin Uploads /\ None \notin Keys /\ None \notin RowType

VARIABLES
  row,          \* the assets that exist, with their parse jobs
  submission,   \* assets named by a row of submissions
  staging,      \* objects staging/<id>
  parsed,       \* objects parsed/<id>.md
  upload,       \* where each upload request is, and its answer
  work,         \* where each worker is, and the asset it works on
  retries, faults,
  doubtful      \* history: assets a call about which was unsure, or late

stores == <<row, submission, staging, parsed>>
bounds == <<retries, faults>>
vars   == <<stores, upload, work, bounds, doubtful>>

\* "old": stored longer ago than the grace period of the orphan sweep.
ObjectType == {"absent", "young", "old"}

UploadSteps == {"new", "measure", "put", "insert", "compensate", "answered", "refused"}

WorkSteps ==
  {"idle", "claim", "parse", "store", "mark", "cleanup", "fail",
   "cancel", "unstage", "reset", "referenced", "delete", "submit", "pair"}

Folders == {"staging", "parsed"}

UploadType == [at : UploadSteps, key : Keys \cup {None}, answer : Uploads \cup {None}]

WorkType == [at : WorkSteps, asset : Uploads \cup {None}, terminal : BOOLEAN, folder : Folders]

TypeOK ==
  /\ row \in [Uploads -> RowType \cup {None}]
  /\ submission \subseteq Uploads
  /\ staging \in [Uploads -> ObjectType]
  /\ parsed \in [Uploads -> ObjectType]
  /\ upload \in [Uploads -> UploadType]
  /\ work \in [Workers -> WorkType]
  /\ retries \in 0..MaxRetries /\ faults \in 0..MaxFaults
  /\ doubtful \subseteq Uploads

Idle == [at |-> "idle", asset |-> None, terminal |-> FALSE, folder |-> "staging"]

Init ==
  /\ row = [u \in Uploads |-> None]
  /\ submission = {}
  /\ staging = [u \in Uploads |-> "absent"]
  /\ parsed = [u \in Uploads |-> "absent"]
  /\ upload = [u \in Uploads |-> [at |-> "new", key |-> None, answer |-> None]]
  /\ work = [w \in Workers |-> Idle]
  /\ retries = 0 /\ faults = 0
  /\ doubtful = {}

Rows == {u \in Uploads : row[u] # None}

Fault == faults < MaxFaults /\ faults' = faults + 1

-----------------------------------------------------------------------------
(* create: the original is stored first, then the rows. *)

At(u, step) == upload[u].at = step

ToStep(u, step) == upload' = [upload EXCEPT ![u].at = step]

Refuse(u) == ToStep(u, "refused")

Owning(k) == {a \in Rows : row[a].key = k}

\* The answer of an upload whose key has an asset, without storing anything.
Replay(u, k, a) ==
  upload' = [upload EXCEPT ![u] = [at |-> "answered", key |-> k, answer |-> a]]

Begin(u, k) ==
  /\ At(u, "new")
  /\ \/ \E a \in Owning(k) : Replay(u, k, a)
     \/ /\ Owning(k) = {}
        /\ upload' = [upload EXCEPT ![u] = [@ EXCEPT !.at = "measure", !.key = k]]
  /\ UNCHANGED <<stores, work, bounds, doubtful>>

Measure(u) ==
  /\ At(u, "measure")
  /\ IF Cardinality(Rows) + 1 > Capacity THEN Refuse(u) ELSE ToStep(u, "put")
  /\ UNCHANGED <<stores, work, bounds, doubtful>>

Put(u) ==
  /\ At(u, "put")
  /\ staging' = [staging EXCEPT ![u] = "young"]
  /\ ToStep(u, "insert")
  /\ UNCHANGED <<row, submission, parsed, work, bounds, doubtful>>

PutThrows(u) ==
  /\ At(u, "put") /\ Fault
  /\ \/ staging' = [staging EXCEPT ![u] = "young"]
     \/ UNCHANGED staging
  /\ ToStep(u, "compensate")
  /\ UNCHANGED <<row, submission, parsed, work, retries, doubtful>>

\* Mutant: two assets of one owner may have one idempotency key.
KeyFreeAlways(k) == k \in Keys

\* UNIQUE(owner_id, idempotency_key)
KeyFree(k) == Owning(k) = {}

NewRow(k) == [key |-> k, status |-> "ready", job |-> "queued", attempts |-> 0, paired |-> FALSE]

Insert(u) ==
  /\ At(u, "insert")
  /\ IF KeyFree(upload[u].key)
     THEN /\ row' = [row EXCEPT ![u] = NewRow(upload[u].key)]
          /\ upload' = [upload EXCEPT ![u].at = "answered", ![u].answer = u]
     ELSE ToStep(u, "compensate") /\ UNCHANGED row
  /\ UNCHANGED <<submission, staging, parsed, work, bounds, doubtful>>

InsertThrows(u) ==
  /\ At(u, "insert") /\ Fault
  /\ \/ /\ KeyFree(upload[u].key)
        /\ row' = [row EXCEPT ![u] = NewRow(upload[u].key)]
        /\ doubtful' = doubtful \cup {u}
     \/ UNCHANGED <<row, doubtful>>
  /\ ToStep(u, "compensate")
  /\ UNCHANGED <<submission, staging, parsed, work, retries>>

Compensate(u) ==
  /\ At(u, "compensate")
  /\ staging' = [staging EXCEPT ![u] = "absent"]
  /\ Refuse(u)
  /\ UNCHANGED <<row, submission, parsed, work, bounds, doubtful>>

\* Any call of an upload but the two that write fails, or the request dies:
\* it ends without an answer.
UploadStops(u) ==
  /\ upload[u].at \in {"measure", "put", "insert", "compensate"} /\ Fault
  /\ Refuse(u)
  /\ UNCHANGED <<stores, work, retries, doubtful>>

-----------------------------------------------------------------------------
(* Workers *)

On(w) == work[w].asset

Working(w, step) == work[w].at = step

Go(w, step) == work' = [work EXCEPT ![w].at = step]

Take(w, a, step) == Working(w, "idle") /\ work' = [work EXCEPT ![w] = [Idle EXCEPT !.at = step, !.asset = a]]

End(w) == work' = [work EXCEPT ![w] = Idle]

JobIn(a, states) == row[a] # None /\ row[a].job \in states

Processable == {"queued", "failed_retryable"}
Failed      == {"failed_retryable", "failed_terminal"}

\* processRecord begins with a job that is not over; the cron sweep, which
\* lists processable jobs first, comes here as well.
Find(w, a) ==
  /\ row[a] # None /\ row[a].job \notin {"succeeded", "failed_terminal"}
  /\ Take(w, a, "claim")
  /\ UNCHANGED <<stores, upload, bounds, doubtful>>

\* Mutant: a job that another worker processes is claimed as well.
CanClaimProcessing(a) ==
  JobIn(a, Processable \cup {"processing"}) /\ row[a].attempts < MaxAttempts

\* Mutant: a failed job is not claimed again.
CanClaimQueued(a) == JobIn(a, {"queued"}) /\ row[a].attempts < MaxAttempts

CanClaim(a) == JobIn(a, Processable) /\ row[a].attempts < MaxAttempts

Claimed(a) == row' = [row EXCEPT ![a].job = "processing", ![a].attempts = @ + 1]

Claim(w) ==
  /\ Working(w, "claim")
  /\ \/ CanClaim(On(w)) /\ Claimed(On(w)) /\ Go(w, "parse")
     \/ ~CanClaim(On(w)) /\ End(w) /\ UNCHANGED row
  /\ UNCHANGED <<submission, staging, parsed, upload, bounds, doubtful>>

\* The claim, or the read of the claimed job, throws: nobody will process it.
ClaimThrows(w) ==
  /\ Working(w, "claim") /\ Fault
  /\ CanClaim(On(w)) /\ Claimed(On(w))
  /\ End(w)
  /\ UNCHANGED <<submission, staging, parsed, upload, retries, doubtful>>

\* A missing original and a failing or slow converter may be tried again,
\* invalid content may not.
Parse(w) ==
  /\ Working(w, "parse")
  /\ \/ staging[On(w)] # "absent" /\ Go(w, "store")
     \/ \E terminal \in BOOLEAN :
          /\ terminal => staging[On(w)] # "absent"
          /\ work' = [work EXCEPT ![w].at = "cleanup", ![w].terminal = terminal]
  /\ UNCHANGED <<stores, upload, bounds, doubtful>>

Stored(a) == parsed' = [parsed EXCEPT ![a] = "young"]

Store(w) ==
  /\ Working(w, "store")
  /\ Stored(On(w)) /\ Go(w, "mark")
  /\ UNCHANGED <<row, submission, staging, upload, bounds, doubtful>>

StoreThrows(w) ==
  /\ Working(w, "store") /\ Fault
  /\ Stored(On(w)) \/ UNCHANGED parsed
  /\ Go(w, "cleanup")
  /\ UNCHANGED <<row, submission, staging, upload, retries, doubtful>>

Succeeded(a) == row' = IF JobIn(a, {"processing"}) THEN [row EXCEPT ![a].job = "succeeded"] ELSE row

MarkSucceeded(w) ==
  /\ Working(w, "mark")
  /\ Succeeded(On(w)) /\ End(w)
  /\ UNCHANGED <<submission, staging, parsed, upload, bounds, doubtful>>

MarkSucceededThrows(w) ==
  /\ Working(w, "mark") /\ Fault
  /\ \/ Succeeded(On(w)) /\ doubtful' = doubtful \cup {On(w)}
     \/ UNCHANGED <<row, doubtful>>
  /\ Go(w, "cleanup")
  /\ UNCHANGED <<submission, staging, parsed, upload, retries>>

Cleanup(w) ==
  /\ Working(w, "cleanup")
  /\ parsed' = [parsed EXCEPT ![On(w)] = "absent"]
  /\ Go(w, "fail")
  /\ UNCHANGED <<row, submission, staging, upload, bounds, doubtful>>

\* A failing delete is reported and the failure recorded all the same.
CleanupThrows(w) ==
  /\ Working(w, "cleanup") /\ Fault
  /\ Go(w, "fail")
  /\ UNCHANGED <<stores, upload, retries, doubtful>>

\* Only the job is guarded by its state, the asset is not.
FailedRow(r, terminal) ==
  [r EXCEPT !.job = IF @ # "processing" THEN @
                    ELSE IF terminal THEN "failed_terminal" ELSE "failed_retryable",
            !.status = IF terminal THEN "failed" ELSE "ready"]

MarkFailed(w) ==
  /\ Working(w, "fail")
  /\ row' = [row EXCEPT ![On(w)] = IF @ = None THEN None ELSE FailedRow(@, work[w].terminal)]
  /\ End(w)
  /\ UNCHANGED <<submission, staging, parsed, upload, bounds, doubtful>>

\* A worker dies, or a call that nothing catches throws, before its effect.
\* (After its effect is the same as dying at the next step.)
Die(w) ==
  /\ ~Working(w, "idle") /\ Fault
  /\ End(w)
  /\ UNCHANGED <<stores, upload, retries, doubtful>>

-----------------------------------------------------------------------------
(* cancel: the rows first, then the original. *)

FindForCancel(w, a) ==
  /\ JobIn(a, Processable)
  /\ Take(w, a, "cancel")
  /\ UNCHANGED <<stores, upload, bounds, doubtful>>

Cancel(w) ==
  /\ Working(w, "cancel")
  /\ IF JobIn(On(w), Processable)
     THEN row' = [row EXCEPT ![On(w)] = None] /\ Go(w, "unstage")
     ELSE UNCHANGED row /\ End(w)
  /\ UNCHANGED <<submission, staging, parsed, upload, bounds, doubtful>>

Unstage(w) ==
  /\ Working(w, "unstage")
  /\ staging' = [staging EXCEPT ![On(w)] = "absent"]
  /\ End(w)
  /\ UNCHANGED <<row, submission, parsed, upload, bounds, doubtful>>

(* retry, by an administrator *)

FindForRetry(w, a) ==
  /\ row[a] # None /\ row[a].job \notin {"processing", "succeeded"}
  /\ retries < MaxRetries /\ retries' = retries + 1
  /\ Take(w, a, "reset")
  /\ UNCHANGED <<stores, upload, faults, doubtful>>

\* The second statement of the batch looks for a failed job, which the first
\* has just queued: the asset keeps the status of its failure.
Requeued(r) == [r EXCEPT !.job = "queued", !.attempts = 0]

Reset(w) ==
  /\ Working(w, "reset")
  /\ row' = IF JobIn(On(w), Failed) THEN [row EXCEPT ![On(w)] = Requeued(@)] ELSE row
  /\ End(w)
  /\ UNCHANGED <<submission, staging, parsed, upload, bounds, doubtful>>

-----------------------------------------------------------------------------
(* reclaimOrphans, for one key: its age, then its reference, then delete. *)

Object(folder, a) == IF folder = "staging" THEN staging[a] ELSE parsed[a]

Head(w, folder, a) ==
  /\ Object(folder, a) = "old"
  /\ Working(w, "idle")
  /\ work' = [work EXCEPT ![w] = [Idle EXCEPT !.at = "referenced", !.asset = a, !.folder = folder]]
  /\ UNCHANGED <<stores, upload, bounds, doubtful>>

\* Mutant: an object is referenced while its asset waits to be parsed.
ReferencedWhileWaiting(folder, a) == JobIn(a, Processable \cup {"processing"})

\* Mutant: only originals are looked up.
ReferencedOriginals(folder, a) == row[a] # None /\ folder = "staging"

Referenced(folder, a) ==
  row[a] # None /\ (folder = "parsed" => row[a].job = "succeeded")

CheckReference(w) ==
  /\ Working(w, "referenced")
  /\ IF Referenced(work[w].folder, On(w)) THEN End(w) ELSE Go(w, "delete")
  /\ UNCHANGED <<stores, upload, bounds, doubtful>>

\* What was not referenced when it was looked up may be by now, or is about
\* to be.
Late(w) ==
  \/ Referenced(work[w].folder, On(w))
  \/ \E v \in Workers : On(v) = On(w) /\ Working(v, "mark")

Delete(w) ==
  /\ Working(w, "delete")
  /\ IF work[w].folder = "staging"
     THEN staging' = [staging EXCEPT ![On(w)] = "absent"] /\ UNCHANGED parsed
     ELSE parsed' = [parsed EXCEPT ![On(w)] = "absent"] /\ UNCHANGED staging
  /\ doubtful' = IF Late(w) THEN doubtful \cup {On(w)} ELSE doubtful
  /\ End(w)
  /\ UNCHANGED <<row, submission, upload, bounds>>

(* submit: a submission of the parsed text, then the asset's link to it. *)

FindForSubmit(w, a) ==
  /\ JobIn(a, {"succeeded"}) /\ ~row[a].paired /\ parsed[a] # "absent"
  /\ Take(w, a, "submit")
  /\ UNCHANGED <<stores, upload, bounds, doubtful>>

\* The batch is refused when the asset has a submission (a unique index), and
\* may be for reasons of the target or of the content.
Submit(w) ==
  /\ Working(w, "submit")
  /\ \/ /\ On(w) \notin submission
        /\ submission' = submission \cup {On(w)}
        /\ Go(w, "pair")
     \/ UNCHANGED submission /\ End(w)
  /\ UNCHANGED <<row, staging, parsed, upload, bounds, doubtful>>

Pair(w) ==
  /\ Working(w, "pair")
  /\ row' = [row EXCEPT ![On(w)].paired = TRUE]
  /\ End(w)
  /\ UNCHANGED <<submission, staging, parsed, upload, bounds, doubtful>>

-----------------------------------------------------------------------------
(* Time.  A request and a sweep take less than the grace period (one day).  *)

Busy(a) == \E w \in Workers : On(w) = a /\ work[w].at \in {"mark", "cleanup", "fail"}

AgeOriginal(a) ==
  /\ staging[a] = "young" /\ upload[a].at \in {"answered", "refused"}
  /\ staging' = [staging EXCEPT ![a] = "old"]
  /\ UNCHANGED <<row, submission, parsed, upload, work, bounds, doubtful>>

AgeResult(a) ==
  /\ parsed[a] = "young" /\ ~Busy(a)
  /\ parsed' = [parsed EXCEPT ![a] = "old"]
  /\ UNCHANGED <<row, submission, staging, upload, work, bounds, doubtful>>

-----------------------------------------------------------------------------
Uploading(u) ==
  \/ \E k \in Keys : Begin(u, k)
  \/ Measure(u) \/ Put(u) \/ PutThrows(u) \/ Insert(u) \/ InsertThrows(u)
  \/ Compensate(u) \/ UploadStops(u)

\* What a worker that has begun does next.
Step(w) ==
  \/ Claim(w) \/ Parse(w) \/ Store(w) \/ MarkSucceeded(w) \/ Cleanup(w) \/ MarkFailed(w)
  \/ Cancel(w) \/ Unstage(w) \/ Reset(w)
  \/ CheckReference(w) \/ Delete(w) \/ Submit(w) \/ Pair(w)

Throws(w) ==
  ClaimThrows(w) \/ StoreThrows(w) \/ MarkSucceededThrows(w) \/ CleanupThrows(w) \/ Die(w)

Starts(w) ==
  \E a \in Uploads :
    \/ Find(w, a) \/ FindForCancel(w, a) \/ FindForRetry(w, a) \/ FindForSubmit(w, a)
    \/ \E folder \in Folders : Head(w, folder, a)

Next ==
  \/ \E u \in Uploads : Uploading(u) \/ AgeOriginal(u) \/ AgeResult(u)
  \/ \E w \in Workers : Starts(w) \/ Step(w) \/ Throws(w)

Spec == Init /\ [][Next]_vars

\* The sweep comes back to every asset, and a worker that has begun goes on.
Fairness ==
  /\ \A w \in Workers : WF_vars(Step(w))
  /\ \A a \in Uploads : SF_vars(\E w \in Workers : Find(w, a))

FairSpec == Spec /\ Fairness

-----------------------------------------------------------------------------
(* Properties *)

Processing == {"parse", "store", "mark", "cleanup", "fail"}

\* An asset is parsed by one worker at a time, whoever claims, resets and
\* gives up around it: the result of one attempt is never removed by another.
OneParserAtATime ==
  \A v, w \in Workers :
    v # w /\ On(v) = On(w) => ~({work[v].at, work[w].at} \subseteq Processing)

\* Every asset has its original: uploads, cancellations and the sweep of
\* orphans never leave rows without it, save that an upload told of a failure
\* removes what a batch that did commit refers to.
OriginalKept == \A a \in Rows : staging[a] # "absent" \/ a \in doubtful

\* A job that succeeded has its result, save for the two losses that can
\* happen: the success was recorded but reported as a failure, or a sweep
\* looked before the result counted and deleted after.
ResultKept == \A a \in Rows : row[a].job = "succeeded" => parsed[a] # "absent" \/ a \in doubtful

\* Uploads repeated or raced with one idempotency key are answered with one
\* asset, as long as it is not cancelled.
SameKeySameAsset ==
  \A u, v \in Uploads :
    /\ upload[u].at = "answered" /\ upload[v].at = "answered"
    /\ upload[u].key = upload[v].key
    => \/ upload[u].answer = upload[v].answer
       \/ ~({upload[u].answer, upload[v].answer} \subseteq Rows)

\* A job left in processing by a worker that is gone.
Abandoned(a) ==
  /\ JobIn(a, {"processing"})
  /\ \A w \in Workers : On(w) = a => work[w].at \notin Processing

Exhausted(a) == JobIn(a, {"failed_retryable"}) /\ row[a].attempts = MaxAttempts

\* A queued job ends: with a result, a failure for good, its attempts used up,
\* or cancelled, unless the worker that claimed it was lost.
JobSettles ==
  \A a \in Uploads :
    JobIn(a, {"queued"}) ~>
      row[a] = None \/ JobIn(a, {"succeeded", "failed_terminal"}) \/ Exhausted(a) \/ Abandoned(a)

\* Of the migration that pairs the two tables: the submission made of an asset
\* and the asset's link to it are there together once no request is at it.
PairedBothWays ==
  \A a \in submission : row[a].paired \/ \E w \in Workers : On(w) = a /\ Working(w, "pair")
=============================================================================
