------------------------------- MODULE Reparse -------------------------------
(***************************************************************************)
(* The reparse job of one source version: administrators create it, every  *)
(* call parses the source again, a correction replaces the candidate, and  *)
(* a promotion makes a submission of it.  Code: src/src/sources            *)
(* /reparse-service.ts and reparse-repository.ts, buildReparseCandidate of *)
(* reparse.ts, and the table of migration 0006.                            *)
(*                                                                         *)
(* Each step of a request is one statement or batch of D1.  A correction   *)
(* has the name of its request.  A request that dies takes no more steps.  *)
(***************************************************************************)
EXTENDS Naturals, Requests

VARIABLES
  reparse,   \* the row of source_reparse_jobs, or None
  promoted   \* the content of the submission made of it, or None

reparsing == <<reparse, promoted>>
reparseVars == <<reparsing, request>>

ReparseAttempts == 3

Candidates == {"parsed"} \cup Requests

ReparseJobType ==
  [status : {"queued", "processing", "indexed", "failed_retryable", "failed_terminal"},
   attempts : 0..ReparseAttempts,
   candidate : Candidates \cup {None}]

ASSUME ReparseAssumption == None \notin Candidates \cup ReparseJobType

ReparseRequest ==
  [op : {"none", "reparse", "correct", "publish"},
   at : {"new", "lookup", "queue", "load", "claim", "parse", "complete", "failed", "refused",
         "ready", "correct", "find", "read", "promote", "recover",
         "ok", "missing", "not_ready", "changed", "error"},
   ready : BOOLEAN,                        \* whether it saw the job indexed
   candidate : Candidates \cup {None}]     \* the one it has read

ReparseTypeOK ==
  /\ reparse \in ReparseJobType \cup {None}
  /\ promoted \in Candidates \cup {None}
  /\ request \in [Requests -> ReparseRequest]

NoReparse == [op |-> "none", at |-> "new", ready |-> FALSE, candidate |-> None]

ReparseInit ==
  /\ reparse = None /\ promoted = None
  /\ request = [r \in Requests |-> NoReparse]

Passes(r, step) == Go(r, step) /\ UNCHANGED reparsing

IsIndexed == reparse.status = "indexed"

AskReparse(r, op, step) ==
  /\ At(r, "new")
  /\ Do(r, [NoReparse EXCEPT !.op = op, !.at = step])
  /\ UNCHANGED reparsing

-----------------------------------------------------------------------------
(* create and process: the route calls one after the other. *)

FindJob(r) ==
  /\ At(r, "lookup")
  /\ Passes(r, IF reparse = None THEN "queue" ELSE "load")

\* insertQueuedJob: a second row of the fingerprint fails and the first answers;
\* who is no administrator any more inserts nothing.
QueueJob(r) ==
  /\ At(r, "queue")
  /\ \/ /\ reparse = None
        /\ reparse' = [status |-> "queued", attempts |-> 0, candidate |-> None]
        /\ Go(r, "load")
        /\ UNCHANGED promoted
     \/ reparse # None /\ Passes(r, "load")
     \/ Passes(r, "error")

LoadJob(r) ==
  /\ At(r, "load")
  /\ Passes(r, IF reparse.status \in {"indexed", "failed_terminal"} THEN "ok" ELSE "claim")

\* claimJob: whether the UPDATE matched the job is not looked at.
ClaimJob(r) ==
  /\ At(r, "claim")
  /\ reparse' = IF /\ reparse.status \in {"queued", "failed_retryable"}
                   /\ reparse.attempts < ReparseAttempts
                THEN [reparse EXCEPT !.status = "processing", !.attempts = @ + 1]
                ELSE reparse
  /\ Go(r, "parse")
  /\ UNCHANGED promoted

\* The source is read and parsed, which may fail for good or for now.
ParseSource(r) ==
  /\ At(r, "parse")
  /\ \E step \in {"complete", "failed", "refused"} : Passes(r, step)

\* Mutant: a parser that comes late ends the job all the same.
InProgressOrIndexed == reparse.status \in {"processing", "indexed"}

InProgress == reparse.status = "processing"

\* completeJob.  Its answer may be lost.
CompleteJob(r) ==
  /\ At(r, "complete")
  /\ IF InProgress
     THEN /\ reparse' = [reparse EXCEPT !.status = "indexed", !.candidate = "parsed"]
          /\ Go(r, "ok") \/ Go(r, "failed")
     ELSE Go(r, "failed") /\ UNCHANGED reparse
  /\ UNCHANGED promoted

\* failJob
FailJob(r) ==
  /\ request[r].at \in {"failed", "refused"}
  /\ reparse' = IF InProgress
                THEN [reparse EXCEPT !.status = IF At(r, "refused") THEN "failed_terminal"
                                                ELSE "failed_retryable"]
                ELSE reparse
  /\ Go(r, "ok")
  /\ UNCHANGED promoted

-----------------------------------------------------------------------------
(* correct *)

ReadForCorrection(r) ==
  /\ At(r, "ready")
  /\ Passes(r, IF reparse = None THEN "missing"
               ELSE IF IsIndexed /\ reparse.candidate # None THEN "correct" ELSE "not_ready")

\* updateCandidate, unless the actor is no administrator any more.
Correct(r) ==
  /\ At(r, "correct")
  /\ \/ /\ IsIndexed
        /\ reparse' = [reparse EXCEPT !.candidate = r]
        /\ Go(r, "ok")
        /\ UNCHANGED promoted
     \/ Passes(r, "changed")

-----------------------------------------------------------------------------
(* promote *)

LookForPromotion(r) ==
  /\ At(r, "find")
  /\ IF reparse = None THEN Passes(r, "missing")
     ELSE /\ Do(r, [request[r] EXCEPT
                      !.at = "read", !.ready = IsIndexed /\ reparse.candidate # None])
          /\ UNCHANGED reparsing

FindPromotion(r) ==
  /\ At(r, "read")
  /\ Passes(r, IF promoted # None THEN "ok" ELSE IF request[r].ready THEN "promote" ELSE "not_ready")

\* promoteJob reads the candidate again.
ReadCandidate(r) ==
  /\ At(r, "promote") /\ request[r].candidate = None
  /\ Do(r, [request[r] EXCEPT !.candidate = reparse.candidate])
  /\ UNCHANGED reparsing

UnpromotedJob == promoted = None

\* The batch of promoteJob; it fails as the first statement inserts nothing, or
\* as the ids are taken, or as the actor is no administrator any more.
PromoteJob(r) ==
  /\ At(r, "promote") /\ request[r].candidate # None
  /\ \/ /\ UnpromotedJob
        /\ promoted' = request[r].candidate
        /\ Go(r, "ok") \/ Go(r, "recover")
        /\ UNCHANGED reparse
     \/ Passes(r, "recover")

RecoverPromotion(r) ==
  /\ At(r, "recover")
  /\ Passes(r, IF promoted # None THEN "ok" ELSE "error")

ReparseNext ==
  \E r \in Requests :
    \/ AskReparse(r, "reparse", "lookup")
    \/ AskReparse(r, "correct", "ready")
    \/ AskReparse(r, "publish", "find")
    \/ FindJob(r) \/ QueueJob(r) \/ LoadJob(r) \/ ClaimJob(r) \/ ParseSource(r)
    \/ CompleteJob(r) \/ FailJob(r)
    \/ ReadForCorrection(r) \/ Correct(r)
    \/ LookForPromotion(r) \/ FindPromotion(r) \/ ReadCandidate(r) \/ PromoteJob(r)
    \/ RecoverPromotion(r)

ReparseSpec == ReparseInit /\ [][ReparseNext]_reparseVars

-----------------------------------------------------------------------------
\* What administrators corrected and promoted stays: once a candidate is there
\* no parser that shares the job, comes late or fails takes it back or writes
\* over it, only a correction does; and what is promoted is promoted once, with
\* a text that was a candidate.
ReviewedTextStays ==
  [][/\ reparse # None /\ reparse.candidate # None =>
          /\ reparse'.status = "indexed"
          /\ reparse'.candidate # reparse.candidate
               => \E r \in Requests : At(r, "correct") /\ reparse'.candidate = r
     /\ promoted # None => promoted' = promoted
     /\ promoted' # promoted => reparse.candidate # None /\ promoted' \in {"parsed"} \cup
          {r \in Requests : request[r].op = "correct" /\ At(r, "ok")}]_reparseVars
=============================================================================
