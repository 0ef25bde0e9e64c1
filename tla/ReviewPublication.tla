------------------------- MODULE ReviewPublication -------------------------
(***************************************************************************)
(* Administrator review of submissions: publish, reject and request-       *)
(* revision, with their operation receipts, publication intents, the two   *)
(* stores a publication is written to (D1 and the KnowledgeBase Durable    *)
(* Object) and the recovery sweep that resumes interrupted publications.   *)
(* Code: src/src/publication/service.ts and src/src/publication/           *)
(* repository.ts.                                                          *)
(*                                                                         *)
(* A worker is one HTTP request or one recovery run.  Between two awaits   *)
(* it holds only what it has read, so each statement (or atomic D1 batch)  *)
(* whose outcome decides something is one action, and workers interleave   *)
(* everywhere else.  Reads without a step of their own: rows that never    *)
(* change (the source and the requested visibility of a preview, a         *)
(* revision, a receipt that was stored) and readSubmissionAuthority, which *)
(* only fills in the details of an error.  The index job of a new revision *)
(* is the module KnowledgeIndex; here it only contributes the search       *)
(* status of the answer.                                                   *)
(***************************************************************************)
EXTENDS Naturals, FiniteSets

CONSTANTS
  Submissions,    \* submissions that entered review
  Reviewers,      \* administrators that act
  Inputs,         \* a publish form, or the reason and note of a refusal
  Items,          \* knowledge items that already exist
  Requests,       \* one HTTP request each; also names the ids it generates
  Sweepers,       \* concurrent runs of recoverPending
  Calls,          \* the calls requests make (see CallType)
  Numbers,        \* operation numbers chosen by clients
  Unsteady,       \* targets, reviewers, items and sources that may change under review
  MaxCrashes,     \* bound on isolates that die
  None            \* absence of a row, an optional field or an answer

Decisions == {"published", "rejected", "revision_requested"}
Versions  == {0, 1}       \* updated_at of a submission: as submitted, then decided
ItemIds   == Items \cup Requests
Workers   == Requests \cup Sweepers

\* What a client sends: the decision, its operation number and the version it
\* read, both optional, and for publish an optional existing item.
CallType ==
  [kind : Decisions, sub : Submissions, by : Reviewers, why : Inputs,
   item : Items \cup {None}, number : Numbers \cup {None},
   expected : Versions \cup {None}]

RecoverCall(s) ==
  [kind |-> "recover", sub |-> s, by |-> None, why |-> None,
   item |-> None, number |-> None, expected |-> None]

\* decisionOperation: an operation is named by its number or, without one, by
\* the expected version.
Operations == ({"id"} \X Numbers) \cup ({"version"} \X Versions)
HasOperation(c) == c.number # None \/ c.expected # None
OperationOf(c)  == IF c.number # None THEN <<"id", c.number>>
                                      ELSE <<"version", c.expected>>

\* The review row a call would write.
ReviewOf(c) == [decision |-> c.kind, by |-> c.by, why |-> c.why]
ReviewType  == [decision : Decisions, by : Reviewers, why : Inputs]

IntentType ==
  [rev : Requests, item : ItemIds, by : Reviewers, why : Inputs,
   state : {"pending_content", "content_written", "completed", "failed_terminal"}]

\* Answers: a published revision with its search status, or the review.
Published(rev, search) == [decision |-> "published", rev |-> rev, search |-> search]
AnswerType == [decision : {"published"}, rev : Requests, search : {"indexed", "pending"}]
              \cup ReviewType
\* Outcomes: the revision that was published, or the review that refused.
OutcomeType == [decision : {"published"}, rev : Requests] \cup ReviewType
ErrorType  == [error : {"operation_conflict", "target_invalid", "submission_not_pending",
                        "intent_mismatch", "version_conflict", "decision_conflict",
                        "content_mismatch", "receipt_mismatch", "unavailable"}]
ReceiptType == [call : Calls, answer : AnswerType]

ASSUME CallsAssumption == Calls \subseteq CallType
ASSUME WorkersAssumption ==
  /\ Requests \cap Sweepers = {} /\ Requests \cap Items = {}
  /\ MaxCrashes \in Nat
ASSUME NoneAssumption ==
  /\ None \notin IntentType \cup AnswerType \cup OutcomeType \cup ErrorType
  /\ None \notin ReceiptType \cup ItemIds \cup Numbers \cup Versions

VARIABLES
  \* D1 tables
  status,      \* submissions.status
  version,     \* submissions.updated_at
  intent,      \* publication_intents, keyed by submission
  review,      \* reviews, unique per submission
  notices,     \* notifications to the submitter, unique per decision
  receipts,    \* review_decision_receipts, keyed by submission and operation
  revisions,   \* revisions: [id, sub, item]
  items,       \* knowledge_items.status
  current,     \* knowledge_items.current_revision_id
  \* Durable Object
  content,     \* revisions whose Markdown the KnowledgeBase holds
  \* the rest of the workbench, as review sees it
  available,   \* publish inputs whose Space, Collection and tags are active
  admins,      \* reviewers that are active administrators
  valid,       \* submissions the current parser still reproduces
  \* workers
  pc, call, mine, reply,
  crashes

db    == <<status, version, intent, review, notices, receipts, revisions, items, current>>
env   == <<available, admins, valid>>
local == <<pc, call, mine, reply>>
vars  == <<db, content, env, local, crashes>>

Steps == {"idle", "lookup", "done",
          "validate", "readIntent", "readPending", "readTarget", "readItem", "insert",
          "readBack", "explain",
          "resume", "commit", "mark", "marked", "finalize", "batch", "refinalize", "index",
          "record",
          "findReview", "readStatus", "rereview", "decide", "decideFailed", "readGuard",
          "readReview", "condemn"}

TypeOK ==
  /\ status \in [Submissions -> Decisions \cup {"review_pending"}]
  /\ version \in [Submissions -> Versions]
  /\ intent \in [Submissions -> IntentType \cup {None}]
  /\ review \in [Submissions -> ReviewType \cup {None}]
  /\ notices \in [Submissions -> SUBSET Decisions]
  /\ receipts \in [Submissions -> [Operations -> ReceiptType \cup {None}]]
  /\ revisions \subseteq [id : Requests, sub : Submissions, item : ItemIds]
  /\ items \in [ItemIds -> {"absent", "active", "trashed"}]
  /\ current \in [ItemIds -> Requests \cup {None}]
  /\ content \subseteq Requests
  /\ available \subseteq Inputs /\ admins \subseteq Reviewers /\ valid \subseteq Submissions
  /\ pc \in [Workers -> Steps]
  /\ call \in [Workers -> Calls \cup {RecoverCall(s) : s \in Submissions} \cup {None}]
  /\ mine \in [Workers -> IntentType \cup {None}]
  /\ reply \in [Workers -> AnswerType \cup ErrorType \cup {None}]
  /\ crashes \in 0..MaxCrashes

Init ==
  /\ status = [s \in Submissions |-> "review_pending"]
  /\ version = [s \in Submissions |-> 0]
  /\ intent = [s \in Submissions |-> None]
  /\ review = [s \in Submissions |-> None]
  /\ notices = [s \in Submissions |-> {}]
  /\ receipts = [s \in Submissions |-> [o \in Operations |-> None]]
  /\ revisions = {}
  /\ items = [i \in ItemIds |-> IF i \in Items THEN "active" ELSE "absent"]
  /\ current = [i \in ItemIds |-> None]
  /\ content = {}
  /\ available = Inputs /\ admins = Reviewers /\ valid = Submissions
  /\ pc = [w \in Workers |-> "idle"]
  /\ call = [w \in Workers |-> None]
  /\ mine = [w \in Workers |-> None]
  /\ reply = [w \in Workers |-> None]
  /\ crashes = 0

-----------------------------------------------------------------------------
(* How a worker moves on. *)

Goto(w, step) ==
  /\ pc' = [pc EXCEPT ![w] = step]
  /\ UNCHANGED <<call, mine, reply>>

\* A request ends with its reply; a recovery run drops its result and is ready
\* for the next intent.
Finish(w, r) ==
  IF w \in Sweepers
  THEN /\ pc' = [pc EXCEPT ![w] = "idle"]
       /\ call' = [call EXCEPT ![w] = None]
       /\ mine' = [mine EXCEPT ![w] = None]
       /\ reply' = [reply EXCEPT ![w] = None]
  ELSE /\ pc' = [pc EXCEPT ![w] = "done"]
       /\ reply' = [reply EXCEPT ![w] = r]
       /\ UNCHANGED <<call, mine>>

Fail(w, code) == Finish(w, [error |-> code])

\* The answer is known; with an operation it is still to be recorded.
Settle(w, answer) ==
  IF HasOperation(call[w])
  THEN /\ pc' = [pc EXCEPT ![w] = "record"]
       /\ reply' = [reply EXCEPT ![w] = answer]
       /\ UNCHANGED <<call, mine>>
  ELSE Finish(w, answer)

Receipt(w)  == receipts[call[w].sub][OperationOf(call[w])]
Recorded(w) == HasOperation(call[w]) /\ Receipt(w) # None

\* A recorded operation is replayed; the same number on another request is a
\* conflict.
Replay(w) ==
  IF Receipt(w).call = call[w]
  THEN Finish(w, Receipt(w).answer)
  ELSE Fail(w, "operation_conflict")

-----------------------------------------------------------------------------
(* Arrival and the receipt lookup both decisions begin with. *)

Arrive(w, c) ==
  /\ pc[w] = "idle" /\ w \in Requests
  /\ c.by \in admins
  /\ pc' = [pc EXCEPT ![w] = "lookup"]
  /\ call' = [call EXCEPT ![w] = c]
  /\ UNCHANGED <<db, content, env, mine, reply, crashes>>

Lookup(w) ==
  /\ pc[w] = "lookup"
  /\ IF Recorded(w) THEN Replay(w)
     ELSE Goto(w, IF call[w].kind = "published" THEN "validate" ELSE "findReview")
  /\ UNCHANGED <<db, content, env, crashes>>

-----------------------------------------------------------------------------
(* publish *)

\* validateTarget, then the chunk check of the source the preview holds.
Validate(w) ==
  /\ pc[w] = "validate"
  /\ IF call[w].why \notin available THEN Fail(w, "target_invalid")
     ELSE IF call[w].sub \notin valid THEN Fail(w, "content_mismatch")
     ELSE Goto(w, "readIntent")
  /\ UNCHANGED <<db, content, env, crashes>>

\* Mutant: exactIntentOrThrow alone, which does not compare the item.
SameIntentAnyItem(i, c) == i.by = c.by /\ i.why = c.why

\* exactIntentOrThrow and assertStableIntent.
SameIntent(i, c) ==
  i.by = c.by /\ i.why = c.why /\ (c.item # None => i.item = c.item)

Adopt(w, i) ==
  IF SameIntent(i, call[w])
  THEN /\ pc' = [pc EXCEPT ![w] = "resume"]
       /\ mine' = [mine EXCEPT ![w] = i]
       /\ UNCHANGED <<call, reply>>
  ELSE Fail(w, "intent_mismatch")

\* createOrReadIntent: an intent that is already there is adopted whatever
\* version the caller expected.
ReadIntent(w) ==
  LET i == intent[call[w].sub] IN
  /\ pc[w] = "readIntent"
  /\ IF i # None THEN Adopt(w, i) ELSE Goto(w, "readPending")
  /\ UNCHANGED <<db, content, env, crashes>>

ReadPending(w) ==
  /\ pc[w] = "readPending"
  /\ IF status[call[w].sub] = "review_pending"
     THEN Goto(w, "readTarget") ELSE Fail(w, "submission_not_pending")
  /\ UNCHANGED <<db, content, env, crashes>>

ReadTarget(w) ==
  /\ pc[w] = "readTarget"
  /\ IF call[w].why \notin available THEN Fail(w, "target_invalid")
     ELSE Goto(w, IF call[w].item = None THEN "insert" ELSE "readItem")
  /\ UNCHANGED <<db, content, env, crashes>>

ReadItem(w) ==
  /\ pc[w] = "readItem"
  /\ IF items[call[w].item] = "active" THEN Goto(w, "insert") ELSE Fail(w, "target_invalid")
  /\ UNCHANGED <<db, content, env, crashes>>

ExpectedVersion(c) == c.expected = None \/ c.expected = version[c.sub]

CanIntend(c) ==
  /\ status[c.sub] = "review_pending"
  /\ intent[c.sub] = None
  /\ ExpectedVersion(c)
  /\ c.by \in admins
  /\ c.why \in available

NewIntent(w) ==
  [rev |-> w, item |-> IF call[w].item = None THEN w ELSE call[w].item,
   by |-> call[w].by, why |-> call[w].why, state |-> "pending_content"]

\* The guarded INSERT; a guard or the primary key that refuses it leaves no row.
InsertIntent(w) ==
  /\ pc[w] = "insert"
  /\ IF CanIntend(call[w])
     THEN intent' = [intent EXCEPT ![call[w].sub] = NewIntent(w)]
     ELSE UNCHANGED intent
  /\ Goto(w, "readBack")
  /\ UNCHANGED <<status, version, review, notices, receipts, revisions, items, current>>
  /\ UNCHANGED <<content, env, crashes>>

ReadBack(w) ==
  LET i == intent[call[w].sub] IN
  /\ pc[w] = "readBack"
  /\ IF i # None THEN Adopt(w, i) ELSE Goto(w, "explain")
  /\ UNCHANGED <<db, content, env, crashes>>

\* The preview read after the INSERT left no row says why it did not.
Explain(w) ==
  LET c == call[w] IN
  /\ pc[w] = "explain"
  /\ Fail(w, IF ~ExpectedVersion(c) THEN "version_conflict"
             ELSE IF status[c.sub] # "review_pending" THEN "submission_not_pending"
             ELSE "target_invalid")
  /\ UNCHANGED <<db, content, env, crashes>>

-----------------------------------------------------------------------------
(* resumeIntent, shared by publish and recovery *)

\* Mutant: the intent is marked before the content is committed.
ResumeMarkFirst(w) ==
  /\ pc[w] = "resume"
  /\ IF Recorded(w) THEN Replay(w)
     ELSE IF mine[w].state = "failed_terminal" THEN Fail(w, "content_mismatch")
     ELSE Goto(w, IF mine[w].state = "pending_content" THEN "mark" ELSE "finalize")
  /\ UNCHANGED <<db, content, env, crashes>>

Resume(w) ==
  /\ pc[w] = "resume"
  /\ IF Recorded(w) THEN Replay(w)
     ELSE IF mine[w].state = "failed_terminal" THEN Fail(w, "content_mismatch")
     ELSE Goto(w, IF mine[w].state = "pending_content" THEN "commit" ELSE "finalize")
  /\ UNCHANGED <<db, content, env, crashes>>

\* The Durable Object writes the revision's file; writing it again is a no-op.
CommitContent(w) ==
  /\ pc[w] = "commit"
  /\ content' = content \cup {mine[w].rev}
  /\ Goto(w, "mark")
  /\ UNCHANGED <<db, env, crashes>>

Marked(w) ==
  /\ pc' = [pc EXCEPT ![w] = "finalize"]
  /\ mine' = [mine EXCEPT ![w].state = "content_written"]
  /\ UNCHANGED <<call, reply>>

MarkContentWritten(w) ==
  LET s == call[w].sub IN
  /\ pc[w] = "mark"
  /\ IF intent[s].state = "pending_content"
     THEN intent' = [intent EXCEPT ![s].state = "content_written"] /\ Marked(w)
     ELSE UNCHANGED intent /\ Goto(w, "marked")
  /\ UNCHANGED <<status, version, review, notices, receipts, revisions, items, current>>
  /\ UNCHANGED <<content, env, crashes>>

\* An UPDATE that marked nothing: somebody else marked the intent, or it was
\* condemned.
ReadMarked(w) ==
  /\ pc[w] = "marked"
  /\ IF intent[call[w].sub].state = "failed_terminal"
     THEN Fail(w, "receipt_mismatch") ELSE Marked(w)
  /\ UNCHANGED <<db, content, env, crashes>>

\* finalize re-reads the intent before it prepares its batch.
ReadForFinalize(w) ==
  LET i == intent[call[w].sub] IN
  /\ pc[w] = "finalize"
  /\ IF i.state = "completed" THEN Goto(w, "index")
     ELSE IF i.state = "failed_terminal" THEN Fail(w, "receipt_mismatch")
     ELSE Goto(w, "batch")
  /\ UNCHANGED <<db, content, env, crashes>>

CanFinalize(w) ==
  LET s == call[w].sub  i == intent[s] IN
  /\ status[s] = "review_pending"
  /\ i.state = "content_written" /\ i.rev = mine[w].rev
  /\ i.why \in available /\ i.by \in admins
  /\ items[i.item] \in {"absent", "active"}
  /\ review[s] = None

\* The publication batch: decision, revision, current pointer and intent move
\* together; updated_at is the clock's reading, which may not have moved.
Publish(s) ==
  LET i == intent[s] IN
  /\ status' = [status EXCEPT ![s] = "published"]
  /\ \E v \in {version[s], 1} : version' = [version EXCEPT ![s] = v]
  /\ review' = [review EXCEPT ![s] = [decision |-> "published", by |-> i.by, why |-> i.why]]
  /\ notices' = [notices EXCEPT ![s] = @ \cup {"published"}]
  /\ revisions' = revisions \cup {[id |-> i.rev, sub |-> s, item |-> i.item]}
  /\ items' = [items EXCEPT ![i.item] = "active"]
  /\ current' = [current EXCEPT ![i.item] = i.rev]
  /\ intent' = [intent EXCEPT ![s].state = "completed"]
  /\ UNCHANGED receipts

\* A batch that failed, or whose outcome is unknown, is settled by reading the
\* intent again.
Finalize(w) ==
  /\ pc[w] = "batch"
  /\ IF CanFinalize(w)
     THEN /\ Publish(call[w].sub)
          /\ \E next \in {"index", "refinalize"} : Goto(w, next)
     ELSE UNCHANGED db /\ Goto(w, "refinalize")
  /\ UNCHANGED <<content, env, crashes>>

Refinalize(w) ==
  /\ pc[w] = "refinalize"
  /\ IF intent[call[w].sub].state = "completed" THEN Goto(w, "index")
     ELSE Fail(w, "unavailable")
  /\ UNCHANGED <<db, content, env, crashes>>

\* requireRevision and processIndexJob: only the answer matters here.
Index(w) ==
  /\ pc[w] = "index"
  /\ \E search \in {"indexed", "pending"} :
       Settle(w, Published(intent[call[w].sub].rev, search))
  /\ UNCHANGED <<db, content, env, crashes>>

\* Mutant: INSERT OR REPLACE, the last answer of an operation stays.
StoredReceiptReplacing(w) == [call |-> call[w], answer |-> reply[w]]

\* The receipt after INSERT ... ON CONFLICT DO NOTHING: the first answer of an
\* operation stays.
StoredReceipt(w) ==
  IF Receipt(w) = None THEN [call |-> call[w], answer |-> reply[w]] ELSE Receipt(w)

\* recordDecisionReceipt answers with the row it reads back.
Record(w) ==
  LET stored == StoredReceipt(w) IN
  /\ pc[w] = "record"
  /\ receipts' = [receipts EXCEPT ![call[w].sub][OperationOf(call[w])] = stored]
  /\ IF stored.call = call[w] THEN Finish(w, stored.answer)
     ELSE Fail(w, "operation_conflict")
  /\ UNCHANGED <<status, version, intent, review, notices, revisions, items, current>>
  /\ UNCHANGED <<content, env, crashes>>

-----------------------------------------------------------------------------
(* reject and requestRevision *)

\* Mutant: any existing review refuses the caller, even its own.
ConvergeNever(w) == Fail(w, "decision_conflict")
\* Mutant: any existing review answers the caller with its own request.
ConvergeAlways(w) == Settle(w, ReviewOf(call[w]))

\* A review that is already there answers the same decision and refuses any
\* other one.
Converge(w) ==
  IF review[call[w].sub] = ReviewOf(call[w])
  THEN Settle(w, ReviewOf(call[w]))
  ELSE Fail(w, "decision_conflict")

FindReview(w) ==
  /\ pc[w] = "findReview"
  /\ IF review[call[w].sub] # None THEN Converge(w) ELSE Goto(w, "readStatus")
  /\ UNCHANGED <<db, content, env, crashes>>

ReadStatus(w) ==
  /\ pc[w] = "readStatus"
  /\ Goto(w, IF status[call[w].sub] = "review_pending" THEN "decide" ELSE "rereview")
  /\ UNCHANGED <<db, content, env, crashes>>

\* The decision committed between the two reads.
Rereview(w) ==
  /\ pc[w] = "rereview"
  /\ Converge(w)
  /\ UNCHANGED <<db, content, env, crashes>>

\* Mutant: the UPDATE forgets that an intent blocks a refusal.
CanDecideDespiteIntent(w) ==
  LET c == call[w] IN
  /\ status[c.sub] = "review_pending"
  /\ ExpectedVersion(c)
  /\ HasOperation(c) => Receipt(w) = None
  /\ review[c.sub] = None

CanDecide(w) ==
  LET c == call[w] IN
  /\ status[c.sub] = "review_pending"
  /\ intent[c.sub] = None
  /\ ExpectedVersion(c)
  /\ HasOperation(c) => Receipt(w) = None
  /\ review[c.sub] = None

\* The decision batch: the claim carries the answer, so claim, decision and
\* notification commit together.
Refuse(w) ==
  LET c == call[w] IN
  /\ status' = [status EXCEPT ![c.sub] = c.kind]
  /\ version' = [version EXCEPT ![c.sub] = 1]
  /\ review' = [review EXCEPT ![c.sub] = ReviewOf(c)]
  /\ notices' = [notices EXCEPT ![c.sub] = @ \cup {c.kind}]
  /\ receipts' = IF HasOperation(c)
                 THEN [receipts EXCEPT ![c.sub][OperationOf(c)] =
                         [call |-> c, answer |-> ReviewOf(c)]]
                 ELSE receipts
  /\ UNCHANGED <<intent, revisions, items, current>>

Decide(w) ==
  /\ pc[w] = "decide"
  /\ IF CanDecide(w)
     THEN /\ Refuse(w)
          /\ \/ Settle(w, ReviewOf(call[w]))
             \/ Goto(w, "decideFailed")
     ELSE UNCHANGED db /\ Goto(w, "decideFailed")
  /\ UNCHANGED <<content, env, crashes>>

\* The catch block reads the receipt, the submission and the review, one after
\* the other.
DecideFailed(w) ==
  /\ pc[w] = "decideFailed"
  /\ IF Recorded(w) THEN Replay(w) ELSE Goto(w, "readGuard")
  /\ UNCHANGED <<db, content, env, crashes>>

\* What the submission and its intent say; without a word against the call the
\* error of the batch itself is left.
Verdict(c) ==
  IF ~ExpectedVersion(c) THEN "version_conflict"
  ELSE IF status[c.sub] # "review_pending" \/ intent[c.sub] # None THEN "decision_conflict"
  ELSE "unavailable"

ReadGuard(w) ==
  /\ pc[w] = "readGuard"
  /\ pc' = [pc EXCEPT ![w] = "readReview"]
  /\ reply' = [reply EXCEPT ![w] = [error |-> Verdict(call[w])]]
  /\ UNCHANGED <<db, content, env, call, mine, crashes>>

ReadReview(w) ==
  LET c == call[w] IN
  /\ pc[w] = "readReview"
  /\ IF review[c.sub] = ReviewOf(c) THEN Settle(w, ReviewOf(c))
     ELSE IF review[c.sub] # None /\ reply[w].error # "version_conflict"
     THEN Fail(w, "decision_conflict")
     ELSE Finish(w, reply[w])
  /\ UNCHANGED <<db, content, env, crashes>>

-----------------------------------------------------------------------------
(* recoverPending *)

\* Mutant: the listing forgets intents whose content is already written.
UnfinishedPendingOnly(s) ==
  intent[s] # None /\ intent[s].state = "pending_content"

Unfinished(s) ==
  intent[s] # None /\ intent[s].state \in {"pending_content", "content_written"}

\* One intent of the listing, with the copy the listing read.  An intent whose
\* source no longer chunks as it did is condemned instead of resumed.
Sweep(w, s) ==
  /\ pc[w] = "idle" /\ w \in Sweepers
  /\ Unfinished(s)
  /\ pc' = [pc EXCEPT ![w] = IF s \in valid THEN "resume" ELSE "condemn"]
  /\ call' = [call EXCEPT ![w] = RecoverCall(s)]
  /\ mine' = [mine EXCEPT ![w] = intent[s]]
  /\ UNCHANGED <<db, content, env, reply, crashes>>

MarkFailedTerminal(w) ==
  LET s == call[w].sub IN
  /\ pc[w] = "condemn"
  /\ IF Unfinished(s)
     THEN intent' = [intent EXCEPT ![s].state = "failed_terminal"]
     ELSE UNCHANGED intent
  /\ Finish(w, None)
  /\ UNCHANGED <<status, version, review, notices, receipts, revisions, items, current>>
  /\ UNCHANGED <<content, env, crashes>>

-----------------------------------------------------------------------------
(* What happens around review *)

\* An awaited call fails, or the isolate running the worker dies; what it
\* wrote stays.
Crash(w) ==
  /\ pc[w] \notin {"idle", "done"}
  /\ crashes < MaxCrashes
  /\ crashes' = crashes + 1
  /\ Fail(w, "unavailable")
  /\ UNCHANGED <<db, content, env>>

\* Spaces, Collections and tags are archived and reactivated.
ToggleTarget(f) ==
  /\ f \in Unsteady
  /\ available' = IF f \in available THEN available \ {f} ELSE available \cup {f}
  /\ UNCHANGED <<db, content, admins, valid, local, crashes>>

ToggleAdmin(a) ==
  /\ a \in Unsteady
  /\ admins' = IF a \in admins THEN admins \ {a} ELSE admins \cup {a}
  /\ UNCHANGED <<db, content, available, valid, local, crashes>>

\* A deployed parser stops reproducing the stored source.
Drift(s) ==
  /\ s \in valid /\ s \in Unsteady
  /\ valid' = valid \ {s}
  /\ UNCHANGED <<db, content, available, admins, local, crashes>>

\* trash and restore of a knowledge item.
ToggleTrash(i) ==
  /\ items[i] # "absent" /\ i \in Unsteady
  /\ items' = [items EXCEPT ![i] = IF @ = "active" THEN "trashed" ELSE "active"]
  /\ UNCHANGED <<status, version, intent, review, notices, receipts, revisions, current>>
  /\ UNCHANGED <<content, env, local, crashes>>

ResumeStep(w) ==
  \/ Resume(w) \/ CommitContent(w) \/ MarkContentWritten(w) \/ ReadMarked(w)
  \/ ReadForFinalize(w) \/ Finalize(w) \/ Refinalize(w) \/ Index(w)

PublishStep(w) ==
  \/ Validate(w) \/ ReadIntent(w) \/ ReadPending(w) \/ ReadTarget(w) \/ ReadItem(w)
  \/ InsertIntent(w) \/ ReadBack(w) \/ Explain(w)

DecideStep(w) ==
  \/ FindReview(w) \/ ReadStatus(w) \/ Rereview(w) \/ Decide(w)
  \/ DecideFailed(w) \/ ReadGuard(w) \/ ReadReview(w)

SweepStep(w) ==
  \/ ResumeStep(w)
  \/ MarkFailedTerminal(w)

Environment ==
  \/ \E f \in Inputs : ToggleTarget(f)
  \/ \E a \in Reviewers : ToggleAdmin(a)
  \/ \E s \in Submissions : Drift(s)
  \/ \E i \in ItemIds : ToggleTrash(i)

Next ==
  \/ \E w \in Requests : \E c \in Calls : Arrive(w, c)
  \/ \E w \in Requests : Lookup(w) \/ PublishStep(w) \/ DecideStep(w) \/ Record(w)
  \/ \E w \in Sweepers : \E s \in Submissions : Sweep(w, s)
  \/ \E w \in Workers : SweepStep(w) \/ Crash(w)
  \/ Environment

Spec == Init /\ [][Next]_vars

\* Whoever starts recovery runs lists every unfinished intent in each run, and
\* a run that has started goes on.
Fairness ==
  \A w \in Sweepers :
    /\ WF_vars(SweepStep(w))
    /\ \A s \in Submissions : SF_vars(Sweep(w, s))

FairSpec == Spec /\ Fairness

-----------------------------------------------------------------------------
(* Properties *)

Decided(s) == status[s] # "review_pending"

\* A submission has one outcome and every table tells the same one: nothing is
\* written before the decision, one review and one notification after it, a
\* published submission has exactly the revision of its completed intent, and
\* a refused one has neither an intent nor a revision.  (finalize and decide
\* write these tables in two different batches, guarded only by each other's
\* rows.)
OneOutcome ==
  \A s \in Submissions :
    LET own == {r \in revisions : r.sub = s} IN
    /\ ~Decided(s) => review[s] = None /\ notices[s] = {} /\ own = {}
    /\ Decided(s) => /\ review[s] # None /\ review[s].decision = status[s]
                     /\ notices[s] = {status[s]}
    /\ status[s] = "published" <=> intent[s] # None /\ intent[s].state = "completed"
    /\ status[s] = "published" =>
         /\ own = {[id |-> intent[s].rev, sub |-> s, item |-> intent[s].item]}
         /\ review[s].by = intent[s].by /\ review[s].why = intent[s].why
    /\ status[s] \in {"rejected", "revision_requested"} => intent[s] = None

\* D1 never names a revision whose Markdown the Durable Object does not hold:
\* not as a revision, not as a current pointer, not as a written intent.
ContentBeforeRevision ==
  /\ \A r \in revisions : r.id \in content
  /\ \A i \in ItemIds : current[i] # None =>
       \E r \in revisions : r.id = current[i] /\ r.item = i
  /\ \A s \in Submissions :
       intent[s] # None /\ intent[s].state \in {"content_written", "completed"}
         => intent[s].rev \in content

\* What a caller is told, now or by a replay, is that its own decision
\* committed: its review is the review of the submission, and the revision it
\* names is the submission's, in the item the caller asked for.
Committed(c, a) ==
  /\ a.decision = c.kind
  /\ review[c.sub] = ReviewOf(c)
  /\ c.kind = "published" =>
       \E r \in revisions : /\ r.id = a.rev /\ r.sub = c.sub
                            /\ c.item # None => r.item = c.item
  /\ c.kind # "published" => a = ReviewOf(c)

AnswersAreTrue ==
  /\ \A s \in Submissions, o \in Operations :
       receipts[s][o] # None => Committed(receipts[s][o].call, receipts[s][o].answer)
  /\ \A w \in Requests :
       pc[w] = "done" /\ reply[w] \in AnswerType => Committed(call[w], reply[w])

\* Every retry of an operation that is answered at all is answered the same,
\* search status included, however its attempts interleave.
SameOperationSameAnswer ==
  \A v, w \in Requests :
    LET answered(x) == pc[x] = "done" /\ reply[x] \in AnswerType IN
    answered(v) /\ answered(w) /\ call[v] = call[w] /\ HasOperation(call[v])
      => reply[v] = reply[w]

\* Decisions, reviews and receipts are write-once, and an intent keeps its
\* revision, item, reviewer and input while its state only moves forward.
DecisionsAreFinal ==
  [][\A s \in Submissions :
       /\ Decided(s) => /\ status'[s] = status[s]
                        /\ review'[s] = review[s] /\ notices'[s] = notices[s]
       /\ \A o \in Operations :
            receipts[s][o] # None => receipts'[s][o] = receipts[s][o]
       /\ intent[s] # None =>
            /\ intent'[s] # None
            /\ [intent'[s] EXCEPT !.state = intent[s].state] = intent[s]
            /\ intent[s].state \in {"completed", "failed_terminal"}
                 => intent'[s] = intent[s]]_vars

\* A caller is refused for the reason it is told, although what it is told was
\* pieced together from reads that others wrote between: a decision conflict
\* only when an intent or another review stands in its way; a closed submission
\* only when it is decided, and never to the publisher whose own intent was
\* published (another's may be, inserted and finalized between the look for an
\* intent and the look at the submission); and a decision that lost its batch
\* always learns why.
Answers(w, code) ==
  pc[w] # "done" /\ pc'[w] = "done" /\ reply'[w] = [error |-> code]

RefusalsAreExplained ==
  [][\A w \in Requests :
       LET s == call[w].sub IN
       /\ Answers(w, "decision_conflict") =>
            \/ intent[s] # None
            \/ review[s] # None /\ review[s] # ReviewOf(call[w])
       /\ Answers(w, "submission_not_pending") =>
            /\ Decided(s)
            /\ status[s] = "published" => intent[s].rev # w
       /\ pc[w] \in {"decideFailed", "readGuard", "readReview"} /\ Answers(w, "unavailable")
            => crashes' # crashes]_vars

\* An interrupted publication is finished by recovery, or condemned, as long
\* as its target stays active, its reviewer an administrator and its item out
\* of the trash.
Resumable(s) ==
  intent[s] # None =>
    /\ intent[s].why \in available /\ intent[s].by \in admins
    /\ items[intent[s].item] # "trashed"

RecoveryFinishes ==
  \A s \in Submissions :
    <>[]Resumable(s) =>
      []<>(intent[s] = None \/ intent[s].state \in {"completed", "failed_terminal"})

\* Refinement: with the revision or the review as outcome, review keeps the
\* promise of ReviewOutcome.
OutcomeOf(a) ==
  IF a.decision = "published" THEN [decision |-> "published", rev |-> a.rev] ELSE a

Outcome ==
  [s \in Submissions |->
     IF review[s] = None THEN None
     ELSE IF review[s].decision = "published"
          THEN [decision |-> "published", rev |-> intent[s].rev]
     ELSE review[s]]

Answered ==
  [s \in Submissions |-> [o \in Operations |->
     IF receipts[s][o] = None THEN None ELSE OutcomeOf(receipts[s][o].answer)]]

Promise ==
  INSTANCE ReviewOutcome WITH
    Outcomes <- OutcomeType, Pending  <- None, outcome <- Outcome, answered <- Answered

KeepsPromise == Promise!Spec

\* migrations/0069: "a lost response can be retried under the same number and
\* replayed from its original receipt instead of acting twice".  So a request
\* whose own decision is already the committed review is not refused.
CommittedDecisionIsReplayed ==
  [][\A w \in Requests :
       Answers(w, "target_invalid") /\ HasOperation(call[w])
         => review[call[w].sub] # ReviewOf(call[w])]_vars
=============================================================================
