---------------------------- MODULE Work_proofs ----------------------------
(***************************************************************************)
(* The inbox: an item becomes one task, for any number of requests, other  *)
(* tasks and any limit of tasks.                                           *)
(*                                                                         *)
(* That two promotions never both win rests on the status of the item: the *)
(* batch of a promotion needs an item that is not promoted and leaves one  *)
(* that is for good, while the task that names it may go.                  *)
(*                                                                         *)
(* Reparsed sources: what was corrected and promoted of one stays, for any *)
(* number of requests that share the job.                                  *)
(*                                                                         *)
(* The claim of a job does not keep a second worker out.  What protects    *)
(* the candidate is that the job says "indexed" exactly while it has one,  *)
(* and that no write of a parser matches a job that does.                  *)
(*                                                                         *)
(* Submissions: a key names one submission, and what a request found under *)
(* its key or by its content stays what it found.  That two submissions of *)
(* one content are never both originals needs that what was published, and *)
(* what is named an original, was submitted.                               *)
(*                                                                         *)
(* Tasks: a version is the clock or one more than what was read, so the    *)
(* clock and the number of requests that wrote bound it.  A change of      *)
(* status is pending until it is notified, and whoever drains carries the  *)
(* changes it has yet to notify, its own one included.                     *)
(*                                                                         *)
(* A conversation: the request that claimed a key is the only one that     *)
(* moves its receipt, and a receipt is pending until that request commits  *)
(* or gives up.  A session: a turn is made once, by the request of its     *)
(* name, and stops being active when it is answered or ended.              *)
(***************************************************************************)
EXTENDS Inbox, Reparse, Submissions, Tasks, ChatTurns, AgentSession, FiniteSetTheorems, TLAPS

\* What a request may still do with the item it has found.
ItemPlaced ==
  \A r \in Requests :
    /\ request[r].at \in {"captured", "get", "update", "batch", "current", "full", "target"}
         => Captured
    /\ At(r, "batch") => request[r].op = "promote"
    /\ request[r].op = "promote" => Captured
    /\ At(r, "new") => ~request[r].promoted
    /\ request[r].at \in {"key", "insert", "captured", "update", "current"}
         => (request[r].op = "promote" <=> At(r, "current"))

\* The item remembers that it was promoted, and by whom for as long as the
\* task is there.
Remembered ==
  /\ \A r \in Requests : Promoted(r) => Captured /\ item.status = "promoted"
  /\ \A r, q \in Requests : Promoted(r) /\ Promoted(q) => r = q
  /\ Captured /\ item.task # None =>
       /\ item.status = "promoted" /\ item.task \in tasks /\ Promoted(item.task)
  /\ \A r \in Requests : r \in tasks => Captured /\ item.task = r

\* The task a promotion is told of was made by the one that won.
ItemTold ==
  \A r \in Requests :
    request[r].op = "promote" /\ request[r].at \in {"target", "ok"}
      => request[r].task \in Requests /\ Promoted(request[r].task)

InboxInv == InboxTypeOK /\ ItemPlaced /\ Remembered /\ ItemTold

-----------------------------------------------------------------------------
LEMMA ItemIsTyped ==
  ASSUME InboxTypeOK, Captured
  PROVE  /\ item \in ItemType
         /\ item.version \in Nat
         /\ item.task \in Requests \cup {None}
         /\ item.status \in {"inbox", "archived", "promoted"}
BY DEF InboxTypeOK, Captured, ItemType, ItemVersions

\* What a request that only reads may become.
SoundItem(r, change) ==
  /\ change \in InboxRequest
  /\ change.at \in {"captured", "get", "update", "batch", "current", "full", "target"}
       => Captured
  /\ change.at = "batch" => change.op = "promote"
  /\ change.op = "promote" => Captured
  /\ change.at = "new" => ~change.promoted
  /\ change.at \in {"key", "insert", "captured", "update", "current"}
       => (change.op = "promote" <=> change.at = "current")
  /\ Promoted(r) <=> change.op = "promote" /\ change.promoted
  /\ change.op = "promote" /\ change.at \in {"target", "ok"}
       => change.task \in Requests /\ Promoted(change.task)

LEMMA LookKeeps ==
  ASSUME InboxInv, NEW r \in Requests, NEW change, Looks(r, change), SoundItem(r, change)
  PROVE  InboxInv'
<1>1. /\ request' = [request EXCEPT ![r] = change]
      /\ UNCHANGED <<inboxClock, item, tasks>>
  BY DEF Looks, Do, inbox
<1>2. request \in [Requests -> InboxRequest]
  BY DEF InboxInv, InboxTypeOK
<1>3. /\ request'[r] = change
      /\ \A q \in Requests : q # r => request'[q] = request[q]
  BY <1>1, <1>2
<1>4. \A q \in Requests : Promoted(q)' <=> Promoted(q)
  BY <1>3 DEF Promoted, SoundItem
<1>5. Captured' <=> Captured
  BY <1>1 DEF Captured
<1>6. InboxTypeOK'
  BY <1>1 DEF InboxInv, InboxTypeOK, SoundItem
<1>7. ItemPlaced'
  BY <1>3, <1>5 DEF InboxInv, ItemPlaced, At, SoundItem
<1>8. Remembered'
  <2>1. Remembered
    BY DEF InboxInv
  <2>2. Captured => item.task \in Requests \cup {None}
    BY ItemIsTyped DEF InboxInv
  <2> QED
    BY <1>1, <1>4, <1>5, <2>1, <2>2, InboxAssumption DEF Remembered
<1>9. ItemTold'
  BY <1>3, <1>4 DEF InboxInv, ItemTold, At, SoundItem
<1> QED
  BY <1>6, <1>7, <1>8, <1>9 DEF InboxInv

\* Every step that only reads is one of these.
LEMMA ItemReadersKeep ==
  ASSUME InboxInv, NEW r \in Requests,
         \/ Capture(r) \/ FindByClientKey(r) \/ FindCaptured(r)
         \/ (\E to \in Filed : File(r, to)) \/ ReadForFile(r)
         \/ PromoteItem(r) \/ (\E q \in Requests : PromoteAgain(r, q))
         \/ ReadForPromotion(r) \/ ReadPromoted(r) \/ CountForPromotion(r) \/ FindTarget(r)
  PROVE  InboxInv'
<1>1. request \in [Requests -> InboxRequest]
  BY DEF InboxInv, InboxTypeOK
<1>2. Captured => item \in ItemType
  BY ItemIsTyped DEF InboxInv
<1>3. /\ inboxClock \in Nat
      /\ \A version \in Nat : NextItemVersion(version) \in Nat
  BY InboxAssumption DEF InboxInv, InboxTypeOK, NextItemVersion
<1>4. ItemPlaced /\ Remembered /\ ItemTold
  BY DEF InboxInv
<1> USE <1>1, <1>2, <1>3, <1>4, LookKeeps
    DEF At, SoundItem, Promoted, InboxRequest, ItemVersions
<1>5. CASE Capture(r)
  BY <1>5 DEF Capture, NoCapture, ItemPlaced
<1>6. CASE FindByClientKey(r)
  BY <1>6, ZenonT(60) DEF FindByClientKey, AnswerItem, ItemType, ItemPlaced
<1>7. CASE FindCaptured(r)
  BY <1>7, ZenonT(60) DEF FindCaptured, AnswerItem, ItemType, ItemPlaced
<1>8. CASE \E to \in Filed : File(r, to)
  BY <1>8, ZenonT(60) DEF File, Filed, NoCapture, ItemType, ItemPlaced
<1>9. CASE ReadForFile(r)
  BY <1>9, ZenonT(60) DEF ReadForFile, ItemType, ItemPlaced
<1>10. CASE PromoteItem(r)
  BY <1>10 DEF PromoteItem, NoCapture, ItemType, ItemPlaced
<1>11. CASE \E q \in Requests : PromoteAgain(r, q)
  <2>1. PICK q \in Requests : PromoteAgain(r, q)
    BY <1>11
  <2> DEFINE change == [NoCapture EXCEPT !.op = "promote", !.at = "get",
                                         !.named = request[q].named]
  <2>2. request[q].named \in Nat /\ request[q].op = "promote" /\ At(r, "new")
    BY <2>1 DEF PromoteAgain
  <2>3. Captured
    BY <2>2 DEF ItemPlaced
  <2> QED
    BY <2>1, <2>2, <2>3 DEF PromoteAgain, NoCapture, ItemPlaced
<1>12. CASE ReadForPromotion(r)
  BY <1>12, ZenonT(60) DEF ReadForPromotion, ItemType, ItemPlaced
<1>13. CASE ReadPromoted(r)
  <2>1. Captured /\ request[r].op = "promote" /\ At(r, "current")
    BY <1>13 DEF ReadPromoted, ItemPlaced
  <2>2. CASE item.task # None
    <3>1. item.task \in Requests /\ Promoted(item.task)
      BY <2>1, <2>2 DEF ItemType, Remembered
    <3> DEFINE change == [request[r] EXCEPT !.at = "target", !.task = item.task]
    <3>2. Looks(r, change)
      BY <1>13, <2>2 DEF ReadPromoted
    <3>3. /\ change \in InboxRequest /\ change.op = "promote" /\ change.at = "target"
          /\ change.task = item.task /\ change.promoted = request[r].promoted
      BY <2>1, <3>1, ZenonT(60)
    <3> QED
      BY <2>1, <3>1, <3>2, <3>3
  <2>3. CASE item.task = None
    BY <1>13, <2>1, <2>3 DEF ReadPromoted
  <2> QED
    BY <2>2, <2>3
<1>14. CASE CountForPromotion(r)
  BY <1>14 DEF CountForPromotion, ItemPlaced
<1>15. CASE FindTarget(r)
  BY <1>15 DEF FindTarget, ItemPlaced, ItemTold
<1> QED
  BY <1>5, <1>6, <1>7, <1>8, <1>9, <1>10, <1>11, <1>12, <1>13, <1>14, <1>15
-----------------------------------------------------------------------------
(* The steps that write. *)

LEMMA ItemInsertKeeps ==
  ASSUME InboxInv, NEW r \in Requests, InsertItem(r)
  PROVE  InboxInv'
<1>1. /\ At(r, "insert")
      /\ request' = [request EXCEPT ![r].at = "captured"]
      /\ UNCHANGED <<inboxClock, tasks>>
  BY DEF InsertItem, Go
<1>2. request \in [Requests -> InboxRequest]
  BY DEF InboxInv, InboxTypeOK
<1>3. /\ request'[r] = [request[r] EXCEPT !.at = "captured"]
      /\ \A q \in Requests : q # r => request'[q] = request[q]
  BY <1>1, <1>2
<1>4. \A q \in Requests : Promoted(q)' <=> Promoted(q)
  BY <1>2, <1>3 DEF Promoted, InboxRequest
<1>5. CASE Captured
  <2>1. item' = item /\ Captured'
    BY <1>5 DEF InsertItem, KeyFree, Captured
  <2>2. InboxTypeOK'
    BY <1>1, <1>2, <1>3, <2>1 DEF InboxInv, InboxTypeOK, InboxRequest
  <2>3. ItemPlaced'
    BY <1>1, <1>2, <1>3, <2>1 DEF InboxInv, ItemPlaced, At, InboxRequest
  <2>4. Remembered'
    BY <1>1, <1>4, <1>5, <2>1, ItemIsTyped, InboxAssumption DEF InboxInv, Remembered
  <2>5. ItemTold'
    BY <1>1, <1>2, <1>3, <1>4 DEF InboxInv, ItemTold, At, InboxRequest
  <2> QED
    BY <2>2, <2>3, <2>4, <2>5 DEF InboxInv
<1>6. CASE ~Captured
  <2> DEFINE new == [id |-> r, version |-> request[r].stamp, status |-> "inbox", task |-> None]
  <2>1. item' = new
    BY <1>6 DEF InsertItem, KeyFree
  <2>2. new \in ItemType
    BY <1>2 DEF InboxRequest, ItemType
  <2>3. Captured'
    BY <2>1, <2>2, InboxAssumption DEF Captured
  <2>4. InboxTypeOK'
    BY <1>1, <1>2, <1>3, <2>1, <2>2 DEF InboxInv, InboxTypeOK, InboxRequest
  <2>5. ItemPlaced'
    BY <1>1, <1>2, <1>3, <2>3 DEF InboxInv, ItemPlaced, At, InboxRequest
  <2>6. Remembered'
    BY <1>1, <1>4, <1>6, <2>1 DEF InboxInv, Remembered
  <2>7. ItemTold'
    BY <1>1, <1>2, <1>3, <1>4 DEF InboxInv, ItemTold, At, InboxRequest
  <2> QED
    BY <2>4, <2>5, <2>6, <2>7 DEF InboxInv
<1> QED
  BY <1>5, <1>6

LEMMA ItemUpdateKeeps ==
  ASSUME InboxInv, NEW r \in Requests, UpdateItem(r)
  PROVE  InboxInv'
<1>1. /\ At(r, "update") /\ Captured
      /\ request'  \in {[request EXCEPT ![r].at = "ok"], [request EXCEPT ![r].at = "conflict"]}
      /\ UNCHANGED <<inboxClock, tasks>>
  BY DEF UpdateItem, Go, InboxInv, ItemPlaced, At
<1>2. request \in [Requests -> InboxRequest] /\ item \in ItemType
  BY <1>1, ItemIsTyped DEF InboxInv, InboxTypeOK
<1>3. /\ request'[r] \in {[request[r] EXCEPT !.at = a] : a \in {"ok", "conflict"}}
      /\ \A q \in Requests : q # r => request'[q] = request[q]
  BY <1>1, <1>2
<1>4. \A q \in Requests : Promoted(q)' <=> Promoted(q)
  BY <1>2, <1>3 DEF Promoted, InboxRequest
<1>5. \/ item' = item
      \/ /\ item.status \in Filed
         /\ item' = [item EXCEPT !.status = request[r].to, !.version = request[r].stamp]
  BY DEF UpdateItem
<1>6. item' \in ItemType /\ item'.task = item.task
      /\ (item'.status = item.status \/ item.status \in Filed)
  BY <1>2, <1>5 DEF ItemType, InboxRequest
<1>7. Captured'
  BY <1>6, InboxAssumption DEF Captured
<1>8. InboxTypeOK'
  BY <1>1, <1>2, <1>3, <1>6 DEF InboxInv, InboxTypeOK, InboxRequest
<1>9. ItemPlaced'
  BY <1>1, <1>2, <1>3, <1>7 DEF InboxInv, ItemPlaced, At, InboxRequest
<1>10. Remembered'
  BY <1>1, <1>2, <1>4, <1>6, <1>7, InboxAssumption DEF InboxInv, Remembered, Filed, ItemType
<1>11. ItemTold'
  BY <1>1, <1>2, <1>3, <1>4 DEF InboxInv, ItemTold, ItemPlaced, At, InboxRequest
<1> QED
  BY <1>8, <1>9, <1>10, <1>11 DEF InboxInv

LEMMA PromotionKeeps ==
  ASSUME InboxInv, NEW r \in Requests, PromotionBatch(r)
  PROVE  InboxInv'
<1>1. At(r, "batch") /\ Captured /\ request[r].op = "promote" /\ UNCHANGED inboxClock
  BY DEF PromotionBatch, InboxInv, ItemPlaced, At
<1>2. request \in [Requests -> InboxRequest] /\ item \in ItemType
  BY <1>1, ItemIsTyped DEF InboxInv, InboxTypeOK
<1>3. CASE /\ Go(r, "current") /\ UNCHANGED <<tasks, item>>
  <2> DEFINE change == [request[r] EXCEPT !.at = "current"]
  <2>1. Looks(r, change)
    BY <1>1, <1>2, <1>3 DEF Go, Looks, Do, inbox
  <2>2. SoundItem(r, change)
    BY <1>1, <1>2 DEF SoundItem, InboxRequest, Promoted
  <2> QED
    BY <2>1, <2>2, LookKeeps
<1>4. CASE Unpromoted(r) /\ ~(Go(r, "current") /\ UNCHANGED <<tasks, item>>)
  <2>1. /\ item.status \in Filed /\ item.task = None
        /\ tasks' = tasks \cup {r}
        /\ item' = [item EXCEPT !.status = "promoted", !.task = r, !.version = request[r].stamp]
        /\ request' = [request EXCEPT ![r] = [request[r] EXCEPT !.at = "current", !.promoted = TRUE]]
    BY <1>4 DEF PromotionBatch, Unpromoted, Do
  <2>2. /\ request'[r] = [request[r] EXCEPT !.at = "current", !.promoted = TRUE]
        /\ \A q \in Requests : q # r => request'[q] = request[q]
    BY <1>2, <2>1
  <2>3. \A q \in Requests : ~Promoted(q)
    BY <2>1 DEF InboxInv, Remembered, Filed
  <2>4. \A q \in Requests : Promoted(q)' <=> q = r
    BY <1>1, <1>2, <2>2, <2>3 DEF Promoted, InboxRequest
  <2>5. item' \in ItemType /\ item'.status = "promoted" /\ item'.task = r
    BY <1>2, <2>1 DEF ItemType, InboxRequest
  <2>6. Captured'
    BY <2>5, InboxAssumption DEF Captured
  <2>7. \A q \in Requests : q \notin tasks
    BY <1>1, <2>1, InboxAssumption DEF InboxInv, Remembered
  <2>8. InboxTypeOK'
    <3> DEFINE change == [request[r] EXCEPT !.at = "current", !.promoted = TRUE]
    <3>1. change \in InboxRequest
      BY <1>2, ZenonT(60) DEF InboxRequest
    <3>2. request' \in [Requests -> InboxRequest]
      BY <1>2, <2>1, <3>1
    <3> QED
      BY <1>1, <2>1, <2>5, <3>2 DEF InboxInv, InboxTypeOK
  <2>9. ItemPlaced'
    <3>1. request'[r].at = "current" /\ request'[r].op = "promote"
      BY <1>1, <1>2, <2>2 DEF InboxRequest
    <3> QED
      BY <2>2, <2>6, <3>1 DEF InboxInv, ItemPlaced, At
  <2>10. Remembered'
    BY <2>1, <2>4, <2>5, <2>6, <2>7 DEF Remembered
  <2>11. ItemTold'
    BY <1>1, <1>2, <2>2, <2>3, <2>4 DEF InboxInv, ItemTold, At, InboxRequest
  <2> QED
    BY <2>8, <2>9, <2>10, <2>11 DEF InboxInv
<1> QED
  BY <1>3, <1>4 DEF PromotionBatch

\* The member's tasks come and go.
LEMMA TasksKeep ==
  ASSUME InboxInv,
         TickInbox \/ \E t \in Requests \cup Others : AddTask(t) \/ DropTask(t)
  PROVE  InboxInv'
<1>1. UNCHANGED request
  BY DEF TickInbox, AddTask, DropTask
<1>2. \A q \in Requests : Promoted(q)' <=> Promoted(q)
  BY <1>1 DEF Promoted
<1>3. CASE TickInbox
  <2>1. UNCHANGED <<item, tasks>> /\ inboxClock' \in 0..MaxInboxClock
    BY <1>3, InboxAssumption DEF TickInbox, InboxInv, InboxTypeOK
  <2>2. InboxTypeOK'
    BY <1>1, <2>1 DEF InboxInv, InboxTypeOK
  <2>3. ItemPlaced' /\ Remembered' /\ ItemTold'
    BY <1>1, <2>1 DEF InboxInv, ItemPlaced, Remembered, ItemTold, Promoted, At, Captured
  <2> QED
    BY <2>2, <2>3 DEF InboxInv
<1>4. ASSUME NEW t \in Others, AddTask(t)
      PROVE  InboxInv'
  <2>1. UNCHANGED <<item, inboxClock>> /\ tasks' = tasks \cup {t}
    BY <1>4 DEF AddTask
  <2>2. InboxTypeOK'
    BY <1>1, <2>1 DEF InboxInv, InboxTypeOK
  <2>3. ItemPlaced' /\ ItemTold'
    BY <1>1, <2>1 DEF InboxInv, ItemPlaced, ItemTold, Promoted, At, Captured
  <2>4. Remembered'
    BY <1>2, <2>1, ItemIsTyped, InboxAssumption DEF InboxInv, Remembered, Captured
  <2> QED
    BY <2>2, <2>3, <2>4 DEF InboxInv
<1>5. ASSUME NEW t \in Requests \cup Others, DropTask(t)
      PROVE  InboxInv'
  <2>1. /\ UNCHANGED inboxClock /\ tasks' = tasks \ {t}
        /\ item' = IF Captured /\ item.task = t THEN [item EXCEPT !.task = None] ELSE item
    BY <1>5 DEF DropTask
  <2>2. /\ Captured =>
             /\ item' \in ItemType /\ item'.status = item.status
             /\ item'.task = IF item.task = t THEN None ELSE item.task
        /\ ~Captured => item' = item
    BY <2>1, ItemIsTyped DEF InboxInv, ItemType
  <2>3. Captured' <=> Captured
    BY <2>2, InboxAssumption DEF Captured
  <2>4. InboxTypeOK'
    BY <1>1, <2>1, <2>2 DEF InboxInv, InboxTypeOK
  <2>5. ItemPlaced' /\ ItemTold'
    BY <1>1, <1>2, <2>3 DEF InboxInv, ItemPlaced, ItemTold, At
  <2>6. Remembered'
    BY <1>2, <2>1, <2>2, <2>3, ItemIsTyped, InboxAssumption DEF InboxInv, Remembered
  <2> QED
    BY <2>4, <2>5, <2>6 DEF InboxInv
<1> QED
  BY <1>3, <1>4, <1>5 DEF AddTask

-----------------------------------------------------------------------------
\* The inductive invariant of the promotion of an item.
THEOREM InboxInvariance == InboxSpec => []InboxInv
<1>1. InboxInit => InboxInv
  <2> SUFFICES ASSUME InboxInit PROVE InboxInv
    OBVIOUS
  <2>1. NoCapture \in InboxRequest
    BY DEF NoCapture, InboxRequest, ItemVersions
  <2>2. \A r \in Requests : request[r] = NoCapture
    BY DEF InboxInit
  <2>3. InboxTypeOK
    BY <2>1, InboxAssumption DEF InboxInit, InboxTypeOK
  <2>4. ItemPlaced /\ Remembered /\ ItemTold
    BY <2>2 DEF InboxInit, ItemPlaced, Remembered, ItemTold, Promoted, Captured, At, NoCapture
  <2> QED
    BY <2>3, <2>4 DEF InboxInv
<1>2. InboxInv /\ [InboxNext]_inboxVars => InboxInv'
  <2> SUFFICES ASSUME InboxInv, [InboxNext]_inboxVars PROVE InboxInv'
    OBVIOUS
  <2>1. CASE InboxNext
    BY <2>1, ItemReadersKeep, ItemInsertKeeps, ItemUpdateKeeps, PromotionKeeps, TasksKeep DEF InboxNext
  <2>2. CASE UNCHANGED inboxVars
    BY <2>2 DEF inboxVars, inbox, InboxInv, InboxTypeOK, ItemPlaced, Remembered, ItemTold, Promoted,
                Captured, At
  <2> QED
    BY <2>1, <2>2
<1> QED
  BY <1>1, <1>2, PTL DEF InboxSpec

\* An item becomes one task in its life, and it and the task are of one mind,
\* for any number of overlapping and repeated requests.
THEOREM OneTaskCorrect == InboxSpec => []OneTaskPerItem
<1>1. InboxInv => OneTaskPerItem
  BY InboxAssumption DEF InboxInv, Remembered, ItemTold, At, OneTaskPerItem
<1> QED
  BY <1>1, InboxInvariance, PTL

-----------------------------------------------------------------------------
(* The job of a reparsed source. *)

\* The corrections that were stored.
Corrected == {r \in Requests : request[r].op = "correct" /\ At(r, "ok")}

Reviewed == {"parsed"} \cup Corrected

HasCandidate == reparse # None /\ reparse.candidate # None

\* The job says so when it has a candidate, one that was parsed or corrected.
JobSays ==
  reparse # None =>
    /\ reparse.candidate # None <=> reparse.status = "indexed"
    /\ reparse.candidate \in {None} \cup Reviewed

\* What a request relies on: the job stays, and so does that it has a candidate.
Relied ==
  \A r \in Requests :
    /\ request[r].at \in {"load", "claim", "parse", "complete", "failed", "refused", "correct"}
         => reparse # None
    /\ request[r].at \in {"ready", "correct"} => request[r].op = "correct"
    /\ At(r, "correct") => HasCandidate
    /\ request[r].ready => HasCandidate
    /\ At(r, "promote") => HasCandidate
    /\ request[r].candidate \in {None} \cup Reviewed

ReparseInv == ReparseTypeOK /\ JobSays /\ Relied

-----------------------------------------------------------------------------
\* What a step may make of the request that takes it.
SoundJob(r) ==
  LET change == request'[r] IN
  /\ change \in ReparseRequest
  /\ change.at \in {"load", "claim", "parse", "complete", "failed", "refused", "correct"}
       => reparse' # None
  /\ change.at \in {"ready", "correct"} => change.op = "correct"
  /\ change.at = "correct" => HasCandidate'
  /\ change.ready => HasCandidate'
  /\ change.at = "promote" => HasCandidate'
  /\ \/ change.candidate \in {None, request[r].candidate}
     \/ reparse # None /\ change.candidate = reparse.candidate

TakesJob(r) ==
  /\ request' = [request EXCEPT ![r] = request'[r]]
  /\ ~At(r, "ok")

\* Whatever becomes of the job, as long as it keeps a candidate.
LEMMA JobStepKeeps ==
  ASSUME ReparseInv, NEW r \in Requests, TakesJob(r), SoundJob(r),
         reparse # None => reparse' # None,
         HasCandidate => HasCandidate'
  PROVE  /\ request' \in [Requests -> ReparseRequest]
         /\ Reviewed \subseteq Reviewed'
         /\ Relied'
<1> DEFINE change == request'[r]
<1>1. request \in [Requests -> ReparseRequest] /\ JobSays /\ Relied
  BY DEF ReparseInv, ReparseTypeOK
<1>2. \A q \in Requests : q # r => request'[q] = request[q]
  BY <1>1 DEF TakesJob
<1>3. request' \in [Requests -> ReparseRequest]
  BY <1>1 DEF SoundJob, TakesJob
<1>4. Reviewed \subseteq Reviewed'
  BY <1>2 DEF Reviewed, Corrected, At, TakesJob
<1>5. change.candidate \in {None} \cup Reviewed
  BY <1>1 DEF SoundJob, JobSays, Relied
<1>6. Relied'
  BY <1>1, <1>2, <1>4, <1>5 DEF Relied, SoundJob, At
<1> QED
  BY <1>3, <1>4, <1>6

\* The steps that leave the job alone.
LEMMA JobReadersKeep ==
  ASSUME ReparseInv, NEW r \in Requests, TakesJob(r), SoundJob(r),
         UNCHANGED reparse, promoted' \in Candidates \cup {None}
  PROVE  ReparseInv'
<1>1. /\ request' \in [Requests -> ReparseRequest]
      /\ Reviewed \subseteq Reviewed'
      /\ Relied'
  BY JobStepKeeps DEF HasCandidate
<1>2. JobSays'
  BY <1>1 DEF ReparseInv, JobSays
<1>3. ReparseTypeOK'
  BY <1>1 DEF ReparseInv, ReparseTypeOK
<1> QED
  BY <1>1, <1>2, <1>3 DEF ReparseInv

LEMMA ReadingStep ==
  ASSUME ReparseInv, NEW r \in Requests,
         \/ AskReparse(r, "reparse", "lookup")
         \/ AskReparse(r, "correct", "ready")
         \/ AskReparse(r, "publish", "find")
         \/ FindJob(r) \/ LoadJob(r) \/ ParseSource(r) \/ ReadForCorrection(r)
         \/ LookForPromotion(r) \/ FindPromotion(r) \/ ReadCandidate(r) \/ RecoverPromotion(r),
         UNCHANGED reparsing
  PROVE  ReparseInv'
<1>1. /\ request \in [Requests -> ReparseRequest] /\ request[r] \in ReparseRequest
      /\ JobSays /\ Relied
      /\ promoted \in Candidates \cup {None}
      /\ reparse \in ReparseJobType \cup {None}
  BY DEF ReparseInv, ReparseTypeOK
<1>2. UNCHANGED <<reparse, promoted>> /\ (HasCandidate' <=> HasCandidate)
  BY DEF reparsing, HasCandidate
<1>3. SUFFICES TakesJob(r) /\ SoundJob(r)
  BY <1>1, <1>2, JobReadersKeep
<1> USE <1>1, <1>2
<1> USE DEF At, Go, Do, Passes, SoundJob, TakesJob, ReparseRequest, Relied
<1>4. ASSUME NEW op \in {"reparse", "correct", "publish"}, NEW step \in {"lookup", "ready", "find"},
             step = "ready" => op = "correct", AskReparse(r, op, step)
      PROVE  TakesJob(r) /\ SoundJob(r)
  <2>1. /\ request' = [request EXCEPT ![r] = [NoReparse EXCEPT !.op = op, !.at = step]]
        /\ At(r, "new")
    BY <1>4 DEF AskReparse
  <2>2. request'[r] = [NoReparse EXCEPT !.op = op, !.at = step]
    BY <2>1
  <2> QED
    BY <1>4, <2>1, <2>2 DEF NoReparse
<1>5. CASE FindJob(r)
  BY <1>5 DEF FindJob
<1>6. CASE LoadJob(r)
  BY <1>6 DEF LoadJob
<1>7. CASE ParseSource(r)
  BY <1>7 DEF ParseSource
<1>8. CASE ReadForCorrection(r)
  BY <1>8 DEF ReadForCorrection, HasCandidate
<1>9. CASE LookForPromotion(r)
  <2>1. CASE reparse = None
    BY <1>9, <2>1 DEF LookForPromotion
  <2>2. CASE reparse # None
    <3> DEFINE ready == IsIndexed /\ reparse.candidate # None
    <3>1. /\ request' = [request EXCEPT ![r] = [request[r] EXCEPT !.at = "read", !.ready = ready]]
          /\ At(r, "find")
      BY <1>9, <2>2 DEF LookForPromotion
    <3>2. ready \in BOOLEAN /\ (ready => HasCandidate)
      BY <2>2 DEF HasCandidate
    <3> HIDE DEF ready
    <3>3. request'[r] = [request[r] EXCEPT !.at = "read", !.ready = ready]
      BY <3>1
    <3> QED
      BY <3>1, <3>2, <3>3
  <2> QED
    BY <2>1, <2>2
<1>10. CASE FindPromotion(r)
  BY <1>10 DEF FindPromotion
<1>11. CASE ReadCandidate(r)
  BY <1>11 DEF ReadCandidate, HasCandidate, ReparseJobType
<1>12. CASE RecoverPromotion(r)
  BY <1>12 DEF RecoverPromotion
<1> QED
  BY <1>4, <1>5, <1>6, <1>7, <1>8, <1>9, <1>10, <1>11, <1>12

-----------------------------------------------------------------------------
(* The steps that write. *)

\* A write keeps what JobSays of the row it leaves.
LEMMA JobWriteKeeps ==
  ASSUME ReparseInv, NEW r \in Requests, TakesJob(r), SoundJob(r),
         reparse' \in ReparseJobType,
         reparse'.candidate # None <=> reparse'.status = "indexed",
         \/ reparse'.candidate \in {None, "parsed"}
         \/ reparse # None /\ reparse'.candidate = reparse.candidate
         \/ /\ reparse'.candidate = r
            /\ request'[r].op = "correct" /\ request'[r].at = "ok",
         HasCandidate => HasCandidate',
         UNCHANGED promoted
  PROVE  ReparseInv'
<1>1. reparse' # None
  BY ReparseAssumption
<1>2. /\ request' \in [Requests -> ReparseRequest]
      /\ Reviewed \subseteq Reviewed'
      /\ Relied'
  BY <1>1, JobStepKeeps
<1>3. reparse'.candidate \in {None} \cup Reviewed'
  <2>1. CASE reparse'.candidate \in {None, "parsed"}
    BY <2>1 DEF Reviewed
  <2>2. CASE reparse # None /\ reparse'.candidate = reparse.candidate
    BY <1>2, <2>2 DEF ReparseInv, JobSays
  <2>3. CASE reparse'.candidate = r /\ request'[r].op = "correct" /\ request'[r].at = "ok"
    BY <2>3 DEF Reviewed, Corrected, At
  <2> QED
    BY <2>1, <2>2, <2>3
<1>4. JobSays'
  BY <1>3 DEF JobSays
<1>5. ReparseTypeOK'
  BY <1>2 DEF ReparseInv, ReparseTypeOK
<1> QED
  BY <1>2, <1>4, <1>5 DEF ReparseInv

LEMMA WritingStep ==
  ASSUME ReparseInv, NEW r \in Requests,
         QueueJob(r) \/ ClaimJob(r) \/ CompleteJob(r) \/ FailJob(r) \/ Correct(r)
  PROVE  ReparseInv'
<1>1. /\ request \in [Requests -> ReparseRequest] /\ request[r] \in ReparseRequest
      /\ JobSays /\ Relied
      /\ promoted \in Candidates \cup {None}
      /\ reparse \in ReparseJobType \cup {None}
      /\ None \notin ReparseJobType /\ None # "parsed" /\ None # r
  BY ReparseAssumption DEF ReparseInv, ReparseTypeOK, Candidates
<1> USE <1>1
<1>2. CASE UNCHANGED reparse
  <2>1. /\ request[r].at \in {"queue", "claim", "complete", "failed", "refused", "correct"}
        /\ \E step \in {"load", "error", "parse", "ok", "failed", "changed"} :
             /\ request' = [request EXCEPT ![r].at = step]
             /\ step \in {"load", "parse", "failed"} => reparse # None
    <3>1. CASE QueueJob(r)
      <4>1. [status |-> "queued", attempts |-> 0, candidate |-> None] \in ReparseJobType
        BY DEF ReparseJobType, ReparseAttempts
      <4> QED
        BY <1>2, <3>1, <4>1 DEF QueueJob, At, Go, Passes
    <3>2. CASE ClaimJob(r) \/ CompleteJob(r) \/ FailJob(r) \/ Correct(r)
      BY <3>2 DEF ClaimJob, CompleteJob, FailJob, Correct, At, Go, Passes, Relied
    <3> QED
      BY <3>1, <3>2
  <2>2. TakesJob(r) /\ SoundJob(r)
    BY <1>2, <2>1 DEF At, SoundJob, TakesJob, ReparseRequest, Relied, HasCandidate
  <2>3. UNCHANGED promoted
    BY DEF QueueJob, ClaimJob, CompleteJob, FailJob, Correct, Passes, reparsing
  <2> QED
    BY <1>2, <2>2, <2>3, JobReadersKeep
<1>3. CASE QueueJob(r) /\ reparse' # reparse
  <2>1. /\ reparse = None /\ UNCHANGED promoted /\ At(r, "queue")
        /\ reparse' = [status |-> "queued", attempts |-> 0, candidate |-> None]
        /\ request' = [request EXCEPT ![r].at = "load"]
    BY <1>3 DEF QueueJob, Passes, reparsing, Go
  <2>2. reparse' \in ReparseJobType
    BY <2>1 DEF ReparseJobType, ReparseAttempts
  <2>3. TakesJob(r) /\ SoundJob(r)
    BY <2>1, <2>2 DEF At, SoundJob, TakesJob, ReparseRequest, Relied, HasCandidate
  <2> QED
    BY <2>1, <2>2, <2>3, JobWriteKeeps DEF HasCandidate
<1>4. CASE ClaimJob(r) /\ reparse' # reparse
  <2>1. /\ reparse.status \in {"queued", "failed_retryable"} /\ reparse.attempts < ReparseAttempts
        /\ reparse' = [reparse EXCEPT !.status = "processing", !.attempts = @ + 1]
        /\ At(r, "claim") /\ UNCHANGED promoted
        /\ request' = [request EXCEPT ![r].at = "parse"]
    BY <1>4 DEF ClaimJob, Go
  <2>2. reparse # None /\ reparse.candidate = None
    BY <2>1 DEF Relied, JobSays, At
  <2>3. reparse' \in ReparseJobType /\ reparse'.status = "processing" /\ reparse'.candidate = None
    <3>1. reparse.attempts + 1 \in 0..ReparseAttempts
      BY <2>1, <2>2 DEF ReparseJobType, ReparseAttempts
    <3>2. reparse' = [reparse EXCEPT !.status = "processing", !.attempts = reparse.attempts + 1]
      BY <2>1, <2>2 DEF ReparseJobType
    <3> QED
      BY <2>2, <3>1, <3>2 DEF ReparseJobType
  <2>4. ~HasCandidate
    BY <2>2 DEF HasCandidate
  <2>5. TakesJob(r) /\ SoundJob(r)
    BY <2>1, <2>3, <2>4 DEF At, SoundJob, TakesJob, ReparseRequest, Relied
  <2> QED
    BY <2>1, <2>3, <2>4, <2>5, JobWriteKeeps
<1>5. CASE CompleteJob(r) /\ reparse' # reparse
  <2>1. /\ reparse.status = "processing"
        /\ reparse' = [reparse EXCEPT !.status = "indexed", !.candidate = "parsed"]
        /\ At(r, "complete") /\ UNCHANGED promoted
        /\ \/ request' = [request EXCEPT ![r].at = "ok"]
           \/ request' = [request EXCEPT ![r].at = "failed"]
    BY <1>5 DEF CompleteJob, InProgress, Go
  <2>2. reparse \in ReparseJobType
    BY <2>1 DEF Relied, At
  <2>3. /\ reparse' \in ReparseJobType
        /\ reparse'.status = "indexed" /\ reparse'.candidate = "parsed"
    BY <2>1, <2>2 DEF ReparseJobType, Candidates
  <2>4. HasCandidate'
    BY <2>3 DEF HasCandidate
  <2>5. TakesJob(r) /\ SoundJob(r)
    BY <2>1, <2>3, <2>4 DEF At, SoundJob, TakesJob, ReparseRequest, Relied
  <2> QED
    BY <2>1, <2>3, <2>4, <2>5, JobWriteKeeps
<1>6. CASE FailJob(r) /\ reparse' # reparse
  <2>1. /\ reparse.status = "processing" /\ UNCHANGED promoted
        /\ \/ reparse' = [reparse EXCEPT !.status = "failed_terminal"]
           \/ reparse' = [reparse EXCEPT !.status = "failed_retryable"]
        /\ request[r].at \in {"failed", "refused"}
        /\ request' = [request EXCEPT ![r].at = "ok"]
    BY <1>6 DEF FailJob, InProgress, Go
  <2>2. reparse \in ReparseJobType /\ reparse.candidate = None
    BY <2>1 DEF Relied, JobSays
  <2>3. /\ reparse' \in ReparseJobType
        /\ reparse'.status # "indexed" /\ reparse'.candidate = None
    BY <2>1, <2>2 DEF ReparseJobType
  <2>4. ~HasCandidate
    BY <2>2 DEF HasCandidate
  <2>5. TakesJob(r) /\ SoundJob(r)
    BY <2>1, <2>3, <2>4 DEF At, SoundJob, TakesJob, ReparseRequest, Relied
  <2> QED
    BY <2>1, <2>3, <2>4, <2>5, JobWriteKeeps
<1>7. CASE Correct(r) /\ reparse' # reparse
  <2>1. /\ reparse.status = "indexed" /\ UNCHANGED promoted
        /\ reparse' = [reparse EXCEPT !.candidate = r]
        /\ At(r, "correct")
        /\ request' = [request EXCEPT ![r].at = "ok"]
    BY <1>7 DEF Correct, IsIndexed, Passes, reparsing, Go
  <2>2. reparse \in ReparseJobType /\ request[r].op = "correct"
    BY <2>1 DEF Relied, At
  <2>3. /\ reparse' \in ReparseJobType
        /\ reparse'.status = "indexed" /\ reparse'.candidate = r
    BY <2>1, <2>2 DEF ReparseJobType, Candidates
  <2>4. HasCandidate'
    BY <2>3 DEF HasCandidate
  <2>5. TakesJob(r) /\ SoundJob(r)
    BY <2>1, <2>3, <2>4 DEF At, SoundJob, TakesJob, ReparseRequest, Relied
  <2>6. request'[r].op = "correct" /\ request'[r].at = "ok"
    BY <2>1, <2>2 DEF ReparseRequest
  <2> QED
    BY <2>1, <2>3, <2>4, <2>5, <2>6, JobWriteKeeps
<1> QED
  BY <1>2, <1>3, <1>4, <1>5, <1>6, <1>7

\* What is promoted was a candidate when it was read, and there still is one.
LEMMA PromotingStep ==
  ASSUME ReparseInv, NEW r \in Requests, PromoteJob(r)
  PROVE  /\ ReparseInv'
         /\ UNCHANGED reparse
         /\ promoted # None => promoted' = promoted
         /\ promoted' # promoted => HasCandidate /\ promoted' \in Reviewed
<1>1. /\ request \in [Requests -> ReparseRequest] /\ request[r] \in ReparseRequest
      /\ Relied /\ promoted \in Candidates \cup {None}
  BY DEF ReparseInv, ReparseTypeOK
<1>2. /\ UNCHANGED reparse /\ At(r, "promote")
      /\ \/ request' = [request EXCEPT ![r].at = "ok"]
         \/ request' = [request EXCEPT ![r].at = "recover"]
      /\ \/ promoted' = promoted
         \/ /\ promoted = None
            /\ promoted' = request[r].candidate /\ request[r].candidate # None
  BY DEF PromoteJob, UnpromotedJob, Passes, reparsing, Go
<1>3. HasCandidate /\ request[r].candidate \in {None} \cup Reviewed
  BY <1>1, <1>2 DEF Relied, At
<1>4. promoted' \in Candidates \cup {None}
  BY <1>1, <1>2 DEF ReparseRequest
<1>5. TakesJob(r) /\ SoundJob(r)
  BY <1>1, <1>2, <1>3 DEF At, SoundJob, TakesJob, ReparseRequest, HasCandidate
<1>6. ReparseInv'
  BY <1>2, <1>4, <1>5, JobReadersKeep
<1> QED
  BY <1>2, <1>3, <1>6

-----------------------------------------------------------------------------
LEMMA ReparseStep ==
  ASSUME ReparseInv, [ReparseNext]_reparseVars
  PROVE  ReparseInv'
<1>1. ASSUME NEW r \in Requests,
             \/ AskReparse(r, "reparse", "lookup")
             \/ AskReparse(r, "correct", "ready")
             \/ AskReparse(r, "publish", "find")
             \/ FindJob(r) \/ LoadJob(r) \/ ParseSource(r) \/ ReadForCorrection(r)
             \/ LookForPromotion(r) \/ FindPromotion(r) \/ ReadCandidate(r)
             \/ RecoverPromotion(r)
      PROVE  ReparseInv'
  <2>1. UNCHANGED reparsing
    BY <1>1 DEF AskReparse, FindJob, LoadJob, ParseSource, ReadForCorrection, LookForPromotion,
                FindPromotion, ReadCandidate, RecoverPromotion, Passes
  <2> QED
    BY <1>1, <2>1, ReadingStep
<1>2. CASE UNCHANGED reparseVars
  BY <1>2 DEF reparseVars, reparsing, ReparseInv, ReparseTypeOK, JobSays, Relied, Reviewed,
              Corrected, HasCandidate, At
<1> QED
  BY <1>1, <1>2, WritingStep, PromotingStep DEF ReparseNext

\* The inductive invariant of the job and of the requests that share it.
THEOREM ReparseInvariance == ReparseSpec => []ReparseInv
<1>1. ReparseInit => ReparseInv
  BY ReparseAssumption DEF ReparseInit, ReparseInv, ReparseTypeOK, JobSays, Relied, Reviewed,
     HasCandidate, NoReparse, ReparseRequest, At
<1>2. ReparseInv /\ [ReparseNext]_reparseVars => ReparseInv'
  BY ReparseStep
<1> QED
  BY <1>1, <1>2, PTL DEF ReparseSpec

\* What administrators corrected and promoted stays, whichever calls share the
\* job, come late or fail.
THEOREM ReviewedCorrect == ReparseSpec => ReviewedTextStays
<1> DEFINE Stays ==
      /\ reparse # None /\ reparse.candidate # None =>
           /\ reparse'.status = "indexed"
           /\ reparse'.candidate # reparse.candidate
                => \E r \in Requests : At(r, "correct") /\ reparse'.candidate = r
      /\ promoted # None => promoted' = promoted
      /\ promoted' # promoted => reparse.candidate # None /\ promoted' \in Reviewed
<1>1. ReparseInv /\ [ReparseNext]_reparseVars => [Stays]_reparseVars
  <2> SUFFICES ASSUME ReparseInv, ReparseNext
               PROVE  Stays
    OBVIOUS
  <2>1. reparse # None /\ reparse.candidate # None
          => /\ reparse \in ReparseJobType
             /\ reparse.status = "indexed"
    BY DEF ReparseInv, ReparseTypeOK, JobSays
  <2>2. PICK r \in Requests :
          \/ AskReparse(r, "reparse", "lookup")
          \/ AskReparse(r, "correct", "ready")
          \/ AskReparse(r, "publish", "find")
          \/ FindJob(r) \/ QueueJob(r) \/ LoadJob(r) \/ ClaimJob(r) \/ ParseSource(r)
          \/ CompleteJob(r) \/ FailJob(r)
          \/ ReadForCorrection(r) \/ Correct(r)
          \/ LookForPromotion(r) \/ FindPromotion(r) \/ ReadCandidate(r) \/ PromoteJob(r)
          \/ RecoverPromotion(r)
    BY DEF ReparseNext
  <2>3. CASE PromoteJob(r)
    BY <2>1, <2>3, PromotingStep DEF HasCandidate
  <2>4. CASE ~PromoteJob(r)
    <3>1. UNCHANGED promoted
      BY <2>2, <2>4 DEF AskReparse, FindJob, QueueJob, LoadJob, ClaimJob, ParseSource, CompleteJob,
         FailJob, ReadForCorrection, Correct, LookForPromotion, FindPromotion, ReadCandidate,
         RecoverPromotion, Passes, reparsing
    <3>2. CASE Correct(r) /\ reparse' # reparse
      <4>1. At(r, "correct") /\ IsIndexed /\ reparse' = [reparse EXCEPT !.candidate = r]
        BY <3>2 DEF Correct, Passes, reparsing
      <4> QED
        BY <2>1, <3>1, <4>1 DEF ReparseJobType
    <3>3. CASE ~(Correct(r) /\ reparse' # reparse)
      <4>1. reparse # None /\ reparse.candidate # None => reparse' = reparse
        BY <2>1, <2>2, <2>4, <3>3
           DEF AskReparse, FindJob, QueueJob, LoadJob, ClaimJob, ParseSource, CompleteJob, FailJob,
               ReadForCorrection, LookForPromotion, FindPromotion, ReadCandidate,
               RecoverPromotion, Passes, reparsing, InProgress
      <4> QED
        BY <2>1, <3>1, <4>1
    <3> QED
      BY <3>2, <3>3
  <2> QED
    BY <2>3, <2>4
<1>2. [Stays]_reparseVars
        <=> [/\ reparse # None /\ reparse.candidate # None =>
                  /\ reparse'.status = "indexed"
                  /\ reparse'.candidate # reparse.candidate
                       => \E r \in Requests : At(r, "correct") /\ reparse'.candidate = r
             /\ promoted # None => promoted' = promoted
             /\ promoted' # promoted => reparse.candidate # None /\ promoted' \in {"parsed"} \cup
                  {r \in Requests : request[r].op = "correct" /\ At(r, "ok")}]_reparseVars
  BY DEF Reviewed, Corrected
<1> QED
  BY <1>1, <1>2, ReparseInvariance, PTL DEF ReparseSpec, ReviewedTextStays

-----------------------------------------------------------------------------
(* Submissions: one for a key, one original for a content. *)

\* The steps of a request before its submission is there.
Unsubmitted ==
  {"new", "prior", "rejected", "candidate", "creation", "insert", "supersede", "converge",
   "target", "duplicate", "reject"}

\* The steps of a creation or resubmission that has no answer yet.
UnderWay == (Unsubmitted \ {"new"}) \cup {"concurrent", "winner", "loser"}

\* A key has one submission; the originals are there, and what was published was
\* submitted.
Unique ==
  /\ \A s, t \in Submitted : submission[s].key = submission[t].key => s = t
  /\ \A s \in Submitted : submission[s].original # None => submission[s].original \in Submitted
  /\ \A s \in Requests : published[s] # None => s \in Submitted

\* What is so for a request that carries c: what it relies on while it is under
\* way, and what it was answered.
Carried(r, c) ==
  /\ c.at \in Unsubmitted => submission[r] = None
  /\ c.at \in UnderWay =>
       c.op \in {"submit", "resubmit"} /\ c.key \in SubmissionKeys /\ c.input \in Inputs
  /\ c.op = "resubmit" => c.prior \in Submitted
  /\ c.at = "supersede" => c.op = "resubmit"
  /\ c.at = "finalize" => c.op = "purge"
  /\ c.op = "purge" => c.prior \in Requests
  /\ c.at = "candidate" => c.answer \in RejectedUnder(c.key)
  /\ c.at \in {"reject", "winner", "loser"} =>
       /\ c.candidate \in Submitted
       /\ ContentOf[submission[c.candidate].input] = ContentOf[c.input]
  /\ c.op \in {"submit", "resubmit"} /\ c.at = "ok" =>
       /\ c.answer \in OfKey(c.key)
       /\ submission[c.answer].input = c.input
       /\ \/ submission[c.answer].prior = c.prior
          \/ c.candidate # None /\ submission[c.answer].status = "rejected"

SubmissionsInv ==
  /\ SubmissionsTypeOK /\ Unique /\ OneOriginal
  /\ \A r \in Requests : Carried(r, request[r])

\* What a step of any kind leaves of the submissions that are there.
SubmissionsKept ==
  \A s \in Submitted :
    /\ s \in Submitted'
    /\ submission'[s].key = submission[s].key
    /\ submission'[s].input = submission[s].input
    /\ submission'[s].prior = submission[s].prior
    /\ submission'[s].original = submission[s].original
    /\ submission[s].status = "rejected" => submission'[s].status = "rejected"

\* What a request carries stays true while others act.
LEMMA CarriedStays ==
  ASSUME SubmissionsTypeOK, SubmissionsKept, NEW r \in Requests, NEW c, Carried(r, c),
         submission[r] = None => submission'[r] = None
  PROVE  Carried(r, c)'
<1>1. \A k : /\ OfKey(k) \subseteq OfKey(k)'
             /\ RejectedUnder(k) \subseteq RejectedUnder(k)'
  BY DEF SubmissionsKept, OfKey, RejectedUnder, Submitted
<1> QED
  BY <1>1 DEF Carried, SubmissionsKept, OfKey, RejectedUnder

LEMMA OthersCarry ==
  ASSUME SubmissionsInv, SubmissionsKept, NEW r \in Requests, request'[r] = request[r],
         submission[r] = None => submission'[r] = None
  PROVE  Carried(r, request[r])'
<1>1. PICK c : c = request[r]
  OBVIOUS
<1>2. Carried(r, c)'
  BY <1>1, CarriedStays DEF SubmissionsInv
<1> QED
  BY <1>1, <1>2 DEF Carried

\* A request that only reads.
LEMMA FindsKeep ==
  ASSUME SubmissionsInv, NEW r \in Requests, NEW c \in SubmissionRequest,
         Finds(r, c), Carried(r, c)
  PROVE  SubmissionsInv'
<1>1. /\ UNCHANGED <<submission, spaceActive, published>>
      /\ request' = [request EXCEPT ![r] = c]
  BY DEF Finds, Do, sources
<1>2. request \in [Requests -> SubmissionRequest]
  BY DEF SubmissionsInv, SubmissionsTypeOK
<1>3. SubmissionsTypeOK'
  BY <1>1, <1>2 DEF SubmissionsInv, SubmissionsTypeOK
<1>4. Unique' /\ OneOriginal'
  BY <1>1 DEF SubmissionsInv, Unique, OneOriginal, Submitted, Stored
<1>5. SubmissionsKept
  BY <1>1 DEF SubmissionsKept, Submitted
<1>6. ASSUME NEW q \in Requests PROVE Carried(q, request[q])'
  <2>1. CASE q = r
    <3>1. request'[q] = c
      BY <1>1, <1>2, <2>1
    <3>2. Carried(q, c)'
      BY <1>1, <1>5, <2>1, CarriedStays DEF SubmissionsInv
    <3> QED
      BY <3>1, <3>2 DEF Carried
  <2>2. CASE q # r
    <3>1. request'[q] = request[q]
      BY <1>1, <1>2, <2>2
    <3> QED
      BY <1>1, <1>5, <3>1, OthersCarry
  <2> QED
    BY <2>1, <2>2
<1> QED
  BY <1>3, <1>4, <1>6 DEF SubmissionsInv

LEMMA StepsKeep ==
  ASSUME SubmissionsInv, NEW r \in Requests, NEW step \in SubmissionSteps \cup SubmissionAnswers,
         Steps(r, step), Carried(r, [request[r] EXCEPT !.at = step])
  PROVE  SubmissionsInv'
<1>1. request[r] \in SubmissionRequest /\ request \in [Requests -> SubmissionRequest]
  BY DEF SubmissionsInv, SubmissionsTypeOK
<1>2. [request[r] EXCEPT !.at = step] \in SubmissionRequest
  BY <1>1 DEF SubmissionRequest
<1>3. Finds(r, [request[r] EXCEPT !.at = step])
  BY <1>1 DEF Steps, Finds, Go, Do
<1> QED
  BY <1>2, <1>3, FindsKeep

\* The submission of the key is the answer, or the request goes on.
LEMMA CreationReplayKeeps ==
  ASSUME SubmissionsInv, NEW r \in Requests, NEW step \in SubmissionSteps \cup {"error"},
         request[r].at \in UnderWay, ReplayOr(r, step),
         Carried(r, [request[r] EXCEPT !.at = step])
  PROVE  SubmissionsInv'
<1>1. request[r] \in SubmissionRequest /\ Carried(r, request[r])
  BY DEF SubmissionsInv, SubmissionsTypeOK
<1>2. CASE Steps(r, step)
  BY <1>2, StepsKeep DEF SubmissionAnswers
<1>3. ASSUME NEW s \in Creation(request[r].key), ~IsReplay(r, s),
             Finds(r, [request[r] EXCEPT !.at = "conflict"])
      PROVE  SubmissionsInv'
  <2>1. Carried(r, [request[r] EXCEPT !.at = "conflict"])
    BY <1>1 DEF Carried, Unsubmitted, UnderWay, SubmissionRequest
  <2>2. [request[r] EXCEPT !.at = "conflict"] \in SubmissionRequest
    BY <1>1 DEF SubmissionRequest, SubmissionAnswers
  <2> QED
    BY <1>3, <2>1, <2>2, FindsKeep
<1>4. ASSUME NEW s \in Creation(request[r].key), IsReplay(r, s),
             Finds(r, Answered(r, s, None))
      PROVE  SubmissionsInv'
  <2>1. s \in OfKey(request[r].key) /\ s \in Requests
    BY DEF Creation, OfKey, Submitted
  <2>2. Carried(r, Answered(r, s, None))
    BY <1>1, <1>4, <2>1 DEF Carried, Unsubmitted, UnderWay, SubmissionRequest, Answered, IsReplay
  <2>3. Answered(r, s, None) \in SubmissionRequest
    BY <1>1, <2>1 DEF SubmissionRequest, SubmissionAnswers, Answered
  <2> QED
    BY <1>4, <2>2, <2>3, FindsKeep
<1> QED
  BY <1>2, <1>3, <1>4 DEF ReplayOr

\* Every step that only reads.
LEMMA SubmissionReadersKeep ==
  ASSUME SubmissionsInv, NEW r \in Requests,
         \/ (\E k \in SubmissionKeys, i \in Inputs :
               Submit(r, k, i) \/ \E p \in Requests : Resubmit(r, k, i, p))
         \/ FindPrior(r) \/ FindRejected(r) \/ FindCandidate(r) \/ FindCreation(r)
         \/ FindConcurrent(r) \/ FindInserted(r) \/ CheckTarget(r) \/ FindDuplicate(r)
         \/ FindWinner(r) \/ FindLoser(r) \/ (\E s \in Requests : PurgeItem(r, s))
  PROVE  SubmissionsInv'
<1>1. /\ request[r] \in SubmissionRequest /\ Carried(r, request[r])
      /\ Unique /\ SubmissionsAssumption
  BY SubmissionsAssumption DEF SubmissionsInv, SubmissionsTypeOK
<1>2. \A d \in Submitted : d \in Requests /\ d # None
  BY SubmissionsAssumption DEF Submitted
<1> USE <1>1, <1>2 DEF Carried, Unsubmitted, UnderWay, At
<1>3. ASSUME NEW k \in SubmissionKeys, NEW i \in Inputs, Submit(r, k, i)
      PROVE  SubmissionsInv'
  BY <1>3, FindsKeep, ZenonT(60) DEF Submit, NoInput, SubmissionRequest, SubmissionSteps
<1>4. ASSUME NEW k \in SubmissionKeys, NEW i \in Inputs, NEW p \in Requests, Resubmit(r, k, i, p)
      PROVE  SubmissionsInv'
  BY <1>4, FindsKeep, ZenonT(60) DEF Resubmit, NoInput, SubmissionRequest, SubmissionSteps
<1>5. CASE FindPrior(r)
  BY <1>5, StepsKeep DEF FindPrior, SubmissionRequest, SubmissionSteps, SubmissionAnswers
<1>6. CASE FindRejected(r)
  <2>1. CASE Steps(r, "creation")
    BY <1>6, <2>1, StepsKeep DEF FindRejected, SubmissionRequest, SubmissionSteps
  <2>2. ASSUME NEW s \in RejectedUnder(request[r].key),
               Finds(r, [request[r] EXCEPT !.at = "candidate", !.answer = s])
        PROVE  SubmissionsInv'
    BY <1>6, <2>2, FindsKeep
       DEF FindRejected, SubmissionRequest, SubmissionSteps, RejectedUnder, OfKey
  <2> QED
    BY <1>6, <2>1, <2>2 DEF FindRejected
<1>7. CASE FindCandidate(r)
  <2> DEFINE s == request[r].answer
  <2>1. s \in RejectedUnder(request[r].key) /\ s \in OfKey(request[r].key)
        /\ submission[s].status = "rejected" /\ s \in Requests
    BY <1>7 DEF FindCandidate, RejectedUnder, OfKey
  <2>2. ASSUME submission[s].input = request[r].input,
               NEW d \in Stored(request[r].input), Finds(r, Answered(r, s, d))
        PROVE  SubmissionsInv'
    <3>1. d \in Requests /\ d # None
      BY DEF Stored
    <3>2. Answered(r, s, d) \in SubmissionRequest
      BY <2>1, <3>1 DEF SubmissionRequest, SubmissionAnswers, Answered
    <3>3. Carried(r, Answered(r, s, d))
      BY <1>7, <2>1, <2>2, <3>1 DEF FindCandidate, SubmissionRequest, Answered
    <3> QED
      BY <2>2, <3>2, <3>3, FindsKeep
  <2>3. CASE Finds(r, [request[r] EXCEPT !.at = "conflict", !.answer = None])
    BY <1>7, <2>3, FindsKeep DEF FindCandidate, SubmissionRequest, SubmissionAnswers
  <2> QED
    BY <1>7, <2>2, <2>3 DEF FindCandidate
<1>8. CASE FindCreation(r)
  BY <1>8, CreationReplayKeeps DEF FindCreation, SubmissionRequest, SubmissionSteps
<1>9. CASE FindConcurrent(r)
  BY <1>9, CreationReplayKeeps DEF FindConcurrent, SubmissionRequest, SubmissionSteps
<1>10. CASE FindInserted(r)
  BY <1>10, CreationReplayKeeps DEF FindInserted, SubmissionRequest, SubmissionSteps
<1>11. CASE CheckTarget(r)
  BY <1>11, StepsKeep DEF CheckTarget, SubmissionRequest, SubmissionSteps, SubmissionAnswers
<1>12. CASE FindDuplicate(r)
  <2>1. CASE Steps(r, "error")
    BY <1>12, <2>1, StepsKeep DEF FindDuplicate, SubmissionRequest, SubmissionAnswers
  <2>2. ASSUME NEW d \in Stored(request[r].input),
               Finds(r, [request[r] EXCEPT !.at = "reject", !.candidate = d])
        PROVE  SubmissionsInv'
    <3> DEFINE c == [request[r] EXCEPT !.at = "reject", !.candidate = d]
    <3>1. d \in Submitted /\ ContentOf[submission[d].input] = ContentOf[request[r].input]
      BY DEF Stored
    <3>2. c \in SubmissionRequest
      BY <3>1 DEF SubmissionRequest, SubmissionSteps
    <3>3. Carried(r, c)
      BY <1>12, <3>1 DEF FindDuplicate, SubmissionRequest
    <3> QED
      BY <2>2, <3>2, <3>3, FindsKeep
  <2> QED
    BY <1>12, <2>1, <2>2 DEF FindDuplicate
<1>13. CASE FindWinner(r)
  BY <1>13, CreationReplayKeeps DEF FindWinner, SubmissionRequest, SubmissionSteps
<1>14. CASE FindLoser(r)
  <2>1. CASE Steps(r, "error")
    BY <1>14, <2>1, StepsKeep DEF FindLoser, SubmissionRequest, SubmissionAnswers
  <2>2. ASSUME NEW s \in RejectedUnder(request[r].key),
               submission[s].input = request[r].input,
               Finds(r, Answered(r, s, request[r].candidate))
        PROVE  SubmissionsInv'
    BY <1>14, <2>2, FindsKeep
       DEF FindLoser, SubmissionRequest, SubmissionAnswers, Answered, RejectedUnder, OfKey
  <2> QED
    BY <1>14, <2>1, <2>2 DEF FindLoser
<1>15. ASSUME NEW s \in Requests, PurgeItem(r, s)
       PROVE  SubmissionsInv'
  BY <1>15, FindsKeep, ZenonT(60) DEF PurgeItem, NoInput, SubmissionRequest, SubmissionSteps
<1> QED
  BY <1>3, <1>4, <1>5, <1>6, <1>7, <1>8, <1>9, <1>10, <1>11, <1>12, <1>13, <1>14, <1>15

-----------------------------------------------------------------------------
(* The steps that write. *)

\* A row is added under a key that has none, with nothing of its content, or
\* after a resubmission, or beside an original.
LEMMA AddsKeep ==
  ASSUME SubmissionsInv, NEW r \in Requests, request[r].at \in {"insert", "supersede", "reject"},
         NEW status \in {"review_pending", "rejected"}, NEW original \in Requests \cup {None},
         NEW candidate \in Requests \cup {None}, NEW failed \in {"concurrent", "winner"},
         Adds(r, Row(r, status, original), Answered(r, r, candidate), failed),
         original # None => original \in Stored(request[r].input),
         failed = "winner" => At(r, "reject"),
         original # None \/ request[r].prior # None \/ Stored(request[r].input) = {}
  PROVE  SubmissionsInv'
<1> DEFINE stored == Row(r, status, original)
<1>1. /\ request[r] \in SubmissionRequest /\ Carried(r, request[r])
      /\ request \in [Requests -> SubmissionRequest]
      /\ submission \in [Requests -> SubmissionType \cup {None}]
      /\ None \notin Requests /\ None \notin SubmissionType
      /\ Unique /\ OneOriginal
  BY SubmissionsAssumption DEF SubmissionsInv, SubmissionsTypeOK
<1>2. /\ submission[r] = None
      /\ request[r].op \in {"submit", "resubmit"}
      /\ request[r].key \in SubmissionKeys /\ request[r].input \in Inputs
  BY <1>1 DEF Carried, Unsubmitted, UnderWay
<1>3. CASE ~KeyUnused(request[r].key)
  <2>1. Steps(r, failed)
    BY <1>3 DEF Adds, Steps, sources
  <2> QED
    BY <1>1, <1>2, <2>1, StepsKeep
       DEF Carried, Unsubmitted, UnderWay, At, SubmissionSteps, SubmissionRequest
<1>4. CASE KeyUnused(request[r].key)
  <2>1. /\ submission' = [submission EXCEPT ![r] = stored]
        /\ UNCHANGED <<spaceActive, published>>
        /\ \/ request' = [request EXCEPT ![r] = Answered(r, r, candidate)]
           \/ request' = [request EXCEPT ![r] = [request[r] EXCEPT !.at = failed]]
    BY <1>1, <1>4 DEF Adds, Do, Go
  <2>2. /\ stored \in SubmissionType
        /\ stored.key = request[r].key /\ stored.input = request[r].input
        /\ stored.prior = request[r].prior /\ stored.original = original
        /\ stored.versioned = (original = None) /\ stored.status = status
    BY <1>1, <1>2 DEF Row, SubmissionType, SubmissionRequest
  <2> HIDE DEF stored
  <2>3. /\ submission'[r] = stored
        /\ \A s \in Requests : s # r => submission'[s] = submission[s]
        /\ submission' \in [Requests -> SubmissionType \cup {None}]
    BY <1>1, <2>1, <2>2
  <2>4. Submitted' = Submitted \cup {r} /\ r \notin Submitted
    BY <1>1, <1>2, <2>2, <2>3 DEF Submitted
  <2>5. SubmissionsKept
    BY <2>3, <2>4 DEF SubmissionsKept, Submitted
  <2>6. Unique'
    <3>1. original # None => original \in Submitted
      BY DEF Stored
    <3>2. \A s \in Submitted : submission[s].key # request[r].key
      BY <1>4 DEF KeyUnused, OfKey
    <3> QED
      BY <1>1, <2>1, <2>2, <2>3, <2>4, <3>1, <3>2 DEF Unique
  <2>7. OneOriginal'
    <3>1. ASSUME NEW s \in Submitted', NEW t \in Submitted', s # t,
                 t \in Stored(submission[s].input)', submission'[s].versioned
          PROVE  submission'[s].prior # None \/ submission'[t].prior # None
      <4>1. CASE s = r
        <5>1. t \in Submitted /\ submission'[t] = submission[t]
          BY <2>3, <2>4, <3>1, <4>1 DEF Submitted
        <5>2. t \in Stored(request[r].input)
          BY <2>2, <2>3, <3>1, <4>1, <5>1 DEF Stored
        <5> QED
          BY <2>2, <2>3, <3>1, <4>1, <5>2
      <4>2. CASE t = r
        <5>1. s \in Submitted /\ submission'[s] = submission[s]
          BY <2>3, <2>4, <3>1, <4>2 DEF Submitted
        <5>2. s \in Stored(request[r].input) /\ submission'[r].versioned
          BY <2>2, <2>3, <3>1, <4>2, <5>1 DEF Stored
        <5> QED
          BY <2>2, <2>3, <4>2, <5>2
      <4>3. CASE s # r /\ t # r
        <5>1. /\ s \in Submitted /\ submission'[s] = submission[s]
              /\ t \in Submitted /\ submission'[t] = submission[t]
          BY <2>3, <2>4, <4>3 DEF Submitted
        <5>2. t \in Stored(submission[s].input)
          BY <3>1, <5>1 DEF Stored
        <5> QED
          BY <1>1, <3>1, <5>1, <5>2 DEF OneOriginal
      <4> QED
        BY <4>1, <4>2, <4>3
    <3>2. ASSUME NEW s \in Submitted', NEW t \in Submitted', submission'[s].original = t
          PROVE  s # t /\ t \in Stored(submission[s].input)'
      <4>1. CASE s = r
        <5>1. t = original /\ t # None
          BY <1>1, <2>2, <2>3, <3>2, <4>1 DEF Submitted
        <5>2. t \in Stored(request[r].input) /\ t # r
          BY <2>4, <5>1 DEF Stored
        <5> QED
          BY <2>2, <2>3, <2>4, <4>1, <5>2 DEF Stored, Submitted
      <4>2. CASE s # r
        <5>1. s \in Submitted /\ submission'[s] = submission[s]
          BY <2>3, <2>4, <4>2 DEF Submitted
        <5>2. CASE t = r
          <6>1. submission[s].original = r
            BY <3>2, <5>1, <5>2
          <6> QED
            BY <1>1, <2>4, <5>1, <6>1 DEF Unique
        <5>3. CASE t # r
          BY <1>1, <2>3, <2>4, <3>2, <5>1, <5>3 DEF OneOriginal, Stored, Submitted
        <5> QED
          BY <5>2, <5>3
      <4> QED
        BY <4>1, <4>2
    <3> QED
      BY <3>1, <3>2 DEF OneOriginal
  <2>8. PICK c : c = request'[r]
    OBVIOUS
  <2>9. c \in SubmissionRequest /\ Carried(r, c)'
    <3>1. CASE c = Answered(r, r, candidate)
      <4>1. /\ c \in SubmissionRequest
            /\ c.op = request[r].op /\ c.key = request[r].key /\ c.input = request[r].input
            /\ c.prior = request[r].prior /\ c.answer = r /\ c.at = "ok"
        BY <1>1, <3>1 DEF Answered, SubmissionRequest, SubmissionAnswers
      <4>2. r \in OfKey(c.key)' /\ submission'[r] = stored
        BY <2>2, <2>3, <2>4, <4>1 DEF OfKey
      <4> QED
        BY <1>1, <1>2, <2>2, <2>4, <4>1, <4>2 DEF Carried, Unsubmitted, UnderWay
    <3>2. CASE c = [request[r] EXCEPT !.at = failed]
      <4>1. /\ c \in SubmissionRequest
            /\ c.op = request[r].op /\ c.key = request[r].key /\ c.input = request[r].input
            /\ c.prior = request[r].prior /\ c.candidate = request[r].candidate
            /\ c.at = failed
        BY <1>1, <3>2 DEF SubmissionSteps, SubmissionRequest
      <4>2. request[r].op = "resubmit" => request[r].prior \in Submitted'
        BY <1>1, <2>4 DEF Carried
      <4>3. failed = "winner" =>
              /\ request[r].candidate \in Submitted'
              /\ ContentOf[submission'[request[r].candidate].input] = ContentOf[request[r].input]
        BY <1>1, <2>3, <2>4 DEF Carried, At, Submitted
      <4> QED
        BY <1>2, <4>1, <4>2, <4>3 DEF Carried, Unsubmitted, UnderWay
    <3> QED
      BY <1>1, <2>1, <2>8, <3>1, <3>2
  <2>10. SubmissionsTypeOK'
    BY <1>1, <2>1, <2>3, <2>8, <2>9 DEF SubmissionsInv, SubmissionsTypeOK
  <2>11. ASSUME NEW q \in Requests, q # r PROVE Carried(q, request[q])'
    BY <1>1, <2>1, <2>3, <2>5, <2>11, OthersCarry
  <2>12. Carried(r, request[r])'
    BY <2>8, <2>9 DEF Carried
  <2> QED
    BY <2>6, <2>7, <2>10, <2>11, <2>12 DEF SubmissionsInv
<1> QED
  BY <1>3, <1>4

LEMMA SubmissionWritersKeep ==
  ASSUME SubmissionsInv, NEW r \in Requests, Insert(r) \/ Supersede(r) \/ Reject(r)
  PROVE  SubmissionsInv'
<1>1. request[r] \in SubmissionRequest /\ Carried(r, request[r])
  BY DEF SubmissionsInv, SubmissionsTypeOK
<1>2. None \notin Requests
  BY SubmissionsAssumption
<1>3. CASE Insert(r)
  <2>1. CASE Steps(r, "converge")
    BY <1>1, <1>3, <2>1, StepsKeep
       DEF Insert, Carried, Unsubmitted, UnderWay, At, SubmissionRequest, SubmissionSteps
  <2>2. CASE /\ IsNew(r)
             /\ Adds(r, Row(r, "review_pending", None), Answered(r, r, None), "concurrent")
    BY <1>3, <2>2, AddsKeep DEF Insert, At, IsNew
  <2> QED
    BY <1>3, <2>1, <2>2 DEF Insert
<1>4. CASE Supersede(r)
  <2>1. CASE Steps(r, "concurrent")
    BY <1>1, <1>4, <2>1, StepsKeep
       DEF Supersede, Carried, Unsubmitted, UnderWay, At, SubmissionRequest, SubmissionSteps
  <2>2. CASE Adds(r, Row(r, "review_pending", None), Answered(r, r, None), "concurrent")
    <3>1. request[r].prior # None
      BY <1>1, <1>2, <1>4 DEF Supersede, Carried, At, Submitted
    <3> QED
      BY <1>4, <2>2, <3>1, AddsKeep DEF Supersede, At
  <2> QED
    BY <1>4, <2>1, <2>2 DEF Supersede
<1>5. CASE Reject(r)
  <2> DEFINE d == request[r].candidate
  <2>1. CASE Steps(r, "winner")
    BY <1>1, <1>5, <2>1, StepsKeep
       DEF Reject, Carried, Unsubmitted, UnderWay, At, SubmissionRequest, SubmissionSteps
  <2>2. CASE /\ submission[d].versioned
             /\ Adds(r, Row(r, "rejected", d), Answered(r, r, d), "winner")
    <3>1. d \in Submitted /\ d \in Requests /\ d # None /\ d \in Stored(request[r].input)
      BY <1>1, <1>2, <1>5, <2>2 DEF Reject, Carried, At, Stored, Submitted
    <3> QED
      BY <1>5, <2>2, <3>1, AddsKeep DEF Reject, At
  <2> QED
    BY <1>5, <2>1, <2>2 DEF Reject
<1> QED
  BY <1>3, <1>4, <1>5

\* A purge that is answered.
Purged(r) ==
  /\ request[r].op = "purge" /\ request'[r].op = "purge"
  /\ request'[r].prior = request[r].prior
  /\ request'[r].at = "ok"

\* What review, governance and administration do to the rows; a request changes
\* only when it is a purge, and is answered.
LEMMA RowsChange ==
  ASSUME SubmissionsInv, SubmissionsTypeOK', Unique', OneOriginal', SubmissionsKept, Submitted' = Submitted,
         \A r \in Requests : request'[r] = request[r] \/ Purged(r)
  PROVE  SubmissionsInv'
<1>1. ASSUME NEW r \in Requests PROVE Carried(r, request[r])'
  <2>1. CASE request'[r] = request[r]
    BY <2>1, OthersCarry DEF Submitted
  <2>2. CASE request'[r] # request[r]
    <3>1. Carried(r, request[r])
      BY DEF SubmissionsInv
    <3> QED
      BY <2>2, <3>1 DEF Carried, Unsubmitted, UnderWay, Purged
  <2> QED
    BY <2>1, <2>2
<1> QED
  BY <1>1 DEF SubmissionsInv

LEMMA DecideKeeps ==
  ASSUME SubmissionsInv, NEW s \in Requests,
         NEW status \in {"published", "rejected", "revision_requested"}, Decide(s, status)
  PROVE  SubmissionsInv'
<1>1. /\ submission \in [Requests -> SubmissionType \cup {None}]
      /\ None \notin SubmissionType /\ SubmissionsTypeOK /\ Unique /\ OneOriginal
  BY SubmissionsAssumption DEF SubmissionsInv, SubmissionsTypeOK
<1>2. /\ s \in Submitted /\ submission[s] \in SubmissionType
      /\ submission[s].status = "review_pending"
      /\ submission' = [submission EXCEPT ![s].status = status]
      /\ UNCHANGED <<spaceActive, request>>
      /\ published' = [published EXCEPT ![s] = "active"] \/ published' = published
  BY <1>1 DEF Decide, Submitted
<1> DEFINE stored == [submission[s] EXCEPT !.status = status]
<1>3. /\ stored \in SubmissionType
      /\ stored.key = submission[s].key /\ stored.input = submission[s].input
      /\ stored.prior = submission[s].prior /\ stored.original = submission[s].original
      /\ stored.versioned = submission[s].versioned
  BY <1>2 DEF SubmissionType
<1>4. /\ submission'[s] = stored
      /\ \A t \in Requests : t # s => submission'[t] = submission[t]
      /\ submission' \in [Requests -> SubmissionType \cup {None}]
  BY <1>1, <1>2, <1>3
<1> HIDE DEF stored
<1>5. Submitted' = Submitted
  BY <1>1, <1>2, <1>3, <1>4 DEF Submitted
<1>6. /\ SubmissionsKept
      /\ \A t \in Submitted : submission'[t].versioned = submission[t].versioned
  BY <1>2, <1>3, <1>4, <1>5 DEF SubmissionsKept, Submitted
<1>7. SubmissionsTypeOK'
  BY <1>1, <1>2, <1>4 DEF SubmissionsTypeOK
<1>8. Unique'
  <2>1. published \in [Requests -> {"active", "trashed", "gone", None}]
    BY <1>1 DEF SubmissionsTypeOK
  <2>2. \A t \in Requests : published'[t] # None => t = s \/ published[t] # None
    BY <1>2, <2>1
  <2> QED
    BY <1>1, <1>2, <1>5, <1>6, <2>2 DEF Unique, SubmissionsKept
<1>9. \A i : Stored(i)' = Stored(i)
  BY <1>5, <1>6 DEF Stored, SubmissionsKept
<1>10. OneOriginal'
  BY <1>1, <1>5, <1>6, <1>9 DEF OneOriginal, SubmissionsKept
<1>11. \A r \in Requests : request'[r] = request[r]
  BY <1>2
<1> QED
  BY <1>5, <1>6, <1>7, <1>8, <1>10, <1>11, RowsChange

LEMMA TrashKeeps ==
  ASSUME SubmissionsInv, (\E s \in Requests : TrashItem(s)) \/ ToggleSpace
  PROVE  SubmissionsInv'
<1>1. /\ SubmissionsTypeOK /\ Unique /\ OneOriginal
      /\ published \in [Requests -> {"active", "trashed", "gone", None}]
  BY DEF SubmissionsInv, SubmissionsTypeOK
<1>2. /\ submission' = submission /\ request' = request
      /\ \/ /\ spaceActive' = spaceActive
            /\ \E s \in Requests : /\ published[s] = "active"
                                   /\ published' = [published EXCEPT ![s] = "trashed"]
         \/ published' = published /\ spaceActive' = ~spaceActive
  BY DEF TrashItem, ToggleSpace
<1>3. /\ published' \in [Requests -> {"active", "trashed", "gone", None}]
      /\ spaceActive' \in BOOLEAN
      /\ \A t \in Requests : published'[t] # None => published[t] \in {"active", published'[t]}
  BY <1>1, <1>2 DEF SubmissionsTypeOK
<1>4. SubmissionsTypeOK'
  BY <1>1, <1>2, <1>3 DEF SubmissionsTypeOK
<1>5. Submitted' = Submitted /\ SubmissionsKept
  BY <1>2 DEF Submitted, SubmissionsKept
<1>6. Unique'
  <2>1. \A t \in Requests : published'[t] # None => published[t] # None
    BY <1>3, SubmissionsAssumption DEF SubmissionType
  <2> QED
    BY <1>1, <1>2, <1>5, <2>1 DEF Unique
<1>7. OneOriginal'
  BY <1>1, <1>2, <1>5 DEF OneOriginal, Stored
<1>8. \A r \in Requests : request'[r] = request[r]
  BY <1>2
<1> QED
  BY <1>4, <1>5, <1>6, <1>7, <1>8, RowsChange

\* A source version goes only when no duplicate names it.
LEMMA FinalizeSubmissionKeeps ==
  ASSUME SubmissionsInv, NEW r \in Requests, FinalizePurge(r)
  PROVE  SubmissionsInv'
<1> DEFINE s == request[r].prior
<1>1. /\ submission \in [Requests -> SubmissionType \cup {None}]
      /\ request \in [Requests -> SubmissionRequest]
      /\ published \in [Requests -> {"active", "trashed", "gone", None}]
      /\ None \notin SubmissionType /\ SubmissionsTypeOK /\ Unique /\ OneOriginal
      /\ Carried(r, request[r]) /\ At(r, "finalize")
  BY SubmissionsAssumption DEF SubmissionsInv, SubmissionsTypeOK, FinalizePurge
<1>2. request[r].op = "purge" /\ s \in Requests
  BY <1>1 DEF Carried, At
<1>3. CASE Steps(r, "changed")
  <2>1. Carried(r, [request[r] EXCEPT !.at = "changed"])
    BY <1>1, <1>2 DEF Carried, Unsubmitted, UnderWay, SubmissionRequest
  <2> QED
    BY <1>3, <2>1, StepsKeep DEF SubmissionAnswers
<1>4. CASE /\ published[s] = "trashed" /\ Unreferenced(s)
           /\ published' = [published EXCEPT ![s] = "gone"]
           /\ submission' = [submission EXCEPT ![s].versioned = FALSE]
           /\ Go(r, "ok") /\ UNCHANGED spaceActive
  <2>1. published[s] # None
    BY <1>4, SubmissionsAssumption DEF SubmissionType
  <2>2. s \in Submitted /\ submission[s] \in SubmissionType
    BY <1>1, <1>2, <2>1 DEF Unique, Submitted
  <2> DEFINE stored == [submission[s] EXCEPT !.versioned = FALSE]
  <2>3. /\ stored \in SubmissionType
        /\ stored.key = submission[s].key /\ stored.input = submission[s].input
        /\ stored.prior = submission[s].prior /\ stored.original = submission[s].original
        /\ stored.status = submission[s].status /\ stored.versioned = FALSE
    BY <2>2 DEF SubmissionType
  <2>4. /\ submission'[s] = stored
        /\ \A t \in Requests : t # s => submission'[t] = submission[t]
        /\ submission' \in [Requests -> SubmissionType \cup {None}]
    BY <1>1, <1>2, <1>4, <2>2, <2>3
  <2> HIDE DEF stored
  <2>5. Submitted' = Submitted
    BY <1>1, <2>2, <2>3, <2>4 DEF Submitted
  <2>6. /\ SubmissionsKept
        /\ \A t \in Submitted : /\ submission'[t].versioned => submission[t].versioned
                                /\ t # s => submission'[t].versioned = submission[t].versioned
    BY <2>2, <2>3, <2>4, <2>5 DEF SubmissionsKept, Submitted
  <2>7. /\ request'[r] = [request[r] EXCEPT !.at = "ok"]
        /\ \A q \in Requests : q # r => request'[q] = request[q]
        /\ request' \in [Requests -> SubmissionRequest]
    BY <1>1, <1>4 DEF Go, SubmissionRequest, SubmissionAnswers
  <2>8. SubmissionsTypeOK'
    BY <1>1, <1>4, <2>4, <2>7 DEF SubmissionsTypeOK
  <2>9. Unique'
    <3>1. \A t \in Requests : published'[t] # None => t = s \/ published[t] # None
      BY <1>1, <1>2, <1>4
    <3> QED
      BY <1>1, <2>2, <2>5, <2>6, <3>1 DEF Unique, SubmissionsKept
  <2>10. \A i : Stored(i)' = Stored(i) \ {s}
    BY <2>2, <2>3, <2>4, <2>5, <2>6 DEF Stored, SubmissionsKept
  <2>11. OneOriginal'
    BY <1>1, <1>4, <2>5, <2>6, <2>10 DEF OneOriginal, SubmissionsKept, Unreferenced
  <2>12. /\ request'[r].op = "purge" /\ request'[r].prior = request[r].prior
         /\ request'[r].at = "ok"
    BY <1>1, <1>2, <2>7 DEF SubmissionRequest
  <2>13. \A q \in Requests : request'[q] = request[q] \/ Purged(q)
    BY <1>2, <2>7, <2>12 DEF Purged
  <2> QED
    BY <2>5, <2>6, <2>8, <2>9, <2>11, <2>13, RowsChange
<1> QED
  BY <1>3, <1>4 DEF FinalizePurge, Steps, sources

THEOREM SubmissionsInvariance == SubmissionsSpec => []SubmissionsInv
<1>1. SubmissionsInit => SubmissionsInv
  <2> SUFFICES ASSUME SubmissionsInit PROVE SubmissionsInv
    OBVIOUS
  <2>1. Submitted = {}
    BY DEF SubmissionsInit, Submitted
  <2>2. SubmissionsTypeOK
    BY DEF SubmissionsInit, SubmissionsTypeOK, NoInput, SubmissionRequest, SubmissionSteps
  <2>3. ASSUME NEW r \in Requests PROVE Carried(r, request[r])
    BY DEF SubmissionsInit, NoInput, Carried, Unsubmitted, UnderWay
  <2> QED
    BY <2>1, <2>2, <2>3 DEF SubmissionsInit, SubmissionsInv, Unique, OneOriginal
<1>2. SubmissionsInv /\ [SubmissionsNext]_submissionsVars => SubmissionsInv'
  <2> SUFFICES ASSUME SubmissionsInv, [SubmissionsNext]_submissionsVars PROVE SubmissionsInv'
    OBVIOUS
  <2>1. CASE UNCHANGED submissionsVars
    <3>1. UNCHANGED <<submission, spaceActive, published, request>>
      BY <2>1 DEF submissionsVars, sources
    <3> QED
      BY <3>1 DEF SubmissionsInv, SubmissionsTypeOK, Unique, OneOriginal, Carried, Submitted,
                  Stored, OfKey, RejectedUnder
  <2>2. CASE SubmissionsNext
    BY <2>2, SubmissionReadersKeep, SubmissionWritersKeep, DecideKeeps, TrashKeeps,
       FinalizeSubmissionKeeps DEF SubmissionsNext
  <2> QED
    BY <2>1, <2>2
<1> QED
  BY <1>1, <1>2, PTL DEF SubmissionsSpec

\* A key stands for one submission, whatever its creations, resubmissions and
\* their retries meet: createWithSourceVersion and resubmit of the service.
THEOREM SameKeyCorrect == SubmissionsSpec => []SameKeySameSubmission
<1>1. SubmissionsInv => SameKeySameSubmission
  BY DEF SubmissionsInv, Unique, Carried, SameKeySameSubmission, At, OfKey
<1> QED
  BY <1>1, SubmissionsInvariance, PTL

\* Content is taken once, and a rejected duplicate names an original that is
\* still there: the statements of createSubmissionWithSourceVersion and
\* finalizePurge.
THEOREM OneOriginalCorrect == SubmissionsSpec => []OneOriginal
<1>1. SubmissionsInv => OneOriginal
  BY DEF SubmissionsInv
<1> QED
  BY <1>1, SubmissionsInvariance, PTL

-----------------------------------------------------------------------------
(* Submissions: what keeps a purge from its item. *)

\* A rejected submission is called a duplicate of s.
IsOriginal(s) == \E t \in Submitted : submission[t].original = s

\* What was published has left the queue of its reviewers.
LeftQueue == \A s \in Requests : published[s] # None => submission[s].status = "published"

Buried(s) == published[s] \in {"trashed", "gone"}

\* A purge is of an item that is in the trash, or gone.
PurgeSees(c) ==
  c.op = "purge" =>
    /\ c.prior \in Requests /\ Buried(c.prior)
    /\ c.at = "changed" /\ published[c.prior] = "trashed" => IsOriginal(c.prior)

PurgesSee == LeftQueue /\ \A r \in Requests : PurgeSees(request[r])

\* What a step of any kind leaves of the items and of what names them.
ItemsKept ==
  /\ \A s \in Submitted : /\ s \in Submitted' /\ submission'[s].original = submission[s].original
                          /\ submission[s].status = "published" => submission'[s].status = "published"
  /\ \A s \in Requests :
       /\ Buried(s) => Buried(s)'
       /\ published[s] = "gone" => published'[s] = "gone"
       /\ published'[s] # None =>
            (published[s] # None /\ s \in Submitted) \/ submission'[s].status = "published"

LEMMA PurgeSeesStill ==
  ASSUME ItemsKept, NEW c, PurgeSees(c)
  PROVE  PurgeSees(c)'
<1> SUFFICES ASSUME c.op = "purge"
    PROVE  /\ c.prior \in Requests /\ Buried(c.prior)'
           /\ c.at = "changed" /\ published'[c.prior] = "trashed" => IsOriginal(c.prior)'
  BY DEF PurgeSees
<1>1. /\ c.prior \in Requests /\ Buried(c.prior)
      /\ c.at = "changed" /\ published[c.prior] = "trashed" => IsOriginal(c.prior)
  BY DEF PurgeSees
<1>2. Buried(c.prior)' /\ (published'[c.prior] = "trashed" => published[c.prior] = "trashed")
  BY <1>1 DEF ItemsKept, Buried
<1>3. IsOriginal(c.prior) => IsOriginal(c.prior)'
  BY DEF ItemsKept, IsOriginal
<1> QED
  BY <1>1, <1>2, <1>3

\* A request that reads does not become a purge, or is one that begins.
LEMMA ReadersSee ==
  ASSUME SubmissionsInv, NEW r \in Requests,
         \/ (\E k \in SubmissionKeys, i \in Inputs :
               Submit(r, k, i) \/ \E p \in Requests : Resubmit(r, k, i, p))
         \/ FindPrior(r) \/ FindRejected(r) \/ FindCandidate(r) \/ FindCreation(r)
         \/ FindConcurrent(r) \/ FindInserted(r) \/ CheckTarget(r) \/ FindDuplicate(r)
         \/ FindWinner(r) \/ FindLoser(r)
  PROVE  /\ request'[r].op \in {"submit", "resubmit"}
         /\ \A q \in Requests \ {r} : request'[q] = request[q]
         /\ UNCHANGED <<submission, published>>
<1>1. /\ request[r] \in SubmissionRequest /\ Carried(r, request[r])
      /\ request \in [Requests -> SubmissionRequest]
  BY DEF SubmissionsInv, SubmissionsTypeOK
<1>2. ASSUME NEW c, Finds(r, c), c.op \in {"submit", "resubmit"}
      PROVE  /\ request'[r].op \in {"submit", "resubmit"}
             /\ \A q \in Requests \ {r} : request'[q] = request[q]
             /\ UNCHANGED <<submission, published>>
  BY <1>1, <1>2 DEF Finds, Do, sources
<1>3. ASSUME NEW k \in SubmissionKeys, NEW i \in Inputs,
             Submit(r, k, i) \/ \E p \in Requests : Resubmit(r, k, i, p)
      PROVE  \E c : Finds(r, c) /\ c.op \in {"submit", "resubmit"}
  <2>1. CASE Submit(r, k, i)
    <3>1. PICK c : c = [NoInput EXCEPT !.op = "submit", !.at = "rejected", !.key = k, !.input = i]
      OBVIOUS
    <3>2. c.op = "submit" /\ Finds(r, c)
      BY <2>1, <3>1 DEF Submit, NoInput
    <3> QED
      BY <3>2
  <2>2. ASSUME NEW p \in Requests, Resubmit(r, k, i, p)
        PROVE  \E c : Finds(r, c) /\ c.op \in {"submit", "resubmit"}
    <3>1. PICK c : c = [NoInput EXCEPT !.op = "resubmit", !.at = "prior", !.key = k, !.input = i,
                                       !.prior = p]
      OBVIOUS
    <3>2. c.op = "resubmit" /\ Finds(r, c)
      BY <2>2, <3>1 DEF Resubmit, NoInput
    <3> QED
      BY <3>2
  <2> QED
    BY <1>3, <2>1, <2>2
<1>4. ASSUME request[r].at \in UnderWay,
             \/ \E step : Steps(r, step)
             \/ \E s, d : Finds(r, Answered(r, s, d))
             \/ Finds(r, [request[r] EXCEPT !.at = "conflict"])
             \/ Finds(r, [request[r] EXCEPT !.at = "conflict", !.answer = None])
             \/ \E s : Finds(r, [request[r] EXCEPT !.at = "candidate", !.answer = s])
             \/ \E d : Finds(r, [request[r] EXCEPT !.at = "reject", !.candidate = d])
      PROVE  \E c : Finds(r, c) /\ c.op \in {"submit", "resubmit"}
  <2>1. request[r].op \in {"submit", "resubmit"}
    BY <1>1, <1>4 DEF Carried
  <2>2. ASSUME NEW step, Steps(r, step)
        PROVE  \E c : Finds(r, c) /\ c.op \in {"submit", "resubmit"}
    <3>1. PICK c : c = [request[r] EXCEPT !.at = step]
      OBVIOUS
    <3>2. c.op = request[r].op
      BY <1>1, <3>1 DEF SubmissionRequest
    <3>3. Finds(r, c)
      BY <1>1, <2>2, <3>1 DEF Steps, Go, Finds, Do
    <3> QED
      BY <2>1, <3>2, <3>3
  <2>3. /\ \A s, d : Answered(r, s, d).op = request[r].op
        /\ [request[r] EXCEPT !.at = "conflict"].op = request[r].op
        /\ [request[r] EXCEPT !.at = "conflict", !.answer = None].op = request[r].op
        /\ \A s : [request[r] EXCEPT !.at = "candidate", !.answer = s].op = request[r].op
        /\ \A d : [request[r] EXCEPT !.at = "reject", !.candidate = d].op = request[r].op
    BY <1>1 DEF SubmissionRequest, Answered
  <2> QED
    BY <1>4, <2>1, <2>2, <2>3
<1>5. CASE FindPrior(r) \/ CheckTarget(r)
  BY <1>2, <1>4, <1>5 DEF FindPrior, CheckTarget, At, UnderWay, Unsubmitted
<1>6. CASE FindRejected(r)
  BY <1>2, <1>4, <1>6 DEF FindRejected, At, UnderWay, Unsubmitted
<1>7. CASE FindCandidate(r)
  BY <1>2, <1>4, <1>7 DEF FindCandidate, At, UnderWay, Unsubmitted
<1>8. CASE FindCreation(r) \/ FindConcurrent(r) \/ FindInserted(r) \/ FindWinner(r)
  <2>1. request[r].at \in UnderWay /\ \E step : ReplayOr(r, step)
    BY <1>8 DEF FindCreation, FindConcurrent, FindInserted, FindWinner, At, UnderWay, Unsubmitted
  <2>2. PICK step : ReplayOr(r, step)
    BY <2>1
  <2>3. \/ Steps(r, step) \/ \E s, d : Finds(r, Answered(r, s, d))
        \/ Finds(r, [request[r] EXCEPT !.at = "conflict"])
    BY <2>2 DEF ReplayOr
  <2> QED
    BY <1>2, <1>4, <2>1, <2>3
<1>9. CASE FindDuplicate(r)
  BY <1>2, <1>4, <1>9 DEF FindDuplicate, At, UnderWay, Unsubmitted
<1>10. CASE FindLoser(r)
  BY <1>2, <1>4, <1>10 DEF FindLoser, At, UnderWay, Unsubmitted
<1> QED
  BY <1>2, <1>3, <1>5, <1>6, <1>7, <1>8, <1>9, <1>10

\* A row that is added is not one that was published.
LEMMA WritersSee ==
  ASSUME SubmissionsInv, NEW r \in Requests, Insert(r) \/ Supersede(r) \/ Reject(r)
  PROVE  /\ request'[r].op \in {"submit", "resubmit"}
         /\ \A q \in Requests \ {r} : request'[q] = request[q]
         /\ UNCHANGED published
         /\ submission[r] = None
         /\ \A s \in Requests \ {r} : submission'[s] = submission[s]
<1>1. /\ request[r] \in SubmissionRequest /\ Carried(r, request[r])
      /\ request \in [Requests -> SubmissionRequest]
      /\ submission \in [Requests -> SubmissionType \cup {None}]
  BY DEF SubmissionsInv, SubmissionsTypeOK
<1>2. request[r].op \in {"submit", "resubmit"} /\ submission[r] = None
  BY <1>1 DEF Carried, Insert, Supersede, Reject, At, Unsubmitted, UnderWay
<1>3. /\ UNCHANGED published
      /\ UNCHANGED submission \/ \E t : submission' = [submission EXCEPT ![r] = t]
      /\ \/ \E step : Go(r, step)
         \/ \E s, d : Do(r, Answered(r, s, d))
  BY DEF Insert, Supersede, Reject, Adds, Steps, sources
<1>4. \A s, d : Answered(r, s, d).op = request[r].op
  BY <1>1 DEF Answered, SubmissionRequest
<1>5. /\ request'[r].op = request[r].op
      /\ \A q \in Requests \ {r} : request'[q] = request[q]
  <2>1. ASSUME NEW step, Go(r, step)
        PROVE  /\ request'[r].op = request[r].op
               /\ \A q \in Requests \ {r} : request'[q] = request[q]
    BY <1>1, <2>1 DEF Go, SubmissionRequest
  <2>2. ASSUME NEW s, NEW d, Do(r, Answered(r, s, d))
        PROVE  /\ request'[r].op = request[r].op
               /\ \A q \in Requests \ {r} : request'[q] = request[q]
    BY <1>1, <1>4, <2>2 DEF Do
  <2> QED
    BY <1>3, <2>1, <2>2
<1>6. \A s \in Requests \ {r} : submission'[s] = submission[s]
  BY <1>1, <1>3
<1> QED
  BY <1>2, <1>3, <1>5, <1>6

LEMMA QueueStaysLeft ==
  ASSUME ItemsKept, LeftQueue
  PROVE  LeftQueue'
  BY DEF ItemsKept, LeftQueue

\* One purge begins, is answered or changes nothing.
LEMMA PurgesStep ==
  ASSUME ItemsKept, PurgesSee, NEW r \in Requests,
         \A q \in Requests \ {r} : request'[q] = request[q],
         NEW c, request'[r] = c, PurgeSees(c)
  PROVE  PurgesSee'
<1>1. LeftQueue'
  BY QueueStaysLeft DEF PurgesSee
<1>2. ASSUME NEW q \in Requests PROVE PurgeSees(request[q])'
  <2>1. PICK d : d = request'[q]
    OBVIOUS
  <2>2. PurgeSees(d)
    BY <2>1 DEF PurgesSee
  <2>3. PurgeSees(d)'
    BY <2>2, PurgeSeesStill
  <2> QED
    BY <2>1, <2>3 DEF PurgeSees
<1> QED
  BY <1>1, <1>2 DEF PurgesSee

LEMMA PurgesGo ==
  ASSUME SubmissionsInv, PurgesSee, [SubmissionsNext]_submissionsVars
  PROVE  PurgesSee'
<1>1. /\ request \in [Requests -> SubmissionRequest] /\ Unique /\ LeftQueue
      /\ submission \in [Requests -> SubmissionType \cup {None}]
      /\ published \in [Requests -> {"active", "trashed", "gone", None}]
      /\ None \notin {"active", "trashed", "gone"} /\ None \notin SubmissionType
  BY SubmissionsAssumption DEF SubmissionsInv, SubmissionsTypeOK, PurgesSee
<1>2. ASSUME UNCHANGED <<submission, published>> PROVE ItemsKept
  BY <1>1, <1>2 DEF ItemsKept, Submitted, Buried, Unique
<1>3. CASE UNCHANGED submissionsVars
  <2>1. UNCHANGED <<submission, published, request>>
    BY <1>3 DEF submissionsVars, sources
  <2> QED
    BY <2>1 DEF PurgesSee, PurgeSees, LeftQueue, Buried, IsOriginal, Submitted
<1>4. ASSUME NEW r \in Requests,
             \/ (\E k \in SubmissionKeys, i \in Inputs :
                   Submit(r, k, i) \/ \E p \in Requests : Resubmit(r, k, i, p))
             \/ FindPrior(r) \/ FindRejected(r) \/ FindCandidate(r) \/ FindCreation(r)
             \/ FindConcurrent(r) \/ FindInserted(r) \/ CheckTarget(r) \/ FindDuplicate(r)
             \/ FindWinner(r) \/ FindLoser(r)
      PROVE  PurgesSee'
  <2>1. PICK c : c = request'[r]
    OBVIOUS
  <2>2. /\ c.op \in {"submit", "resubmit"} /\ UNCHANGED <<submission, published>>
        /\ \A q \in Requests \ {r} : request'[q] = request[q]
    BY <1>4, <2>1, ReadersSee
  <2>3. PurgeSees(c)
    BY <2>2 DEF PurgeSees
  <2> QED
    BY <1>2, <2>1, <2>2, <2>3, PurgesStep
<1>5. ASSUME NEW r \in Requests, Insert(r) \/ Supersede(r) \/ Reject(r)
      PROVE  PurgesSee'
  <2>1. PICK c : c = request'[r]
    OBVIOUS
  <2>2. /\ c.op \in {"submit", "resubmit"} /\ UNCHANGED published
        /\ \A q \in Requests \ {r} : request'[q] = request[q]
        /\ submission[r] = None
        /\ \A s \in Requests \ {r} : submission'[s] = submission[s]
    BY <1>5, <2>1, WritersSee
  <2>3. PurgeSees(c)
    BY <2>2 DEF PurgeSees
  <2>4. ItemsKept
    BY <1>1, <2>2 DEF ItemsKept, Submitted, Buried, Unique
  <2> QED
    BY <2>1, <2>2, <2>3, <2>4, PurgesStep
<1>6. ASSUME NEW r \in Requests, NEW s \in Requests, PurgeItem(r, s)
      PROVE  PurgesSee'
  <2>1. PICK c : c = [NoInput EXCEPT !.op = "purge", !.at = "finalize", !.prior = s]
    OBVIOUS
  <2>2. c.op = "purge" /\ c.at = "finalize" /\ c.prior = s
    BY <2>1 DEF NoInput
  <2>3. /\ request'[r] = c /\ \A q \in Requests \ {r} : request'[q] = request[q]
        /\ UNCHANGED <<submission, published>> /\ published[s] = "trashed"
    BY <1>1, <1>6, <2>1 DEF PurgeItem, Finds, Do, sources
  <2>4. PurgeSees(c)
    BY <2>2, <2>3 DEF PurgeSees, Buried
  <2> QED
    BY <1>2, <2>3, <2>4, PurgesStep
<1>7. ASSUME NEW r \in Requests, FinalizePurge(r)
      PROVE  PurgesSee'
  <2>1. PICK s : s = request[r].prior
    OBVIOUS
  <2>2. request[r].op = "purge" /\ s \in Requests /\ PurgeSees(request[r])
    BY <1>7, <2>1 DEF FinalizePurge, SubmissionsInv, Carried, At, PurgesSee
  <2>3. CASE /\ ~(published[s] = "trashed" /\ Unreferenced(s))
             /\ Go(r, "changed") /\ UNCHANGED <<submission, published>>
    <3>1. PICK c : c = [request[r] EXCEPT !.at = "changed"]
      OBVIOUS
    <3>2. /\ c.op = "purge" /\ c.prior = s /\ request'[r] = c
          /\ \A q \in Requests \ {r} : request'[q] = request[q]
      BY <1>1, <2>1, <2>2, <2>3, <3>1 DEF Go, SubmissionRequest
    <3>3. published[s] = "trashed" => IsOriginal(s)
      BY <2>3 DEF Unreferenced, IsOriginal
    <3>4. PurgeSees(c)
      BY <2>1, <2>2, <3>2, <3>3 DEF PurgeSees
    <3> QED
      BY <1>2, <2>3, <3>2, <3>4, PurgesStep
  <2>4. CASE /\ published[s] = "trashed"
             /\ published' = [published EXCEPT ![s] = "gone"]
             /\ submission' = [submission EXCEPT ![s].versioned = FALSE]
             /\ Go(r, "ok")
    <3>1. PICK c : c = [request[r] EXCEPT !.at = "ok"]
      OBVIOUS
    <3>2. /\ c.op = "purge" /\ c.prior = s /\ c.at = "ok" /\ request'[r] = c
          /\ \A q \in Requests \ {r} : request'[q] = request[q]
      BY <1>1, <2>1, <2>2, <2>4, <3>1 DEF Go, SubmissionRequest
    <3>3. PurgeSees(c)
      BY <2>1, <2>2, <3>2 DEF PurgeSees
    <3>4. s \in Submitted /\ submission[s] \in SubmissionType
      BY <1>1, <2>2, <2>4 DEF Unique, Submitted
    <3>5. PICK t : t = [submission[s] EXCEPT !.versioned = FALSE]
      OBVIOUS
    <3>6. t.original = submission[s].original /\ t.status = submission[s].status
          /\ t \in SubmissionType
      BY <3>4, <3>5 DEF SubmissionType
    <3>7. /\ submission'[s] = t /\ \A q \in Requests \ {s} : submission'[q] = submission[q]
          /\ published'[s] = "gone" /\ \A q \in Requests \ {s} : published'[q] = published[q]
      BY <1>1, <2>2, <2>4, <3>5
    <3>8. ItemsKept
      BY <1>1, <2>4, <3>4, <3>6, <3>7 DEF ItemsKept, Submitted, Buried, Unique
    <3> QED
      BY <3>2, <3>3, <3>8, PurgesStep
  <2> QED
    BY <1>7, <2>1, <2>3, <2>4 DEF FinalizePurge
<1>8. ASSUME UNCHANGED request, ItemsKept
      PROVE  PurgesSee'
  <2>1. LeftQueue'
    BY <1>8, QueueStaysLeft DEF PurgesSee
  <2>2. ASSUME NEW q \in Requests PROVE PurgeSees(request[q])'
    <3>1. PICK d : d = request[q]
      OBVIOUS
    <3>2. PurgeSees(d)'
      BY <1>8, <3>1, PurgeSeesStill DEF PurgesSee
    <3> QED
      BY <1>8, <3>1, <3>2 DEF PurgeSees
  <2> QED
    BY <2>1, <2>2 DEF PurgesSee
<1>9. ASSUME NEW s \in Requests, NEW status \in {"published", "rejected", "revision_requested"},
             Decide(s, status)
      PROVE  PurgesSee'
  <2>1. /\ s \in Submitted /\ submission[s].status = "review_pending" /\ UNCHANGED request
        /\ submission[s] \in SubmissionType
    BY <1>1, <1>9 DEF Decide, Submitted
  <2>2. published[s] = None
    BY <1>1, <2>1 DEF LeftQueue
  <2>3. PICK t : t = [submission[s] EXCEPT !.status = status]
    OBVIOUS
  <2>4. t.original = submission[s].original /\ t.status = status /\ t \in SubmissionType
    BY <2>1, <2>3 DEF SubmissionType
  <2>5. /\ submission'[s] = t /\ \A q \in Requests \ {s} : submission'[q] = submission[q]
        /\ \A q \in Requests \ {s} : published'[q] = published[q]
        /\ published'[s] # None => status = "published"
    BY <1>1, <1>9, <2>2, <2>3 DEF Decide
  <2>6. ItemsKept
    BY <1>1, <2>1, <2>2, <2>4, <2>5 DEF ItemsKept, Submitted, Buried, Unique
  <2> QED
    BY <1>8, <2>1, <2>6
<1>10. ASSUME NEW s \in Requests, TrashItem(s)
       PROVE  PurgesSee'
  <2>1. /\ published[s] = "active" /\ published'[s] = "trashed" /\ UNCHANGED <<submission, request>>
        /\ \A q \in Requests \ {s} : published'[q] = published[q]
    BY <1>1, <1>10 DEF TrashItem
  <2>2. ItemsKept
    BY <1>1, <2>1 DEF ItemsKept, Submitted, Buried, Unique
  <2> QED
    BY <1>8, <2>1, <2>2
<1>11. CASE ToggleSpace
  BY <1>2, <1>8, <1>11 DEF ToggleSpace
<1> QED
  BY <1>3, <1>4, <1>5, <1>6, <1>7, <1>9, <1>10, <1>11 DEF SubmissionsNext

\* A purge that is refused finds its item gone, or named as the original of a
\* rejected duplicate.
RefusalIsTrueOrHeld ==
  \A r \in Requests : request[r].op = "purge" /\ At(r, "changed")
    => published[request[r].prior] # "trashed" \/ IsOriginal(request[r].prior)

\* A purge is told that its item changed, with the item in the trash still, only
\* when a row of duplicate_candidates names its submission: the reference that
\* the batch of finalizePurge leaves in place.
THEOREM RefusedIsHeld == SubmissionsSpec => []RefusalIsTrueOrHeld
<1>1. SubmissionsInit => PurgesSee
  BY DEF SubmissionsInit, PurgesSee, LeftQueue, PurgeSees, NoInput
<1>2. SubmissionsInv /\ PurgesSee /\ [SubmissionsNext]_submissionsVars => PurgesSee'
  BY PurgesGo
<1>3. PurgesSee => RefusalIsTrueOrHeld
  BY DEF PurgesSee, PurgeSees, RefusalIsTrueOrHeld, At
<1> QED
  BY <1>1, <1>2, <1>3, SubmissionsInvariance, PTL DEF SubmissionsSpec

\* No submission names an original.
NoDuplicates == \A s \in Submitted : submission[s].original = None

NoneRejected == \A r \in Requests : ~Reject(r)

LEMMA NoDuplicatesGo ==
  ASSUME SubmissionsInv, NoDuplicates, [SubmissionsNext]_submissionsVars,
         [NoneRejected]_submissionsVars
  PROVE  NoDuplicates'
<1>1. /\ submission \in [Requests -> SubmissionType \cup {None}]
      /\ request \in [Requests -> SubmissionRequest] /\ None \notin SubmissionType
      /\ Unique
  BY SubmissionsAssumption DEF SubmissionsInv, SubmissionsTypeOK
<1>2. CASE UNCHANGED submission
  BY <1>2 DEF NoDuplicates, Submitted
<1>3. ASSUME NEW r \in Requests, Insert(r) \/ Supersede(r)
      PROVE  NoDuplicates'
  <2>1. PICK t : t = Row(r, "review_pending", None)
    OBVIOUS
  <2>2. t.original = None
    BY <2>1 DEF Row
  <2>3. UNCHANGED submission \/ submission' = [submission EXCEPT ![r] = t]
    BY <1>3, <2>1 DEF Insert, Supersede, Adds, Steps, sources
  <2> QED
    BY <1>1, <1>2, <2>2, <2>3 DEF NoDuplicates, Submitted
<1>4. ASSUME NEW s \in Requests, NEW status \in {"published", "rejected", "revision_requested"},
             Decide(s, status)
      PROVE  NoDuplicates'
  <2>1. s \in Submitted /\ submission[s] \in SubmissionType
    BY <1>1, <1>4 DEF Decide, Submitted
  <2>2. PICK t : t = [submission[s] EXCEPT !.status = status]
    OBVIOUS
  <2>3. t.original = submission[s].original /\ submission' = [submission EXCEPT ![s] = t]
    BY <1>4, <2>1, <2>2 DEF Decide, SubmissionType
  <2> QED
    BY <1>1, <2>1, <2>3 DEF NoDuplicates, Submitted
<1>5. ASSUME NEW r \in Requests, FinalizePurge(r)
      PROVE  NoDuplicates'
  <2>1. PICK s : s = request[r].prior
    OBVIOUS
  <2>2. CASE published[s] = "trashed" /\ submission' = [submission EXCEPT ![s].versioned = FALSE]
    <3>1. s \in Submitted /\ submission[s] \in SubmissionType
      <4>1. request[r].op = "purge" /\ s \in Requests
        BY <1>5, <2>1 DEF FinalizePurge, SubmissionsInv, Carried, At
      <4>2. published[s] # None
        BY <2>2, SubmissionsAssumption
      <4> QED
        BY <1>1, <4>1, <4>2 DEF Unique, Submitted
    <3>2. PICK t : t = [submission[s] EXCEPT !.versioned = FALSE]
      OBVIOUS
    <3>3. t.original = submission[s].original /\ submission' = [submission EXCEPT ![s] = t]
      BY <2>2, <3>1, <3>2 DEF SubmissionType
    <3> QED
      BY <1>1, <3>1, <3>3 DEF NoDuplicates, Submitted
  <2> QED
    BY <1>2, <1>5, <2>1, <2>2 DEF FinalizePurge
<1>6. \/ UNCHANGED submission
      \/ \E r \in Requests : Insert(r) \/ Supersede(r) \/ FinalizePurge(r)
      \/ \E s \in Requests, status \in {"published", "rejected", "revision_requested"} :
           Decide(s, status)
  <2>1. CASE UNCHANGED submissionsVars
    BY <2>1 DEF submissionsVars, sources
  <2>2. ASSUME NEW r \in Requests,
               \/ (\E k \in SubmissionKeys, i \in Inputs :
                     Submit(r, k, i) \/ \E p \in Requests : Resubmit(r, k, i, p))
               \/ FindPrior(r) \/ FindRejected(r) \/ FindCandidate(r) \/ FindCreation(r)
               \/ FindConcurrent(r) \/ FindInserted(r) \/ CheckTarget(r) \/ FindDuplicate(r)
               \/ FindWinner(r) \/ FindLoser(r)
        PROVE  UNCHANGED submission
    BY <2>2, ReadersSee
  <2>3. ASSUME NEW r \in Requests, NEW s \in Requests, PurgeItem(r, s)
        PROVE  UNCHANGED submission
    BY <2>3 DEF PurgeItem, Finds, sources
  <2>4. CASE (\E s \in Requests : TrashItem(s)) \/ ToggleSpace
    BY <2>4 DEF TrashItem, ToggleSpace
  <2>5. CASE SubmissionsNext /\ NoneRejected
    BY <2>2, <2>3, <2>4, <2>5 DEF SubmissionsNext, NoneRejected
  <2> QED
    BY <2>1, <2>5
<1> QED
  BY <1>2, <1>3, <1>4, <1>5, <1>6

\* As long as no creation is rejected as a duplicate, finalizePurge is refused
\* only when its item did change.
THEOREM RefusalIsTrueUnheld ==
  SubmissionsSpec /\ [][NoneRejected]_submissionsVars => []PurgeRefusalIsTrue
<1>1. SubmissionsInit => NoDuplicates
  BY DEF SubmissionsInit, NoDuplicates, Submitted
<1>2. SubmissionsInv /\ NoDuplicates /\ [SubmissionsNext]_submissionsVars
        /\ [NoneRejected]_submissionsVars => NoDuplicates'
  BY NoDuplicatesGo
<1>3. NoDuplicates /\ RefusalIsTrueOrHeld /\ SubmissionsInv => PurgeRefusalIsTrue
  BY SubmissionsAssumption
     DEF NoDuplicates, RefusalIsTrueOrHeld, PurgeRefusalIsTrue, IsOriginal, SubmissionsInv, Carried
<1> QED
  BY <1>1, <1>2, <1>3, SubmissionsInvariance, RefusedIsHeld, PTL DEF SubmissionsSpec

-----------------------------------------------------------------------------
(* Tasks: a change of status that was answered is notified. *)

\* The steps of a request before it has written.
Unwritten ==
  {"new", "find", "count", "insert", "save", "remove", "set", "compare", "advance", "replace"}

Written == {r \in Requests : request[r].at \notin Unwritten}

\* What the versions can have come to: each request that wrote added one.
Height == MaxClock + Cardinality(Written)

Draining == {"drain", "notify", "mark"}

\* What is so for a request that carries c: its numbers, the changes it has yet to
\* notify, and where its own change is.
Bears(c) ==
  /\ c.stamp <= Height + 1
  /\ c.at = "compare" => c.read <= Height
  /\ c.at = "set" => c.op = "set_status"
  /\ c.at \in Draining => c.due # {}
  /\ c.at \in {"notify", "mark"} => c.intent \in Changes
  /\ ~receipt /\ ~Exists => c.due = {}
  /\ ~receipt /\ c.at = "mark" => c.intent \in notices
  /\ c.won =>
       /\ c.op = "set_status"
       /\ c.at \in Draining \cup {"current", "list", "ok", "missing", "conflict"}
       /\ ~receipt /\ c.at \in {"current", "list"} => c.key \in pending \cup notices
       /\ ~receipt /\ c.at \in Draining => c.full \/ c.key \in c.due \cup notices
       /\ ~receipt /\ c.at = "ok" => c.full \/ c.key \in notices

\* A task that was never deleted stays, and what is marked was notified.
BoardSays ==
  /\ Exists => task.version <= Height /\ task.change <= Cardinality(Written)
  /\ ~receipt /\ ~Exists => pending = {} /\ delivered = {}
  /\ ~receipt => delivered \subseteq notices

TasksInv ==
  /\ TasksTypeOK /\ BoardSays
  /\ \A r \in Requests : Bears(request[r])

\* The board changes in no other way.
Forward ==
  /\ receipt => receipt'
  /\ ~receipt' /\ ~Exists' => ~Exists
  /\ notices \subseteq notices'
  /\ ~receipt' => pending \subseteq pending' \cup notices'

LEMMA HeightIsNumber ==
  ASSUME TasksTypeOK
  PROVE  /\ IsFiniteSet(Written) /\ Cardinality(Written) \in Nat
         /\ Height \in Nat /\ Cardinality(Requests) \in Nat
         /\ Height <= MaxClock + Cardinality(Requests)
         /\ clock \in Nat /\ clock <= Height
<1>1. IsFiniteSet(Requests) /\ Written \subseteq Requests /\ MaxClock \in Nat
  BY TasksAssumption DEF Written
<1>2. /\ IsFiniteSet(Written) /\ Cardinality(Written) \in Nat /\ Cardinality(Requests) \in Nat
      /\ Cardinality(Written) <= Cardinality(Requests)
  BY <1>1, FS_Subset, FS_CardinalityType
<1> QED
  BY <1>1, <1>2 DEF Height, TasksTypeOK

\* A request that has not written leaves room for one more.
LEMMA RoomAbove ==
  ASSUME TasksTypeOK, NEW r \in Requests, r \notin Written
  PROVE  /\ Cardinality(Written) + 1 <= Cardinality(Requests)
         /\ Cardinality(Written \cup {r}) = Cardinality(Written) + 1
         /\ Height + 1 <= MaxClock + Cardinality(Requests)
<1>1. IsFiniteSet(Requests) /\ Written \cup {r} \subseteq Requests /\ MaxClock \in Nat
  BY TasksAssumption DEF Written
<1>2. IsFiniteSet(Written)
  BY HeightIsNumber
<1>3. Cardinality(Written \cup {r}) = Cardinality(Written) + 1
  BY <1>2, FS_AddElement
<1>4. Cardinality(Written \cup {r}) <= Cardinality(Requests)
  BY <1>1, FS_Subset
<1> QED
  BY <1>1, <1>3, <1>4, HeightIsNumber DEF Height

\* The numbers a request reads before it writes.
LEMMA NumbersFit ==
  ASSUME TasksInv, NEW r \in Requests, request[r].at \in Unwritten
  PROVE  /\ clock \in Versions /\ clock <= Height + 1
         /\ Exists => /\ task \in TaskType /\ task.version \in Versions
                      /\ NextVersion(task.version) \in Versions
                      /\ NextVersion(task.version) <= Height + 1
         /\ At(r, "compare") => /\ NextVersion(request[r].read) \in Versions
                                /\ NextVersion(request[r].read) <= Height + 1
<1>1. r \notin Written /\ TasksTypeOK /\ BoardSays /\ Bears(request[r])
      /\ request[r] \in TaskRequest
  BY DEF Written, TasksInv, TasksTypeOK
<1>2. /\ Height \in Nat /\ Cardinality(Requests) \in Nat /\ MaxClock \in Nat
      /\ Height + 1 <= MaxClock + Cardinality(Requests)
      /\ clock \in Nat /\ clock <= Height
  BY <1>1, HeightIsNumber, RoomAbove, TasksAssumption
<1>3. ASSUME NEW v \in Nat, v <= Height
      PROVE  NextVersion(v) \in Versions /\ NextVersion(v) <= Height + 1
  BY <1>2, <1>3 DEF NextVersion, Later, Versions
<1>4. Exists => /\ task \in TaskType /\ task.version \in Versions
                /\ task.version \in Nat /\ task.version <= Height
  BY <1>1, <1>2 DEF TasksTypeOK, Exists, TaskType, Versions, BoardSays
<1>5. At(r, "compare") => request[r].read \in Nat /\ request[r].read <= Height
  BY <1>1, <1>2 DEF At, Bears, TaskRequest, Versions
<1> QED
  BY <1>2, <1>3, <1>4, <1>5 DEF Versions

LEMMA BearsStays ==
  ASSUME TasksTypeOK, TasksTypeOK', Height <= Height', Forward, NEW c \in TaskRequest, Bears(c)
  PROVE  Bears(c)'
<1>1. Height \in Nat /\ Height' \in Nat
  <2>1. Written' \subseteq Requests /\ IsFiniteSet(Requests) /\ MaxClock \in Nat
    BY TasksAssumption DEF Written
  <2>2. Cardinality(Written') \in Nat
    BY <2>1, FS_Subset, FS_CardinalityType
  <2> QED
    BY <2>1, <2>2, HeightIsNumber DEF Height
<1>2. c.stamp \in Nat /\ c.read \in Nat
  BY HeightIsNumber, TasksAssumption DEF TaskRequest, Versions
<1>3. /\ c.stamp <= Height' + 1
      /\ c.at = "compare" => c.read <= Height'
  BY <1>1, <1>2 DEF Bears
<1> QED
  BY <1>3 DEF Bears, Forward

\* A step of a request: the height grows by one when it writes, the others keep
\* what they carry.
LEMMA RequestSteps ==
  ASSUME TasksInv, NEW r \in Requests, NEW c \in TaskRequest, Do(r, c),
         r \in Written => c.at \notin Unwritten
  PROVE  /\ request'[r] = c
         /\ \A q \in Requests : q # r => request'[q] = request[q]
         /\ request' \in [Requests -> TaskRequest]
         /\ Height <= Height' /\ Height \in Nat /\ Height' \in Nat
         /\ Cardinality(Written) <= Cardinality(Written')
         /\ Cardinality(Written) \in Nat /\ Cardinality(Written') \in Nat
         /\ r \notin Written /\ c.at \notin Unwritten =>
              /\ Height' = Height + 1
              /\ Cardinality(Written') = Cardinality(Written) + 1
              /\ Cardinality(Written) + 1 <= Cardinality(Requests)
              /\ Height + 1 <= MaxClock + Cardinality(Requests)
<1>1. request \in [Requests -> TaskRequest] /\ TasksTypeOK /\ MaxClock \in Nat
  BY TasksAssumption DEF TasksInv, TasksTypeOK
<1>2. /\ request'[r] = c
      /\ \A q \in Requests : q # r => request'[q] = request[q]
      /\ request' \in [Requests -> TaskRequest]
  BY <1>1 DEF Do
<1>3. Height \in Nat /\ Cardinality(Written) \in Nat
  BY <1>1, HeightIsNumber
<1>4. CASE r \notin Written /\ c.at \notin Unwritten
  <2>1. Written' = Written \cup {r}
    BY <1>2, <1>4 DEF Written
  <2>2. /\ Cardinality(Written') = Cardinality(Written) + 1
        /\ Cardinality(Written) + 1 <= Cardinality(Requests)
        /\ Height + 1 <= MaxClock + Cardinality(Requests)
    BY <1>1, <1>4, <2>1, RoomAbove
  <2> QED
    BY <1>1, <1>2, <1>3, <2>2 DEF Height
<1>5. CASE ~(r \notin Written /\ c.at \notin Unwritten)
  <2>1. Written' = Written
    BY <1>2, <1>5 DEF Written
  <2> QED
    BY <1>2, <1>3, <1>5, <2>1 DEF Height
<1> QED
  BY <1>4, <1>5

\* A step of a request that leaves the board sound, and goes forward.
LEMMA TaskStepKeeps ==
  ASSUME TasksInv, NEW r \in Requests, NEW c \in TaskRequest, Do(r, c),
         r \in Written => c.at \notin Unwritten,
         TasksTypeOK', BoardSays', Forward, Bears(c)'
  PROVE  TasksInv'
<1>1. /\ request'[r] = c
      /\ \A q \in Requests : q # r => request'[q] = request[q]
      /\ Height <= Height'
  BY RequestSteps
<1>2. TasksTypeOK
  BY DEF TasksInv
<1>3. ASSUME NEW q \in Requests PROVE Bears(request[q])'
  <2>1. CASE q = r
    BY <1>1, <2>1 DEF Bears
  <2>2. CASE q # r
    <3>1. PICK d : d = request[q]
      OBVIOUS
    <3>2. d \in TaskRequest /\ Bears(d)
      BY <3>1 DEF TasksInv, TasksTypeOK
    <3>3. Bears(d)'
      BY <1>1, <1>2, <3>2, BearsStays
    <3>4. request'[q] = d
      BY <1>1, <2>2, <3>1
    <3> QED
      BY <3>3, <3>4 DEF Bears
  <2> QED
    BY <2>1, <2>2
<1> QED
  BY <1>3 DEF TasksInv

\* A request that only reads.
LEMMA ReadsKeep ==
  ASSUME TasksInv, NEW r \in Requests, NEW c \in TaskRequest, Reads(r, c),
         r \in Written => c.at \notin Unwritten, Bears(c)
  PROVE  TasksInv'
<1>1. Do(r, c) /\ UNCHANGED <<clock, task, receipt, pending, delivered, notices>>
  BY DEF Reads, board
<1>2. /\ request' \in [Requests -> TaskRequest]
      /\ Height <= Height' /\ Height \in Nat /\ Height' \in Nat
      /\ Cardinality(Written) <= Cardinality(Written')
      /\ Cardinality(Written) \in Nat /\ Cardinality(Written') \in Nat
  BY <1>1, RequestSteps
<1>3. TasksTypeOK /\ TasksTypeOK' /\ BoardSays
  BY <1>1, <1>2 DEF TasksInv, TasksTypeOK
<1>4. Forward
  BY <1>1 DEF Forward, Exists
<1>5. Exists => task.version \in Nat /\ task.change \in Nat
  BY <1>3, HeightIsNumber, TasksAssumption DEF TasksTypeOK, Exists, TaskType, Versions
<1>6. BoardSays'
  BY <1>1, <1>2, <1>3, <1>5 DEF BoardSays, Exists
<1>7. Bears(c)'
  BY <1>2, <1>3, <1>4, BearsStays
<1> QED
  BY <1>1, <1>3, <1>4, <1>6, <1>7, TaskStepKeeps

\* A request that only moves on.
LEMMA MovesKeep ==
  ASSUME TasksInv, NEW r \in Requests, NEW step \in TaskSteps \cup TaskAnswers, Moves(r, step),
         r \in Written => step \notin Unwritten, Bears([request[r] EXCEPT !.at = step])
  PROVE  TasksInv'
<1>1. request[r] \in TaskRequest /\ request \in [Requests -> TaskRequest]
  BY DEF TasksInv, TasksTypeOK
<1>2. /\ [request[r] EXCEPT !.at = step] \in TaskRequest
      /\ [request[r] EXCEPT !.at = step].at = step
  BY <1>1 DEF TaskRequest
<1>3. Reads(r, [request[r] EXCEPT !.at = step])
  BY <1>1 DEF Moves, Reads, Go, Do
<1> QED
  BY <1>2, <1>3, ReadsKeep

\* A request without a change of its own may move to most steps.
LEMMA Settles ==
  ASSUME TasksInv, NEW r \in Requests, ~request[r].won,
         NEW step, step \notin Draining \cup {"compare", "set"}
  PROVE  Bears([request[r] EXCEPT !.at = step])
<1>1. request[r] \in TaskRequest /\ Bears(request[r])
  BY DEF TasksInv, TasksTypeOK
<1> QED
  BY <1>1 DEF Bears, TaskRequest, Draining

-----------------------------------------------------------------------------
(* The steps that only read. *)

LEMMA NewTaskRequests ==
  ASSUME TasksInv, NEW r \in Requests,
         \/ CreateTask(r) \/ DeleteTask(r) \/ SaveTask(r) \/ (\E q \in Requests : SaveAgain(r, q))
         \/ (\E p \in Progress, v \in Naming : SetProgress(r, p, v))
         \/ (\E tags \in TagLists, v \in Naming : SetTags(r, tags, v))
         \/ (\E to \in TaskTargets : SetTaskStatus(r, to))
  PROVE  TasksInv'
<1>1. /\ request[r] \in TaskRequest /\ Bears(request[r]) /\ request[r].at = "new"
      /\ r \notin Written
  BY DEF TasksInv, TasksTypeOK, At, CreateTask, DeleteTask, SaveTask, SaveAgain, SetProgress,
         SetTags, SetTaskStatus, Written, Unwritten
<1>2. /\ Exists => /\ task.version \in Versions /\ task.text \in Requests \cup {None}
                   /\ task.status \in TaskStatuses
      /\ 0 \in Versions /\ Height \in Nat
      /\ NoTags \in TagLists /\ TaskTargets \subseteq TaskStatuses
  BY HeightIsNumber, TasksAssumption DEF TasksInv, TasksTypeOK, Exists, TaskType, Versions
<1>3. /\ NoIntent \in TaskRequest
      /\ ~NoIntent.won /\ NoIntent.stamp = 0 /\ NoIntent.due = {}
  BY <1>2 DEF NoIntent, TaskRequest, TaskSteps, TaskStatuses, Progress
<1>4. ASSUME NEW c \in TaskRequest, Reads(r, c), c.at \in {"find", "remove"}, ~c.won,
             c.stamp = 0, c.due = {}
      PROVE  TasksInv'
  <2>1. Bears(c)
    BY <1>2, <1>4 DEF Bears, Draining
  <2> QED
    BY <1>1, <1>4, <2>1, ReadsKeep
<1>5. CASE CreateTask(r)
  <2> DEFINE c == [NoIntent EXCEPT !.op = "create", !.at = "find"]
  <2>1. c \in TaskRequest /\ c.at \in {"find", "remove"} /\ ~c.won /\ c.stamp = 0 /\ c.due = {}
    BY <1>3 DEF TaskRequest, TaskSteps
  <2> QED
    BY <1>4, <1>5, <2>1 DEF CreateTask
<1>6. CASE DeleteTask(r)
  <2> DEFINE c == [NoIntent EXCEPT !.op = "delete", !.at = "remove", !.named = task.version]
  <2>1. c \in TaskRequest /\ c.at \in {"find", "remove"} /\ ~c.won /\ c.stamp = 0 /\ c.due = {}
    BY <1>2, <1>3, <1>6 DEF DeleteTask, TaskRequest, TaskSteps
  <2> QED
    BY <1>4, <1>6, <2>1 DEF DeleteTask
<1>7. CASE SaveTask(r)
  <2> DEFINE c == [NoIntent EXCEPT !.op = "save", !.at = "find", !.named = task.version,
                                  !.base = task.text, !.text = r]
  <2>1. c \in TaskRequest /\ c.at \in {"find", "remove"} /\ ~c.won /\ c.stamp = 0 /\ c.due = {}
    BY <1>2, <1>3, <1>7 DEF SaveTask, TaskRequest, TaskSteps
  <2> QED
    BY <1>4, <1>7, <2>1 DEF SaveTask
<1>8. CASE \E q \in Requests : SaveAgain(r, q)
  <2>1. PICK q \in Requests : SaveAgain(r, q)
    BY <1>8
  <2> DEFINE c == [request[q] EXCEPT !.at = "find"]
  <2>2. request[q] \in TaskRequest /\ Bears(request[q]) /\ request[q].op = "save"
    BY <2>1 DEF TasksInv, TasksTypeOK, SaveAgain
  <2>3. c \in TaskRequest
    BY <2>2 DEF TaskRequest, TaskSteps
  <2>4. Bears(c)
    BY <2>2 DEF Bears, TaskRequest, Draining
  <2> QED
    BY <1>1, <2>1, <2>3, <2>4, ReadsKeep DEF SaveAgain
<1>9. ASSUME NEW p \in Progress, NEW v \in Naming, SetProgress(r, p, v)
      PROVE  TasksInv'
  <2> DEFINE c == [NoIntent EXCEPT !.op = "progress", !.at = "find", !.progress = p, !.named = v]
  <2>1. c \in TaskRequest /\ c.at \in {"find", "remove"} /\ ~c.won /\ c.stamp = 0 /\ c.due = {}
    BY <1>2, <1>3, ZenonT(60) DEF Naming, TaskRequest, TaskSteps
  <2> QED
    BY <1>4, <1>9, <2>1 DEF SetProgress
<1>10. ASSUME NEW tags \in TagLists, NEW v \in Naming, SetTags(r, tags, v)
       PROVE  TasksInv'
  <2> DEFINE c == [NoIntent EXCEPT !.op = "tags", !.at = "find", !.tags = tags, !.named = v]
  <2>1. v \in Versions \cup {None}
    BY <1>2 DEF Naming
  <2>2. c \in TaskRequest
    BY <1>3, <2>1 DEF TaskRequest, TaskSteps
  <2>3. c.at = "find" /\ ~c.won /\ c.stamp = 0 /\ c.due = {}
    BY <1>3 DEF TaskRequest
  <2> QED
    BY <1>4, <1>10, <2>2, <2>3 DEF SetTags
<1>11. ASSUME NEW to \in TaskTargets, SetTaskStatus(r, to)
       PROVE  TasksInv'
  <2> DEFINE c == [NoIntent EXCEPT !.op = "set_status", !.at = "find",
                                  !.from = task.status, !.to = to]
  <2>1. c \in TaskRequest /\ c.at \in {"find", "remove"} /\ ~c.won /\ c.stamp = 0 /\ c.due = {}
    BY <1>2, <1>3, <1>11, ZenonT(60) DEF SetTaskStatus, TaskRequest, TaskSteps
  <2> QED
    BY <1>4, <1>11, <2>1 DEF SetTaskStatus
<1> QED
  BY <1>5, <1>6, <1>7, <1>8, <1>9, <1>10, <1>11

LEMMA TaskReadersKeep ==
  ASSUME TasksInv, NEW r \in Requests,
         \/ NotFound(r) \/ FindCreated(r) \/ CountTasks(r) \/ ReadCreated(r)
         \/ ReadForSave(r) \/ ReadWritten(r) \/ Recheck(r) \/ ReadForProgress(r)
         \/ ReadForTags(r) \/ CompareTags(r) \/ ReadTags(r)
  PROVE  TasksInv'
<1>1. /\ request[r] \in TaskRequest /\ Bears(request[r]) /\ ~request[r].won
      /\ request[r].at \in {"find", "count", "reread", "shown", "recheck", "compare", "retag"}
      /\ r \in Written => request[r].at \in {"reread", "shown", "recheck", "retag"}
  BY DEF TasksInv, TasksTypeOK, At, NotFound, Found, FindCreated, CountTasks, ReadCreated,
         ReadForSave, ReadWritten, Recheck, ReadForProgress, ReadForTags, CompareTags, ReadTags,
         Bears, Draining, Written, Unwritten
<1>2. ASSUME NEW step \in {"ok", "missing", "conflict", "invalid", "limited", "recheck"},
             Moves(r, step)
      PROVE  TasksInv'
  BY <1>1, <1>2, MovesKeep, Settles DEF TaskSteps, TaskAnswers, Unwritten, Draining
<1>3. CASE NotFound(r)
  BY <1>2, <1>3 DEF NotFound
<1>4. CASE FindCreated(r)
  <2>1. r \notin Written
    BY <1>1, <1>4 DEF FindCreated, Found, At
  <2>2. CASE Moves(r, "count")
    BY <1>1, <2>1, <2>2, MovesKeep, Settles DEF TaskSteps, Draining
  <2> QED
    BY <1>2, <1>4, <2>2 DEF FindCreated
<1>5. CASE CountTasks(r)
  <2> DEFINE c == [request[r] EXCEPT !.at = "insert", !.stamp = clock]
  <2>1. CASE Reads(r, c)
    <3>1. r \notin Written /\ request[r].at \in Unwritten
      BY <1>1, <1>5 DEF CountTasks, At, Unwritten
    <3>2. clock \in Versions /\ clock <= Height + 1
      BY <3>1, NumbersFit
    <3>3. c \in TaskRequest
      BY <1>1, <3>2, ZenonT(60) DEF TaskRequest, TaskSteps
    <3>4. Bears(c)
      BY <1>1, <3>2 DEF Bears, TaskRequest, Draining
    <3> QED
      BY <2>1, <3>1, <3>3, <3>4, ReadsKeep
  <2> QED
    BY <1>2, <1>5, <2>1 DEF CountTasks
<1>6. CASE ReadCreated(r)
  BY <1>2, <1>6 DEF ReadCreated
<1>7. CASE ReadForSave(r)
  <2> DEFINE c == [request[r] EXCEPT !.at = "save", !.stamp = NextVersion(task.version)]
  <2>1. CASE Reads(r, c) /\ Exists
    <3>1. r \notin Written /\ request[r].at \in Unwritten
      BY <1>1, <1>7 DEF ReadForSave, Found, At, Unwritten
    <3>2. NextVersion(task.version) \in Versions /\ NextVersion(task.version) <= Height + 1
      BY <2>1, <3>1, NumbersFit
    <3>3. c \in TaskRequest
      BY <1>1, <3>2, ZenonT(60) DEF TaskRequest, TaskSteps
    <3>4. Bears(c)
      BY <1>1, <3>2 DEF Bears, TaskRequest, Draining
    <3> QED
      BY <2>1, <3>1, <3>3, <3>4, ReadsKeep
  <2> QED
    BY <1>2, <1>7, <2>1 DEF ReadForSave
<1>8. CASE ReadWritten(r)
  BY <1>2, <1>8 DEF ReadWritten
<1>9. CASE Recheck(r)
  BY <1>2, <1>9 DEF Recheck
<1>10. CASE ReadForProgress(r)
  <2> DEFINE c == [request[r] EXCEPT !.at = "advance", !.stamp = NextVersion(task.version)]
  <2>1. CASE Reads(r, c) /\ Exists
    <3>1. r \notin Written /\ request[r].at \in Unwritten
      BY <1>1, <1>10 DEF ReadForProgress, Found, At, Unwritten
    <3>2. NextVersion(task.version) \in Versions /\ NextVersion(task.version) <= Height + 1
      BY <2>1, <3>1, NumbersFit
    <3>3. c \in TaskRequest
      BY <1>1, <3>2, ZenonT(60) DEF TaskRequest, TaskSteps
    <3>4. Bears(c)
      BY <1>1, <3>2 DEF Bears, TaskRequest, Draining
    <3> QED
      BY <2>1, <3>1, <3>3, <3>4, ReadsKeep
  <2> QED
    BY <1>2, <1>10, <2>1 DEF ReadForProgress
<1>11. CASE ReadForTags(r)
  <2> DEFINE c == [request[r] EXCEPT !.at = "compare", !.read = task.version]
  <2>1. r \notin Written /\ Exists /\ Reads(r, c)
    BY <1>1, <1>11 DEF ReadForTags, Found, At
  <2>2. task.version \in Versions /\ task.version <= Height
    BY <2>1 DEF TasksInv, TasksTypeOK, BoardSays, Exists, TaskType
  <2>3. c \in TaskRequest
    BY <1>1, <2>2, ZenonT(60) DEF TaskRequest, TaskSteps
  <2>4. Bears(c)
    BY <1>1, <2>2 DEF Bears, TaskRequest, Draining
  <2> QED
    BY <2>1, <2>3, <2>4, ReadsKeep
<1>12. CASE CompareTags(r)
  <2> DEFINE c == [request[r] EXCEPT !.at = "replace", !.stamp = NextVersion(request[r].read)]
  <2>1. CASE Reads(r, c)
    <3>1. r \notin Written /\ request[r].at \in Unwritten /\ At(r, "compare")
      BY <1>1, <1>12 DEF CompareTags, At, Unwritten
    <3>2. NextVersion(request[r].read) \in Versions /\ NextVersion(request[r].read) <= Height + 1
      BY <3>1, NumbersFit
    <3>3. c \in TaskRequest
      BY <1>1, <3>2, ZenonT(60) DEF TaskRequest, TaskSteps
    <3>4. Bears(c)
      BY <1>1, <3>2 DEF Bears, TaskRequest, Draining
    <3> QED
      BY <2>1, <3>1, <3>3, <3>4, ReadsKeep
  <2> QED
    BY <1>2, <1>12, <2>1 DEF CompareTags
<1>13. CASE ReadTags(r)
  BY <1>2, <1>13 DEF ReadTags
<1> QED
  BY <1>3, <1>4, <1>5, <1>6, <1>7, <1>8, <1>9, <1>10, <1>11, <1>12, <1>13

LEMMA StatusReadersKeep ==
  ASSUME TasksInv, NEW r \in Requests,
         ReadForStatus(r) \/ ReadStatus(r) \/ ListPending(r) \/ Permit(r)
  PROVE  TasksInv'
<1>1. request[r] \in TaskRequest /\ Bears(request[r]) /\ BoardSays /\ pending \subseteq Changes
  BY DEF TasksInv, TasksTypeOK
<1>2. CASE ReadForStatus(r)
  <2>1. /\ r \notin Written /\ request[r].at \in Unwritten /\ ~request[r].won
        /\ Exists /\ request[r].op = "set_status"
    BY <1>1, <1>2 DEF ReadForStatus, Found, At, Written, Unwritten, Bears, Draining
  <2>2. ASSUME NEW step \in {"list", "conflict", "invalid"}, Moves(r, step)
        PROVE  TasksInv'
    BY <2>1, <2>2, MovesKeep, Settles DEF TaskSteps, TaskAnswers, Draining
  <2> DEFINE progress == IF request[r].to = "done" THEN 100 ELSE task.progress
             c == [request[r] EXCEPT !.at = "set", !.stamp = clock, !.progress = progress]
  <2>3. CASE Reads(r, c)
    <3>1. clock \in Versions /\ clock <= Height + 1 /\ task \in TaskType
      BY <2>1, NumbersFit
    <3>2. progress \in Progress
      BY <3>1 DEF TaskType, Progress
    <3> HIDE DEF progress
    <3>3. c \in TaskRequest
      BY <1>1, <3>1, <3>2 DEF TaskRequest, TaskSteps
    <3>4. Bears(c)
      BY <1>1, <2>1, <3>1 DEF Bears, TaskRequest, Draining
    <3> QED
      BY <2>1, <2>3, <3>3, <3>4, ReadsKeep
  <2> QED
    BY <1>2, <2>2, <2>3 DEF ReadForStatus
<1>3. CASE ReadStatus(r)
  <2>1. request[r].at = "current"
    BY <1>3 DEF ReadStatus, At
  <2>2. PICK step \in {"missing", "conflict", "list"} : Moves(r, step)
    BY <1>3 DEF ReadStatus
  <2>3. Bears([request[r] EXCEPT !.at = step])
    BY <1>1, <2>1 DEF Bears, TaskRequest, Draining
  <2> QED
    BY <2>2, <2>3, MovesKeep DEF TaskSteps, TaskAnswers, Unwritten
<1>4. CASE ListPending(r)
  <2>1. PICK due \in SUBSET pending :
          /\ IF Cardinality(pending) <= DrainLimit
             THEN due = pending ELSE Cardinality(due) = DrainLimit
          /\ Reads(r, [request[r] EXCEPT !.at = IF due = {} THEN "ok" ELSE "drain", !.due = due,
                                         !.full = Cardinality(due) >= DrainLimit])
    BY <1>4 DEF ListPending
  <2> DEFINE full == Cardinality(due) >= DrainLimit
             step == IF due = {} THEN "ok" ELSE "drain"
             c == [request[r] EXCEPT !.at = step, !.due = due, !.full = full]
  <2>2. ~full => due = pending
    BY <2>1, TasksAssumption
  <2>3. request[r].at = "list" /\ due \subseteq Changes
    BY <1>1, <1>4 DEF ListPending, At
  <2>4. full \in BOOLEAN
    OBVIOUS
  <2>5. Reads(r, c)
    BY <2>1
  <2>6. step \in {"ok", "drain"} /\ (step = "drain" <=> due # {})
    OBVIOUS
  <2> HIDE DEF full, step
  <2>7. c \in TaskRequest
    <3>1. c = [request[r] EXCEPT !.at = step, !.due = due, !.full = full]
      OBVIOUS
    <3> HIDE DEF c
    <3> QED
      BY <1>1, <2>3, <2>4, <2>6, <3>1, ZenonT(60) DEF TaskRequest, TaskSteps, TaskAnswers
  <2>8. c.at = step /\ c.due = due /\ c.full = full /\ c.key = request[r].key
        /\ c.won = request[r].won /\ c.op = request[r].op /\ c.stamp = request[r].stamp
    BY <1>1 DEF TaskRequest
  <2>9. ~receipt /\ ~Exists => due = {}
    BY <1>1 DEF BoardSays
  <2>10. request[r].won /\ ~receipt => full \/ request[r].key \in due \cup notices
    BY <1>1, <2>2, <2>3 DEF Bears
  <2>11. Bears(c)
    BY <1>1, <2>3, <2>8, <2>9, <2>10, <2>6 DEF Bears, Draining
  <2> QED
    BY <2>7, <2>8, <2>11, <2>5, <2>6, ReadsKeep DEF Unwritten
<1>5. CASE Permit(r)
  <2>1. PICK k \in request[r].due :
          Reads(r, [request[r] EXCEPT !.at = IF Exists THEN "notify" ELSE "mark", !.intent = k])
    BY <1>5 DEF Permit
  <2> DEFINE step == IF Exists THEN "notify" ELSE "mark"
             c == [request[r] EXCEPT !.at = step, !.intent = k]
  <2>2. request[r].at = "drain" /\ k \in Changes /\ step \in {"notify", "mark"}
    BY <1>1, <1>5 DEF Permit, At, TaskRequest
  <2>3. step = "mark" => receipt
    BY <1>1 DEF Bears
  <2> HIDE DEF step
  <2>4. c \in TaskRequest
    BY <1>1, <2>2 DEF TaskRequest, TaskSteps
  <2>5. Bears(c)
    BY <1>1, <2>2, <2>3 DEF Bears, TaskRequest, Draining
  <2>6. c.at = step
    BY <1>1 DEF TaskRequest
  <2> QED
    BY <2>1, <2>2, <2>4, <2>5, <2>6, ReadsKeep DEF Unwritten, step
<1> QED
  BY <1>2, <1>3, <1>4, <1>5

-----------------------------------------------------------------------------
(* The steps that write. *)

LEMMA NotifyKeeps ==
  ASSUME TasksInv, NEW r \in Requests, Notify(r) \/ Mark(r)
  PROVE  TasksInv'
<1> DEFINE k == request[r].intent
<1>1. /\ request[r] \in TaskRequest /\ request \in [Requests -> TaskRequest]
      /\ Bears(request[r]) /\ BoardSays /\ TasksTypeOK
      /\ request[r].at \in {"notify", "mark"} /\ k \in Changes /\ r \in Written
  BY DEF TasksInv, TasksTypeOK, Notify, Mark, At, Bears, Written, Unwritten
<1>2. CASE Notify(r)
  <2>0. PICK c : c = [request[r] EXCEPT !.at = "mark"]
    OBVIOUS
  <2>1. /\ c \in TaskRequest /\ c.at = "mark" /\ Do(r, c)
        /\ UNCHANGED <<clock, task, receipt, pending, delivered>>
        /\ notices' = notices \cup {k}
    BY <1>1, <1>2, <2>0 DEF Notify, TaskRequest, TaskSteps, Do, Go
  <2>2. Forward
    BY <2>1 DEF Forward, Exists
  <2>3. Written' = Written
    BY <1>1, <2>1 DEF Written, Unwritten, Do
  <2>4. TasksTypeOK'
    BY <1>1, <2>1 DEF TasksTypeOK, Do
  <2>5. BoardSays'
    BY <1>1, <2>1, <2>3 DEF BoardSays, Exists, Height
  <2>6. Bears(c)'
    <3>1. /\ c.due = request[r].due /\ c.key = request[r].key /\ c.full = request[r].full
          /\ c.won = request[r].won /\ c.op = request[r].op /\ c.stamp = request[r].stamp
          /\ c.intent = k
      BY <1>1, <2>0 DEF TaskRequest
    <3>2. request[r].at = "notify"
      BY <1>2 DEF Notify, At
    <3> QED
      BY <1>1, <2>1, <2>3, <3>1, <3>2 DEF Bears, Exists, Height, Draining
  <2> QED
    BY <1>1, <2>1, <2>2, <2>4, <2>5, <2>6, TaskStepKeeps DEF Unwritten
<1>3. CASE Mark(r)
  <2> DEFINE due == request[r].due \ {k}
             step == IF due = {} THEN "ok" ELSE "drain"
  <2>0. PICK c : c = [request[r] EXCEPT !.at = step, !.due = due, !.intent = None]
    OBVIOUS
  <2>1. /\ Do(r, c)
        /\ UNCHANGED <<clock, task, receipt, notices>>
        /\ pending' = pending \ {k} /\ delivered' = delivered \cup (pending \cap {k})
    BY <1>3, <2>0 DEF Mark
  <2>2. /\ c \in TaskRequest /\ c.at = step /\ c.due = due /\ c.at \notin Unwritten
    BY <1>1, <2>0, ZenonT(60) DEF TaskRequest, TaskSteps, TaskAnswers, Unwritten
  <2>3. request[r].at = "mark" /\ (~receipt => k \in notices)
    BY <1>1, <1>3 DEF Mark, At, Bears
  <2>4. Forward
    BY <2>1, <2>3 DEF Forward, Exists
  <2>5. Written' = Written
    BY <1>1, <2>1, <2>2 DEF Written, Do
  <2>6. TasksTypeOK'
    BY <1>1, <2>1, <2>2 DEF TasksTypeOK, Do
  <2>7. BoardSays'
    BY <1>1, <2>1, <2>3, <2>5 DEF BoardSays, Exists, Height
  <2>8. Bears(c)'
    <3>1. /\ c.key = request[r].key /\ c.full = request[r].full
          /\ c.won = request[r].won /\ c.op = request[r].op /\ c.stamp = request[r].stamp
      BY <1>1, <2>0 DEF TaskRequest
    <3>2. c.won /\ ~receipt => c.full \/ c.key \in due \cup notices
      BY <1>1, <2>3, <3>1 DEF Bears, Draining
    <3>3. ~receipt /\ ~Exists => due = {}
      BY <1>1 DEF Bears
    <3> QED
      BY <1>1, <2>1, <2>2, <2>3, <2>5, <3>1, <3>2, <3>3 DEF Bears, Exists, Height, Draining
  <2> QED
    BY <2>1, <2>2, <2>4, <2>6, <2>7, <2>8, TaskStepKeeps
<1> QED
  BY <1>2, <1>3

\* A write of a row, or none.
LEMMA WriteRowKeeps ==
  ASSUME TasksInv, NEW r \in Requests, request[r].at \in {"insert", "save", "advance", "replace"},
         NEW step \in {"reread", "shown", "recheck", "missing", "ok", "retag"},
         Go(r, step), UNCHANGED <<clock, receipt, pending, delivered, notices>>,
         \/ task' = task
         \/ /\ task' \in TaskType /\ task'.version <= Height + 1
            /\ \/ task'.change = 0
               \/ Exists /\ task'.change = task.change
  PROVE  TasksInv'
<1>1. /\ request[r] \in TaskRequest /\ request \in [Requests -> TaskRequest]
      /\ Bears(request[r]) /\ BoardSays /\ TasksTypeOK
      /\ request[r].at \in Unwritten /\ r \notin Written /\ ~request[r].won
  BY DEF TasksInv, TasksTypeOK, Written, Unwritten, Bears, Draining
<1>2. PICK c : c = [request[r] EXCEPT !.at = step]
  OBVIOUS
<1>3. /\ c \in TaskRequest /\ c.at \notin Unwritten /\ c.at = step /\ ~c.won
      /\ c.stamp = request[r].stamp /\ c.due = request[r].due
      /\ Do(r, c)
  BY <1>1, <1>2 DEF TaskRequest, TaskSteps, TaskAnswers, Unwritten, Do, Go
<1>4. /\ request' \in [Requests -> TaskRequest]
      /\ Height' = Height + 1 /\ Height \in Nat
      /\ Cardinality(Written') = Cardinality(Written) + 1 /\ Cardinality(Written) \in Nat
  BY <1>1, <1>3, RequestSteps
<1>5. None \notin TaskType
  BY TasksAssumption
<1>6. TasksTypeOK'
  BY <1>1, <1>4 DEF TasksTypeOK
<1>7. Exists => Exists'
  BY <1>5 DEF Exists
<1>8. Exists => task.version \in Nat /\ task.change \in Nat
  BY <1>1, HeightIsNumber, TasksAssumption DEF TasksTypeOK, Exists, TaskType, Versions
<1>9. Forward
  BY <1>7 DEF Forward
<1>10. BoardSays'
  <2>1. CASE task' = task
    BY <1>1, <1>4, <1>8, <2>1 DEF BoardSays, Exists
  <2>2. CASE task' # task
    <3>1. task'.version <= Height' /\ task'.change <= Cardinality(Written')
      BY <1>1, <1>4, <1>8, <2>2 DEF BoardSays
    <3>2. Exists'
      BY <1>5, <2>2 DEF Exists
    <3> QED
      BY <1>1, <3>1, <3>2 DEF BoardSays
  <2> QED
    BY <2>1, <2>2
<1>11. Bears(c)'
  <2>1. c.stamp \in Nat /\ c.stamp <= Height' + 1
    <3>1. request[r].stamp \in Nat
      BY <1>1, HeightIsNumber, TasksAssumption DEF TaskRequest, Versions
    <3> QED
      BY <1>1, <1>3, <1>4, <3>1 DEF Bears
  <2>2. ~receipt' /\ ~Exists' => c.due = {}
    BY <1>1, <1>3, <1>7 DEF Bears
  <2> QED
    BY <1>3, <2>1, <2>2 DEF Bears, Draining
<1> QED
  BY <1>1, <1>3, <1>6, <1>9, <1>10, <1>11, TaskStepKeeps

LEMMA TaskWritersKeep ==
  ASSUME TasksInv, NEW r \in Requests,
         InsertTask(r) \/ WriteSave(r) \/ WriteProgress(r) \/ ReplaceTags(r)
  PROVE  TasksInv'
<1>1. /\ request[r] \in TaskRequest /\ Bears(request[r]) /\ BoardSays /\ TasksTypeOK
      /\ r \notin Written
      /\ request[r].stamp \in Versions /\ request[r].stamp <= Height + 1
      /\ Exists => task \in TaskType
  BY DEF TasksInv, TasksTypeOK, At, InsertTask, WriteSave, WriteProgress, ReplaceTags, Written,
         Unwritten, Bears, TaskRequest, Exists
<1>2. CASE InsertTask(r)
  <2> DEFINE new == NewTask(r, request[r].stamp)
  <2>1. new \in TaskType /\ new.version = request[r].stamp /\ new.change = 0
    BY <1>1, HeightIsNumber, TasksAssumption DEF NewTask, TaskType, TaskStatuses, Progress
  <2> HIDE DEF new
  <2>2. task' = task \/ task' = new
    BY <1>2 DEF InsertTask, new
  <2> QED
    BY <1>1, <1>2, <2>1, <2>2, WriteRowKeeps DEF InsertTask, At
<1>3. CASE WriteSave(r)
  <2> DEFINE new == [task EXCEPT !.text = request[r].text, !.version = request[r].stamp]
  <2>1. Exists => /\ new \in TaskType /\ new.version = request[r].stamp
                  /\ new.change = task.change
    BY <1>1 DEF TaskType, TaskRequest
  <2> HIDE DEF new
  <2>2. PICK step \in {"shown", "recheck"} :
          /\ Go(r, step) /\ UNCHANGED <<clock, receipt, pending, delivered, notices>>
          /\ task' = task \/ (Exists /\ task' = new)
    BY <1>3 DEF WriteSave, Write, new
  <2>3. At(r, "save")
    BY <1>3 DEF WriteSave
  <2> QED
    BY <1>1, <2>1, <2>2, <2>3, WriteRowKeeps DEF At
<1>4. CASE WriteProgress(r)
  <2> DEFINE new == [task EXCEPT !.progress = request[r].progress, !.version = request[r].stamp]
  <2>1. Exists => /\ new \in TaskType /\ new.version = request[r].stamp
                  /\ new.change = task.change
    BY <1>1 DEF TaskType, TaskRequest
  <2> HIDE DEF new
  <2>2. PICK step \in {"shown", "recheck", "missing"} :
          /\ Go(r, step) /\ UNCHANGED <<clock, receipt, pending, delivered, notices>>
          /\ task' = task \/ (Exists /\ task' = new)
    BY <1>4 DEF WriteProgress, Write, new
  <2>3. At(r, "advance")
    BY <1>4 DEF WriteProgress
  <2> QED
    BY <1>1, <2>1, <2>2, <2>3, WriteRowKeeps DEF At
<1>5. CASE ReplaceTags(r)
  <2> DEFINE version == Later(task.version + 1, request[r].stamp)
             new == [task EXCEPT !.tags = request[r].tags, !.version = version]
  <2>1. Exists => version \in Versions /\ version <= Height + 1
    <3>1. /\ Height \in Nat /\ Height + 1 <= MaxClock + Cardinality(Requests)
          /\ MaxClock \in Nat /\ Cardinality(Requests) \in Nat
      BY <1>1, HeightIsNumber, RoomAbove, TasksAssumption
    <3>2. Exists => task.version \in Nat /\ task.version <= Height
      BY <1>1, <3>1 DEF BoardSays, TaskType, Versions
    <3> QED
      BY <1>1, <3>1, <3>2 DEF Later, Versions
  <2> HIDE DEF version
  <2>2. Exists => /\ new \in TaskType /\ new.version = version
                  /\ new.change = task.change
    BY <1>1, <2>1 DEF TaskType, TaskRequest
  <2>3. PICK step \in {"ok", "retag"} :
          /\ Go(r, step) /\ UNCHANGED <<clock, receipt, pending, delivered, notices>>
          /\ task' = task \/ (Exists /\ task' = new)
    BY <1>5 DEF ReplaceTags, version
  <2> HIDE DEF new
  <2>4. At(r, "replace")
    BY <1>5 DEF ReplaceTags
  <2> QED
    BY <1>1, <2>1, <2>2, <2>3, <2>4, WriteRowKeeps DEF At
<1> QED
  BY <1>2, <1>3, <1>4, <1>5

\* A task is deleted with the changes that hang from it.
LEMMA RemoveKeeps ==
  ASSUME TasksInv, NEW r \in Requests, RemoveTask(r)
  PROVE  TasksInv'
<1>1. /\ request[r] \in TaskRequest /\ request \in [Requests -> TaskRequest]
      /\ Bears(request[r]) /\ BoardSays /\ TasksTypeOK
      /\ At(r, "remove") /\ r \notin Written /\ ~request[r].won
  BY DEF TasksInv, TasksTypeOK, RemoveTask, At, Written, Unwritten, Bears, Draining
<1>2. ASSUME NEW step \in {"ok", "conflict", "missing"}, Moves(r, step)
      PROVE  TasksInv'
  BY <1>1, <1>2, MovesKeep, Settles DEF TaskAnswers, Draining, Unwritten
<1>3. CASE /\ task' = None /\ receipt' = TRUE /\ pending' = {} /\ delivered' = {}
           /\ Go(r, "ok") /\ UNCHANGED <<clock, notices>>
  <2>1. PICK c : c = [request[r] EXCEPT !.at = "ok"]
    OBVIOUS
  <2>2. /\ c \in TaskRequest /\ c.at = "ok" /\ ~c.won /\ c.stamp = request[r].stamp /\ Do(r, c)
    BY <1>1, <1>3, <2>1 DEF TaskRequest, TaskAnswers, Go, Do
  <2>3. /\ request' \in [Requests -> TaskRequest]
        /\ Height <= Height' /\ Height \in Nat /\ Height' \in Nat
    BY <2>2, RequestSteps DEF Unwritten
  <2>4. TasksTypeOK'
    BY <1>1, <1>3, <2>3 DEF TasksTypeOK
  <2>5. Forward /\ BoardSays'
    BY <1>3 DEF Forward, BoardSays, Exists
  <2>6. Bears(c)'
    <3>1. request[r].stamp \in Nat
      BY <1>1, HeightIsNumber, TasksAssumption DEF TaskRequest, Versions
    <3>2. c.stamp <= Height' + 1
      BY <1>1, <2>2, <2>3, <3>1 DEF Bears
    <3> QED
      BY <1>3, <2>2, <3>2 DEF Bears, Draining
  <2> QED
    BY <2>2, <2>4, <2>5, <2>6, TaskStepKeeps DEF Unwritten
<1>4. CASE \E step \in {"ok", "conflict", "missing"} : Moves(r, step)
  BY <1>2, <1>4
<1> QED
  BY <1>3, <1>4 DEF RemoveTask, Moves, board

\* A change of status is made once, and is pending or was notified.
LEMMA StatusKeeps ==
  ASSUME TasksInv, NEW r \in Requests, WriteTaskStatus(r)
  PROVE  TasksInv'
<1>1. /\ request[r] \in TaskRequest /\ request \in [Requests -> TaskRequest]
      /\ Bears(request[r]) /\ BoardSays /\ TasksTypeOK /\ request[r].op = "set_status"
      /\ At(r, "set") /\ r \notin Written /\ ~request[r].won
  BY DEF TasksInv, TasksTypeOK, WriteTaskStatus, At, Written, Unwritten, Bears, Draining
<1>2. CASE Moves(r, "current")
  BY <1>1, <1>2, MovesKeep, Settles DEF TaskSteps, Draining, Unwritten
<1> DEFINE key == [from |-> task.status, to |-> request[r].to, change |-> task.change + 1]
           new == [task EXCEPT !.status = request[r].to, !.progress = request[r].progress,
                               !.version = request[r].stamp, !.change = @ + 1]
<1>3. CASE /\ Exists /\ task' = new
           /\ pending' = pending \cup ({key} \ delivered)
           /\ Do(r, [request[r] EXCEPT !.at = "current", !.won = TRUE, !.key = key])
           /\ UNCHANGED <<clock, receipt, delivered, notices>>
  <2>1. PICK k : k = key
    OBVIOUS
  <2>2. PICK c : c = [request[r] EXCEPT !.at = "current", !.won = TRUE, !.key = k]
    OBVIOUS
  <2>3. /\ task \in TaskType /\ task.change \in Nat /\ task.change <= Cardinality(Written)
        /\ Cardinality(Requests) \in Nat /\ Cardinality(Written) \in Nat
        /\ Cardinality(Written) + 1 <= Cardinality(Requests)
        /\ task.change + 1 \in 1..Cardinality(Requests)
        /\ task.change + 1 \in 0..Cardinality(Requests)
    <3>1. task \in TaskType /\ task.change <= Cardinality(Written)
      BY <1>1, <1>3 DEF BoardSays, TasksTypeOK, Exists
    <3>2. /\ Cardinality(Requests) \in Nat /\ Cardinality(Written) \in Nat
          /\ Cardinality(Written) + 1 <= Cardinality(Requests)
      BY <1>1, HeightIsNumber, RoomAbove
    <3>3. task.change \in Nat
      BY <3>1, <3>2 DEF TaskType
    <3> QED
      BY <3>1, <3>2, <3>3
  <2>4. k \in Changes
    BY <1>1, <2>1, <2>3 DEF Changes, TaskType, TaskRequest
  <2>5. /\ new \in TaskType /\ new.version = request[r].stamp /\ new.change = task.change + 1
        /\ request[r].stamp \in Nat
    <3>1. request[r].stamp \in Versions /\ request[r].stamp \in Nat
      BY <1>1, <2>3, TasksAssumption DEF TaskRequest, Versions
    <3>2. request[r].to \in TaskStatuses /\ request[r].progress \in Progress
      BY <1>1 DEF TaskRequest
    <3> QED
      BY <2>3, <3>1, <3>2 DEF TaskType
  <2> HIDE DEF new
  <2>6. /\ c \in TaskRequest /\ c.at = "current" /\ c.won /\ c.key = k /\ c.op = "set_status"
        /\ c.stamp = request[r].stamp /\ c.due = request[r].due
    BY <1>1, <2>2, <2>4 DEF TaskRequest, TaskSteps
  <2>7. Do(r, c) /\ pending' = pending \cup ({k} \ delivered)
    BY <1>3, <2>1, <2>2
  <2> HIDE DEF key
  <2>8. /\ request' \in [Requests -> TaskRequest]
        /\ Height' = Height + 1 /\ Height \in Nat
        /\ Cardinality(Written') = Cardinality(Written) + 1
    BY <1>1, <2>6, <2>7, RequestSteps DEF Unwritten
  <2>9. TasksTypeOK'
    BY <1>1, <1>3, <2>4, <2>5, <2>7, <2>8 DEF TasksTypeOK
  <2>10. Exists'
    BY <1>3, <2>5, TasksAssumption DEF Exists
  <2>11. Forward
    BY <1>3, <2>7, <2>10 DEF Forward
  <2>12. BoardSays'
    <3>1. new.version <= Height' /\ new.change <= Cardinality(Written')
      BY <1>1, <2>3, <2>5, <2>8 DEF Bears
    <3> QED
      BY <1>1, <1>3, <2>10, <3>1 DEF BoardSays
  <2>13. Bears(c)'
    <3>1. c.stamp <= Height' + 1
      BY <1>1, <2>5, <2>6, <2>8 DEF Bears
    <3>2. ~receipt' => k \in pending' \cup notices'
      BY <1>1, <1>3, <2>7 DEF BoardSays
    <3> QED
      BY <2>6, <2>10, <3>1, <3>2 DEF Bears, Draining
  <2> QED
    BY <2>6, <2>7, <2>9, <2>11, <2>12, <2>13, TaskStepKeeps DEF Unwritten
<1> QED
  BY <1>2, <1>3 DEF WriteTaskStatus, StatusExpected, Moves, board

LEMMA TickTasksKeeps ==
  ASSUME TasksInv, TickTasks
  PROVE  TasksInv'
<1>1. /\ UNCHANGED <<task, receipt, pending, delivered, notices, request>>
      /\ clock \in Nat /\ MaxClock \in Nat /\ clock' = clock + 1 /\ clock < MaxClock
  BY HeightIsNumber, TasksAssumption DEF TickTasks, TasksInv
<1>2. clock' \in 0..MaxClock
  BY <1>1
<1> QED
  BY <1>1, <1>2 DEF TasksInv, TasksTypeOK, BoardSays, Bears, Exists, Height, Written

THEOREM TasksInvariance == TasksSpec => []TasksInv
<1>1. TasksInit => TasksInv
  <2> SUFFICES ASSUME TasksInit PROVE TasksInv
    OBVIOUS
  <2>1. /\ NoTags \in TagLists /\ IsFiniteSet(Requests)
        /\ MaxClock \in Nat /\ Cardinality(Requests) \in Nat
    BY TasksAssumption, FS_CardinalityType
  <2>2. NoIntent \in TaskRequest
    BY <2>1 DEF NoIntent, TaskRequest, TaskSteps, TaskStatuses, Progress, Versions
  <2>3. NewTask(None, 0) \in TaskType
    BY <2>1 DEF NewTask, TaskType, TaskStatuses, Progress, Versions
  <2>4. TasksTypeOK
    <3>1. clock \in 0..MaxClock
      BY <2>1 DEF TasksInit
    <3>2. task \in TaskType \cup {None}
      BY <2>3 DEF TasksInit
    <3>3. request \in [Requests -> TaskRequest]
      BY <2>2 DEF TasksInit
    <3> QED
      BY <3>1, <3>2, <3>3 DEF TasksInit, TasksTypeOK
  <2>5. Height \in Nat /\ Cardinality(Written) \in Nat
    BY <2>4, HeightIsNumber
  <2>6. BoardSays
    BY <2>5 DEF TasksInit, BoardSays, Exists, NewTask
  <2>7. ASSUME NEW r \in Requests PROVE Bears(request[r])
    BY <2>5 DEF TasksInit, Bears, NoIntent, Draining
  <2> QED
    BY <2>4, <2>6, <2>7 DEF TasksInv
<1>2. TasksInv /\ [TasksNext]_tasksVars => TasksInv'
  <2> SUFFICES ASSUME TasksInv, [TasksNext]_tasksVars PROVE TasksInv'
    OBVIOUS
  <2>1. CASE UNCHANGED tasksVars
    BY <2>1 DEF tasksVars, board, TasksInv, TasksTypeOK, BoardSays, Bears, Exists, Height, Written
  <2>2. CASE TasksNext
    BY <2>2, NewTaskRequests, TaskReadersKeep, StatusReadersKeep, NotifyKeeps, TaskWritersKeep,
       RemoveKeeps, StatusKeeps, TickTasksKeeps DEF TasksNext
  <2> QED
    BY <2>1, <2>2
<1> QED
  BY <1>1, <1>2, PTL DEF TasksSpec

\* A change of status that was answered is notified, whichever requests were
\* delivering the changes of the task, unless it was deleted or others filled
\* what one request delivers: drainStatusNotifications of the service.
THEOREM ChangesCorrect == TasksSpec => []ChangesAreNotified
<1>1. TasksInv => ChangesAreNotified
  BY DEF TasksInv, Bears, ChangesAreNotified, At
<1> QED
  BY <1>1, TasksInvariance, PTL

-----------------------------------------------------------------------------
(* Tasks: a save from an older page is refused, as long as versions only grow. *)

\* A write of the task leaves it a greater version.
Grows == Exists /\ Exists' /\ task' # task => task'.version > task.version

\* The two writes that may not: a change of status stores the clock, and one of the
\* progress that names no version what it made of an older one.
Rewinds ==
  \E r \in Requests : WriteTaskStatus(r) \/ (WriteProgress(r) /\ request[r].named = None)

\* A request that carries c writes a greater version than it names.
Ahead(c) ==
  /\ c.op = "save" => c.named # None
  /\ c.at = "save" => c.op = "save" /\ c.stamp > c.named
  /\ c.at = "advance" /\ c.named # None => c.stamp > c.named

AllAhead == \A r \in Requests : Ahead(request[r])

\* The version a save names had the details its page showed.
Shown(c) ==
  c.op = "save" /\ ~receipt =>
    /\ Exists /\ c.named <= task.version
    /\ c.named = task.version => c.base = task.text

\* What c shows was on the page of a request, or is there.
FromPage(c) ==
  c.op = "save" =>
    \/ \E q \in Requests : /\ request[q].op = "save"
                           /\ c.named = request[q].named /\ c.base = request[q].base
    \/ Exists /\ c.named = task.version /\ c.base = task.text

\* The only request that moves is r.
Edited(r) ==
  /\ \A q \in Requests \ {r} : request'[q] = request[q]
  /\ Ahead(request'[r]) /\ FromPage(request'[r])
  /\ At(r, "save") /\ request'[r].at = "shown" => Exists /\ IsNamed(r)

BoardGoes ==
  /\ receipt => receipt'
  /\ ~receipt' /\ Exists => Exists'
  /\ Grows \/ Rewinds

LEMMA CarriesOn ==
  ASSUME TasksTypeOK, AllAhead, NEW r \in Requests, NEW c, Do(r, c),
         c.op = request[r].op, c.named = request[r].named, c.base = request[r].base,
         c.at \notin {"save", "advance"},
         At(r, "save") /\ c.at = "shown" => Exists /\ IsNamed(r)
  PROVE  Edited(r)
<1>1. /\ request'[r] = c /\ \A q \in Requests \ {r} : request'[q] = request[q]
  BY DEF Do, TasksTypeOK
<1>2. Ahead(c)
  BY DEF AllAhead, Ahead
<1> QED
  BY <1>1, <1>2 DEF Edited, FromPage

LEMMA GoesOn ==
  ASSUME TasksTypeOK, AllAhead, NEW r \in Requests, NEW step, Go(r, step),
         step \notin {"save", "advance"},
         At(r, "save") /\ step = "shown" => Exists /\ IsNamed(r)
  PROVE  Edited(r)
<1>1. PICK c : c = [request[r] EXCEPT !.at = step]
  OBVIOUS
<1>2. request[r] \in TaskRequest
  BY DEF TasksTypeOK
<1>3. c.at = step /\ c.op = request[r].op /\ c.named = request[r].named /\ c.base = request[r].base
  BY <1>1, <1>2 DEF TaskRequest
<1>4. Do(r, c)
  BY <1>1 DEF Go, Do
<1> QED
  BY <1>3, <1>4, CarriesOn

LEMMA BoardStays ==
  ASSUME UNCHANGED board
  PROVE  BoardGoes
  BY DEF board, BoardGoes, Grows, Exists

\* A request that begins.
LEMMA BeginsEdit ==
  ASSUME TasksTypeOK, AllAhead, NEW r \in Requests, NEW c, Reads(r, c), At(r, "new"),
         c.at \in {"find", "remove"}, c.op = "save" => c.named # None, FromPage(c)
  PROVE  Edited(r) /\ BoardGoes
<1>1. /\ request'[r] = c /\ \A q \in Requests \ {r} : request'[q] = request[q]
  BY DEF Reads, Do, TasksTypeOK
<1>2. UNCHANGED board
  BY DEF Reads
<1> QED
  BY <1>1, <1>2, BoardStays DEF Edited, Ahead, At

LEMMA NewEdits ==
  ASSUME TasksTypeOK, AllAhead, NEW r \in Requests,
         \/ CreateTask(r) \/ DeleteTask(r) \/ SaveTask(r)
         \/ (\E q \in Requests : SaveAgain(r, q))
         \/ \E p \in Progress, v \in Naming : SetProgress(r, p, v)
         \/ \E tags \in TagLists, v \in Naming : SetTags(r, tags, v)
         \/ \E to \in TaskTargets : SetTaskStatus(r, to)
  PROVE  Edited(r) /\ BoardGoes
<1>1. CASE CreateTask(r)
  BY <1>1, BeginsEdit DEF CreateTask, NoIntent, FromPage
<1>2. CASE DeleteTask(r)
  BY <1>2, BeginsEdit DEF DeleteTask, NoIntent, FromPage
<1>3. CASE SaveTask(r)
  <2>1. PICK c : /\ c = [NoIntent EXCEPT !.op = "save", !.at = "find", !.named = task.version,
                                         !.base = task.text, !.text = r]
                 /\ Reads(r, c)
    BY <1>3 DEF SaveTask
  <2>2. c.op = "save" /\ c.at = "find" /\ c.named = task.version /\ c.base = task.text
    BY <2>1 DEF NoIntent
  <2>3. Exists /\ task.version # None /\ At(r, "new")
    <3>1. Exists /\ At(r, "new")
      BY <1>3 DEF SaveTask
    <3>2. task.version \in Versions
      BY <3>1 DEF Exists, TasksTypeOK, TaskType
    <3> QED
      BY <3>1, <3>2, TasksAssumption
  <2> QED
    BY <2>1, <2>2, <2>3, BeginsEdit DEF FromPage
<1>4. ASSUME NEW q \in Requests, SaveAgain(r, q)
      PROVE  Edited(r) /\ BoardGoes
  <2>1. PICK c : c = [request[q] EXCEPT !.at = "find"] /\ Reads(r, c)
    BY <1>4 DEF SaveAgain
  <2>2. request[q] \in TaskRequest
    BY DEF TasksTypeOK
  <2>3. /\ c.op = "save" /\ c.at = "find" /\ c.named = request[q].named
        /\ c.base = request[q].base /\ request[q].op = "save"
    BY <1>4, <2>1, <2>2 DEF SaveAgain, TaskRequest
  <2>4. c.named # None
    BY <2>3 DEF AllAhead, Ahead
  <2> QED
    BY <1>4, <2>1, <2>3, <2>4, BeginsEdit DEF FromPage, SaveAgain
<1>5. ASSUME NEW p \in Progress, NEW v \in Naming, SetProgress(r, p, v)
      PROVE  Edited(r) /\ BoardGoes
  BY <1>5, BeginsEdit DEF SetProgress, NoIntent, FromPage
<1>6. ASSUME NEW tags \in TagLists, NEW v \in Naming, SetTags(r, tags, v)
      PROVE  Edited(r) /\ BoardGoes
  BY <1>6, BeginsEdit DEF SetTags, NoIntent, FromPage
<1>7. ASSUME NEW to \in TaskTargets, SetTaskStatus(r, to)
      PROVE  Edited(r) /\ BoardGoes
  <2>1. PICK c : /\ c = [NoIntent EXCEPT !.op = "set_status", !.at = "find",
                                         !.from = task.status, !.to = to]
                 /\ Reads(r, c)
    BY <1>7 DEF SetTaskStatus
  <2>2. c.op = "set_status" /\ c.at = "find"
    BY <2>1 DEF NoIntent
  <2> QED
    BY <1>7, <2>1, <2>2, BeginsEdit DEF SetTaskStatus, FromPage
<1> QED
  BY <1>1, <1>2, <1>3, <1>4, <1>5, <1>6, <1>7

\* A request that reads.
LEMMA ReadingEdits ==
  ASSUME TasksTypeOK, AllAhead, NEW r \in Requests,
         \/ NotFound(r) \/ FindCreated(r) \/ CountTasks(r) \/ ReadCreated(r)
         \/ ReadWritten(r) \/ Recheck(r) \/ ReadTags(r) \/ ReadStatus(r)
         \/ ReadForTags(r) \/ CompareTags(r) \/ ReadForStatus(r) \/ ListPending(r) \/ Permit(r)
  PROVE  Edited(r) /\ BoardGoes
<1>1. request[r] \in TaskRequest
  BY DEF TasksTypeOK
<1>2. UNCHANGED board /\ ~At(r, "save")
  BY DEF NotFound, FindCreated, CountTasks, ReadCreated, ReadWritten, Recheck, ReadTags, ReadStatus,
         ReadForTags, CompareTags, ReadForStatus, ListPending, Permit, Moves, Reads, Found, At
<1>3. \/ \E step : Go(r, step) /\ step \notin {"save", "advance"}
      \/ \E c : /\ Do(r, c) /\ c.op = request[r].op /\ c.named = request[r].named
                /\ c.base = request[r].base /\ c.at \notin {"save", "advance"}
  <2>1. CASE \/ NotFound(r) \/ FindCreated(r) \/ ReadCreated(r) \/ ReadWritten(r)
             \/ Recheck(r) \/ ReadTags(r) \/ ReadStatus(r)
    BY <2>1 DEF NotFound, FindCreated, ReadCreated, ReadWritten, Recheck, ReadTags, ReadStatus, Moves
  <2>2. ASSUME NEW c, c.op = request[r].op, c.named = request[r].named, c.base = request[r].base,
               c.at \notin {"save", "advance"}, Do(r, c)
        PROVE  \E d : /\ Do(r, d) /\ d.op = request[r].op /\ d.named = request[r].named
                      /\ d.base = request[r].base /\ d.at \notin {"save", "advance"}
    BY <2>2
  <2>3. CASE CountTasks(r)
    <3>1. PICK c : c = [request[r] EXCEPT !.at = "insert", !.stamp = clock]
      OBVIOUS
    <3>2. /\ c.op = request[r].op /\ c.named = request[r].named /\ c.base = request[r].base
          /\ c.at = "insert"
      BY <1>1, <3>1 DEF TaskRequest
    <3>3. Go(r, "limited") \/ Do(r, c)
      BY <2>3, <3>1 DEF CountTasks, Moves, Reads
    <3> QED
      BY <2>2, <3>2, <3>3
  <2>4. CASE ReadForTags(r)
    <3>1. PICK c : c = [request[r] EXCEPT !.at = "compare", !.read = task.version]
      OBVIOUS
    <3>2. /\ c.op = request[r].op /\ c.named = request[r].named /\ c.base = request[r].base
          /\ c.at = "compare"
      BY <1>1, <3>1 DEF TaskRequest
    <3> QED
      BY <2>2, <2>4, <3>1, <3>2 DEF ReadForTags, Reads
  <2>5. CASE CompareTags(r)
    <3>1. PICK c : c = [request[r] EXCEPT !.at = "replace", !.stamp = NextVersion(request[r].read)]
      OBVIOUS
    <3>2. /\ c.op = request[r].op /\ c.named = request[r].named /\ c.base = request[r].base
          /\ c.at = "replace"
      BY <1>1, <3>1 DEF TaskRequest
    <3>3. Go(r, "ok") \/ Go(r, "conflict") \/ Do(r, c)
      BY <2>5, <3>1 DEF CompareTags, Moves, Reads
    <3> QED
      BY <2>2, <3>2, <3>3
  <2>6. CASE ReadForStatus(r)
    <3>1. PICK c : c = [request[r] EXCEPT !.at = "set", !.stamp = clock,
                          !.progress = IF request[r].to = "done" THEN 100 ELSE task.progress]
      OBVIOUS
    <3>2. /\ c.op = request[r].op /\ c.named = request[r].named /\ c.base = request[r].base
          /\ c.at = "set"
      BY <1>1, <3>1 DEF TaskRequest
    <3>3. Go(r, "list") \/ Go(r, "conflict") \/ Go(r, "invalid") \/ Do(r, c)
      BY <2>6, <3>1 DEF ReadForStatus, Moves, Reads
    <3> QED
      BY <2>2, <3>2, <3>3
  <2>7. CASE ListPending(r)
    <3>1. PICK due \in SUBSET pending :
            Do(r, [request[r] EXCEPT !.at = IF due = {} THEN "ok" ELSE "drain", !.due = due,
                                     !.full = Cardinality(due) >= DrainLimit])
      BY <2>7 DEF ListPending, Reads
    <3>2. PICK c : c = [request[r] EXCEPT !.at = IF due = {} THEN "ok" ELSE "drain", !.due = due,
                                          !.full = Cardinality(due) >= DrainLimit]
      OBVIOUS
    <3>3. /\ c.op = request[r].op /\ c.named = request[r].named /\ c.base = request[r].base
          /\ c.at \in {"ok", "drain"}
      BY <1>1, <3>2 DEF TaskRequest
    <3> QED
      BY <2>2, <3>1, <3>2, <3>3
  <2>8. CASE Permit(r)
    <3>1. PICK k \in request[r].due :
            Do(r, [request[r] EXCEPT !.at = IF Exists THEN "notify" ELSE "mark", !.intent = k])
      BY <2>8 DEF Permit, Reads
    <3>2. PICK c : c = [request[r] EXCEPT !.at = IF Exists THEN "notify" ELSE "mark", !.intent = k]
      OBVIOUS
    <3>3. /\ c.op = request[r].op /\ c.named = request[r].named /\ c.base = request[r].base
          /\ c.at \in {"notify", "mark"}
      BY <1>1, <3>2 DEF TaskRequest
    <3> QED
      BY <2>2, <3>1, <3>2, <3>3
  <2> QED
    BY <2>1, <2>3, <2>4, <2>5, <2>6, <2>7, <2>8
<1> QED
  BY <1>2, <1>3, BoardStays, GoesOn, CarriesOn

\* The reads that decide on a version to write.
LEMMA StampedEdits ==
  ASSUME TasksTypeOK, AllAhead, NEW r \in Requests,
         ReadForSave(r) \/ ReadForProgress(r)
  PROVE  Edited(r) /\ BoardGoes
<1>1. /\ request[r] \in TaskRequest /\ Ahead(request[r]) /\ ~At(r, "save")
      /\ UNCHANGED board
  BY DEF TasksTypeOK, AllAhead, ReadForSave, ReadForProgress, Found, At, Moves, Reads
<1>2. Exists /\ task.version \in Nat /\ clock \in Nat
  BY TasksAssumption DEF ReadForSave, ReadForProgress, Exists, TasksTypeOK, TaskType, Versions
<1>3. NextVersion(task.version) > task.version
  BY <1>2 DEF NextVersion, Later
<1>4. CASE \E step : Go(r, step) /\ step \notin {"save", "advance"}
  BY <1>1, <1>4, BoardStays, GoesOn
<1>5. ASSUME NEW c, Do(r, c), c.op = request[r].op, c.named = request[r].named,
             c.base = request[r].base, c.at \in {"save", "advance"},
             c.at = "save" => c.op = "save",
             c.stamp = NextVersion(task.version), IsNamed(r)
      PROVE  Edited(r) /\ BoardGoes
  <2>1. request'[r] = c /\ \A q \in Requests \ {r} : request'[q] = request[q]
    BY <1>5 DEF Do, TasksTypeOK
  <2>2. Ahead(c)
    BY <1>1, <1>3, <1>5 DEF Ahead, IsNamed
  <2> QED
    BY <1>1, <1>5, <2>1, <2>2, BoardStays DEF Edited, FromPage
<1>6. CASE ReadForSave(r)
  <2>1. ASSUME task.version = request[r].named,
               Do(r, [request[r] EXCEPT !.at = "save", !.stamp = NextVersion(task.version)])
        PROVE  Edited(r) /\ BoardGoes
    <3>1. PICK c : /\ c = [request[r] EXCEPT !.at = "save", !.stamp = NextVersion(task.version)]
                   /\ Do(r, c)
      BY <2>1
    <3>2. /\ c.op = request[r].op /\ c.named = request[r].named /\ c.base = request[r].base
          /\ c.at = "save" /\ c.stamp = NextVersion(task.version) /\ c.op = "save"
      BY <1>1, <1>6, <3>1 DEF TaskRequest, ReadForSave, Found
    <3> QED
      BY <1>5, <2>1, <3>1, <3>2 DEF IsNamed
  <2> QED
    BY <1>4, <1>6, <2>1 DEF ReadForSave, Moves, Reads
<1>7. CASE ReadForProgress(r)
  <2>1. ASSUME IsNamed(r),
               Do(r, [request[r] EXCEPT !.at = "advance", !.stamp = NextVersion(task.version)])
        PROVE  Edited(r) /\ BoardGoes
    <3>1. PICK c : /\ c = [request[r] EXCEPT !.at = "advance", !.stamp = NextVersion(task.version)]
                   /\ Do(r, c)
      BY <2>1
    <3>2. /\ c.op = request[r].op /\ c.named = request[r].named /\ c.base = request[r].base
          /\ c.at = "advance" /\ c.stamp = NextVersion(task.version)
      BY <1>1, <3>1 DEF TaskRequest
    <3> QED
      BY <1>5, <2>1, <3>1, <3>2
  <2> QED
    BY <1>4, <1>7, <2>1 DEF ReadForProgress, Moves, Reads
<1> QED
  BY <1>6, <1>7

\* A request that writes.
LEMMA WritingEdits ==
  ASSUME TasksInv, AllAhead, NEW r \in Requests,
         \/ InsertTask(r) \/ RemoveTask(r) \/ WriteSave(r) \/ WriteProgress(r) \/ ReplaceTags(r)
         \/ WriteTaskStatus(r) \/ Notify(r) \/ Mark(r)
  PROVE  Edited(r) /\ BoardGoes
<1>1. /\ request[r] \in TaskRequest /\ Ahead(request[r])
      /\ Exists => /\ task \in TaskType /\ task.version \in Nat
      /\ request[r].stamp \in Nat
      /\ \A t \in TaskType : t # None
      /\ TasksTypeOK
  BY TasksAssumption DEF TasksInv, TasksTypeOK, AllAhead, Exists, TaskType, TaskRequest, Versions
<1>2. CASE InsertTask(r)
  <2>1. Edited(r)
    BY <1>1, <1>2, GoesOn DEF InsertTask, At
  <2>2. BoardGoes
    BY <1>2, TasksAssumption DEF InsertTask, BoardGoes, Grows, Exists
  <2> QED
    BY <2>1, <2>2
<1>3. CASE RemoveTask(r)
  <2>1. Edited(r)
    BY <1>1, <1>3, GoesOn DEF RemoveTask, At
  <2>2. BoardGoes
    BY <1>3 DEF RemoveTask, BoardGoes, Grows, Exists
  <2> QED
    BY <2>1, <2>2
<1>4. CASE WriteSave(r)
  <2>1. Edited(r)
    BY <1>1, <1>4, GoesOn DEF WriteSave, Write, At
  <2>2. request[r].op = "save" /\ request[r].named # None /\ request[r].stamp > request[r].named
    BY <1>1, <1>4 DEF WriteSave, At, Ahead
  <2>3. \/ UNCHANGED task
        \/ /\ Exists /\ IsNamed(r)
           /\ task' = [task EXCEPT !.text = request[r].text, !.version = request[r].stamp]
    BY <1>4 DEF WriteSave, Write
  <2>4. UNCHANGED task \/ (Exists' /\ task'.version > task.version)
    <3> SUFFICES ASSUME Exists, IsNamed(r),
                        task' = [task EXCEPT !.text = request[r].text, !.version = request[r].stamp]
        PROVE  Exists' /\ task'.version > task.version
      BY <2>3
    <3>1. task' \in TaskType /\ task'.version = request[r].stamp
      BY <1>1, <2>2 DEF TaskType, TaskRequest
    <3> QED
      BY <1>1, <2>2, <3>1 DEF Exists, IsNamed
  <2>5. UNCHANGED receipt
    BY <1>4 DEF WriteSave, Write
  <2> QED
    BY <2>1, <2>4, <2>5 DEF BoardGoes, Grows, Exists
<1>5. CASE WriteProgress(r)
  <2>1. Edited(r)
    BY <1>1, <1>5, GoesOn DEF WriteProgress, Write, At
  <2>2. /\ UNCHANGED receipt
        /\ \/ UNCHANGED task
           \/ /\ Exists /\ IsNamed(r)
              /\ task' = [task EXCEPT !.progress = request[r].progress, !.version = request[r].stamp]
    BY <1>5 DEF WriteProgress, Write
  <2>3. UNCHANGED task \/ (Exists /\ IsNamed(r) /\ Exists' /\ task'.version = request[r].stamp)
    <3> SUFFICES ASSUME Exists, IsNamed(r),
                 task' = [task EXCEPT !.progress = request[r].progress, !.version = request[r].stamp]
        PROVE  Exists' /\ task'.version = request[r].stamp
      BY <2>2
    <3>1. task' \in TaskType /\ task'.version = request[r].stamp
      BY <1>1 DEF TaskType, TaskRequest
    <3> QED
      BY <1>1, <3>1 DEF Exists
  <2>4. Grows \/ Rewinds
    <3>1. CASE request[r].named = None
      BY <1>5, <3>1 DEF Rewinds
    <3>2. CASE request[r].named # None
      <4>1. request[r].stamp > request[r].named
        BY <1>1, <1>5, <3>2 DEF WriteProgress, At, Ahead
      <4> QED
        BY <1>1, <2>3, <3>2, <4>1 DEF Grows, IsNamed
    <3> QED
      BY <3>1, <3>2
  <2> QED
    BY <2>1, <2>2, <2>3, <2>4 DEF BoardGoes, Exists
<1>6. CASE ReplaceTags(r)
  <2>1. Edited(r)
    BY <1>1, <1>6, GoesOn DEF ReplaceTags, At
  <2>2. /\ UNCHANGED receipt
        /\ \/ UNCHANGED task
           \/ /\ Exists
              /\ task' = [task EXCEPT !.tags = request[r].tags,
                                      !.version = Later(@ + 1, request[r].stamp)]
    BY <1>6 DEF ReplaceTags
  <2>3. UNCHANGED task \/ (Exists' /\ task'.version > task.version)
    <3> SUFFICES ASSUME Exists,
                 task' = [task EXCEPT !.tags = request[r].tags,
                                      !.version = Later(@ + 1, request[r].stamp)]
        PROVE  Exists' /\ task'.version > task.version
      BY <2>2
    <3>1. PICK v : v = Later(task.version + 1, request[r].stamp)
      OBVIOUS
    <3>2. v > task.version
      BY <1>1, <3>1 DEF Later
    <3>3. task' = [task EXCEPT !.tags = request[r].tags, !.version = v]
      BY <3>1
    <3>4. task'.version = v
      BY <1>1, <3>3 DEF TaskType
    <3>5. task' # None
      <4>1. /\ r \notin Written /\ request[r].stamp \in Nat /\ request[r].stamp <= Height + 1
            /\ task.version <= Height
        BY <1>1, <1>6 DEF TasksInv, BoardSays, Bears, ReplaceTags, At, Written, Unwritten
      <4>2. /\ Height \in Nat /\ Height + 1 <= MaxClock + Cardinality(Requests)
            /\ MaxClock \in Nat /\ Cardinality(Requests) \in Nat
        BY <1>1, <4>1, HeightIsNumber, RoomAbove, TasksAssumption
      <4>3. v \in Versions
        <5>1. task.version \in Nat /\ (v = task.version + 1 \/ v = request[r].stamp)
          BY <1>1, <3>1 DEF Later
        <5> QED
          BY <4>1, <4>2, <5>1 DEF Versions
      <4>4. task' \in TaskType
        BY <1>1, <3>3, <4>3 DEF TaskType, TaskRequest
      <4> QED
        BY <1>1, <4>4
    <3> QED
      BY <3>2, <3>4, <3>5 DEF Exists
  <2> QED
    BY <2>1, <2>2, <2>3 DEF BoardGoes, Grows, Exists
<1>7. CASE WriteTaskStatus(r)
  <2>1. PICK key : key = [from |-> task.status, to |-> request[r].to, change |-> task.change + 1]
    OBVIOUS
  <2>2. PICK c : c = [request[r] EXCEPT !.at = "current", !.won = TRUE, !.key = key]
    OBVIOUS
  <2>3. /\ At(r, "set") /\ UNCHANGED receipt
        /\ \/ Go(r, "current") /\ UNCHANGED task
           \/ /\ Exists /\ Do(r, c)
              /\ task' = [task EXCEPT !.status = request[r].to, !.progress = request[r].progress,
                                      !.version = request[r].stamp, !.change = @ + 1]
    BY <1>7, <2>1, <2>2 DEF WriteTaskStatus, StatusExpected
  <2>4. Edited(r)
    <3>1. c.op = request[r].op /\ c.named = request[r].named /\ c.base = request[r].base
          /\ c.at = "current"
      BY <1>1, <2>2 DEF TaskRequest
    <3> QED
      BY <1>1, <2>3, <3>1, GoesOn, CarriesOn DEF At
  <2>5. Exists => Exists'
    <3> SUFFICES ASSUME Exists, task' = [task EXCEPT !.status = request[r].to,
                                            !.progress = request[r].progress,
                                            !.version = request[r].stamp, !.change = @ + 1]
        PROVE  Exists'
      BY <2>3 DEF Exists
    <3>1. task.change + 1 \in 0..Cardinality(Requests)
      <4>1. /\ r \notin Written /\ task.change \in Nat /\ task.change <= Cardinality(Written)
        BY <1>1, <2>3, HeightIsNumber
           DEF TasksInv, BoardSays, At, Written, Unwritten, TaskType
      <4>2. /\ Cardinality(Written) \in Nat /\ Cardinality(Requests) \in Nat
            /\ Cardinality(Written) + 1 <= Cardinality(Requests)
        BY <1>1, <4>1, HeightIsNumber, RoomAbove
      <4> QED
        BY <4>1, <4>2
    <3>2. PICK n : n = task.change + 1
      OBVIOUS
    <3>3. task' = [task EXCEPT !.status = request[r].to, !.progress = request[r].progress,
                               !.version = request[r].stamp, !.change = n]
      BY <3>2
    <3>4. task' \in TaskType
      BY <1>1, <3>1, <3>2, <3>3 DEF TaskType, TaskRequest
    <3> QED
      BY <1>1, <3>4 DEF Exists
  <2>6. Rewinds
    BY <1>7 DEF Rewinds
  <2> QED
    BY <2>3, <2>4, <2>5, <2>6 DEF BoardGoes
<1>8. CASE Notify(r)
  BY <1>1, <1>8, GoesOn DEF Notify, At, BoardGoes, Grows, Exists
<1>9. CASE Mark(r)
  <2>1. PICK due : due = request[r].due \ {request[r].intent}
    OBVIOUS
  <2>2. PICK c : c = [request[r] EXCEPT !.at = IF due = {} THEN "ok" ELSE "drain",
                                        !.due = due, !.intent = None]
    OBVIOUS
  <2>3. c.op = request[r].op /\ c.named = request[r].named /\ c.base = request[r].base
        /\ c.at \in {"ok", "drain"}
    BY <1>1, <2>2 DEF TaskRequest
  <2>4. At(r, "mark") /\ Do(r, c)
    BY <1>9, <2>1, <2>2 DEF Mark
  <2>5. Edited(r)
    BY <1>1, <2>3, <2>4, CarriesOn DEF At
  <2> QED
    BY <1>9, <2>5 DEF Mark, BoardGoes, Grows, Exists
<1> QED
  BY <1>2, <1>3, <1>4, <1>5, <1>6, <1>7, <1>8, <1>9

LEMMA TickEdits ==
  ASSUME TasksTypeOK, TickTasks
  PROVE  BoardGoes /\ UNCHANGED <<task, receipt, request>>
  BY DEF TickTasks, BoardGoes, Grows, Exists

\* A step is one of one request, or of the clock.
LEMMA EditsGo ==
  ASSUME TasksInv, AllAhead, [TasksNext]_tasksVars
  PROVE  /\ BoardGoes
         /\ UNCHANGED <<task, receipt, request>> \/ \E r \in Requests : Edited(r)
<1>1. TasksTypeOK
  BY DEF TasksInv
<1>2. CASE UNCHANGED tasksVars
  BY <1>2, BoardStays DEF tasksVars, board
<1>3. CASE TickTasks
  BY <1>1, <1>3, TickEdits
<1>4. ASSUME NEW r \in Requests,
             \/ CreateTask(r) \/ DeleteTask(r) \/ SaveTask(r)
             \/ (\E q \in Requests : SaveAgain(r, q))
             \/ \E p \in Progress, v \in Naming : SetProgress(r, p, v)
             \/ \E tags \in TagLists, v \in Naming : SetTags(r, tags, v)
             \/ \E to \in TaskTargets : SetTaskStatus(r, to)
      PROVE  BoardGoes /\ \E q \in Requests : Edited(q)
  BY <1>1, <1>4, NewEdits
<1>5. ASSUME NEW r \in Requests,
             \/ NotFound(r) \/ FindCreated(r) \/ CountTasks(r) \/ ReadCreated(r)
             \/ ReadWritten(r) \/ Recheck(r) \/ ReadTags(r) \/ ReadStatus(r)
             \/ ReadForTags(r) \/ CompareTags(r) \/ ReadForStatus(r) \/ ListPending(r) \/ Permit(r)
      PROVE  BoardGoes /\ \E q \in Requests : Edited(q)
  BY <1>1, <1>5, ReadingEdits
<1>6. ASSUME NEW r \in Requests, ReadForSave(r) \/ ReadForProgress(r)
      PROVE  BoardGoes /\ \E q \in Requests : Edited(q)
  BY <1>1, <1>6, StampedEdits
<1>7. ASSUME NEW r \in Requests,
             \/ InsertTask(r) \/ RemoveTask(r) \/ WriteSave(r) \/ WriteProgress(r) \/ ReplaceTags(r)
             \/ WriteTaskStatus(r) \/ Notify(r) \/ Mark(r)
      PROVE  BoardGoes /\ \E q \in Requests : Edited(q)
  BY <1>7, WritingEdits
<1> QED
  BY <1>2, <1>3, <1>4, <1>5, <1>6, <1>7 DEF TasksNext

LEMMA StaysAhead ==
  ASSUME TasksInv, AllAhead, [TasksNext]_tasksVars
  PROVE  AllAhead'
<1>1. CASE UNCHANGED request
  BY <1>1 DEF AllAhead, Ahead
<1>2. CASE \E r \in Requests : Edited(r)
  BY <1>2 DEF AllAhead, Ahead, Edited
<1> QED
  BY <1>1, <1>2, EditsGo

\* A version the task leaves does not come back as long as versions grow.
LEMMA StaysShown ==
  ASSUME TasksTypeOK, TasksTypeOK', Grows, BoardGoes,
         NEW c, c.op = "save" => c.named \in Versions, Shown(c)
  PROVE  Shown(c)'
<1> SUFFICES ASSUME c.op = "save", ~receipt'
    PROVE  /\ Exists' /\ c.named <= task'.version
           /\ c.named = task'.version => c.base = task'.text
  BY DEF Shown
<1>1. /\ Exists /\ Exists' /\ c.named <= task.version
      /\ c.named = task.version => c.base = task.text
  BY DEF Shown, BoardGoes
<1>2. task.version \in Nat /\ task'.version \in Nat /\ c.named \in Nat
  BY <1>1, TasksAssumption DEF TasksTypeOK, Exists, TaskType, Versions
<1>3. CASE task' = task
  BY <1>1, <1>3
<1>4. CASE task' # task
  BY <1>1, <1>2, <1>4 DEF Grows
<1> QED
  BY <1>3, <1>4

AllShown == \A r \in Requests : Shown(request[r])

LEMMA AllStayShown ==
  ASSUME TasksInv, TasksInv', AllAhead, AllShown, [TasksNext]_tasksVars, Grows
  PROVE  AllShown'
<1> SUFFICES ASSUME NEW r \in Requests PROVE Shown(request[r])'
  BY DEF AllShown
<1>1. PICK c : c = request'[r]
  OBVIOUS
<1>2. AllAhead' /\ TasksTypeOK /\ TasksTypeOK' /\ BoardGoes
  BY StaysAhead, EditsGo DEF TasksInv
<1>3. c.op = "save" => c.named \in Versions
  BY <1>1, <1>2 DEF TasksTypeOK, TaskRequest, AllAhead, Ahead
<1>4. Shown(c)
  <2>1. CASE request'[r] = request[r]
    BY <1>1, <2>1 DEF AllShown
  <2>2. CASE FromPage(c)
    <3> SUFFICES ASSUME c.op = "save", ~receipt
        PROVE  /\ Exists /\ c.named <= task.version
               /\ c.named = task.version => c.base = task.text
      BY DEF Shown
    <3>1. CASE Exists /\ c.named = task.version /\ c.base = task.text
      BY <1>3, <3>1, TasksAssumption DEF Versions
    <3>2. ASSUME NEW q \in Requests, request[q].op = "save", c.named = request[q].named,
                 c.base = request[q].base
          PROVE  /\ Exists /\ c.named <= task.version
                 /\ c.named = task.version => c.base = task.text
      BY <3>2 DEF AllShown, Shown
    <3> QED
      BY <2>2, <3>1, <3>2 DEF FromPage
  <2>3. request'[r] = request[r] \/ FromPage(c)
    BY <1>1, EditsGo DEF Edited
  <2> QED
    BY <2>1, <2>2, <2>3
<1>5. Shown(c)'
  BY <1>2, <1>3, <1>4, StaysShown
<1> QED
  BY <1>1, <1>5 DEF Shown

\* A save that is written replaces the details its client was shown, in every
\* behaviour in which no write leaves the task an older version: update of the
\* repository compares the version and nothing else.
THEOREM EditsSurviveGrowth == TasksSpec /\ [][Grows]_tasksVars => EditsSurvive
<1> DEFINE Replaced == \A r \in Requests :
                         At(r, "save") /\ request'[r].at = "shown" /\ ~receipt
                           => task.text = request[r].base
<1>1. TasksInit => AllAhead /\ AllShown
  BY DEF TasksInit, NoIntent, AllAhead, Ahead, AllShown, Shown
<1>2. TasksInv /\ TasksInv' /\ AllAhead /\ AllShown /\ [TasksNext]_tasksVars /\ [Grows]_tasksVars
        => AllAhead' /\ AllShown'
  <2>1. UNCHANGED tasksVars => Grows
    BY DEF tasksVars, board, Grows
  <2> QED
    BY <2>1, StaysAhead, AllStayShown
<1>3. TasksInv /\ AllAhead /\ AllShown /\ [TasksNext]_tasksVars => [Replaced]_tasksVars
  <2> SUFFICES ASSUME TasksInv, AllAhead, AllShown, [TasksNext]_tasksVars, NEW r \in Requests,
                      At(r, "save"), request'[r].at = "shown", ~receipt
      PROVE  task.text = request[r].base
    BY DEF Replaced
  <2>1. Edited(r)
    BY EditsGo DEF Edited, At
  <2>2. Exists /\ IsNamed(r)
    BY <2>1 DEF Edited
  <2>3. request[r].op = "save" /\ request[r].named # None
    BY DEF AllAhead, Ahead, At
  <2> QED
    BY <2>2, <2>3 DEF AllShown, Shown, IsNamed
<1>4. TasksSpec => []TasksInv
  BY TasksInvariance
<1> HIDE DEF Replaced
<1>5. TasksSpec /\ [][Grows]_tasksVars => [][Replaced]_tasksVars
  BY <1>1, <1>2, <1>3, <1>4, PTL DEF TasksSpec
<1> QED
  BY <1>5 DEF EditsSurvive, Replaced

\* Of all the writes of the service and its repository, two can leave the task an
\* older version: compareAndSetStatus, and updateProgress of a request that names
\* none.
THEOREM OnlyTheseRewind == TasksSpec => [][Grows \/ Rewinds]_tasksVars
<1>1. TasksInit => AllAhead
  BY DEF TasksInit, NoIntent, AllAhead, Ahead
<1>2. TasksInv /\ AllAhead /\ [TasksNext]_tasksVars => AllAhead'
  BY StaysAhead
<1>3. TasksInv /\ AllAhead /\ [TasksNext]_tasksVars => [Grows \/ Rewinds]_tasksVars
  BY EditsGo DEF BoardGoes
<1> QED
  BY <1>1, <1>2, <1>3, TasksInvariance, PTL DEF TasksSpec

-----------------------------------------------------------------------------
(* Conversations: a key names one turn, and its receipt is what was said. *)

\* The turns whose message is stored.
Spoken == {messages[i] : i \in DOMAIN messages}

\* A request has the conversation from its start to its end.
Holding ==
  \A r \in Requests :
    /\ Running(r) => turn = r
    /\ request[r].at \in {"new", "claim", "lookup", "replay", "start", "taken"}
         => ~request[r].started
    /\ request[r].at \in {"generate", "check", "commit", "finish"} => request[r].started
    /\ request[r].op = "none" => At(r, "new")
    /\ ~At(r, "new") => request[r].question \in Questions
    /\ At(r, "fail") => request[r].outcome # "ok"

\* Steps a request takes with a receipt that is its own and pending.
Working == {"start", "taken", "generate", "check", "commit", "fail"}

Claims ==
  /\ \A r \in Requests : request[r].key # None =>
       /\ request[r].at \in Working =>
            Receipt(r) # None /\ Receipt(r).id = r /\ Receipt(r).status = "pending"
       /\ request[r].at \in {"lookup", "replay"} => Receipt(r) # None
       /\ At(r, "replay") => Receipt(r).status = "completed"
       /\ At(r, "ok") \/ (At(r, "finish") /\ request[r].outcome = "ok") =>
            /\ Receipt(r) # None
            /\ Receipt(r).status = "completed" /\ Receipt(r).id = request[r].answer
  /\ \A r \in Requests :
       request[r].at \in {"claim", "lookup", "replay", "fail"} => request[r].key # None
  /\ \A k \in Keys : turnReceipt[k] # None =>
       /\ request[turnReceipt[k].id].key = k
       /\ ~At(turnReceipt[k].id, "new") /\ ~At(turnReceipt[k].id, "claim")

\* A message is stored once, and with its receipt.
StoredTurns ==
  /\ \A i, j \in DOMAIN messages : messages[i] = messages[j] => i = j
  /\ \A r \in Requests :
       request[r].at \in {"new", "claim", "lookup", "replay"} \cup Working => r \notin Spoken
  /\ \A k \in Keys : turnReceipt[k] # None =>
       (turnReceipt[k].status = "completed" <=> turnReceipt[k].id \in Spoken)
  /\ \A r \in Requests : r \in Spoken /\ request[r].key # None =>
       Receipt(r) # None /\ Receipt(r).id = r

ChatInv == ChatTypeOK /\ Holding /\ Claims /\ StoredTurns

-----------------------------------------------------------------------------
LEMMA MessagesGrow ==
  ASSUME messages \in Seq(Requests), NEW r \in Requests, r \notin Spoken,
         \A i, j \in DOMAIN messages : messages[i] = messages[j] => i = j,
         messages' = Append(messages, r)
  PROVE  /\ messages' \in Seq(Requests)
         /\ Spoken' = Spoken \cup {r}
         /\ \A i, j \in DOMAIN messages' : messages'[i] = messages'[j] => i = j
<1>1. messages' \in Seq(Requests) /\ Len(messages') = Len(messages) + 1
  OBVIOUS
<1>2. DOMAIN messages = 1..Len(messages) /\ DOMAIN messages' = 1..(Len(messages) + 1)
  BY <1>1
<1>3. /\ messages'[Len(messages) + 1] = r
      /\ \A i \in 1..Len(messages) : messages'[i] = messages[i]
  OBVIOUS
<1>4. \A i \in 1..Len(messages) : messages[i] # r
  BY <1>2 DEF Spoken
<1>5. \A i \in DOMAIN messages' : i \in 1..Len(messages) \/ i = Len(messages) + 1
  BY <1>2
<1>6. Spoken' = Spoken \cup {r}
  BY <1>2, <1>3, <1>5 DEF Spoken
<1>7. \A i, j \in DOMAIN messages' : messages'[i] = messages'[j] => i = j
  BY <1>2, <1>3, <1>4, <1>5
<1> QED
  BY <1>1, <1>6, <1>7

\* The steps of a request that leave the messages and the receipts alone.
\* What it becomes decides whether the invariant is kept.
Follows(r) ==
  LET old == request[r]
      next == request'[r]
  IN  /\ next \in ChatRequest
      /\ next.op = "chat" /\ next.question \in Questions
      /\ next.at = "fail" => next.outcome # "ok"
      /\ \/ next.key = old.key
         \/ old.at = "new"
      /\ next.at # "new"
      /\ next.at \in {"claim", "lookup", "replay", "start", "taken"} => ~next.started
      /\ next.at \in {"generate", "check", "commit", "finish"} => next.started
      /\ next.at \in {"claim", "lookup", "replay", "fail"} => next.key # None
      /\ next.at = "claim" => old.at = "new"
      /\ next.at \in Working => old.at \in Working \/ (old.at = "new" /\ next.key = None)
      /\ next.at \in {"lookup", "replay"} => old.at \in {"lookup", "replay", "claim"}
      /\ next.key # None =>
           /\ next.at \in {"lookup", "replay"} => turnReceipt[next.key] # None
           /\ next.at = "replay" => turnReceipt[next.key].status = "completed"
           /\ next.at = "ok" \/ (next.at = "finish" /\ next.outcome = "ok") =>
                /\ turnReceipt[next.key] # None
                /\ turnReceipt[next.key].status = "completed"
                /\ turnReceipt[next.key].id = next.answer

Owns(r) == request'[r].started /\ request'[r].at \in ChatSteps => turn' = r

LEMMA ChatStepKeeps ==
  ASSUME ChatInv, NEW r \in Requests,
         request' = [request EXCEPT ![r] = request'[r]],
         Follows(r), Owns(r),
         \A q \in Requests : q # r /\ Running(q) => turn' = q,
         turn' \in Requests \cup {None}, cancel' \in BOOLEAN,
         UNCHANGED <<messages, turnReceipt>>
  PROVE  ChatInv'
<1>1. /\ request \in [Requests -> ChatRequest] /\ Holding /\ Claims /\ StoredTurns
      /\ turnReceipt \in [Keys -> TurnReceiptType \cup {None}]
  BY DEF ChatInv, ChatTypeOK
<1>2. \A q \in Requests : q # r => request'[q] = request[q]
  BY <1>1
<1>3. request' \in [Requests -> ChatRequest]
  BY <1>1 DEF Follows
<1>4. ChatTypeOK'
  BY <1>3 DEF ChatInv, ChatTypeOK
<1>5. Holding'
  BY <1>1, <1>2 DEF Holding, Running, Follows, Owns, At
<1>6. \A q \in Requests : q # r => Receipt(q)' = Receipt(q)
  BY <1>2 DEF Receipt
<1>7. Claims'
  <2>1. request'[r].key # None =>
          /\ request'[r].at \in Working =>
               Receipt(r)' # None /\ Receipt(r)'.id = r /\ Receipt(r)'.status = "pending"
          /\ request'[r].at \in {"lookup", "replay"} => Receipt(r)' # None
          /\ request'[r].at = "replay" => Receipt(r)'.status = "completed"
          /\ request'[r].at = "ok" \/ (request'[r].at = "finish" /\ request'[r].outcome = "ok") =>
               /\ Receipt(r)' # None
               /\ Receipt(r)'.status = "completed" /\ Receipt(r)'.id = request'[r].answer
    BY <1>1 DEF Follows, Claims, Receipt, Working
  <2>2. \A k \in Keys : turnReceipt[k] # None =>
          /\ request'[turnReceipt[k].id].key = k
          /\ request'[turnReceipt[k].id].at \notin {"new", "claim"}
    <3> SUFFICES ASSUME NEW k \in Keys, turnReceipt[k] # None
                 PROVE  /\ request'[turnReceipt[k].id].key = k
                        /\ request'[turnReceipt[k].id].at \notin {"new", "claim"}
      OBVIOUS
    <3>1. turnReceipt[k].id \in Requests
      BY <1>1 DEF TurnReceiptType
    <3> QED
      BY <1>1, <1>2, <3>1 DEF Claims, Follows, At
  <2> QED
    BY <1>1, <1>2, <1>6, <2>1, <2>2 DEF Claims, At, Follows
<1>8. StoredTurns'
  <2>1. Spoken' = Spoken
    BY DEF Spoken
  <2>2. request'[r].at \in {"lookup", "replay", "claim"} \cup Working => r \notin Spoken
    BY <1>1 DEF StoredTurns, Follows, Working
  <2>3. r \in Spoken /\ request'[r].key # None => Receipt(r)' # None /\ Receipt(r)'.id = r
    BY <1>1 DEF StoredTurns, Follows, Receipt
  <2> QED
    BY <1>1, <1>2, <1>6, <2>1, <2>2, <2>3 DEF StoredTurns, Follows
<1> QED
  BY <1>4, <1>5, <1>7, <1>8 DEF ChatInv

-----------------------------------------------------------------------------
(* The steps that leave the messages and the receipts alone. *)

LEMMA AskKeeps ==
  ASSUME ChatInv, NEW r \in Requests, NEW k \in Keys \cup {None}, NEW q \in Questions,
         Ask(r, k, q)
  PROVE  ChatInv'
<1>1. request' = [request EXCEPT ![r] = request'[r]] /\ turn' = turn /\ cancel' = cancel
      /\ UNCHANGED <<messages, turnReceipt>> /\ request \in [Requests -> ChatRequest]
      /\ turn \in Requests \cup {None} /\ cancel \in BOOLEAN /\ Holding
  BY DEF ChatInv, ChatTypeOK, Ask, Do, conversation
<1>2. request'[r] = [NoQuestion EXCEPT !.op = "chat", !.at = IF k = None THEN "start" ELSE "claim",
                              !.key = k, !.question = q]
  BY <1>1 DEF Ask, Do
<1>3. request'[r] \in ChatRequest
  BY <1>2 DEF NoQuestion, ChatRequest, ChatSteps, ChatAnswers
<1>4. Follows(r) /\ Owns(r)
  BY <1>2, <1>3 DEF Follows, Owns, NoQuestion, Ask, At, Working
<1> QED
  BY <1>1, <1>4, ChatStepKeeps DEF Holding

\* What the steps of one request need of the invariant.
LEMMA Facts ==
  ASSUME ChatInv, NEW r \in Requests
  PROVE  /\ request \in [Requests -> ChatRequest] /\ request[r] \in ChatRequest
         /\ turn \in Requests \cup {None} /\ cancel \in BOOLEAN
         /\ \A q \in Requests : Running(q) => turn = q
         /\ request[r].at \in {"new", "claim", "lookup", "replay", "start", "taken"}
              => ~request[r].started
         /\ request[r].at \in {"generate", "check", "commit", "finish"} => request[r].started
         /\ request[r].at # "new" =>
              request[r].op = "chat" /\ request[r].question \in Questions
         /\ request[r].at = "fail" => request[r].outcome # "ok"
         /\ request[r].at \in {"claim", "lookup", "replay", "fail"} => request[r].key # None
         /\ request[r].started /\ request[r].at \in ChatSteps \ {"new"} => turn = r
BY DEF ChatInv, ChatTypeOK, Holding, Claims, Running, At, ChatRequest

\* A request moves on to a step of which the invariant says little.
LEMMA GoFollows ==
  ASSUME ChatInv, NEW r \in Requests, NEW step \in ChatSteps \cup ChatAnswers,
         request' = [request EXCEPT ![r] = [request[r] EXCEPT !.at = step]],
         turn' = turn, cancel' = cancel, UNCHANGED <<messages, turnReceipt>>,
         request[r].at \in ChatSteps \ {"new"}, Follows(r)
  PROVE  ChatInv'
<1>1. request'[r] = [request[r] EXCEPT !.at = step]
  BY Facts
<1>2. Owns(r)
  BY <1>1, Facts DEF Owns, Follows, ChatRequest
<1> QED
  BY <1>1, <1>2, Facts, ChatStepKeeps

LEMMA LookupKeeps ==
  ASSUME ChatInv, NEW r \in Requests, Lookup(r)
  PROVE  ChatInv'
<1> DEFINE step == IF Receipt(r).question # request[r].question THEN "mismatch"
                   ELSE IF Receipt(r).status = "completed" THEN "replay" ELSE Receipt(r).status
<1>1. /\ request[r].at = "lookup" /\ request' = [request EXCEPT ![r] = [request[r] EXCEPT !.at = step]]
      /\ turn' = turn /\ cancel' = cancel /\ UNCHANGED <<messages, turnReceipt>>
  BY DEF Lookup, Turns, Go, Do, At, conversation
<1>2. request[r].key \in Keys /\ Receipt(r) # None /\ Receipt(r) \in TurnReceiptType
  BY <1>1, Facts DEF ChatInv, ChatTypeOK, Claims, Receipt, ChatRequest
<1>3. /\ step \in {"mismatch", "replay", "pending", "failed"}
      /\ step = "replay" => Receipt(r).status = "completed"
  BY <1>2 DEF TurnReceiptType
<1> HIDE DEF step
<1>4. request'[r] = [request[r] EXCEPT !.at = step] /\ request'[r] \in ChatRequest
  BY <1>1, <1>3, Facts DEF ChatRequest, ChatSteps, ChatAnswers
<1>5. Follows(r)
  BY <1>1, <1>2, <1>3, <1>4, Facts DEF Follows, ChatRequest, Working, Receipt
<1> QED
  BY <1>1, <1>3, <1>5, GoFollows DEF ChatSteps, ChatAnswers

LEMMA ReplayKeeps ==
  ASSUME ChatInv, NEW r \in Requests, Replay(r)
  PROVE  ChatInv'
<1>1. /\ request[r].at = "replay" /\ request' = [request EXCEPT ![r] = request'[r]]
      /\ turn' = turn /\ cancel' = cancel /\ UNCHANGED <<messages, turnReceipt>>
      /\ \/ request'[r] = [request[r] EXCEPT !.at = "ok", !.answer = Receipt(r).id]
         \/ request'[r] = [request[r] EXCEPT !.at = "error"]
  BY Facts DEF Replay, Go, Do, At, conversation
<1>2. request[r].key \in Keys /\ Receipt(r) # None /\ Receipt(r) \in TurnReceiptType
      /\ Receipt(r).status = "completed"
  BY <1>1, Facts DEF ChatInv, ChatTypeOK, Claims, Receipt, ChatRequest, At
<1>3. request'[r] \in ChatRequest
  BY <1>1, <1>2, Facts DEF ChatRequest, ChatAnswers, TurnReceiptType
<1>4. Follows(r) /\ Owns(r)
  BY <1>1, <1>2, <1>3, Facts, ZenonT(60) DEF Follows, Owns, ChatRequest, ChatSteps, Working, Receipt
<1> QED
  BY <1>1, <1>4, Facts, ChatStepKeeps

\* A request that ends without an answer.
LEMMA FailsFollows ==
  ASSUME ChatInv, NEW r \in Requests, NEW outcome \in ChatAnswers \ {"ok"},
         Fails(r, outcome), request[r].at \in Working
  PROVE  /\ request' = [request EXCEPT ![r] = request'[r]]
         /\ Follows(r)
         /\ request'[r].started = request[r].started
<1>1. /\ request' = [request EXCEPT ![r] = request'[r]]
      /\ request'[r] = [request[r] EXCEPT
           !.outcome = outcome,
           !.at = IF request[r].key # None THEN "fail"
                  ELSE IF request[r].started THEN "finish" ELSE outcome]
  BY Facts DEF Fails, Do
<1>2. request'[r] \in ChatRequest
  BY <1>1, Facts DEF ChatRequest, ChatSteps
<1>3. Follows(r)
  BY <1>1, <1>2, Facts DEF Follows, ChatRequest, ChatAnswers, Working
<1> QED
  BY <1>1, <1>3, Facts DEF ChatRequest

LEMMA StartTurnKeeps ==
  ASSUME ChatInv, NEW r \in Requests, StartTurn(r)
  PROVE  ChatInv'
<1>1. request[r].at = "start" /\ UNCHANGED <<messages, turnReceipt>>
  BY DEF StartTurn, At
<1>2. CASE ~Free
  <2>1. request' = [request EXCEPT ![r] = [request[r] EXCEPT !.at = "taken"]]
        /\ turn' = turn /\ cancel' = cancel
    BY <1>2 DEF StartTurn, Go, Do
  <2>2. request'[r] = [request[r] EXCEPT !.at = "taken"] /\ request'[r] \in ChatRequest
    BY <2>1, Facts DEF ChatRequest, ChatSteps
  <2>3. Follows(r)
    BY <1>1, <2>2, Facts DEF Follows, ChatRequest, Working
  <2> QED
    BY <1>1, <2>1, <2>3, GoFollows DEF ChatSteps
<1>3. CASE Free
  <2>1. turn' = r /\ cancel' = FALSE /\ \A q \in Requests : ~Running(q)
    BY <1>3, Facts, ChatAssumption DEF StartTurn, Free
  <2>2. CASE Do(r, [request[r] EXCEPT !.at = "generate", !.started = TRUE])
    <3>1. /\ request' = [request EXCEPT ![r] = request'[r]]
          /\ request'[r] = [request[r] EXCEPT !.at = "generate", !.started = TRUE]
      BY <2>2, Facts DEF Do
    <3>2. request'[r] \in ChatRequest
      BY <3>1, Facts DEF ChatRequest, ChatSteps
    <3>3. Follows(r) /\ Owns(r)
      BY <1>1, <2>1, <3>1, <3>2, Facts DEF Follows, Owns, ChatRequest, Working
    <3> QED
      BY <1>1, <2>1, <3>1, <3>3, ChatStepKeeps
  <2>3. CASE Fails(r, "error")
    <3>1. request' = [request EXCEPT ![r] = request'[r]] /\ Follows(r)
      BY <1>1, <2>3, FailsFollows DEF ChatAnswers, Working
    <3>2. Owns(r)
      BY <2>1 DEF Owns
    <3> QED
      BY <1>1, <2>1, <3>1, <3>2, ChatStepKeeps
  <2> QED
    BY <1>3, <2>2, <2>3 DEF StartTurn
<1> QED
  BY <1>2, <1>3

\* A step that can only end the request early, or take it further.
LEMMA FailsKeeps ==
  ASSUME ChatInv, NEW r \in Requests, NEW outcome \in ChatAnswers \ {"ok"},
         Fails(r, outcome), request[r].at \in Working, UNCHANGED conversation
  PROVE  ChatInv'
<1>1. turn' = turn /\ cancel' = cancel /\ UNCHANGED <<messages, turnReceipt>>
  BY DEF conversation
<1>2. /\ request' = [request EXCEPT ![r] = request'[r]] /\ Follows(r)
      /\ request'[r].started = request[r].started
  BY FailsFollows
<1>3. Owns(r)
  BY <1>1, <1>2, Facts DEF Owns, Working, ChatSteps
<1> QED
  BY <1>1, <1>2, <1>3, Facts, ChatStepKeeps

LEMMA GenerateKeeps ==
  ASSUME ChatInv, NEW r \in Requests, Generate(r) \/ CheckCancelled(r) \/ ReadTaken(r)
  PROVE  ChatInv'
<1> DEFINE step == IF request[r].at = "generate" THEN "check" ELSE "commit"
<1>1. request[r].at \in {"generate", "check", "taken"} /\ UNCHANGED conversation
  BY DEF Generate, CheckCancelled, ReadTaken, At
<1>2. CASE \E outcome \in {"busy", "cancelled", "error"} : Fails(r, outcome)
  BY <1>1, <1>2, FailsKeeps DEF Working, ChatAnswers
<1>3. CASE Go(r, step) /\ request[r].at \in {"generate", "check"}
  <2>1. request' = [request EXCEPT ![r] = [request[r] EXCEPT !.at = step]]
        /\ step \in {"check", "commit"}
    BY <1>3 DEF Go, Do
  <2>2. turn' = turn /\ cancel' = cancel /\ UNCHANGED <<messages, turnReceipt>>
    BY <1>1 DEF conversation
  <2> HIDE DEF step
  <2>3. request'[r] = [request[r] EXCEPT !.at = step] /\ request'[r] \in ChatRequest
    BY <2>1, Facts DEF ChatRequest, ChatSteps
  <2>4. Follows(r)
    BY <1>3, <2>1, <2>3, Facts DEF Follows, ChatRequest, Working
  <2> QED
    BY <1>3, <2>1, <2>2, <2>4, GoFollows DEF ChatSteps
<1> QED
  BY <1>1, <1>2, <1>3 DEF Generate, CheckCancelled, ReadTaken, At

LEMMA TurnFinishKeeps ==
  ASSUME ChatInv, NEW r \in Requests, FinishTurn(r)
  PROVE  ChatInv'
<1>1. /\ request[r].at = "finish" /\ UNCHANGED <<messages, turnReceipt>>
      /\ request' = [request EXCEPT ![r] = [request[r] EXCEPT !.at = request[r].outcome]]
      /\ turn' \in {turn, None} /\ (turn' = turn \/ turn = r) /\ cancel' \in BOOLEAN
  BY Facts DEF FinishTurn, Go, Do, At
<1>2. request'[r] = [request[r] EXCEPT !.at = request[r].outcome] /\ request'[r] \in ChatRequest
  BY <1>1, Facts DEF ChatRequest
<1>3. request'[r].at \in ChatAnswers
  BY <1>2, Facts DEF ChatRequest
<1>4. /\ request[r].key # None /\ request[r].outcome = "ok" =>
           /\ Receipt(r) # None
           /\ Receipt(r).status = "completed" /\ Receipt(r).id = request[r].answer
  BY <1>1 DEF ChatInv, Claims, At
<1>5. Follows(r) /\ Owns(r)
  BY <1>1, <1>2, <1>3, <1>4, Facts
     DEF Follows, Owns, ChatRequest, ChatAnswers, ChatSteps, Working, Receipt
<1> QED
  BY <1>1, <1>2, <1>5, Facts, ChatStepKeeps

LEMMA CancelKeeps ==
  ASSUME ChatInv, UNCHANGED <<turn, messages, turnReceipt, request>>, cancel' \in BOOLEAN
  PROVE  ChatInv'
<1>1. ChatTypeOK' /\ Holding'
  BY DEF ChatInv, ChatTypeOK, Holding, Running, At
<1>2. Claims'
  BY DEF ChatInv, Claims, Receipt, At
<1>3. StoredTurns'
  BY DEF ChatInv, StoredTurns, Spoken, Receipt
<1> QED
  BY <1>1, <1>2, <1>3 DEF ChatInv

-----------------------------------------------------------------------------
(* The steps that write. *)

\* The request that works under a key is the only one.
LEMMA OwnReceipt ==
  ASSUME ChatInv, NEW r \in Requests, request[r].key # None, request[r].at \in Working
  PROVE  /\ request[r].key \in Keys /\ r \notin Spoken
         /\ turnReceipt[request[r].key] \in TurnReceiptType
         /\ turnReceipt[request[r].key] # None
         /\ turnReceipt[request[r].key].id = r
         /\ turnReceipt[request[r].key].status = "pending"
         /\ \A q \in Requests : q # r /\ request[q].key = request[r].key =>
              /\ request[q].at \notin Working \cup {"replay", "ok"}
              /\ ~(request[q].at = "finish" /\ request[q].outcome = "ok")
              /\ q \notin Spoken
<1>1. request[r].key \in Keys
  BY Facts DEF ChatRequest
<1>2. /\ turnReceipt[request[r].key] # None
      /\ turnReceipt[request[r].key].id = r
      /\ turnReceipt[request[r].key].status = "pending"
      /\ r \notin Spoken
  BY DEF ChatInv, Claims, StoredTurns, Receipt
<1>3. turnReceipt[request[r].key] \in TurnReceiptType
  BY <1>1, <1>2 DEF ChatInv, ChatTypeOK
<1>4. \A q \in Requests : q # r /\ request[q].key = request[r].key =>
        /\ request[q].at \notin Working \cup {"replay", "ok"}
        /\ ~(request[q].at = "finish" /\ request[q].outcome = "ok")
        /\ q \notin Spoken
  BY <1>2 DEF ChatInv, Claims, StoredTurns, Receipt, At
<1> QED
  BY <1>1, <1>2, <1>3, <1>4

LEMMA ClaimKeeps ==
  ASSUME ChatInv, NEW r \in Requests, Claim(r)
  PROVE  ChatInv'
<1> DEFINE k == request[r].key
           stored == [id |-> r, question |-> request[r].question, status |-> "pending"]
<1>1. /\ request[r].at = "claim" /\ k \in Keys
      /\ turn' = turn /\ cancel' = cancel /\ messages' = messages
  BY Facts DEF Claim, At, ChatRequest
<1>2. CASE ~Claimable(r)
  <2>1. request' = [request EXCEPT ![r] = [request[r] EXCEPT !.at = "lookup"]]
        /\ turnReceipt' = turnReceipt
    BY <1>2 DEF Claim, Go, Do
  <2>2. request'[r] = [request[r] EXCEPT !.at = "lookup"] /\ request'[r] \in ChatRequest
    BY <2>1, Facts DEF ChatRequest, ChatSteps
  <2>3. Follows(r)
    BY <1>1, <1>2, <2>2, Facts DEF Follows, ChatRequest, Working, Claimable, Receipt
  <2> QED
    BY <1>1, <2>1, <2>3, GoFollows DEF ChatSteps
<1>3. CASE Claimable(r)
  <2>1. /\ request' = [request EXCEPT ![r] = [request[r] EXCEPT !.at = "start"]]
        /\ turnReceipt' = [turnReceipt EXCEPT ![k] = stored]
        /\ turnReceipt[k] = None
    BY <1>3 DEF Claim, Go, Do, Claimable, Receipt
  <2>2. /\ request'[r] = [request[r] EXCEPT !.at = "start"]
        /\ \A q \in Requests : q # r => request'[q] = request[q]
    BY <2>1, Facts
  <2>3. stored \in TurnReceiptType /\ stored # None
    BY <1>1, Facts, ChatAssumption DEF TurnReceiptType
  <2>4. turnReceipt'[k] = stored /\ \A l \in Keys : l # k => turnReceipt'[l] = turnReceipt[l]
    BY <1>1, <2>1 DEF ChatInv, ChatTypeOK
  <2>5. ChatTypeOK'
    <3>1. request' \in [Requests -> ChatRequest]
      BY <2>1, Facts DEF ChatRequest, ChatSteps
    <3>2. turnReceipt' \in [Keys -> TurnReceiptType \cup {None}]
      BY <2>1, <2>3 DEF ChatInv, ChatTypeOK
    <3> QED
      BY <1>1, <3>1, <3>2 DEF ChatInv, ChatTypeOK
  <2>6. Holding'
    <3>1. request'[r].at = "start" /\ request'[r].started = FALSE /\ request'[r].op = "chat"
          /\ request'[r].question \in Questions
      BY <1>1, <2>2, Facts DEF ChatRequest
    <3> QED
      BY <1>1, <2>2, <3>1 DEF ChatInv, Holding, Running, At
  <2>7. \A q \in Requests : q # r /\ request[q].key = k =>
          /\ request[q].at \notin Working \cup {"lookup", "replay", "ok"}
          /\ ~(request[q].at = "finish" /\ request[q].outcome = "ok")
          /\ q \notin Spoken
    BY <1>1, <2>1 DEF ChatInv, Claims, StoredTurns, Receipt, At
  <2>8. \A l \in Keys : l # k /\ turnReceipt[l] # None => turnReceipt[l].id # r
    BY <1>1 DEF ChatInv, Claims, At
  <2>9. request'[r].key = k /\ request'[r].at = "start"
    BY <2>2, Facts DEF ChatRequest
  <2>10. \A q \in Requests : request[q].key # None => request[q].key \in Keys
    BY Facts DEF ChatRequest
  <2>11. r \notin Spoken /\ Spoken' = Spoken
    BY <1>1 DEF ChatInv, StoredTurns, Spoken
  <2>12. \A l \in Keys : turnReceipt[l] # None => turnReceipt[l].id \in Requests
    BY DEF ChatInv, ChatTypeOK, TurnReceiptType
  <2> HIDE DEF k
  <2>13. Claims'
    <3>1. \A q \in Requests : q # r /\ request'[q].key # None /\ request'[q].key # k =>
            Receipt(q)' = Receipt(q)
      BY <2>2, <2>4, <2>10 DEF Receipt
    <3>2. \A q \in Requests : q # r /\ request'[q].key # None =>
            /\ request'[q].at \in Working =>
                 Receipt(q)' # None /\ Receipt(q)'.id = q /\ Receipt(q)'.status = "pending"
            /\ request'[q].at \in {"lookup", "replay"} => Receipt(q)' # None
            /\ request'[q].at = "replay" => Receipt(q)'.status = "completed"
            /\ request'[q].at = "ok" \/ (request'[q].at = "finish" /\ request'[q].outcome = "ok") =>
                 /\ Receipt(q)' # None
                 /\ Receipt(q)'.status = "completed" /\ Receipt(q)'.id = request'[q].answer
      BY <2>2, <2>7, <3>1 DEF ChatInv, Claims, At
    <3>3. Receipt(r)' # None /\ Receipt(r)'.id = r /\ Receipt(r)'.status = "pending"
      BY <2>3, <2>4, <2>9 DEF Receipt
    <3>4. \A l \in Keys : turnReceipt'[l] # None =>
            /\ request'[turnReceipt'[l].id].key = l
            /\ request'[turnReceipt'[l].id].at \notin {"new", "claim"}
      <4> SUFFICES ASSUME NEW l \in Keys, turnReceipt'[l] # None
                   PROVE  /\ request'[turnReceipt'[l].id].key = l
                          /\ request'[turnReceipt'[l].id].at \notin {"new", "claim"}
        OBVIOUS
      <4>1. CASE l = k
        BY <2>4, <2>9, <4>1
      <4>2. CASE l # k
        BY <2>2, <2>4, <2>8, <2>12, <4>2 DEF ChatInv, Claims, At
      <4> QED
        BY <4>1, <4>2
    <3>5. \A q \in Requests :
            request'[q].at \in {"claim", "lookup", "replay", "fail"} => request'[q].key # None
      BY <2>2, <2>9 DEF ChatInv, Claims
    <3> QED
      BY <2>9, <3>2, <3>3, <3>4, <3>5 DEF Claims, At, Working
  <2>14. StoredTurns'
    BY <1>1, <2>2, <2>4, <2>7, <2>9, <2>10, <2>11 DEF ChatInv, StoredTurns, Receipt
  <2> QED
    BY <2>5, <2>6, <2>13, <2>14 DEF ChatInv
<1> QED
  BY <1>2, <1>3

\* The receipt of a request is completed with its message, or fails without.
LEMMA SettleKeeps ==
  ASSUME ChatInv, NEW r \in Requests, NEW status \in {"completed", "failed"},
         request[r].key # None, request[r].at \in Working,
         turnReceipt' = [turnReceipt EXCEPT ![request[r].key].status = status],
         request' = [request EXCEPT ![r] = request'[r]],
         request'[r] \in ChatRequest, request'[r].key = request[r].key,
         request'[r].op = "chat", request'[r].question \in Questions,
         request'[r].at \in {"finish"} \cup (ChatAnswers \ {"ok"}),
         request'[r].at = "finish" => request'[r].started /\ turn = r,
         request'[r].at = "finish" /\ request'[r].outcome = "ok" =>
           status = "completed" /\ request'[r].answer = r,
         turn' = turn, cancel' = cancel,
         messages' \in Seq(Requests),
         \A i, j \in DOMAIN messages' : messages'[i] = messages'[j] => i = j,
         Spoken' = IF status = "completed" THEN Spoken \cup {r} ELSE Spoken
  PROVE  ChatInv'
<1> DEFINE k == request[r].key
           stored == [turnReceipt[k] EXCEPT !.status = status]
<1>1. /\ k \in Keys /\ r \notin Spoken
      /\ turnReceipt[k] \in TurnReceiptType /\ turnReceipt[k] # None
      /\ turnReceipt[k].id = r /\ turnReceipt[k].status = "pending"
      /\ \A q \in Requests : q # r /\ request[q].key = k =>
           /\ request[q].at \notin Working \cup {"replay", "ok"}
           /\ ~(request[q].at = "finish" /\ request[q].outcome = "ok")
           /\ q \notin Spoken
  BY OwnReceipt
<1>2. stored \in TurnReceiptType /\ stored.id = r /\ stored.status = status
  BY <1>1 DEF TurnReceiptType
<1>3. stored # None
  BY <1>2, ChatAssumption
<1>4. turnReceipt'[k] = stored /\ \A l \in Keys : l # k => turnReceipt'[l] = turnReceipt[l]
  BY <1>1 DEF ChatInv, ChatTypeOK
<1>5. turnReceipt' \in [Keys -> TurnReceiptType \cup {None}]
  BY <1>2 DEF ChatInv, ChatTypeOK
<1>6. \A q \in Requests : q # r => request'[q] = request[q]
  BY Facts
<1>7. /\ request'[r].key = k /\ k # None
      /\ request'[r].at \notin Working \cup {"new", "claim", "lookup", "replay", "ok"}
  BY DEF Working, ChatAnswers
<1>8. \A q \in Requests : request[q].key # None => request[q].key \in Keys
  BY Facts DEF ChatRequest
<1>9. \A l \in Keys : turnReceipt[l] # None =>
        turnReceipt[l].id \in Requests /\ (l # k => turnReceipt[l].id # r)
  BY DEF ChatInv, ChatTypeOK, TurnReceiptType, Claims
<1> HIDE DEF k, stored
<1>10. ChatTypeOK'
  <2>1. request' \in [Requests -> ChatRequest]
    BY Facts
  <2> QED
    BY <1>5, <2>1 DEF ChatInv, ChatTypeOK
<1>11. Holding'
  <2>1. request'[r].at \in ChatSteps => request'[r].at = "finish"
    BY DEF ChatSteps, ChatAnswers
  <2> QED
    BY <1>6, <1>7, <2>1 DEF ChatInv, Holding, Running, At, Working
<1>12. Claims'
  <2>1. \A q \in Requests : q # r /\ request'[q].key # None /\ request'[q].key # k =>
          Receipt(q)' = Receipt(q)
    BY <1>4, <1>6, <1>8 DEF Receipt
  <2>2. Receipt(r)' = stored /\ \A q \in Requests : request'[q].key = k => Receipt(q)' = stored
    BY <1>4, <1>7 DEF Receipt
  <2>3. \A q \in Requests : q # r /\ request'[q].key # None =>
          /\ request'[q].at \in Working =>
               Receipt(q)' # None /\ Receipt(q)'.id = q /\ Receipt(q)'.status = "pending"
          /\ request'[q].at \in {"lookup", "replay"} => Receipt(q)' # None
          /\ request'[q].at = "replay" => Receipt(q)'.status = "completed"
          /\ request'[q].at = "ok" \/ (request'[q].at = "finish" /\ request'[q].outcome = "ok") =>
               /\ Receipt(q)' # None
               /\ Receipt(q)'.status = "completed" /\ Receipt(q)'.id = request'[q].answer
    <3> SUFFICES ASSUME NEW q \in Requests, q # r, request'[q].key # None
                 PROVE
          /\ request'[q].at \in Working =>
               Receipt(q)' # None /\ Receipt(q)'.id = q /\ Receipt(q)'.status = "pending"
          /\ request'[q].at \in {"lookup", "replay"} => Receipt(q)' # None
          /\ request'[q].at = "replay" => Receipt(q)'.status = "completed"
          /\ request'[q].at = "ok" \/ (request'[q].at = "finish" /\ request'[q].outcome = "ok") =>
               /\ Receipt(q)' # None
               /\ Receipt(q)'.status = "completed" /\ Receipt(q)'.id = request'[q].answer
      OBVIOUS
    <3>1. CASE request'[q].key = k
      BY <1>1, <1>3, <1>6, <2>2, <3>1
    <3>2. CASE request'[q].key # k
      BY <1>6, <2>1, <3>2 DEF ChatInv, Claims, At
    <3> QED
      BY <3>1, <3>2
  <2>4. \A l \in Keys : turnReceipt'[l] # None =>
          /\ request'[turnReceipt'[l].id].key = l
          /\ request'[turnReceipt'[l].id].at \notin {"new", "claim"}
    <3> SUFFICES ASSUME NEW l \in Keys, turnReceipt'[l] # None
                 PROVE  /\ request'[turnReceipt'[l].id].key = l
                        /\ request'[turnReceipt'[l].id].at \notin {"new", "claim"}
      OBVIOUS
    <3>1. CASE l = k
      BY <1>2, <1>4, <1>7, <3>1, ZenonT(60)
    <3>2. CASE l # k
      BY <1>4, <1>6, <1>9, <3>2 DEF ChatInv, Claims, At
    <3> QED
      BY <3>1, <3>2
  <2>5. \A q \in Requests :
          request'[q].at \in {"claim", "lookup", "replay", "fail"} => request'[q].key # None
    BY <1>6, <1>7 DEF ChatInv, Claims
  <2>6. /\ request'[r].at = "ok" \/ (request'[r].at = "finish" /\ request'[r].outcome = "ok") =>
             /\ Receipt(r)' # None
             /\ Receipt(r)'.status = "completed" /\ Receipt(r)'.id = request'[r].answer
    BY <1>2, <1>3, <1>7, <2>2
  <2> QED
    BY <1>7, <2>3, <2>4, <2>5, <2>6 DEF Claims, At
<1>13. StoredTurns'
  <2>1. \A q \in Requests :
          request'[q].at \in {"new", "claim", "lookup", "replay"} \cup Working => q \notin Spoken'
    BY <1>6, <1>7 DEF ChatInv, StoredTurns
  <2>2. \A l \in Keys : turnReceipt'[l] # None =>
          (turnReceipt'[l].status = "completed" <=> turnReceipt'[l].id \in Spoken')
    <3> SUFFICES ASSUME NEW l \in Keys, turnReceipt'[l] # None
                 PROVE  turnReceipt'[l].status = "completed" <=> turnReceipt'[l].id \in Spoken'
      OBVIOUS
    <3>1. CASE l = k
      <4>1. turnReceipt'[l].status = status /\ turnReceipt'[l].id = r
        BY <1>2, <1>4, <3>1
      <4>2. r \in Spoken' <=> status = "completed"
        BY <1>1
      <4> QED
        BY <4>1, <4>2
    <3>2. CASE l # k
      <4>1. turnReceipt'[l] = turnReceipt[l] /\ turnReceipt[l].id # r
        BY <1>4, <1>9, <3>2
      <4>2. turnReceipt[l].id \in Spoken' <=> turnReceipt[l].id \in Spoken
        BY <4>1
      <4> QED
        BY <4>1, <4>2 DEF ChatInv, StoredTurns
    <3> QED
      BY <3>1, <3>2
  <2>3. \A q \in Requests : q \in Spoken' /\ request'[q].key # None =>
          Receipt(q)' # None /\ Receipt(q)'.id = q
    <3> SUFFICES ASSUME NEW q \in Requests, q \in Spoken', request'[q].key # None
                 PROVE  Receipt(q)' # None /\ Receipt(q)'.id = q
      OBVIOUS
    <3>1. CASE q = r
      BY <1>2, <1>3, <1>4, <1>7, <3>1 DEF Receipt
    <3>2. CASE q # r
      <4>1. q \in Spoken /\ request'[q] = request[q] /\ request[q].key # k
        BY <1>1, <1>6, <3>2
      <4> QED
        BY <1>4, <1>8, <4>1 DEF ChatInv, StoredTurns, Receipt
    <3> QED
      BY <3>1, <3>2
  <2> QED
    BY <2>1, <2>2, <2>3 DEF StoredTurns
<1> QED
  BY <1>10, <1>11, <1>12, <1>13 DEF ChatInv

\* A request that goes to clean up, having written nothing.
LEMMA EndsKeeps ==
  ASSUME ChatInv, NEW r \in Requests, request[r].at = "commit", Ends(r, "cancelled"),
         turn' = turn, cancel' = cancel, UNCHANGED <<messages, turnReceipt>>
  PROVE  ChatInv'
<1>1. /\ request' = [request EXCEPT ![r] = request'[r]]
      /\ request'[r] = [request[r] EXCEPT !.at = "finish", !.outcome = "cancelled",
                                          !.answer = None]
  BY Facts DEF Ends, Do
<1>2. request'[r] \in ChatRequest
  BY <1>1, Facts DEF ChatRequest, ChatSteps, ChatAnswers
<1>3. Follows(r) /\ Owns(r)
  BY <1>1, <1>2, Facts DEF Follows, Owns, ChatRequest, ChatSteps, Working
<1> QED
  BY <1>1, <1>3, Facts, ChatStepKeeps

LEMMA CommitKeeps ==
  ASSUME ChatInv, NEW r \in Requests, Commit(r)
  PROVE  ChatInv'
<1>1. request[r].at = "commit" /\ request[r].key # None /\ turn' = turn /\ cancel' = cancel
  BY DEF Commit, At
<1>2. CASE ~(~Cancelled(r) /\ Receipt(r).id = r /\ Receipt(r).status = "pending")
  BY <1>1, <1>2, EndsKeeps DEF Commit
<1>3. CASE ~Cancelled(r) /\ Receipt(r).id = r /\ Receipt(r).status = "pending"
  <2>1. /\ messages' = Append(messages, r)
        /\ turnReceipt' = [turnReceipt EXCEPT ![request[r].key].status = "completed"]
        /\ Ends(r, "ok") \/ Ends(r, "error")
    BY <1>3 DEF Commit
  <2>2. r \notin Spoken
    BY <1>1, OwnReceipt DEF Working
  <2>3. /\ messages' \in Seq(Requests) /\ Spoken' = Spoken \cup {r}
        /\ \A i, j \in DOMAIN messages' : messages'[i] = messages'[j] => i = j
    BY <2>1, <2>2, MessagesGrow DEF ChatInv, ChatTypeOK, StoredTurns
  <2>4. /\ request' = [request EXCEPT ![r] = request'[r]]
        /\ \/ request'[r] = [request[r] EXCEPT !.at = "finish", !.outcome = "ok", !.answer = r]
           \/ request'[r] = [request[r] EXCEPT !.at = "finish", !.outcome = "error", !.answer = None]
    BY <2>1, Facts DEF Ends, Do
  <2>5. /\ request'[r] \in ChatRequest /\ request'[r].at = "finish"
        /\ request'[r].key = request[r].key
        /\ request'[r].op = "chat" /\ request'[r].question \in Questions
        /\ request'[r].started /\ turn = r
        /\ request'[r].outcome = "ok" => request'[r].answer = r
    BY <1>1, <2>4, Facts DEF ChatRequest, ChatSteps, ChatAnswers
  <2> QED
    BY <1>1, <2>1, <2>3, <2>4, <2>5, SettleKeeps DEF Working
<1> QED
  BY <1>2, <1>3

LEMMA FailReceiptKeeps ==
  ASSUME ChatInv, NEW r \in Requests, FailReceipt(r)
  PROVE  ChatInv'
<1>1. request[r].at = "fail" /\ request[r].key # None /\ turn' = turn /\ cancel' = cancel
      /\ messages' = messages
  BY Facts DEF FailReceipt, At
<1>2. Receipt(r).id = r /\ Receipt(r).status = "pending"
  BY <1>1, OwnReceipt DEF Working, Receipt
<1>3. /\ turnReceipt' = [turnReceipt EXCEPT ![request[r].key].status = "failed"]
      /\ request' = [request EXCEPT ![r] = request'[r]]
      /\ request'[r] = [request[r] EXCEPT
           !.at = IF request[r].started THEN "finish" ELSE request[r].outcome]
  BY <1>2, Facts DEF FailReceipt, Go, Do
<1>4. /\ request'[r] \in ChatRequest
      /\ request'[r].at \in {"finish"} \cup (ChatAnswers \ {"ok"})
      /\ request'[r].at = "finish" => request'[r].started
      /\ request'[r].key = request[r].key
      /\ request'[r].op = "chat" /\ request'[r].question \in Questions
      /\ request'[r].outcome # "ok" /\ request'[r].started = request[r].started
  BY <1>1, <1>3, Facts DEF ChatRequest, ChatSteps, ChatAnswers
<1>5. request[r].started => turn = r
  BY <1>1, Facts DEF ChatSteps
<1>6. /\ messages' \in Seq(Requests) /\ Spoken' = Spoken
      /\ \A i, j \in DOMAIN messages' : messages'[i] = messages'[j] => i = j
  BY <1>1 DEF ChatInv, ChatTypeOK, StoredTurns, Spoken
<1> QED
  BY <1>1, <1>3, <1>4, <1>5, <1>6, SettleKeeps DEF Working

LEMMA AppendKeeps ==
  ASSUME ChatInv, NEW r \in Requests, AppendTurn(r)
  PROVE  ChatInv'
<1>1. request[r].at = "commit" /\ request[r].key = None /\ turn' = turn /\ cancel' = cancel
      /\ turnReceipt' = turnReceipt
  BY DEF AppendTurn, At
<1>2. CASE Cancelled(r)
  BY <1>1, <1>2, EndsKeeps DEF AppendTurn
<1>3. CASE ~Cancelled(r)
  <2>1. messages' = Append(messages, r) /\ Ends(r, "ok")
    BY <1>3 DEF AppendTurn
  <2>2. r \notin Spoken
    BY <1>1 DEF ChatInv, StoredTurns, Working
  <2>3. /\ messages' \in Seq(Requests) /\ Spoken' = Spoken \cup {r}
        /\ \A i, j \in DOMAIN messages' : messages'[i] = messages'[j] => i = j
    BY <2>1, <2>2, MessagesGrow DEF ChatInv, ChatTypeOK, StoredTurns
  <2>4. /\ request' = [request EXCEPT ![r] = request'[r]]
        /\ request'[r] = [request[r] EXCEPT !.at = "finish", !.outcome = "ok", !.answer = r]
    BY <2>1, Facts DEF Ends, Do
  <2>5. /\ request'[r] \in ChatRequest /\ request'[r].at = "finish"
        /\ request'[r].key = None
        /\ request'[r].op = "chat" /\ request'[r].question \in Questions
        /\ request'[r].started /\ turn = r
    BY <1>1, <2>4, Facts, ZenonT(60) DEF ChatRequest, ChatSteps, ChatAnswers
  <2>6. \A q \in Requests : q # r => request'[q] = request[q]
    BY <2>4, Facts
  <2>7. \A l \in Keys : turnReceipt[l] # None =>
          turnReceipt[l].id \in Requests /\ turnReceipt[l].id # r
    BY <1>1, ChatAssumption DEF ChatInv, ChatTypeOK, TurnReceiptType, Claims
  <2>8. ChatTypeOK'
    <3>1. request' \in [Requests -> ChatRequest]
      BY <2>4, <2>5, Facts
    <3> QED
      BY <1>1, <2>3, <3>1 DEF ChatInv, ChatTypeOK
  <2>9. Holding'
    BY <1>1, <2>5, <2>6 DEF ChatInv, Holding, Running, At
  <2>10. \A q \in Requests : q # r => Receipt(q)' = Receipt(q)
    BY <1>1, <2>6 DEF Receipt
  <2>11. Claims'
    <3>1. \A l \in Keys : turnReceipt'[l] # None =>
            /\ request'[turnReceipt'[l].id].key = l
            /\ request'[turnReceipt'[l].id].at \notin {"new", "claim"}
      BY <1>1, <2>6, <2>7 DEF ChatInv, Claims, At
    <3> QED
      BY <2>5, <2>6, <2>10, <3>1 DEF ChatInv, Claims, At
  <2>12. StoredTurns'
    <3>1. \A q \in Requests :
            request'[q].at \in {"new", "claim", "lookup", "replay"} \cup Working => q \notin Spoken'
      BY <2>3, <2>5, <2>6 DEF ChatInv, StoredTurns, Working
    <3>2. \A l \in Keys : turnReceipt'[l] # None =>
            (turnReceipt'[l].status = "completed" <=> turnReceipt'[l].id \in Spoken')
      BY <1>1, <2>3, <2>7 DEF ChatInv, StoredTurns
    <3>3. \A q \in Requests : q \in Spoken' /\ request'[q].key # None =>
            Receipt(q)' # None /\ Receipt(q)'.id = q
      BY <2>3, <2>5, <2>6, <2>10 DEF ChatInv, StoredTurns
    <3> QED
      BY <2>3, <3>1, <3>2, <3>3 DEF StoredTurns
  <2> QED
    BY <2>8, <2>9, <2>11, <2>12 DEF ChatInv
<1> QED
  BY <1>2, <1>3

-----------------------------------------------------------------------------
\* Who has the conversation, who has claimed a key and what is stored agree in
\* every state of every conversation.
THEOREM ChatInvariance == ChatSpec => []ChatInv
<1>1. ChatInit => ChatInv
  <2> SUFFICES ASSUME ChatInit PROVE ChatInv
    OBVIOUS
  <2>1. NoQuestion \in ChatRequest
    BY DEF NoQuestion, ChatRequest, ChatSteps, ChatAnswers
  <2>2. messages = <<>> /\ Spoken = {} /\ DOMAIN messages = {}
    BY DEF ChatInit, Spoken
  <2>3. ChatTypeOK
    <3>1. messages \in Seq(Requests)
      BY <2>2
    <3>2. turnReceipt \in [Keys -> TurnReceiptType \cup {None}]
      BY DEF ChatInit
    <3> QED
      BY <2>1, <3>1, <3>2 DEF ChatInit, ChatTypeOK
  <2>4. \A r \in Requests : request[r] = NoQuestion
    BY DEF ChatInit
  <2>5. \A k \in Keys : turnReceipt[k] = None
    BY DEF ChatInit
  <2>6. Holding
    BY <2>4 DEF Holding, NoQuestion, Running, At
  <2>7. Claims
    BY <2>4, <2>5 DEF Claims, NoQuestion, At
  <2>8. StoredTurns
    BY <2>2, <2>5 DEF StoredTurns
  <2> QED
    BY <2>3, <2>6, <2>7, <2>8 DEF ChatInv
<1>2. ChatInv /\ [ChatNext]_chatVars => ChatInv'
  <2> SUFFICES ASSUME ChatInv, [ChatNext]_chatVars PROVE ChatInv'
    OBVIOUS
  <2>1. CASE RequestCancel
    BY <2>1, CancelKeeps DEF RequestCancel
  <2>2. ASSUME NEW r \in Requests, NEW k \in Keys \cup {None}, NEW q \in Questions, Ask(r, k, q)
        PROVE  ChatInv'
    BY <2>2, AskKeeps
  <2>3. ASSUME NEW r \in Requests,
               Claim(r) \/ Lookup(r) \/ Replay(r) \/ StartTurn(r) \/ ReadTaken(r) \/ Generate(r)
        PROVE  ChatInv'
    BY <2>3, ClaimKeeps, LookupKeeps, ReplayKeeps, StartTurnKeeps, GenerateKeeps
  <2>4. ASSUME NEW r \in Requests,
               CheckCancelled(r) \/ Commit(r) \/ AppendTurn(r) \/ FailReceipt(r) \/ FinishTurn(r)
        PROVE  ChatInv'
    BY <2>4, GenerateKeeps, CommitKeeps, AppendKeeps, FailReceiptKeeps, TurnFinishKeeps
  <2>5. CASE UNCHANGED chatVars
    <3>1. UNCHANGED <<turn, cancel, messages, turnReceipt, request>>
      BY <2>5 DEF chatVars, conversation
    <3> QED
      BY <3>1, CancelKeeps DEF ChatInv, ChatTypeOK
  <2> QED
    BY <2>1, <2>2, <2>3, <2>4, <2>5 DEF ChatNext
<1> QED
  BY <1>1, <1>2, PTL DEF ChatSpec

\* Whatever fails, is cancelled or is asked again, no two turns of a conversation
\* are under way together.
THEOREM TurnsCorrect == ChatSpec => []TurnsDoNotOverlap
<1>1. ChatInv => TurnsDoNotOverlap
  BY DEF ChatInv, Holding, TurnsDoNotOverlap
<1> QED
  BY <1>1, ChatInvariance, PTL

\* A question asked under a key is answered once: its receipt, its message and
\* what the requests were told agree.
THEOREM ReceiptsCorrect == ChatSpec => []ReceiptMatchesMessage
<1>1. ChatInv => ReceiptMatchesMessage
  <2> SUFFICES ASSUME ChatInv PROVE ReceiptMatchesMessage
    OBVIOUS
  <2>1. \A r \in Requests : request[r].key # None => request[r].key \in Keys
    BY Facts DEF ChatRequest
  <2>2. \A r \in Requests : request[r].key # None =>
          (r \in Spoken <=> Receipt(r) # None /\ Receipt(r).id = r /\ Receipt(r).status = "completed")
    BY <2>1 DEF ChatInv, StoredTurns, Receipt
  <2> QED
    BY <2>2 DEF ChatInv, StoredTurns, Claims, ReceiptMatchesMessage, At, Spoken
<1> QED
  BY <1>1, ChatInvariance, PTL

-----------------------------------------------------------------------------
(* The agent session. *)

\* A turn is made by the request of its name, and the turn a request answers is
\* there, completed once the request is told so.
Answering ==
  \A r \in Requests :
    /\ request[r].at # "new" => request[r].op = "stream" /\ request[r].question \in Prompts
    /\ request[r].at \in {"new", "start", "terminate", "restart"} => turns[r] = None
    /\ request[r].at \notin {"new", "start"} =>
         request[r].turn \in Requests /\ turns[request[r].turn] # None
    /\ At(r, "ok") => turns[request[r].turn].status = "completed"

\* What the transcript has of a turn.
TurnRecorded(t) ==
  /\ turns[t] = None => Said("user", t) = {} /\ Said("assistant", t) = {}
  /\ turns[t] # None /\ turns[t].status # "completed" =>
       Said("assistant", t) = {} /\ \E i \in DOMAIN transcript : Said("user", t) = {i}
  /\ turns[t] # None /\ turns[t].status = "completed" =>
       \E i, j \in DOMAIN transcript : i < j /\ Said("user", t) = {i} /\ Said("assistant", t) = {j}

AgentInv == AgentTypeOK /\ Answering /\ \A t \in Requests : TurnRecorded(t)

\* A turn that was made stays, and a completed one stays completed; at most the
\* request of its name makes one.
TurnsGrow(r) ==
  /\ turns' \in [Requests -> AgentTurnType \cup {None}]
  /\ \A t \in Requests :
       /\ turns[t] # None => turns'[t] # None
       /\ turns[t] # None /\ turns[t].status = "completed" => turns'[t] = turns[t]
       /\ turns[t] = None /\ t # r => turns'[t] = None

LEMMA AgentFacts ==
  ASSUME AgentInv, NEW r \in Requests
  PROVE  /\ request \in [Requests -> AgentRequest] /\ request[r] \in AgentRequest
         /\ turns \in [Requests -> AgentTurnType \cup {None}]
         /\ transcript \in Seq(AgentMessageType)
         /\ request[r].at # "new" => request[r].op = "stream" /\ request[r].question \in Prompts
         /\ request[r].at \in {"new", "start", "terminate", "restart"} => turns[r] = None
         /\ request[r].at \notin {"new", "start"} =>
              request[r].turn \in Requests /\ turns[request[r].turn] # None
         /\ request[r].at = "ok" => turns[request[r].turn].status = "completed"
BY DEF AgentInv, AgentTypeOK, Answering, At

LEMMA RequestMoves ==
  ASSUME AgentInv, NEW r \in Requests, TurnsGrow(r),
         request' = [request EXCEPT ![r] = request'[r]],
         request'[r] \in AgentRequest, request'[r].op = "stream",
         request'[r].question \in Prompts, request'[r].at # "new",
         request'[r].at \in {"start", "terminate", "restart"} => turns'[r] = None,
         request'[r].at # "start" =>
           request'[r].turn \in Requests /\ turns'[request'[r].turn] # None,
         request'[r].at = "ok" => turns'[request'[r].turn].status = "completed"
  PROVE  request' \in [Requests -> AgentRequest] /\ Answering'
<1>1. request' \in [Requests -> AgentRequest] /\ \A q \in Requests : q # r => request'[q] = request[q]
  BY AgentFacts
<1>2. \A q \in Requests : q # r =>
        /\ request'[q].at # "new" => request'[q].op = "stream" /\ request'[q].question \in Prompts
        /\ request'[q].at \in {"new", "start", "terminate", "restart"} => turns'[q] = None
        /\ request'[q].at \notin {"new", "start"} =>
             request'[q].turn \in Requests /\ turns'[request'[q].turn] # None
        /\ request'[q].at = "ok" => turns'[request'[q].turn].status = "completed"
  BY <1>1, AgentFacts DEF TurnsGrow
<1> QED
  BY <1>1, <1>2 DEF Answering, At

LEMMA SaidGrows ==
  ASSUME transcript \in Seq(AgentMessageType), NEW m \in AgentMessageType,
         transcript' = Append(transcript, m)
  PROVE  /\ transcript' \in Seq(AgentMessageType)
         /\ DOMAIN transcript = 1..Len(transcript) /\ Len(transcript) \in Nat
         /\ DOMAIN transcript' = 1..(Len(transcript) + 1)
         /\ \A role \in {"user", "assistant"}, t \in Requests :
              /\ m.role = role /\ m.turn = t =>
                   Said(role, t)' = Said(role, t) \cup {Len(transcript) + 1}
              /\ ~(m.role = role /\ m.turn = t) => Said(role, t)' = Said(role, t)
<1>1. transcript' \in Seq(AgentMessageType) /\ Len(transcript') = Len(transcript) + 1
  OBVIOUS
<1>2. /\ DOMAIN transcript = 1..Len(transcript) /\ Len(transcript) \in Nat
      /\ DOMAIN transcript' = 1..(Len(transcript) + 1)
  BY <1>1
<1>3. /\ transcript'[Len(transcript) + 1] = m
      /\ \A i \in 1..Len(transcript) : transcript'[i] = transcript[i]
  OBVIOUS
<1>4. \A role \in {"user", "assistant"}, t \in Requests :
        /\ m.role = role /\ m.turn = t =>
             Said(role, t)' = Said(role, t) \cup {Len(transcript) + 1}
        /\ ~(m.role = role /\ m.turn = t) => Said(role, t)' = Said(role, t)
  BY <1>2, <1>3 DEF Said
<1> QED
  BY <1>1, <1>2, <1>4

\* Nothing is said: a turn stays as it is, or is terminated.
LEMMA EndKeeps ==
  ASSUME AgentInv, NEW t \in Requests, NEW r \in Requests,
         turns' = Terminated(t) \/ turns' = turns, transcript' = transcript
  PROVE  TurnsGrow(r) /\ \A u \in Requests : TurnRecorded(u)'
<1>1. \A role \in {"user", "assistant"}, u \in Requests : Said(role, u)' = Said(role, u)
  BY DEF Said
<1>2. CASE turns' = turns
  BY <1>1, <1>2 DEF AgentInv, AgentTypeOK, TurnsGrow, TurnRecorded
<1>3. CASE turns' # turns
  <2>1. /\ turns' = [turns EXCEPT ![t].status = "terminated"]
        /\ turns[t] # None /\ turns[t].status = "active"
    BY <1>3 DEF Terminated, Active
  <2>2. turns[t] \in AgentTurnType /\ turns \in [Requests -> AgentTurnType \cup {None}]
    BY <2>1 DEF AgentInv, AgentTypeOK
  <2>3. /\ \A u \in Requests : u # t => turns'[u] = turns[u]
        /\ turns'[t] = [turns[t] EXCEPT !.status = "terminated"]
    BY <2>1, <2>2
  <2>4. turns'[t] \in AgentTurnType /\ turns'[t].status = "terminated"
    BY <2>2, <2>3 DEF AgentTurnType
  <2>5. turns'[t] # None
    BY <2>4, AgentAssumption
  <2>6. turns' \in [Requests -> AgentTurnType \cup {None}]
    BY <2>1, <2>2, <2>3, <2>4
  <2>7. TurnsGrow(r)
    BY <2>1, <2>3, <2>5, <2>6 DEF TurnsGrow
  <2>8. \A u \in Requests : u # t => TurnRecorded(u)'
    BY <1>1, <2>3 DEF AgentInv, TurnRecorded
  <2>9. TurnRecorded(t)'
    BY <1>1, <2>1, <2>4, <2>5 DEF AgentInv, TurnRecorded
  <2> QED
    BY <2>7, <2>8, <2>9
<1> QED
  BY <1>2, <1>3

\* A turn is made with its question.
LEMMA BeginKeeps ==
  ASSUME AgentInv, NEW r \in Requests, NEW t \in Requests, Begin(r, t),
         request[r].question \in Prompts, turns[r] = None
  PROVE  /\ TurnsGrow(r) /\ \A u \in Requests : TurnRecorded(u)'
         /\ transcript' \in Seq(AgentMessageType)
         /\ turns'[t] # None
         /\ \/ UNCHANGED session
            \/ t = r /\ turns'[r].question = request[r].question
<1>1. CASE Active # {}
  <2>1. t \in Active /\ UNCHANGED session
    BY <1>1 DEF Begin
  <2>2. turns' = turns /\ transcript' = transcript
    BY <2>1 DEF session
  <2> QED
    BY <2>1, <2>2, EndKeeps DEF Active, AgentInv, AgentTypeOK
<1>2. CASE Active = {}
  <2> DEFINE stored == [question |-> request[r].question, status |-> "active"]
             m == Message("user", r, r)
  <2>1. t = r /\ turns' = [turns EXCEPT ![r] = stored] /\ transcript' = Append(transcript, m)
    BY <1>2 DEF Begin
  <2>2. stored \in AgentTurnType /\ stored # None /\ stored.status = "active"
    BY AgentAssumption DEF AgentTurnType
  <2>3. m \in AgentMessageType /\ m.role = "user" /\ m.turn = r
    BY DEF Message, AgentMessageType
  <2>4. /\ turns'[r] = stored /\ \A u \in Requests : u # r => turns'[u] = turns[u]
        /\ turns' \in [Requests -> AgentTurnType \cup {None}]
    BY <2>1, <2>2, AgentFacts
  <2>5. TurnsGrow(r)
    BY <2>2, <2>4 DEF TurnsGrow
  <2> HIDE DEF m
  <2>6. /\ transcript' \in Seq(AgentMessageType)
        /\ DOMAIN transcript = 1..Len(transcript) /\ Len(transcript) \in Nat
        /\ DOMAIN transcript' = 1..(Len(transcript) + 1)
        /\ Said("user", r)' = Said("user", r) \cup {Len(transcript) + 1}
        /\ \A u \in Requests : Said("assistant", u)' = Said("assistant", u)
        /\ \A u \in Requests : u # r => Said("user", u)' = Said("user", u)
    BY <2>1, <2>3, SaidGrows, AgentFacts
  <2>7. \A u \in Requests : u # r => TurnRecorded(u)'
    BY <2>4, <2>6 DEF AgentInv, TurnRecorded
  <2>8. TurnRecorded(r)'
    <3>1. turns'[r] # None /\ turns'[r].status # "completed"
      BY <2>2, <2>4
    <3>2. Said("user", r) = {} /\ Said("assistant", r) = {}
      BY DEF AgentInv, TurnRecorded
    <3>3. /\ Said("user", r)' = {Len(transcript) + 1} /\ Said("assistant", r)' = {}
          /\ Len(transcript) + 1 \in DOMAIN transcript'
      BY <2>6, <3>2
    <3> QED
      BY <3>1, <3>3 DEF TurnRecorded
  <2>9. turns'[r].question = request[r].question
    BY <2>4
  <2> QED
    BY <2>1, <2>2, <2>4, <2>5, <2>6, <2>7, <2>8, <2>9
<1> QED
  BY <1>1, <1>2

\* An active turn is answered.
LEMMA AnswerKeeps ==
  ASSUME AgentInv, NEW r \in Requests, NEW t \in Requests,
         turns[t] # None, turns[t].status = "active",
         turns' = [turns EXCEPT ![t].status = "completed"],
         transcript' = Append(transcript, Message("assistant", t, r))
  PROVE  /\ TurnsGrow(r) /\ \A u \in Requests : TurnRecorded(u)'
         /\ transcript' \in Seq(AgentMessageType)
         /\ turns'[t].status = "completed"
<1> DEFINE m == Message("assistant", t, r)
<1>1. turns[t] \in AgentTurnType /\ turns \in [Requests -> AgentTurnType \cup {None}]
  BY DEF AgentInv, AgentTypeOK
<1>2. /\ turns'[t] = [turns[t] EXCEPT !.status = "completed"]
      /\ \A u \in Requests : u # t => turns'[u] = turns[u]
  BY <1>1
<1>3. turns'[t] \in AgentTurnType /\ turns'[t].status = "completed"
  BY <1>1, <1>2 DEF AgentTurnType
<1>4. turns'[t] # None
  BY <1>3, AgentAssumption
<1>5. turns' \in [Requests -> AgentTurnType \cup {None}]
  BY <1>1, <1>2, <1>3
<1>6. TurnsGrow(r)
  BY <1>2, <1>4, <1>5 DEF TurnsGrow
<1>7. m \in AgentMessageType /\ m.role = "assistant" /\ m.turn = t
  BY DEF Message, AgentMessageType
<1>8. transcript' = Append(transcript, m)
  OBVIOUS
<1> HIDE DEF m
<1>9. /\ transcript' \in Seq(AgentMessageType)
      /\ DOMAIN transcript = 1..Len(transcript) /\ Len(transcript) \in Nat
      /\ DOMAIN transcript' = 1..(Len(transcript) + 1)
      /\ Said("assistant", t)' = Said("assistant", t) \cup {Len(transcript) + 1}
      /\ \A u \in Requests : Said("user", u)' = Said("user", u)
      /\ \A u \in Requests : u # t => Said("assistant", u)' = Said("assistant", u)
  BY <1>7, <1>8, SaidGrows, AgentFacts
<1>10. \A u \in Requests : u # t => TurnRecorded(u)'
  <2> SUFFICES ASSUME NEW u \in Requests, u # t PROVE TurnRecorded(u)'
    OBVIOUS
  <2>1. turns'[u] = turns[u] /\ Said("user", u)' = Said("user", u)
        /\ Said("assistant", u)' = Said("assistant", u)
        /\ \A i \in DOMAIN transcript : i \in DOMAIN transcript'
    BY <1>2, <1>9
  <2> QED
    BY <2>1 DEF AgentInv, TurnRecorded
<1>11. TurnRecorded(t)'
  <2>1. PICK i \in DOMAIN transcript : Said("user", t) = {i} /\ Said("assistant", t) = {}
    BY DEF AgentInv, TurnRecorded
  <2>2. /\ i < Len(transcript) + 1 /\ i \in DOMAIN transcript'
        /\ Len(transcript) + 1 \in DOMAIN transcript'
        /\ Said("user", t)' = {i} /\ Said("assistant", t)' = {Len(transcript) + 1}
    BY <1>9, <2>1
  <2> QED
    BY <1>3, <1>4, <2>2 DEF TurnRecorded
<1> QED
  BY <1>3, <1>6, <1>9, <1>10, <1>11

\* A request goes on, knowing the turn it has.
LEMMA GoMoves ==
  ASSUME AgentInv, NEW r \in Requests, TurnsGrow(r),
         NEW step \in {"restart", "complete", "abandon", "ok", "error"},
         Go(r, step), request[r].at \notin {"new", "start"},
         step = "restart" => turns'[r] = None,
         step = "ok" => turns'[request[r].turn].status = "completed"
  PROVE  request' \in [Requests -> AgentRequest] /\ Answering'
<1>1. /\ request' = [request EXCEPT ![r] = request'[r]]
      /\ request'[r] = [request[r] EXCEPT !.at = step]
  BY AgentFacts DEF Go, Do
<1>2. request'[r] \in AgentRequest
  BY <1>1, AgentFacts DEF AgentRequest
<1>3. /\ request'[r].op = request[r].op /\ request'[r].at = step
      /\ request'[r].question = request[r].question /\ request'[r].turn = request[r].turn
  BY <1>1, AgentFacts DEF AgentRequest
<1>4. /\ request[r].turn \in Requests /\ turns'[request[r].turn] # None
      /\ request[r].op = "stream" /\ request[r].question \in Prompts
  BY AgentFacts DEF TurnsGrow
<1>5. /\ request'[r].at # "new" /\ request'[r].at # "start"
      /\ request'[r].at \in {"start", "terminate", "restart"} => turns'[r] = None
      /\ request'[r].at = "ok" => turns'[request'[r].turn].status = "completed"
  BY <1>3
<1> QED
  BY <1>1, <1>2, <1>3, <1>4, <1>5, RequestMoves

LEMMA AgentStepKeeps ==
  ASSUME AgentInv, NEW r \in Requests, TurnsGrow(r), \A u \in Requests : TurnRecorded(u)',
         transcript' \in Seq(AgentMessageType),
         request' \in [Requests -> AgentRequest], Answering'
  PROVE  AgentInv'
BY DEF AgentInv, AgentTypeOK, TurnsGrow

LEMMA StreamKeeps ==
  ASSUME AgentInv, NEW r \in Requests, NEW q \in Prompts, Stream(r, q)
  PROVE  AgentInv'
<1>1. request[r].at = "new" /\ turns' = turns /\ transcript' = transcript
  BY DEF Stream, At, session
<1>2. /\ request' = [request EXCEPT ![r] = request'[r]]
      /\ request'[r] = [NoPrompt EXCEPT !.op = "stream", !.at = "start", !.question = q]
  BY AgentFacts DEF Stream, Do
<1>3. request'[r] \in AgentRequest
  BY <1>2 DEF AgentRequest, NoPrompt
<1>4. TurnsGrow(r) /\ \A u \in Requests : TurnRecorded(u)'
  BY <1>1, EndKeeps
<1>5. request' \in [Requests -> AgentRequest] /\ Answering'
  BY <1>1, <1>2, <1>3, <1>4, AgentFacts, RequestMoves DEF NoPrompt
<1> QED
  BY <1>1, <1>4, <1>5, AgentStepKeeps, AgentFacts

LEMMA BeginsKeeps ==
  ASSUME AgentInv, NEW r \in Requests, StartStream(r) \/ Restart(r)
  PROVE  AgentInv'
<1>1. request[r].at \in {"start", "restart"}
  BY DEF StartStream, Restart, At
<1>2. PICK t \in Requests :
        /\ Begin(r, t)
        /\ \/ Do(r, [request[r] EXCEPT !.turn = t,
                                       !.at = IF turns'[t].question = request[r].question
                                              THEN "generate" ELSE "terminate"])
              /\ request[r].at = "start"
           \/ Do(r, [request[r] EXCEPT !.turn = t, !.at = "generate"])
  BY DEF StartStream, Restart, At
<1>3. /\ TurnsGrow(r) /\ \A u \in Requests : TurnRecorded(u)'
      /\ transcript' \in Seq(AgentMessageType)
      /\ turns'[t] # None
      /\ \/ UNCHANGED session
         \/ t = r /\ turns'[r].question = request[r].question
  BY <1>1, <1>2, AgentFacts, BeginKeeps
<1>4. /\ request' = [request EXCEPT ![r] = request'[r]]
      /\ \/ request'[r] = [request[r] EXCEPT !.turn = t, !.at = "generate"]
         \/ /\ request'[r] = [request[r] EXCEPT !.turn = t, !.at = "terminate"]
            /\ turns'[t].question # request[r].question
  BY <1>2, AgentFacts DEF Do
<1>5. /\ request'[r] \in AgentRequest /\ request'[r].op = request[r].op
      /\ request'[r].question = request[r].question /\ request'[r].turn = t
      /\ request'[r].at \in {"generate", "terminate"}
      /\ request'[r].at = "terminate" => turns'[t].question # request[r].question
  BY <1>4, AgentFacts, ZenonT(60) DEF AgentRequest
<1>6. request'[r].at = "terminate" => turns'[r] = None
  BY <1>1, <1>3, <1>5, AgentFacts DEF session
<1>7. request' \in [Requests -> AgentRequest] /\ Answering'
  BY <1>1, <1>3, <1>4, <1>5, <1>6, AgentFacts, RequestMoves
<1> QED
  BY <1>3, <1>7, AgentStepKeeps

LEMMA EndsTurnKeeps ==
  ASSUME AgentInv, NEW r \in Requests, EndOther(r) \/ Abandon(r)
  PROVE  AgentInv'
<1> DEFINE step == IF request[r].at = "terminate" THEN "restart" ELSE "error"
<1>1. /\ request[r].at \in {"terminate", "abandon"} /\ Go(r, step)
      /\ turns' = Terminated(request[r].turn) /\ transcript' = transcript
  BY DEF EndOther, Abandon, At
<1>2. /\ request[r].turn \in Requests /\ turns[request[r].turn] # None
      /\ request[r].at = "terminate" => turns[r] = None
  BY <1>1, AgentFacts
<1>3. TurnsGrow(r) /\ \A u \in Requests : TurnRecorded(u)'
  BY <1>1, <1>2, EndKeeps
<1>4. request[r].at = "terminate" => turns'[r] = None
  <2> SUFFICES ASSUME turns[r] = None PROVE turns'[r] = None
    BY <1>2
  <2>1. r \notin Active
    BY DEF Active
  <2> QED
    BY <1>1, <1>2, <2>1, AgentFacts DEF Terminated
<1>5. step \in {"restart", "error"} /\ (step = "restart" => request[r].at = "terminate")
  OBVIOUS
<1> HIDE DEF step
<1>6. request' \in [Requests -> AgentRequest] /\ Answering'
  BY <1>1, <1>3, <1>4, <1>5, GoMoves
<1> QED
  BY <1>1, <1>3, <1>6, AgentStepKeeps, AgentFacts

LEMMA GenerateAnswerKeeps ==
  ASSUME AgentInv, NEW r \in Requests, GenerateAnswer(r)
  PROVE  AgentInv'
<1>1. /\ request[r].at = "generate" /\ (Go(r, "complete") \/ Go(r, "abandon"))
      /\ turns' = turns /\ transcript' = transcript
  BY DEF GenerateAnswer, At, session
<1>2. TurnsGrow(r) /\ \A u \in Requests : TurnRecorded(u)'
  BY <1>1, EndKeeps
<1>3. request[r].at = "generate"
  BY DEF GenerateAnswer, At
<1>4. request' \in [Requests -> AgentRequest] /\ Answering'
  BY <1>1, <1>2, <1>3, GoMoves
<1> QED
  BY <1>1, <1>2, <1>4, AgentStepKeeps, AgentFacts DEF GenerateAnswer, session

LEMMA CompleteTurnKeeps ==
  ASSUME AgentInv, NEW r \in Requests, CompleteTurn(r)
  PROVE  AgentInv'
<1> DEFINE t == request[r].turn
           step == IF turns[t].status = "terminated" THEN "abandon" ELSE "ok"
<1>1. request[r].at = "complete" /\ Go(r, step)
  BY DEF CompleteTurn, At
<1>2. t \in Requests /\ turns[t] # None
  BY <1>1, AgentFacts
<1>3. turns[t].status \in {"active", "completed", "terminated"}
  BY <1>2, AgentFacts DEF AgentTurnType
<1>4. /\ TurnsGrow(r) /\ \A u \in Requests : TurnRecorded(u)'
      /\ transcript' \in Seq(AgentMessageType)
      /\ step = "ok" => turns'[t].status = "completed"
  <2>1. CASE Stores(t)
    <3>1. /\ turns[t].status = "active"
          /\ turns' = [turns EXCEPT ![t].status = "completed"]
          /\ transcript' = Append(transcript, Message("assistant", t, r))
      BY <2>1 DEF CompleteTurn, Stores
    <3> QED
      BY <1>2, <3>1, AnswerKeeps
  <2>2. CASE ~Stores(t)
    <3>1. turns' = turns /\ transcript' = transcript /\ turns[t].status # "active"
      BY <2>2 DEF CompleteTurn, Stores, session
    <3>2. TurnsGrow(r) /\ \A u \in Requests : TurnRecorded(u)'
      BY <1>2, <3>1, EndKeeps
    <3> QED
      BY <1>3, <3>1, <3>2, AgentFacts
  <2> QED
    BY <2>1, <2>2
<1>5. step \in {"abandon", "ok"}
  OBVIOUS
<1> HIDE DEF step
<1>6. request' \in [Requests -> AgentRequest] /\ Answering'
  BY <1>1, <1>4, <1>5, GoMoves
<1> QED
  BY <1>4, <1>6, AgentStepKeeps

LEMMA TerminateTurnKeeps ==
  ASSUME AgentInv, NEW t \in Requests,
         TerminateTurn(t) \/ UNCHANGED <<turns, transcript, request>>
  PROVE  AgentInv'
<1>1. (turns' = Terminated(t) \/ turns' = turns) /\ transcript' = transcript /\ request' = request
  BY DEF TerminateTurn
<1>2. TurnsGrow(t) /\ \A u \in Requests : TurnRecorded(u)'
  BY <1>1, EndKeeps
<1>3. turns[t] = None => turns' = turns
  BY <1>1 DEF Terminated, Active
<1>4. \A u \in Requests : turns[u] = None => turns'[u] = None
  BY <1>2, <1>3 DEF TurnsGrow
<1>5. Answering'
  BY <1>1, <1>2, <1>4, AgentFacts DEF Answering, At, TurnsGrow
<1> QED
  BY <1>1, <1>2, <1>5, AgentStepKeeps, AgentFacts

\* What the session remembers of its turns, and what it has stored of them, agree
\* in every state of every session.
THEOREM AgentInvariance == AgentSpec => []AgentInv
<1>1. AgentInit => AgentInv
  <2> SUFFICES ASSUME AgentInit PROVE AgentInv
    OBVIOUS
  <2>1. NoPrompt \in AgentRequest
    BY DEF NoPrompt, AgentRequest
  <2>2. transcript = <<>> /\ DOMAIN transcript = {} /\ \A role, t : Said(role, t) = {}
    BY DEF AgentInit, Said
  <2>3. /\ turns \in [Requests -> AgentTurnType \cup {None}] /\ \A t \in Requests : turns[t] = None
        /\ request \in [Requests -> AgentRequest] /\ \A r \in Requests : request[r] = NoPrompt
    BY <2>1 DEF AgentInit
  <2>4. AgentTypeOK
    BY <2>2, <2>3 DEF AgentTypeOK
  <2>5. Answering
    BY <2>3 DEF Answering, NoPrompt, At
  <2>6. \A t \in Requests : TurnRecorded(t)
    BY <2>2, <2>3 DEF TurnRecorded
  <2> QED
    BY <2>4, <2>5, <2>6 DEF AgentInv
<1>2. AgentInv /\ [AgentNext]_agentVars => AgentInv'
  <2> SUFFICES ASSUME AgentInv, [AgentNext]_agentVars PROVE AgentInv'
    OBVIOUS
  <2>1. ASSUME NEW r \in Requests, NEW q \in Prompts, Stream(r, q)
        PROVE  AgentInv'
    BY <2>1, StreamKeeps
  <2>2. ASSUME NEW r \in Requests,
               StartStream(r) \/ EndOther(r) \/ Restart(r) \/ GenerateAnswer(r)
                 \/ CompleteTurn(r) \/ Abandon(r) \/ TerminateTurn(r)
        PROVE  AgentInv'
    BY <2>2, BeginsKeeps, EndsTurnKeeps, GenerateAnswerKeeps, CompleteTurnKeeps, TerminateTurnKeeps
  <2>3. CASE UNCHANGED agentVars
    <3>1. UNCHANGED <<turns, transcript, request>>
      BY <2>3 DEF agentVars, session
    <3>2. CASE Requests # {}
      BY <3>1, <3>2, TerminateTurnKeeps
    <3>3. CASE Requests = {}
      BY <3>1, <3>3 DEF AgentInv, AgentTypeOK, Answering
    <3> QED
      BY <3>2, <3>3
  <2> QED
    BY <2>1, <2>2, <2>3 DEF AgentNext
<1> QED
  BY <1>1, <1>2, PTL DEF AgentSpec

\* A turn is asked once, and answered once if it is completed and not at all if it
\* is not; a client that was given an answer has a turn that stays completed.
THEOREM AgentCorrect == AgentSpec => []OneAnswerPerTurn
<1>1. AgentInv => OneAnswerPerTurn
  <2> SUFFICES ASSUME AgentInv PROVE OneAnswerPerTurn
    OBVIOUS
  <2>1. ASSUME NEW t \in Requests
        PROVE  /\ turns[t] # None <=> \E i \in DOMAIN transcript : Said("user", t) = {i}
               /\ IF turns[t] # None /\ turns[t].status = "completed"
                  THEN \E i, j \in DOMAIN transcript :
                         i < j /\ Said("user", t) = {i} /\ Said("assistant", t) = {j}
                  ELSE Said("assistant", t) = {}
    BY DEF AgentInv, TurnRecorded
  <2>2. \A r \in Requests : At(r, "ok") => turns[request[r].turn].status = "completed"
    BY DEF AgentInv, Answering
  <2> QED
    BY <2>1, <2>2 DEF OneAnswerPerTurn
<1> QED
  BY <1>1, AgentInvariance, PTL
=============================================================================
