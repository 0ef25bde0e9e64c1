------------------------- MODULE KnowledgeLifecycle -------------------------
(***************************************************************************)
(* Governance of one published knowledge item: trash, restore, rollback    *)
(* and purge, with their operation receipts, over the two stores an item   *)
(* lives in.  Code: src/src/publication/service.ts (rollback, trash,       *)
(* restore, purge, changeLifecycle) and src/src/publication/repository.ts. *)
(*                                                                         *)
(* A request is one HTTP call; every await is a step.  What the index job  *)
(* does is the module KnowledgeIndex, how a revision is published is the   *)
(* module ReviewPublication; here its two writes are two steps, and a revision   *)
(* whose content was written may never be published.                      *)
(***************************************************************************)
EXTENDS Naturals, FiniteSets

CONSTANTS
  Revisions,    \* revisions the item may have
  First,        \* the revision it starts with
  Admins,       \* administrators that act
  Requests,     \* one HTTP request each
  Calls,        \* the calls requests make (see CallType)
  Numbers,      \* operation numbers chosen by clients
  MaxCrashes,   \* bound on isolates that die and awaited calls that fail
  None

CallType ==
  [kind : {"trash", "restore", "purge"}, to : {None}, by : Admins, number : Numbers \cup {None}]
  \cup
  [kind : {"rollback"}, to : Revisions, by : Admins, number : Numbers \cup {None}]

\* Answers: the item, the revision rolled back to and from, or what a purge
\* destroyed.
AnswerType ==
  [status : {"active", "trashed"}, revision : Revisions]
  \cup [to : Revisions, from : Revisions]
  \cup [purged : Nat]
ErrorType == [error : {"operation_conflict", "target_invalid", "conflict",
                       "retention_active", "unavailable"}]

ASSUME LifecycleAssumption ==
  /\ First \in Revisions /\ IsFiniteSet(Revisions)
  /\ Calls \subseteq CallType
  /\ MaxCrashes \in Nat
  /\ None \notin Revisions \cup Numbers \cup Calls \cup AnswerType \cup ErrorType
  /\ None \notin [call : Calls, answer : AnswerType]

VARIABLES
  \* D1
  status,     \* knowledge_items.status, "gone" once the row is deleted
  current,    \* knowledge_items.current_revision_id
  revisions,  \* its revisions
  era,        \* how often it was trashed: updated_at of a trashed item
  ripe,       \* trashed for longer than TRASH_RETENTION_MS
  receipts,   \* knowledge_lifecycle_operation_receipts
  \* Durable Object
  content,    \* revisions whose Markdown it holds
  \* requests
  pc, call,
  seen,       \* what a request has read of the item; a purge's plan
  reply,
  crashes,
  \* history
  acted,      \* the requests whose own batch changed the item
  published   \* every revision the item ever had

rows  == <<status, current, revisions, era, ripe>>
local == <<pc, call, seen, reply>>
hist  == <<acted, published>>
vars  == <<rows, receipts, content, local, crashes, hist>>

Item == [status |-> status, current |-> current, era |-> era, revs |-> revisions]
ItemType ==
  [status : {"active", "trashed", "gone"}, current : Revisions \cup {None},
   era : Nat, revs : SUBSET Revisions]

Steps == {"idle", "lookup", "read", "batch", "confirm", "failed", "index", "prepare",
          "plan", "remove", "finalize", "record", "refused", "done"}

TypeOK ==
  /\ status \in {"active", "trashed", "gone"}
  /\ current \in Revisions \cup {None}
  /\ revisions \subseteq Revisions
  /\ era \in Nat /\ ripe \in BOOLEAN
  /\ receipts \in [Numbers -> [call : Calls, answer : AnswerType] \cup {None}]
  /\ content \subseteq Revisions
  /\ pc \in [Requests -> Steps]
  /\ call \in [Requests -> Calls \cup {None}]
  /\ seen \in [Requests -> ItemType]
  /\ reply \in [Requests -> AnswerType \cup ErrorType \cup {None}]
  /\ crashes \in 0..MaxCrashes
  /\ acted \subseteq Requests /\ published \subseteq Revisions

Init ==
  /\ status = "active" /\ current = First /\ revisions = {First}
  /\ era = 0 /\ ripe = FALSE
  /\ receipts = [n \in Numbers |-> None]
  /\ content = {First}
  /\ pc = [w \in Requests |-> "idle"]
  /\ call = [w \in Requests |-> None]
  /\ seen = [w \in Requests |-> Item]
  /\ reply = [w \in Requests |-> None]
  /\ crashes = 0 /\ acted = {} /\ published = {First}

-----------------------------------------------------------------------------
(* How a request moves on. *)

Goto(w, step) == pc' = [pc EXCEPT ![w] = step] /\ UNCHANGED <<call, seen, reply>>

GotoSeeing(w, step) ==
  /\ pc' = [pc EXCEPT ![w] = step]
  /\ seen' = [seen EXCEPT ![w] = Item]
  /\ UNCHANGED <<call, reply>>

Say(w, step, r) ==
  /\ pc' = [pc EXCEPT ![w] = step]
  /\ reply' = [reply EXCEPT ![w] = r]
  /\ UNCHANGED <<call, seen>>

Finish(w, r) == Say(w, "done", r)

\* An error is only told after the receipt was looked for again.
Refuse(w, code) == Say(w, "refused", [error |-> code])

\* With an operation number the answer is still to be recorded.
Settle(w, answer) ==
  Say(w, IF call[w].number = None THEN "done" ELSE "record", answer)

Recorded(w) == call[w].number # None /\ receipts[call[w].number] # None

Replay(w) ==
  LET r == receipts[call[w].number] IN
  IF r.call = call[w] THEN Finish(w, r.answer)
  ELSE Finish(w, [error |-> "operation_conflict"])

-----------------------------------------------------------------------------
(* Arrival and replay *)

Arrive(w, c) ==
  /\ pc[w] = "idle"
  /\ pc' = [pc EXCEPT ![w] = "lookup"]
  /\ call' = [call EXCEPT ![w] = c]
  /\ UNCHANGED <<rows, receipts, content, seen, reply, crashes, hist>>

Lookup(w) ==
  /\ pc[w] = "lookup"
  /\ IF Recorded(w) THEN Replay(w)
     ELSE Goto(w, IF call[w].kind = "purge" THEN "prepare" ELSE "read")
  /\ UNCHANGED <<rows, receipts, content, crashes, hist>>

Refused(w) ==
  /\ pc[w] = "refused"
  /\ IF Recorded(w) THEN Replay(w) ELSE Finish(w, reply[w])
  /\ UNCHANGED <<rows, receipts, content, crashes, hist>>

-----------------------------------------------------------------------------
(* trash, restore and rollback *)

Goal(c) == IF c.kind = "trash" THEN "trashed" ELSE "active"

ItemAnswer == [status |-> status, revision |-> current]

\* findGovernedItem: an item that already has the wanted status is the answer.
ReadItem(w) ==
  /\ pc[w] = "read" /\ call[w].kind \in {"trash", "restore"}
  /\ IF status = "gone" THEN Refuse(w, "target_invalid")
     ELSE IF status = Goal(call[w]) THEN Say(w, "index", ItemAnswer)
     ELSE GotoSeeing(w, "batch")
  /\ UNCHANGED <<rows, receipts, content, crashes, hist>>

ReadTarget(w) ==
  LET to == call[w].to IN
  /\ pc[w] = "read" /\ call[w].kind = "rollback"
  /\ IF status # "active" \/ to \notin revisions THEN Refuse(w, "target_invalid")
     ELSE IF current = to THEN Refuse(w, "conflict")
     ELSE GotoSeeing(w, "batch")
  /\ UNCHANGED <<rows, receipts, content, crashes, hist>>

\* The guards of the UPDATE: the item is still as it was read.
Unchanged(w) == status = seen[w].status /\ current = seen[w].current

\* What a batch that finds the item unchanged writes.
Write(c) ==
  /\ IF c.kind = "rollback"
     THEN current' = c.to /\ UNCHANGED <<status, era>>
     ELSE /\ status' = Goal(c)
          /\ era' = IF c.kind = "trash" THEN era + 1 ELSE era
          /\ UNCHANGED current
  /\ ripe' = FALSE
  /\ UNCHANGED revisions

\* A batch whose guard fails writes nothing and does not fail.
Commit(w) ==
  IF Unchanged(w)
  THEN Write(call[w]) /\ acted' = acted \cup {w}
  ELSE UNCHANGED <<rows, acted>>

Batch(w) ==
  /\ pc[w] = "batch"
  /\ Commit(w)
  /\ Goto(w, "confirm")
  /\ UNCHANGED <<receipts, content, crashes, published>>

\* The batch throws: it failed, or only its reply was lost.
BatchThrows(w) ==
  /\ pc[w] = "batch"
  /\ crashes < MaxCrashes /\ crashes' = crashes + 1
  /\ Commit(w) \/ UNCHANGED <<rows, acted>>
  /\ Goto(w, "failed")
  /\ UNCHANGED <<receipts, content, published>>

\* The answer is made of the item as it is now.
Confirm(w) ==
  LET c == call[w] IN
  /\ pc[w] = "confirm"
  /\ IF c.kind = "rollback"
     THEN IF current = c.to THEN Say(w, "index", [to |-> c.to, from |-> seen[w].current])
          ELSE Refuse(w, "conflict")
     ELSE IF status = Goal(c) THEN Say(w, "index", ItemAnswer)
          ELSE Refuse(w, "conflict")
  /\ UNCHANGED <<rows, receipts, content, crashes, hist>>

\* The catch blocks: a status that is the wanted one is the answer, a rollback
\* is never answered as a success.
AfterFailure(w) ==
  LET c == call[w] IN
  /\ pc[w] = "failed"
  /\ IF c.kind = "rollback"
     THEN Refuse(w, IF current = c.to THEN "conflict" ELSE "unavailable")
     ELSE IF status = Goal(c) THEN Say(w, "index", ItemAnswer)
          ELSE Refuse(w, "unavailable")
  /\ UNCHANGED <<rows, receipts, content, crashes, hist>>

\* processIndexJob.
Index(w) ==
  /\ pc[w] = "index"
  /\ Settle(w, reply[w])
  /\ UNCHANGED <<rows, receipts, content, crashes, hist>>

-----------------------------------------------------------------------------
(* purge *)

\* preparePurge.  An item that is gone was purged: its tombstone is the only
\* way for it to go.
Prepare(w) ==
  /\ pc[w] = "prepare"
  /\ IF status = "gone" THEN Settle(w, [purged |-> 0])
     ELSE IF status # "trashed" THEN Refuse(w, "target_invalid")
     ELSE IF ~ripe THEN Refuse(w, "retention_active")
     ELSE GotoSeeing(w, "plan")
  /\ UNCHANGED <<rows, receipts, content, crashes, hist>>

\* Mutant: only the current revision is planned.
PlannedCurrent(w) == {seen[w].current} \cap revisions

\* The revisions are read after the item.
Planned(w) == revisions

Plan(w) ==
  /\ pc[w] = "plan"
  /\ IF seen[w].current \in revisions
     THEN /\ pc' = [pc EXCEPT ![w] = "remove"]
          /\ seen' = [seen EXCEPT ![w].revs = Planned(w)]
          /\ UNCHANGED <<call, reply>>
     ELSE Refuse(w, "conflict")
  /\ UNCHANGED <<rows, receipts, content, crashes, hist>>

\* removePublishedContent, one path at a time.
Remove(w, r) ==
  /\ pc[w] = "remove"
  /\ r \in seen[w].revs \cap content
  /\ content' = content \ {r}
  /\ UNCHANGED <<rows, receipts, local, crashes, hist>>

\* Mutant: the content is left for later.
RemovedLater(w) == TRUE

Removed(w) == seen[w].revs \cap content = {}

AllRemoved(w) ==
  /\ pc[w] = "remove" /\ Removed(w)
  /\ Goto(w, "finalize")
  /\ UNCHANGED <<rows, receipts, content, crashes, hist>>

\* finalizePurge: every statement is guarded by the status, updated_at and
\* current revision of the plan.  A batch that throws is a conflict to the
\* caller, whether or not it was written.
CanPurge(w) ==
  status = "trashed" /\ era = seen[w].era /\ current = seen[w].current

Finalize(w) ==
  /\ pc[w] = "finalize"
  /\ \/ /\ CanPurge(w)
        /\ status' = "gone" /\ current' = None /\ revisions' = {}
        /\ acted' = acted \cup {w}
        /\ Settle(w, [purged |-> Cardinality(seen[w].revs)]) \/ Refuse(w, "conflict")
     \/ UNCHANGED <<status, current, revisions, acted>> /\ Refuse(w, "conflict")
  /\ UNCHANGED <<era, ripe, receipts, content, crashes, published>>

-----------------------------------------------------------------------------
\* Mutant: the last answer of an operation stays.
StoredReplacing(w) == [call |-> call[w], answer |-> reply[w]]

\* INSERT ... ON CONFLICT DO NOTHING, then read back.
Stored(w) ==
  LET r == receipts[call[w].number] IN
  IF r = None THEN [call |-> call[w], answer |-> reply[w]] ELSE r

Record(w) ==
  LET s == Stored(w) IN
  /\ pc[w] = "record"
  /\ receipts' = [receipts EXCEPT ![call[w].number] = s]
  /\ IF s.call = call[w] THEN Finish(w, s.answer)
     ELSE Finish(w, [error |-> "operation_conflict"])
  /\ UNCHANGED <<rows, content, crashes, hist>>

\* A call fails or the isolate dies; what was written stays.
Crash(w) ==
  /\ crashes < MaxCrashes /\ crashes' = crashes + 1
  /\ pc[w] \notin {"idle", "done"}
  /\ Finish(w, [error |-> "unavailable"])
  /\ UNCHANGED <<rows, receipts, content, hist>>

-----------------------------------------------------------------------------
(* Around governance *)

\* Review writes the Markdown of a revision before its row, and is not held up
\* by what becomes of the item in between.
Persist(r) ==
  /\ r \notin published
  /\ content' = content \cup {r}
  /\ UNCHANGED <<rows, receipts, local, crashes, hist>>

Publish(r) ==
  /\ status = "active" /\ r \in content \ published
  /\ revisions' = revisions \cup {r} /\ current' = r
  /\ published' = published \cup {r}
  /\ UNCHANGED <<status, era, ripe, receipts, content, local, crashes, acted>>

\* TRASH_RETENTION_MS have passed.
Ripen ==
  /\ status = "trashed" /\ ~ripe
  /\ ripe' = TRUE
  /\ UNCHANGED <<status, current, revisions, era, receipts, content, local, crashes, hist>>

RequestStep(w) ==
  \/ Lookup(w) \/ Refused(w)
  \/ ReadItem(w) \/ ReadTarget(w) \/ Batch(w) \/ BatchThrows(w)
  \/ Confirm(w) \/ AfterFailure(w) \/ Index(w)
  \/ Prepare(w) \/ Plan(w) \/ (\E r \in Revisions : Remove(w, r)) \/ AllRemoved(w) \/ Finalize(w)
  \/ Record(w)

Next ==
  \/ \E w \in Requests : RequestStep(w) \/ Crash(w) \/ \E c \in Calls : Arrive(w, c)
  \/ \E r \in Revisions : Persist(r) \/ Publish(r)
  \/ Ripen

Spec == Init /\ [][Next]_vars

-----------------------------------------------------------------------------
(* Properties *)

\* A purge is whole: when the item is gone, nothing of any revision it ever had
\* is left in the other store, also of those published or rolled back from
\* after some purge was planned.
PurgeIsWhole == status = "gone" => content \cap published = {}

\* An item is only purged from a retention period it has sat out: a restore
\* starts the period again, however old the purge's plan is.
PurgeRespectsRetention ==
  [][status # "gone" /\ status' = "gone" => status = "trashed" /\ ripe]_vars

Answered(w) == pc[w] = "done" /\ reply[w] \in AnswerType

\* Every attempt of an operation that is answered is answered the same.
SameOperationSameAnswer ==
  \A v, w \in Requests :
    Answered(v) /\ Answered(w) /\ call[v] = call[w] /\ call[v].number # None
      => reply[v] = reply[w]

\* A purge tells what was destroyed: the item is gone, the count is that of all
\* the revisions it ever had or zero, and no two operations claim the same
\* destruction.
PurgeTellsWhatItDestroyed ==
  \A w \in Requests :
    Answered(w) /\ call[w].kind = "purge" =>
      /\ status = "gone"
      /\ reply[w].purged \in {0, Cardinality(published)}
      /\ \A v \in Requests \ {w} :
           Answered(v) /\ call[v].kind = "purge" /\ reply[v].purged > 0 /\ reply[w].purged > 0
             => call[v] = call[w] /\ call[w].number # None

\* migrations/0070_knowledge_lifecycle_operation_receipts.sql:3: "a lost response
\* can be retried under the same number and replayed from its original receipt
\* instead of acting twice".
OperationActsOnce ==
  \A v, w \in acted :
    v # w /\ call[v] = call[w] => call[v].number = None
=============================================================================
