-------------------------------- MODULE Inbox --------------------------------
(***************************************************************************)
(* One inbox item of a member: it is captured under a client key, archived *)
(* and taken out again, and promoted to a task.  Code: src/src/inbox       *)
(* /service.ts, repository.ts and task-promotion.ts.  The promotion to     *)
(* knowledge is not configured in src/src/app.ts and always refused.       *)
(*                                                                         *)
(* Each step of a request is one statement or batch of D1; a client names  *)
(* the version its page showed.  A request that dies takes no more steps.  *)
(* A request draws a fresh id for the row it inserts: its own name.        *)
(***************************************************************************)
EXTENDS Naturals, FiniteSets, Requests

CONSTANTS
  Others,    \* the member's other tasks
  TaskLimit, \* APP_CONFIG.maxTasksPerMember
  MaxInboxClock    \* bound on the clock

VARIABLES
  inboxClock,  \* the clock
  item,  \* the row of the client key, or None
  tasks  \* the member's tasks: those of the item and others

inbox == <<inboxClock, item, tasks>>
inboxVars == <<inbox, request>>

ItemVersions == Nat

ItemType ==
  [id : Requests, version : ItemVersions, status : {"inbox", "archived", "promoted"},
   task : Requests \cup {None}]   \* promoted_task_id

ASSUME InboxAssumption ==
  /\ MaxInboxClock \in Nat
  /\ None \notin Requests \cup Others \cup ItemType
  /\ Requests \cap Others = {}

InboxRequest ==
  [op : {"none", "capture", "file", "promote"},
   at : {"new", "key", "insert", "captured", "get", "update", "still", "batch", "current",
         "full", "target", "ok", "missing", "conflict", "invalid", "limited"},
   named : ItemVersions,             \* expectedUpdatedAt
   read : ItemVersions,              \* the version that was read
   stamp : ItemVersions,             \* the version to write
   to : {"inbox", "archived"},
   item : Requests \cup {None},      \* the item a capture is answered with
   task : Requests \cup {None},      \* the task a promotion is answered with
   promoted : BOOLEAN]               \* whether it is this promotion's

InboxTypeOK ==
  /\ inboxClock \in 0..MaxInboxClock
  /\ item \in ItemType \cup {None}
  /\ tasks \subseteq Requests \cup Others
  /\ request \in [Requests -> InboxRequest]

NoCapture ==
  [op |-> "none", at |-> "new", named |-> 0, read |-> 0, stamp |-> 0,
   to |-> "inbox", item |-> None, task |-> None, promoted |-> FALSE]

InboxInit ==
  /\ inboxClock = 0 /\ item = None /\ tasks = {}
  /\ request = [r \in Requests |-> NoCapture]

Looks(r, change) == Do(r, change) /\ UNCHANGED inbox

Captured == item # None

\* nextPlanningVersion
NextItemVersion(version) == IF inboxClock > version THEN inboxClock ELSE version + 1

-----------------------------------------------------------------------------
(* create. *)

Capture(r) ==
  /\ At(r, "new")
  /\ Looks(r, [NoCapture EXCEPT !.op = "capture", !.at = "key"])

AnswerItem(r) == [request[r] EXCEPT !.at = "ok", !.item = item.id]

FindByClientKey(r) ==
  /\ At(r, "key")
  /\ Looks(r, IF Captured THEN AnswerItem(r)
              ELSE [request[r] EXCEPT !.at = "insert", !.stamp = inboxClock])

\* UNIQUE(member_id, client_key)
KeyFree == ~Captured

\* INSERT OR IGNORE
InsertItem(r) ==
  /\ At(r, "insert")
  /\ item' = IF KeyFree
             THEN [id |-> r, version |-> request[r].stamp, status |-> "inbox", task |-> None]
             ELSE item
  /\ Go(r, "captured")
  /\ UNCHANGED <<inboxClock, tasks>>

FindCaptured(r) ==
  /\ At(r, "captured")
  /\ Looks(r, AnswerItem(r))

-----------------------------------------------------------------------------
(* updateStatus. *)

File(r, to) ==
  /\ At(r, "new") /\ Captured
  /\ Looks(r, [NoCapture EXCEPT !.op = "file", !.at = "get", !.named = item.version, !.to = to])

ReadForFile(r) ==
  /\ At(r, "get") /\ request[r].op = "file"
  /\ Looks(r, IF item.status = "promoted" THEN [request[r] EXCEPT !.at = "invalid"]
              ELSE IF item.version # request[r].named THEN [request[r] EXCEPT !.at = "conflict"]
              ELSE [request[r] EXCEPT !.at = "update", !.stamp = NextItemVersion(item.version)])

Filed == {"inbox", "archived"}

UpdateItem(r) ==
  /\ At(r, "update")
  /\ IF item.version = request[r].named /\ item.status \in Filed
     THEN /\ item' = [item EXCEPT !.status = request[r].to, !.version = request[r].stamp]
          /\ Go(r, "ok")
     ELSE Go(r, "conflict") /\ UNCHANGED item
  /\ UNCHANGED <<inboxClock, tasks>>

-----------------------------------------------------------------------------
(* promoteTask. *)

PromoteItem(r) ==
  /\ At(r, "new") /\ Captured
  /\ Looks(r, [NoCapture EXCEPT !.op = "promote", !.at = "get", !.named = item.version])

\* The client sends a promotion again whose answer it never saw.
PromoteAgain(r, q) ==
  /\ At(r, "new") /\ request[q].op = "promote"
  /\ Looks(r, [NoCapture EXCEPT !.op = "promote", !.at = "get", !.named = request[q].named])

\* An older version may be named of an item that has its task.
ReadForPromotion(r) ==
  /\ At(r, "get") /\ request[r].op = "promote"
  /\ Looks(r, IF item.status = "promoted" /\ item.task = None
              THEN [request[r] EXCEPT !.at = "invalid"]
              ELSE IF item.task = None /\ item.version # request[r].named
              THEN [request[r] EXCEPT !.at = "conflict"]
              ELSE [request[r] EXCEPT !.at = IF item.task = None THEN "batch" ELSE "current",
                                      !.read = item.version,
                                      !.stamp = NextItemVersion(item.version)])

\* Mutant: the item is promoted whatever it has become.
UnpromotedAlways(r) == item.id \in Requests

\* The condition of the insert of the task, and of the update of the item.
Unpromoted(r) == item.version = request[r].read /\ item.status \in Filed /\ item.task = None

PromotionBatch(r) ==
  /\ At(r, "batch")
  /\ IF Unpromoted(r) /\ Cardinality(tasks) < TaskLimit
     THEN /\ tasks' = tasks \cup {r}
          /\ item' = [item EXCEPT !.status = "promoted", !.task = r, !.version = request[r].stamp]
          /\ Do(r, [request[r] EXCEPT !.at = "current", !.promoted = TRUE])
     ELSE Go(r, "current") /\ UNCHANGED <<tasks, item>>
  /\ UNCHANGED inboxClock

ReadPromoted(r) ==
  /\ At(r, "current")
  /\ Looks(r, IF item.task # None
              THEN [request[r] EXCEPT !.at = "target", !.task = item.task]
              ELSE [request[r] EXCEPT !.at = IF item.version = request[r].read
                                             THEN "full" ELSE "conflict"])

\* The item is as it was: the limit is to blame, unless a task has gone since.
CountForPromotion(r) ==
  /\ At(r, "full")
  /\ Looks(r, [request[r] EXCEPT !.at = IF Cardinality(tasks) >= TaskLimit
                                        THEN "limited" ELSE "conflict"])

FindTarget(r) ==
  /\ At(r, "target")
  /\ Looks(r, [request[r] EXCEPT !.at = IF request[r].task \in tasks THEN "ok" ELSE "missing"])

-----------------------------------------------------------------------------
(* What the tasks do meanwhile. *)

\* The member's other tasks come.
AddTask(t) ==
  /\ t \in Others \ tasks
  /\ tasks' = tasks \cup {t}
  /\ UNCHANGED <<inboxClock, item, request>>

\* Any of them goes; the item forgets its task (ON DELETE SET NULL).
DropTask(t) ==
  /\ t \in tasks
  /\ tasks' = tasks \ {t}
  /\ item' = IF Captured /\ item.task = t THEN [item EXCEPT !.task = None] ELSE item
  /\ UNCHANGED <<inboxClock, request>>

TickInbox ==
  /\ inboxClock < MaxInboxClock
  /\ inboxClock' = inboxClock + 1
  /\ UNCHANGED <<item, tasks, request>>

InboxNext ==
  \/ \E r \in Requests :
       \/ Capture(r) \/ FindByClientKey(r) \/ InsertItem(r) \/ FindCaptured(r)
       \/ (\E to \in Filed : File(r, to)) \/ ReadForFile(r) \/ UpdateItem(r)
       \/ PromoteItem(r) \/ (\E q \in Requests : PromoteAgain(r, q))
       \/ ReadForPromotion(r) \/ PromotionBatch(r) \/ ReadPromoted(r)
       \/ CountForPromotion(r) \/ FindTarget(r)
  \/ \E t \in Requests \cup Others : AddTask(t) \/ DropTask(t)
  \/ TickInbox

InboxSpec == InboxInit /\ [][InboxNext]_inboxVars

-----------------------------------------------------------------------------
Promoted(r) == request[r].op = "promote" /\ request[r].promoted

\* An item becomes one task in its life: promotions, repeated promotions and
\* moves of the item that overlap make no second one, not even after the first
\* was deleted, and none is answered with a task that is not the item's.  The two
\* are of one mind: the item is promoted as soon as there is a task of it, and
\* names the task for as long as there is one.
OneTaskPerItem ==
  /\ \A r, q \in Requests : Promoted(r) /\ Promoted(q) => r = q
  /\ \A r \in Requests :
       /\ request[r].op = "promote" /\ At(r, "ok") => Promoted(request[r].task)
       /\ r \in tasks => Captured /\ item.status = "promoted" /\ item.task = r
       /\ Captured /\ item.task = r => r \in tasks
=============================================================================
