-------------------------------- MODULE Tasks --------------------------------
(***************************************************************************)
(* One task of one member: it is created and deleted under an id its       *)
(* client chose, its details are saved, its status, progress and tags are  *)
(* set, and each change of status is notified.  Code: src/src/tasks        *)
(* /service.ts and repository.ts, the trigger of migration 0068, and emit  *)
(* of src/src/notifications/service.ts.  The links, subtasks and           *)
(* dependencies of the task are left out.                                  *)
(*                                                                         *)
(* A client names the version, or the status, its page showed when it was  *)
(* loaded; its request arrives at any later time.  Each step of a request  *)
(* is one statement or batch of D1.  A request that dies takes no more     *)
(* steps.                                                                  *)
(***************************************************************************)
EXTENDS Naturals, FiniteSets, Requests

CONSTANTS
  TaskTargets,  \* the statuses that are asked for
  TagLists,     \* the tag lists that are asked for
  NoTags,       \* the one a task begins with
  DrainLimit,   \* changes one request notifies
  MaxClock      \* bound on the clock

VARIABLES
  clock,
  task,      \* the row, or None
  receipt,   \* whether the task has a tombstone
  pending,   \* changes of status that are not marked as delivered
  delivered, \* those that are
  notices    \* deduplication keys of the member's notifications

board == <<clock, task, receipt, pending, delivered, notices>>
tasksVars == <<board, request>>

TaskStatuses == {"todo", "doing", "blocked", "done", "canceled"}

TRANSITIONS ==
  [s \in TaskStatuses |->
     CASE s = "todo" -> {"doing", "done", "canceled"}
       [] s = "doing" -> {"todo", "blocked", "done", "canceled"}
       [] s = "blocked" -> {"todo", "doing", "done", "canceled"}
       [] OTHER -> {"todo"}]

\* Every write of a request adds at most one to what the clock shows.
Versions == 0..(MaxClock + Cardinality(Requests))

\* Progress is 0 or 100 percent.
Progress == {0, 100}

TaskType ==
  [status : TaskStatuses, change : 0..Cardinality(Requests), version : Versions,
   text : Requests \cup {None}, progress : Progress, tags : TagLists]

ASSUME TasksAssumption ==
  /\ IsFiniteSet(Requests)
  /\ MaxClock \in Nat /\ DrainLimit \in Nat
  /\ TaskTargets \subseteq TaskStatuses /\ NoTags \in TagLists
  /\ None \notin TaskType /\ None \notin Versions

\* A change of status; with the change's number it is its deduplication key.
Changes == [from : TaskStatuses, to : TaskStatuses, change : 1..Cardinality(Requests)]

TaskSteps ==
  {"new", "find", "count", "insert", "reread", "save", "shown", "recheck", "remove", "set",
   "current", "list", "drain", "notify", "mark", "advance", "compare", "replace", "retag"}

TaskAnswers == {"ok", "missing", "conflict", "invalid", "limited"}

TaskRequest ==
  [op : {"none", "create", "save", "delete", "set_status", "progress", "tags"},
   at : TaskSteps \cup TaskAnswers,
   named : Versions \cup {None},    \* expectedUpdatedAt
   base : Requests \cup {None},     \* the details the client's page showed
   text : Requests \cup {None},     \* the details to save
   from : TaskStatuses,             \* expectedStatus
   to : TaskStatuses,
   progress : Progress,
   tags : TagLists,
   read : Versions,                 \* the version that was read
   stamp : Versions,                \* the version to write
   won : BOOLEAN,                   \* whether its change of status was made
   key : Changes \cup {None},       \* that change
   full : BOOLEAN,                  \* whether it listed no fewer than DrainLimit
   due : SUBSET Changes,            \* changes it has yet to notify
   intent : Changes \cup {None}]    \* the one under way

TasksTypeOK ==
  /\ clock \in 0..MaxClock
  /\ task \in TaskType \cup {None}
  /\ receipt \in BOOLEAN
  /\ pending \subseteq Changes /\ delivered \subseteq Changes /\ notices \subseteq Changes
  /\ request \in [Requests -> TaskRequest]

NoIntent ==
  [op |-> "none", at |-> "new", named |-> None, base |-> None, text |-> None,
   from |-> "todo", to |-> "todo", progress |-> 0, tags |-> NoTags, read |-> 0, stamp |-> 0,
   won |-> FALSE, key |-> None, full |-> FALSE, due |-> {}, intent |-> None]

NewTask(text, version) ==
  [status |-> "todo", change |-> 0, version |-> version, text |-> text,
   progress |-> 0, tags |-> NoTags]

\* The task is there, as it was created, or is not.
TasksInit ==
  /\ clock = 0 /\ task \in {None, NewTask(None, 0)} /\ receipt = FALSE
  /\ pending = {} /\ delivered = {} /\ notices = {}
  /\ request = [r \in Requests |-> NoIntent]

Later(m, n) == IF m >= n THEN m ELSE n

\* nextVersion
NextVersion(version) == Later(clock, version + 1)

\* A request that only reads.
Reads(r, change) == Do(r, change) /\ UNCHANGED board

Moves(r, step) == Go(r, step) /\ UNCHANGED board

Exists == task # None

\* requireOwned: the first step of every request but a deletion's.
Found(r, op) == At(r, "find") /\ request[r].op = op

NotFound(r) ==
  /\ At(r, "find") /\ request[r].op # "create"
  /\ ~Exists
  /\ Moves(r, "missing")

-----------------------------------------------------------------------------
(* create and delete. *)

CreateTask(r) ==
  /\ At(r, "new")
  /\ Reads(r, [NoIntent EXCEPT !.op = "create", !.at = "find"])

FindCreated(r) ==
  /\ Found(r, "create")
  /\ Moves(r, IF Exists THEN "ok" ELSE "count")

\* countByMember: the member's other tasks fill the limit, or not.
CountTasks(r) ==
  /\ At(r, "count")
  /\ \/ Moves(r, "limited")
     \/ Reads(r, [request[r] EXCEPT !.at = "insert", !.stamp = clock])

InsertTask(r) ==
  /\ At(r, "insert")
  /\ task' = IF Exists THEN task ELSE NewTask(r, request[r].stamp)
  /\ Go(r, "reread")
  /\ UNCHANGED <<clock, receipt, pending, delivered, notices>>

ReadCreated(r) ==
  /\ At(r, "reread")
  /\ Moves(r, IF Exists THEN "ok" ELSE "missing")

DeleteTask(r) ==
  /\ At(r, "new") /\ Exists
  /\ Reads(r, [NoIntent EXCEPT !.op = "delete", !.at = "remove", !.named = task.version])

\* The batch of delete; the rows that hang from the task go with it.  A
\* tombstone is kept for longer than any request lasts.
RemoveTask(r) ==
  /\ At(r, "remove")
  /\ IF Exists /\ task.version = request[r].named
     THEN /\ task' = None /\ receipt' = TRUE
          /\ pending' = {} /\ delivered' = {}
          /\ Go(r, "ok")
     ELSE /\ Go(r, IF Exists THEN "conflict" ELSE IF receipt THEN "ok" ELSE "missing")
          /\ UNCHANGED <<task, receipt, pending, delivered>>
  /\ UNCHANGED <<clock, notices>>

-----------------------------------------------------------------------------
(* update, setProgress and replaceTags. *)

SaveTask(r) ==
  /\ At(r, "new") /\ Exists
  /\ Reads(r, [NoIntent EXCEPT !.op = "save", !.at = "find", !.named = task.version,
                               !.base = task.text, !.text = r])

\* The client sends a save again whose answer it never saw.
SaveAgain(r, q) ==
  /\ At(r, "new") /\ request[q].op = "save"
  /\ Reads(r, [request[q] EXCEPT !.at = "find"])

ReadForSave(r) ==
  /\ Found(r, "save") /\ Exists
  /\ \/ task.text = request[r].text /\ Moves(r, "ok")
     \/ /\ task.text # request[r].text /\ task.version # request[r].named
        /\ Moves(r, "conflict")
     \/ /\ task.text # request[r].text /\ task.version = request[r].named
        /\ Reads(r, [request[r] EXCEPT !.at = "save", !.stamp = NextVersion(task.version)])

\* The row a write left is read back in a step of its own, as is whether there
\* is a row when the write found none.
Write(r, matches, new, otherwise) ==
  /\ IF matches
     THEN task' = new /\ Go(r, "shown")
     ELSE Go(r, otherwise) /\ UNCHANGED task
  /\ UNCHANGED <<clock, receipt, pending, delivered, notices>>

IsNamed(r) == request[r].named \in {None, task.version}

WriteSave(r) ==
  /\ At(r, "save")
  /\ Write(r, Exists /\ IsNamed(r),
           [task EXCEPT !.text = request[r].text, !.version = request[r].stamp], "recheck")

ReadWritten(r) ==
  /\ At(r, "shown")
  /\ Moves(r, IF Exists THEN "ok"
              ELSE IF request[r].named = None THEN "missing" ELSE "recheck")

Recheck(r) ==
  /\ At(r, "recheck")
  /\ Moves(r, IF Exists THEN "conflict" ELSE "missing")

\* The version is named, or not.
Naming == {None} \cup (IF Exists THEN {task.version} ELSE {})

SetProgress(r, progress, named) ==
  /\ At(r, "new") /\ Exists
  /\ Reads(r, [NoIntent EXCEPT !.op = "progress", !.at = "find",
                               !.progress = progress, !.named = named])

ReadForProgress(r) ==
  /\ Found(r, "progress") /\ Exists
  /\ IF task.status \in {"done", "canceled"} THEN Moves(r, "invalid")
     ELSE IF task.progress = request[r].progress THEN Moves(r, "ok")
     ELSE IF ~IsNamed(r) THEN Moves(r, "conflict")
     ELSE Reads(r, [request[r] EXCEPT !.at = "advance", !.stamp = NextVersion(task.version)])

WriteProgress(r) ==
  /\ At(r, "advance")
  /\ Write(r, Exists /\ IsNamed(r),
           [task EXCEPT !.progress = request[r].progress, !.version = request[r].stamp],
           IF request[r].named = None THEN "missing" ELSE "recheck")

SetTags(r, tags, named) ==
  /\ At(r, "new") /\ Exists
  /\ Reads(r, [NoIntent EXCEPT !.op = "tags", !.at = "find", !.tags = tags, !.named = named])

ReadForTags(r) ==
  /\ Found(r, "tags") /\ Exists
  /\ Reads(r, [request[r] EXCEPT !.at = "compare", !.read = task.version])

TagsMatch(r) == (IF Exists THEN task.tags ELSE NoTags) = request[r].tags

CompareTags(r) ==
  /\ At(r, "compare")
  /\ IF TagsMatch(r) THEN Moves(r, "ok")
     ELSE IF request[r].named \notin {None, request[r].read} THEN Moves(r, "conflict")
     ELSE Reads(r, [request[r] EXCEPT !.at = "replace", !.stamp = NextVersion(request[r].read)])

\* The batch of replaceTags; no row is read back.
ReplaceTags(r) ==
  /\ At(r, "replace")
  /\ IF Exists /\ IsNamed(r)
     THEN /\ task' = [task EXCEPT !.tags = request[r].tags,
                                  !.version = Later(@ + 1, request[r].stamp)]
          /\ Go(r, "ok")
     ELSE Go(r, "retag") /\ UNCHANGED task
  /\ UNCHANGED <<clock, receipt, pending, delivered, notices>>

ReadTags(r) ==
  /\ At(r, "retag")
  /\ Moves(r, IF ~Exists THEN "missing" ELSE IF TagsMatch(r) THEN "ok" ELSE "conflict")

-----------------------------------------------------------------------------
(* setStatus and the notifications of the changes. *)

SetTaskStatus(r, to) ==
  /\ At(r, "new") /\ Exists
  /\ Reads(r, [NoIntent EXCEPT !.op = "set_status", !.at = "find",
                               !.from = task.status, !.to = to])

\* The progress that will be written is the one read here.
ReadForStatus(r) ==
  /\ Found(r, "set_status") /\ Exists
  /\ IF task.status = request[r].to THEN Moves(r, "list")
     ELSE IF task.status # request[r].from THEN Moves(r, "conflict")
     ELSE IF request[r].to \notin TRANSITIONS[task.status] THEN Moves(r, "invalid")
     ELSE Reads(r, [request[r] EXCEPT
                      !.at = "set", !.stamp = clock,
                      !.progress = IF request[r].to = "done" THEN 100 ELSE task.progress])

StatusExpected(r) == Exists /\ task.status = request[r].from

\* compareAndSetStatus and the trigger.
WriteTaskStatus(r) ==
  LET key == [from |-> task.status, to |-> request[r].to, change |-> task.change + 1] IN
  /\ At(r, "set")
  /\ IF StatusExpected(r)
     THEN /\ task' = [task EXCEPT !.status = request[r].to, !.progress = request[r].progress,
                                  !.version = request[r].stamp, !.change = @ + 1]
          /\ pending' = pending \cup ({key} \ delivered)
          /\ Do(r, [request[r] EXCEPT !.at = "current", !.won = TRUE, !.key = key])
     ELSE Go(r, "current") /\ UNCHANGED <<task, pending>>
  /\ UNCHANGED <<clock, receipt, delivered, notices>>

ReadStatus(r) ==
  /\ At(r, "current")
  /\ Moves(r, IF ~Exists THEN "missing"
              ELSE IF ~request[r].won /\ task.status # request[r].to THEN "conflict"
              ELSE "list")

\* listPendingStatusNotifications: the oldest, whichever they are.
ListPending(r) ==
  /\ At(r, "list")
  /\ \E due \in SUBSET pending :
       /\ IF Cardinality(pending) <= DrainLimit
          THEN due = pending ELSE Cardinality(due) = DrainLimit
       /\ Reads(r, [request[r] EXCEPT !.at = IF due = {} THEN "ok" ELSE "drain", !.due = due,
                                      !.full = Cardinality(due) >= DrainLimit])

\* Mutant: a change is marked as delivered before it is notified.
PermitMarksFirst(r) ==
  /\ At(r, "drain")
  /\ \E k \in request[r].due :
       /\ pending' = pending \ {k}
       /\ delivered' = delivered \cup (pending \cap {k})
       /\ Do(r, [request[r] EXCEPT !.at = IF Exists THEN "notify" ELSE "mark", !.intent = k])
  /\ UNCHANGED <<clock, task, receipt, notices>>

\* emit: nothing is notified about a task the member cannot read any more.
Permit(r) ==
  /\ At(r, "drain")
  /\ \E k \in request[r].due :
       Reads(r, [request[r] EXCEPT !.at = IF Exists THEN "notify" ELSE "mark", !.intent = k])

Notify(r) ==
  /\ At(r, "notify")
  /\ notices' = notices \cup {request[r].intent}
  /\ Go(r, "mark")
  /\ UNCHANGED <<clock, task, receipt, pending, delivered>>

\* markStatusNotificationDelivered
Mark(r) ==
  LET k == request[r].intent
      due == request[r].due \ {k}
  IN  /\ At(r, "mark")
      /\ pending' = pending \ {k}
      /\ delivered' = delivered \cup (pending \cap {k})
      /\ Do(r, [request[r] EXCEPT !.at = IF due = {} THEN "ok" ELSE "drain",
                                  !.due = due, !.intent = None])
      /\ UNCHANGED <<clock, task, receipt, notices>>

-----------------------------------------------------------------------------
TickTasks ==
  /\ clock < MaxClock
  /\ clock' = clock + 1
  /\ UNCHANGED <<task, receipt, pending, delivered, notices, request>>

TasksNext ==
  \/ \E r \in Requests :
       \/ NotFound(r)
       \/ CreateTask(r) \/ FindCreated(r) \/ CountTasks(r) \/ InsertTask(r) \/ ReadCreated(r)
       \/ DeleteTask(r) \/ RemoveTask(r)
       \/ SaveTask(r) \/ (\E q \in Requests : SaveAgain(r, q)) \/ ReadForSave(r) \/ WriteSave(r)
       \/ ReadWritten(r) \/ Recheck(r)
       \/ \E p \in Progress, v \in Naming : SetProgress(r, p, v)
       \/ ReadForProgress(r) \/ WriteProgress(r)
       \/ \E tags \in TagLists, v \in Naming : SetTags(r, tags, v)
       \/ ReadForTags(r) \/ CompareTags(r) \/ ReplaceTags(r) \/ ReadTags(r)
       \/ \E to \in TaskTargets : SetTaskStatus(r, to)
       \/ ReadForStatus(r) \/ WriteTaskStatus(r) \/ ReadStatus(r)
       \/ ListPending(r) \/ Permit(r) \/ Notify(r) \/ Mark(r)
  \/ TickTasks

TasksSpec == TasksInit /\ [][TasksNext]_tasksVars

-----------------------------------------------------------------------------
\* A change of status that was answered is notified: whichever requests have
\* been delivering the changes of a task, died half-way or overtook each other,
\* the notification is there, unless the task was deleted or other changes
\* filled what one request delivers.
ChangesAreNotified ==
  \A r \in Requests :
    request[r].op = "set_status" /\ At(r, "ok") /\ request[r].won /\ ~receipt
      => request[r].key \in notices \/ request[r].full

\* A save replaces the details its client was shown and no others: one made from
\* an older page is refused instead of overwriting a newer edit.  It is stated
\* of a task that was never deleted, as one created again is another task.
EditsSurvive ==
  [][\A r \in Requests :
       At(r, "save") /\ request'[r].at = "shown" /\ ~receipt
         => task.text = request[r].base]_tasksVars
=============================================================================
