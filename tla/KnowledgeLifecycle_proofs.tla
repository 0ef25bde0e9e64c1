---------------------- MODULE KnowledgeLifecycle_proofs ----------------------
(* Machine-checked proofs about KnowledgeLifecycle, for any number of      *)
(* revisions, requests, calls and operation numbers.                       *)
EXTENDS KnowledgeLifecycle, FiniteSetTheorems, TLAPS

\* What the steps of a request know of its call, its answer and the item.
RequestInv ==
  \A w \in Requests :
    /\ pc[w] # "idle" => call[w] # None
    /\ pc[w] = "refused" => reply[w] \in ErrorType
    /\ pc[w] \in {"index", "record"} => reply[w] \in AnswerType
    /\ pc[w] = "record" => call[w].number # None
    /\ pc[w] \in {"batch", "confirm", "failed"} => seen[w].current \in Revisions
    /\ pc[w] = "batch" /\ call[w].kind = "rollback" => seen[w].status = "active"

\* An operation that was answered has the receipt of that answer.
ReplayInv ==
  \A w \in Requests :
    Answered(w) /\ call[w].number # None =>
      /\ receipts[call[w].number] # None
      /\ receipts[call[w].number].call = call[w]
      /\ receipts[call[w].number].answer = reply[w]

\* The rows of the item.
RowsInv ==
  /\ status # "gone" => current \in Revisions /\ revisions = published
  /\ status = "gone" => current = None /\ revisions = {}

\* The plan of a purge stays true for as long as the item lies in the recycle
\* bin as it was found; era is what tells that.
PlanInv ==
  \A w \in Requests :
    /\ seen[w].era \in Nat /\ seen[w].era <= era
    /\ status = "trashed" /\ era = seen[w].era =>
         /\ pc[w] \in {"plan", "remove", "finalize"} => ripe
         /\ pc[w] \in {"remove", "finalize"} => seen[w].revs = revisions
         /\ pc[w] = "finalize" => revisions \cap content = {}

Inv == TypeOK /\ RequestInv /\ ReplayInv /\ RowsInv /\ PlanInv /\ PurgeIsWhole

\* Answers and errors are told apart.
LEMMA AnswersAreNotErrors ==
  /\ \A x \in ErrorType : x \notin AnswerType
  /\ None \notin AnswerType
BY LifecycleAssumption DEF AnswerType, ErrorType

LEMMA CallKinds ==
  \A c \in Calls :
    /\ c \in CallType
    /\ c.kind \in {"trash", "restore", "purge", "rollback"}
    /\ c.kind = "rollback" => c.to \in Revisions
    /\ c.number # None => c.number \in Numbers
    /\ Goal(c) \in {"active", "trashed"}
BY LifecycleAssumption DEF CallType, Goal

\* An item that was never governed satisfies the invariant.
LEMMA InitInv == Init => Inv
<1> SUFFICES ASSUME Init PROVE Inv
  OBVIOUS
<1>0. Item \in ItemType /\ Item.era = 0
  BY LifecycleAssumption DEF Init, Item, ItemType
<1>1. TypeOK
  <2>1. crashes \in 0..MaxCrashes /\ era \in Nat
    BY LifecycleAssumption DEF Init
  <2>0. ripe \in BOOLEAN
    BY DEF Init
  <2>2. seen \in [Requests -> ItemType]
    BY <1>0 DEF Init
  <2>3. pc \in [Requests -> Steps]
    BY DEF Init, Steps
  <2> QED BY <2>0, <2>1, <2>2, <2>3, LifecycleAssumption DEF Init, TypeOK
<1>2. RequestInv /\ ReplayInv
  BY DEF Init, RequestInv, ReplayInv, Answered
<1>3. RowsInv /\ PurgeIsWhole
  BY LifecycleAssumption DEF Init, RowsInv, PurgeIsWhole
<1>4. PlanInv
  BY <1>0 DEF Init, PlanInv
<1> QED BY <1>1, <1>2, <1>3, <1>4 DEF Inv

\* A step of one request that leaves both stores alone.
LEMMA LocalInv ==
  ASSUME Inv, NEW w \in Requests,
         NEW p \in Steps, NEW r \in AnswerType \cup ErrorType \cup {None}, NEW s \in ItemType,
         UNCHANGED <<rows, receipts, content, hist>>, crashes' \in 0..MaxCrashes,
         call' \in [Requests -> Calls \cup {None}],
         \A v \in Requests \ {w} : call'[v] = call[v],
         pc' = [pc EXCEPT ![w] = p], reply' = [reply EXCEPT ![w] = r],
         seen' = [seen EXCEPT ![w] = s],
         p # "idle" => call'[w] # None,
         p = "refused" => r \in ErrorType,
         p \in {"index", "record"} => r \in AnswerType,
         p = "record" => call'[w].number # None,
         p \in {"batch", "confirm", "failed"} => s.current \in Revisions,
         p = "batch" /\ call'[w].kind = "rollback" => s.status = "active",
         p = "done" /\ r \in AnswerType /\ call'[w].number # None =>
           /\ receipts[call'[w].number] # None
           /\ receipts[call'[w].number].call = call'[w]
           /\ receipts[call'[w].number].answer = r,
         s.era <= era,
         status = "trashed" /\ era = s.era =>
           /\ p \in {"plan", "remove", "finalize"} => ripe
           /\ p \in {"remove", "finalize"} => s.revs = revisions
           /\ p = "finalize" => revisions \cap content = {}
  PROVE  Inv'
<1> USE DEF Inv, rows, hist
<1>0. /\ pc' \in [Requests -> Steps] /\ pc'[w] = p /\ \A v \in Requests \ {w} : pc'[v] = pc[v]
      /\ reply' \in [Requests -> AnswerType \cup ErrorType \cup {None}] /\ reply'[w] = r
      /\ \A v \in Requests \ {w} : reply'[v] = reply[v]
      /\ seen' \in [Requests -> ItemType] /\ seen'[w] = s
      /\ \A v \in Requests \ {w} : seen'[v] = seen[v]
  BY DEF TypeOK
<1>1. TypeOK'
  BY <1>0 DEF TypeOK
<1>2. RequestInv'
  BY <1>0 DEF RequestInv
<1>3. ReplayInv'
  BY <1>0 DEF ReplayInv, Answered
<1>4. RowsInv' /\ PurgeIsWhole'
  BY DEF RowsInv, PurgeIsWhole
<1>5. PlanInv'
  BY <1>0 DEF PlanInv, ItemType
<1> QED BY <1>1, <1>2, <1>3, <1>4, <1>5

\* The item as it is, as something a request reads.
LEMMA ItemIsItem ==
  ASSUME Inv
  PROVE  Item \in ItemType /\ Item.era = era /\ Item.current = current /\ Item.status = status
BY DEF Inv, TypeOK, Item, ItemType

\* Arrival, replay, reading and answering, in the form LocalInv wants.
LEMMA GotoInv ==
  ASSUME Inv, NEW w \in Requests, NEW p \in Steps, Goto(w, p),
         UNCHANGED <<rows, receipts, content, hist>>, crashes' \in 0..MaxCrashes,
         pc[w] # "idle",
         p \notin {"idle", "refused", "index", "record", "batch", "done", "plan", "remove"},
         p \in {"confirm", "failed"} => seen[w].current \in Revisions,
         status = "trashed" /\ era = seen[w].era /\ p = "finalize" =>
           ripe /\ seen[w].revs = revisions /\ revisions \cap content = {}
  PROVE  Inv'
<1>1. call' \in [Requests -> Calls \cup {None}] /\ call'[w] # None
      /\ \A v \in Requests \ {w} : call'[v] = call[v]
  BY DEF Goto, Inv, TypeOK, RequestInv
<1>2. /\ pc' = [pc EXCEPT ![w] = p] /\ reply' = [reply EXCEPT ![w] = reply[w]]
      /\ seen' = [seen EXCEPT ![w] = seen[w]]
      /\ reply[w] \in AnswerType \cup ErrorType \cup {None} /\ seen[w] \in ItemType
  BY DEF Goto, Inv, TypeOK
<1>3. seen[w].era <= era
  BY DEF Inv, PlanInv
<1> QED BY <1>1, <1>2, <1>3, LocalInv

LEMMA GotoSeeingInv ==
  ASSUME Inv, NEW w \in Requests, NEW p \in {"batch", "plan"}, GotoSeeing(w, p),
         UNCHANGED <<rows, receipts, content, hist>>, UNCHANGED crashes,
         pc[w] # "idle", status # "gone",
         p = "plan" => ripe,
         p = "batch" /\ call[w].kind = "rollback" => status = "active"
  PROVE  Inv'
<1>1. call' \in [Requests -> Calls \cup {None}] /\ call'[w] # None
      /\ \A v \in Requests \ {w} : call'[v] = call[v]
  BY DEF GotoSeeing, Inv, TypeOK, RequestInv
<1>2. /\ pc' = [pc EXCEPT ![w] = p] /\ reply' = [reply EXCEPT ![w] = reply[w]]
      /\ seen' = [seen EXCEPT ![w] = Item]
      /\ reply[w] \in AnswerType \cup ErrorType \cup {None}
  BY DEF GotoSeeing, Inv, TypeOK
<1>3. current \in Revisions /\ crashes' \in 0..MaxCrashes /\ p \in Steps
  BY DEF Inv, RowsInv, TypeOK, Steps
<1>4. Item \in ItemType /\ Item.era <= era /\ Item.current \in Revisions /\ Item.status = status
  BY <1>3, ItemIsItem DEF Inv, TypeOK
<1>6. call'[w] = call[w]
  BY DEF GotoSeeing
<1>5. p # "idle" /\ p \notin {"refused", "index", "record", "done", "remove", "finalize"}
  OBVIOUS
<1> QED BY <1>1, <1>2, <1>3, <1>4, <1>5, <1>6, LocalInv

LEMMA SayInv ==
  ASSUME Inv, NEW w \in Requests, NEW p \in {"refused", "index", "record", "done"},
         NEW r \in AnswerType \cup ErrorType, Say(w, p, r),
         UNCHANGED <<rows, receipts, content, hist>>, crashes' \in 0..MaxCrashes,
         pc[w] # "idle",
         p = "refused" => r \in ErrorType,
         p \in {"index", "record"} => r \in AnswerType,
         p = "record" => call[w].number # None,
         p = "done" /\ r \in AnswerType /\ call[w].number # None =>
           /\ receipts[call[w].number] # None
           /\ receipts[call[w].number].call = call[w]
           /\ receipts[call[w].number].answer = r
  PROVE  Inv'
<1>1. call' \in [Requests -> Calls \cup {None}] /\ call'[w] # None /\ call' = call
  BY DEF Say, Inv, TypeOK, RequestInv
<1>2. /\ pc' = [pc EXCEPT ![w] = p] /\ reply' = [reply EXCEPT ![w] = r]
      /\ seen' = [seen EXCEPT ![w] = seen[w]] /\ seen[w] \in ItemType
  BY DEF Say, Inv, TypeOK
<1>3. seen[w].era <= era /\ p \in Steps
  BY DEF Inv, PlanInv, Steps
<1> QED BY <1>1, <1>2, <1>3, LocalInv

\* A replayed operation is answered with its receipt.
LEMMA ReplayIsRecorded ==
  ASSUME Inv, NEW w \in Requests, Recorded(w), Replay(w), pc[w] # "idle",
         UNCHANGED <<rows, receipts, content, crashes, hist>>
  PROVE  Inv'
<1>1. call[w] \in Calls /\ call[w].number \in Numbers
  BY CallKinds DEF Inv, TypeOK, RequestInv, Recorded
<1>2. receipts[call[w].number] \in [call : Calls, answer : AnswerType]
  BY <1>1 DEF Inv, TypeOK, Recorded
<1>3. receipts[call[w].number].answer \in AnswerType
  BY <1>2
<1>4. [error |-> "operation_conflict"] \in ErrorType
  BY DEF ErrorType
<1>5. crashes' \in 0..MaxCrashes
  BY DEF Inv, TypeOK
<1> QED BY <1>3, <1>4, <1>5, SayInv, AnswersAreNotErrors DEF Replay, Finish, Recorded

LEMMA ArriveInv ==
  ASSUME Inv, NEW w \in Requests, NEW c \in Calls, Arrive(w, c)
  PROVE  Inv'
<1> DEFINE p == "lookup"
<1>1. /\ call' \in [Requests -> Calls \cup {None}] /\ call'[w] # None
      /\ \A v \in Requests \ {w} : call'[v] = call[v]
  BY CallKinds, LifecycleAssumption DEF Arrive, Inv, TypeOK, CallType
<1>2. /\ pc' = [pc EXCEPT ![w] = p] /\ reply' = [reply EXCEPT ![w] = reply[w]]
      /\ seen' = [seen EXCEPT ![w] = seen[w]] /\ seen[w] \in ItemType
      /\ reply[w] \in AnswerType \cup ErrorType \cup {None}
      /\ crashes' \in 0..MaxCrashes
  BY DEF Arrive, Inv, TypeOK
<1>3. seen[w].era <= era /\ p \in Steps
  BY DEF Inv, PlanInv, Steps
<1>4. UNCHANGED <<rows, receipts, content, hist>>
  BY DEF Arrive
<1>5. p \notin {"idle", "refused", "index", "record", "done", "batch", "confirm", "failed",
               "plan", "remove", "finalize"}
  OBVIOUS
<1> HIDE DEF p
<1> QED BY <1>1, <1>2, <1>3, <1>4, <1>5, LocalInv

\* Looking for a receipt, before acting and before an error is told.
LEMMA LookupInv ==
  ASSUME Inv, NEW w \in Requests, Lookup(w) \/ Refused(w)
  PROVE  Inv'
<1>0. crashes' \in 0..MaxCrashes /\ pc[w] # "idle" /\ "read" \in Steps /\ "prepare" \in Steps
  BY DEF Lookup, Refused, Inv, TypeOK, Steps
<1>1. CASE Recorded(w)
  BY <1>0, <1>1, ReplayIsRecorded DEF Lookup, Refused
<1>2. CASE ~Recorded(w) /\ Lookup(w)
  <2>1. PICK p \in {"read", "prepare"} : Goto(w, p)
    BY <1>2 DEF Lookup
  <2> QED BY <1>0, <1>2, <2>1, GotoInv DEF Lookup
<1>3. CASE ~Recorded(w) /\ Refused(w)
  <2>1. reply[w] \in ErrorType
    BY <1>3 DEF Refused, Inv, RequestInv
  <2> QED BY <1>0, <1>3, <2>1, SayInv, AnswersAreNotErrors DEF Refused, Finish
<1> QED BY <1>1, <1>2, <1>3

LEMMA Errors ==
  \A code \in {"operation_conflict", "target_invalid", "conflict", "retention_active", "unavailable"} :
    [error |-> code] \in ErrorType
BY DEF ErrorType

LEMMA RefuseInv ==
  ASSUME Inv, NEW w \in Requests, pc[w] # "idle",
         NEW code \in {"target_invalid", "conflict", "retention_active", "unavailable"},
         Refuse(w, code), UNCHANGED <<rows, receipts, content, crashes, hist>>
  PROVE  Inv'
<1>1. crashes' \in 0..MaxCrashes
  BY DEF Inv, TypeOK
<1> QED BY <1>1, SayInv, Errors DEF Refuse

\* The item as an answer.
LEMMA ItemAnswers ==
  ASSUME Inv, status # "gone"
  PROVE  ItemAnswer \in AnswerType
BY DEF Inv, RowsInv, TypeOK, ItemAnswer, AnswerType

LEMMA ReadInv ==
  ASSUME Inv, NEW w \in Requests, ReadItem(w) \/ ReadTarget(w)
  PROVE  Inv'
<1>1. CASE ReadItem(w)
  <2> USE <1>1 DEF ReadItem
  <2>0. crashes' \in 0..MaxCrashes /\ pc[w] # "idle" /\ UNCHANGED crashes
    BY DEF Inv, TypeOK
  <2>1. CASE status = "gone"
    BY <2>0, <2>1, RefuseInv
  <2>2. CASE status # "gone" /\ status = Goal(call[w])
    BY <2>0, <2>2, SayInv, ItemAnswers
  <2>3. CASE status # "gone" /\ status # Goal(call[w])
    BY <2>0, <2>3, GotoSeeingInv
  <2> QED BY <2>1, <2>2, <2>3
<1>2. CASE ReadTarget(w)
  <2> USE <1>2 DEF ReadTarget
  <2>0. pc[w] # "idle"
    OBVIOUS
  <2>1. CASE Refuse(w, "target_invalid") \/ Refuse(w, "conflict")
    BY <2>0, <2>1, RefuseInv
  <2>2. CASE status = "active" /\ GotoSeeing(w, "batch")
    BY <2>0, <2>2, GotoSeeingInv
  <2> QED BY <2>1, <2>2
<1> QED BY <1>1, <1>2

\* Answering from the item as it is read after the write.
LEMMA ConfirmInv ==
  ASSUME Inv, NEW w \in Requests, Confirm(w) \/ AfterFailure(w)
  PROVE  Inv'
<1>0. /\ crashes' \in 0..MaxCrashes /\ pc[w] # "idle" /\ call[w] \in Calls
      /\ UNCHANGED <<rows, receipts, content, crashes, hist>>
  BY DEF Confirm, AfterFailure, Inv, TypeOK, RequestInv
<1>1. CASE Refuse(w, "conflict") \/ Refuse(w, "unavailable")
  BY <1>0, <1>1, RefuseInv
<1>2. CASE status = Goal(call[w]) /\ Say(w, "index", ItemAnswer)
  BY <1>0, <1>2, SayInv, ItemAnswers, CallKinds
<1>3. CASE /\ Confirm(w) /\ call[w].kind = "rollback"
           /\ Say(w, "index", [to |-> call[w].to, from |-> seen[w].current])
  <2>1. call[w].to \in Revisions /\ seen[w].current \in Revisions
    BY <1>0, <1>3, CallKinds DEF Confirm, Inv, RequestInv
  <2>2. [to |-> call[w].to, from |-> seen[w].current] \in AnswerType
    BY <2>1 DEF AnswerType
  <2> QED BY <1>0, <1>3, <2>2, SayInv
<1> QED BY <1>1, <1>2, <1>3 DEF Confirm, AfterFailure

LEMMA SettleInv ==
  ASSUME Inv, NEW w \in Requests, NEW r \in AnswerType, Settle(w, r), pc[w] # "idle",
         UNCHANGED <<rows, receipts, content, crashes, hist>>
  PROVE  Inv'
<1>1. crashes' \in 0..MaxCrashes
  BY DEF Inv, TypeOK
<1> QED BY <1>1, SayInv DEF Settle

LEMMA IndexInv ==
  ASSUME Inv, NEW w \in Requests, Index(w)
  PROVE  Inv'
BY SettleInv DEF Index, Inv, RequestInv

\* Planning a purge.
LEMMA PrepareInv ==
  ASSUME Inv, NEW w \in Requests, Prepare(w)
  PROVE  Inv'
<1> USE DEF Prepare
<1>1. CASE status = "gone"
  <2>1. [purged |-> 0] \in AnswerType
    BY DEF AnswerType
  <2> QED BY <1>1, <2>1, SettleInv
<1>2. CASE Refuse(w, "target_invalid") \/ Refuse(w, "retention_active")
  BY <1>2, RefuseInv
<1>3. CASE status # "gone" /\ ripe /\ GotoSeeing(w, "plan")
  BY <1>3, GotoSeeingInv
<1> QED BY <1>1, <1>2, <1>3

LEMMA PlannedInv ==
  ASSUME Inv, NEW w \in Requests, Plan(w)
  PROVE  Inv'
<1> USE DEF Plan
<1>0. pc[w] # "idle" /\ crashes' \in 0..MaxCrashes
  BY DEF Inv, TypeOK
<1>1. CASE Refuse(w, "conflict")
  BY <1>0, <1>1, RefuseInv
<1>2. CASE pc' = [pc EXCEPT ![w] = "remove"]
           /\ seen' = [seen EXCEPT ![w].revs = Planned(w)] /\ UNCHANGED <<call, reply>>
  <2> DEFINE s == [seen[w] EXCEPT !.revs = revisions]
             p == "remove"
  <2>1. s \in ItemType /\ s.era = seen[w].era /\ s.revs = revisions
    BY DEF ItemType, Inv, TypeOK
  <2>2. /\ seen' = [seen EXCEPT ![w] = s] /\ reply' = [reply EXCEPT ![w] = reply[w]]
        /\ reply[w] \in AnswerType \cup ErrorType \cup {None}
    BY <1>2 DEF Planned, Inv, TypeOK
  <2>3. /\ call' \in [Requests -> Calls \cup {None}] /\ call'[w] # None
        /\ \A v \in Requests \ {w} : call'[v] = call[v]
    BY <1>0, <1>2 DEF Inv, TypeOK, RequestInv
  <2>4. seen[w].era <= era /\ p \in Steps /\ (status = "trashed" /\ era = seen[w].era => ripe)
    BY DEF Inv, PlanInv, Steps
  <2>5. p \notin {"idle", "refused", "index", "record", "done", "batch", "confirm", "failed",
                 "plan", "finalize"} /\ pc' = [pc EXCEPT ![w] = p]
    BY <1>2
  <2> HIDE DEF s, p
  <2> QED BY <1>0, <2>1, <2>2, <2>3, <2>4, <2>5, LocalInv
<1> QED BY <1>1, <1>2

LEMMA AllRemovedInv ==
  ASSUME Inv, NEW w \in Requests, AllRemoved(w)
  PROVE  Inv'
<1>1. crashes' \in 0..MaxCrashes /\ pc[w] # "idle" /\ "finalize" \in Steps
  BY DEF AllRemoved, Inv, TypeOK, Steps
<1>2. status = "trashed" /\ era = seen[w].era =>
        ripe /\ seen[w].revs = revisions /\ revisions \cap content = {}
  BY DEF AllRemoved, Removed, Inv, PlanInv
<1> QED BY <1>1, <1>2, GotoInv DEF AllRemoved

LEMMA CrashInv ==
  ASSUME Inv, NEW w \in Requests, Crash(w)
  PROVE  Inv'
<1>1. crashes' \in 0..MaxCrashes
  BY LifecycleAssumption DEF Crash, Inv, TypeOK
<1> QED BY <1>1, SayInv, Errors, AnswersAreNotErrors DEF Crash, Finish

\* Trashing starts a new era, restoring and rolling back leave the recycle bin.
LEMMA CommittedInv ==
  ASSUME Inv, NEW w \in Requests, pc[w] = "batch", Commit(w) \/ UNCHANGED <<rows, acted>>,
         NEW p \in {"confirm", "failed"}, Goto(w, p),
         UNCHANGED <<receipts, content, published>>, crashes' \in 0..MaxCrashes
  PROVE  Inv'
<1> USE DEF Inv
<1>0. /\ pc' \in [Requests -> Steps] /\ pc'[w] = p /\ \A v \in Requests \ {w} : pc'[v] = pc[v]
      /\ UNCHANGED <<call, seen, reply>>
  BY DEF Goto, TypeOK, Steps
<1>1. CASE UNCHANGED rows
  <2>1. UNCHANGED <<status, current, revisions, era, ripe>> /\ acted' \subseteq Requests
    BY <1>1 DEF rows, Commit, TypeOK
  <2>2. TypeOK'
    BY <1>0, <2>1 DEF TypeOK
  <2>3. (RequestInv /\ ReplayInv)'
    BY <1>0, <2>1 DEF RequestInv, ReplayInv, Answered
  <2>4. (RowsInv /\ PurgeIsWhole)'
    BY <2>1 DEF RowsInv, PurgeIsWhole
  <2>5. PlanInv'
    BY <1>0, <2>1 DEF PlanInv
  <2> QED BY <2>2, <2>3, <2>4, <2>5
<1>2. CASE Unchanged(w) /\ Write(call[w]) /\ acted' = acted \cup {w}
  <2>1. call[w] \in Calls /\ seen[w].current \in Revisions /\ status # "gone"
    BY <1>2, LifecycleAssumption DEF TypeOK, RequestInv, RowsInv, Unchanged
  <2>2. /\ status' \in {"active", "trashed"} /\ current' \in Revisions /\ ripe' = FALSE
        /\ UNCHANGED revisions
        /\ \/ status' = "active" /\ era' \in {era, era + 1}
           \/ status' = "trashed" /\ era' = era + 1
    <3>1. CASE call[w].kind = "rollback"
      BY <1>2, <2>1, <3>1, CallKinds DEF Write, Unchanged, RequestInv
    <3>2. CASE call[w].kind = "trash"
      BY <1>2, <2>1, <3>2 DEF Write, Unchanged, Goal
    <3>3. CASE call[w].kind \notin {"rollback", "trash"}
      BY <1>2, <2>1, <3>3 DEF Write, Unchanged, Goal
    <3> QED BY <3>1, <3>2, <3>3
  <2>3. TypeOK'
    <3>1. ripe' \in BOOLEAN
      BY <2>2
    <3>2. era' \in Nat
      BY <2>2 DEF TypeOK
    <3> QED BY <1>0, <1>2, <2>2, <3>1, <3>2 DEF TypeOK
  <2>4. (RequestInv /\ ReplayInv)'
    BY <1>0, <2>2 DEF RequestInv, ReplayInv, Answered
  <2>5. (RowsInv /\ PurgeIsWhole)'
    BY <2>1, <2>2 DEF RowsInv, PurgeIsWhole
  <2>6. PlanInv'
    BY <1>0, <2>2 DEF PlanInv, TypeOK
  <2> QED BY <2>3, <2>4, <2>5, <2>6
<1> QED BY <1>1, <1>2 DEF Commit

LEMMA BatchInv ==
  ASSUME Inv, NEW w \in Requests, Batch(w) \/ BatchThrows(w)
  PROVE  Inv'
<1>1. crashes' \in 0..MaxCrashes
  BY LifecycleAssumption DEF Batch, BatchThrows, Inv, TypeOK
<1> QED BY <1>1, CommittedInv DEF Batch, BatchThrows

\* Removing content only helps.
LEMMA RemoveInv ==
  ASSUME Inv, NEW w \in Requests, NEW r \in Revisions, Remove(w, r)
  PROVE  Inv'
BY DEF Remove, Inv, rows, local, hist, TypeOK, RequestInv, ReplayInv, Answered, RowsInv, PlanInv,
   PurgeIsWhole

\* Content is only added for a revision the item does not have.
LEMMA PersistInv ==
  ASSUME Inv, NEW r \in Revisions, Persist(r)
  PROVE  Inv'
BY DEF Persist, Inv, rows, local, hist, TypeOK, RequestInv, ReplayInv, Answered, RowsInv, PlanInv,
   PurgeIsWhole

LEMMA PublishInv ==
  ASSUME Inv, NEW r \in Revisions, Publish(r)
  PROVE  Inv'
BY DEF Publish, Inv, local, TypeOK, RequestInv, ReplayInv, Answered, RowsInv, PlanInv, PurgeIsWhole

LEMMA RipenInv ==
  ASSUME Inv, Ripen
  PROVE  Inv'
<1> USE DEF Ripen, Inv, local, hist
<1>1. ripe' \in BOOLEAN
  OBVIOUS
<1>2. TypeOK'
  BY <1>1 DEF TypeOK
<1>3. (RequestInv /\ ReplayInv /\ RowsInv /\ PlanInv /\ PurgeIsWhole)'
  BY DEF RequestInv, ReplayInv, Answered, RowsInv, PlanInv, PurgeIsWhole
<1> QED BY <1>2, <1>3

\* A receipt once stored stays, and the answer is the stored one.
LEMMA RecordInv ==
  ASSUME Inv, NEW w \in Requests, Record(w)
  PROVE  Inv'
<1> DEFINE n == call[w].number
           st == Stored(w)
<1> USE DEF Inv, rows, hist
<1>1. call[w] \in Calls /\ n \in Numbers /\ reply[w] \in AnswerType
  BY CallKinds DEF Record, TypeOK, RequestInv
<1>2. st \in [call : Calls, answer : AnswerType] /\ st # None
  BY <1>1, LifecycleAssumption DEF Stored, TypeOK
<1>3. receipts[n] # None => st = receipts[n]
  BY DEF Stored
<1> HIDE DEF st
<1>4. receipts' = [receipts EXCEPT ![n] = st]
  BY DEF Record, st
<1>5. PICK r \in AnswerType \cup ErrorType :
        /\ Say(w, "done", r)
        /\ r \in AnswerType => st.call = call[w] /\ st.answer = r
  <2>1. CASE st.call = call[w]
    BY <1>2, <2>1 DEF Record, Finish, st
  <2>2. CASE st.call # call[w]
    BY <2>2, Errors, AnswersAreNotErrors DEF Record, Finish, st
  <2> QED BY <2>1, <2>2
<1>6. /\ pc' \in [Requests -> Steps] /\ pc'[w] = "done" /\ \A v \in Requests \ {w} : pc'[v] = pc[v]
      /\ reply' \in [Requests -> AnswerType \cup ErrorType \cup {None}] /\ reply'[w] = r
      /\ \A v \in Requests \ {w} : reply'[v] = reply[v]
      /\ UNCHANGED <<call, seen>>
  BY <1>5 DEF Say, TypeOK, Steps
<1>7. UNCHANGED <<status, current, revisions, era, ripe, content, crashes, acted, published>>
  BY DEF Record
<1>8. receipts' \in [Numbers -> [call : Calls, answer : AnswerType] \cup {None}]
  BY <1>1, <1>2, <1>4 DEF TypeOK
<1>9. receipts'[n] = st /\ \A m \in Numbers \ {n} : receipts'[m] = receipts[m]
  BY <1>1, <1>4 DEF TypeOK
<1> HIDE DEF n
<1>10. TypeOK'
  BY <1>6, <1>7, <1>8 DEF TypeOK
<1>11. (RequestInv /\ RowsInv /\ PlanInv /\ PurgeIsWhole)'
  BY <1>1, <1>6, <1>7 DEF RequestInv, RowsInv, PlanInv, PurgeIsWhole, Record
<1>12. ReplayInv'
  <2> SUFFICES ASSUME NEW v \in Requests, Answered(v)', call[v].number # None
               PROVE  /\ receipts'[call[v].number] # None
                      /\ receipts'[call[v].number].call = call[v]
                      /\ receipts'[call[v].number].answer = reply'[v]
    BY <1>6 DEF ReplayInv
  <2>1. CASE v = w
    BY <1>2, <1>5, <1>6, <1>9, <2>1 DEF Answered, n
  <2>2. CASE v # w
    <3>1. Answered(v)
      BY <1>6, <2>2 DEF Answered
    <3>2. call[v] \in Calls
      BY <3>1 DEF Answered, RequestInv, TypeOK
    <3>3. call[v].number \in Numbers
      BY <3>2, CallKinds
    <3> QED BY <1>3, <1>6, <1>9, <2>2, <3>1, <3>3 DEF ReplayInv
  <2> QED BY <2>1, <2>2
<1> QED BY <1>10, <1>11, <1>12

\* The rows only go when all their content is gone.
LEMMA FinalizeInv ==
  ASSUME Inv, NEW w \in Requests, Finalize(w)
  PROVE  Inv'
<1> USE DEF Inv
<1>1. CASE /\ UNCHANGED <<status, current, revisions, acted>> /\ Refuse(w, "conflict")
  BY <1>1, RefuseInv DEF Finalize, rows, hist
<1>2. CASE /\ CanPurge(w)
           /\ status' = "gone" /\ current' = None /\ revisions' = {}
           /\ acted' = acted \cup {w}
           /\ Settle(w, [purged |-> Cardinality(seen[w].revs)]) \/ Refuse(w, "conflict")
  <2> USE <1>2 DEF Finalize
  <2>1. UNCHANGED <<era, ripe, receipts, content, crashes, published>>
    OBVIOUS
  <2>2. content \cap published = {}
    BY DEF CanPurge, PlanInv, RowsInv
  <2>3. [purged |-> Cardinality(seen[w].revs)] \in AnswerType
    <3>1. IsFiniteSet(seen[w].revs)
      BY LifecycleAssumption, FS_Subset DEF TypeOK, ItemType
    <3> QED BY <3>1, FS_CardinalityType DEF AnswerType
  <2>4. call[w] \in Calls
    BY DEF RequestInv, TypeOK
  <2>5. PICK p \in {"done", "record", "refused"}, r \in AnswerType \cup ErrorType :
          /\ Say(w, p, r)
          /\ p = "refused" => r \in ErrorType
          /\ p = "record" => r \in AnswerType /\ call[w].number # None
          /\ p = "done" => call[w].number = None
    BY <2>3, Errors DEF Settle, Refuse
  <2>6. /\ pc' \in [Requests -> Steps] /\ pc'[w] = p /\ \A v \in Requests \ {w} : pc'[v] = pc[v]
        /\ reply' \in [Requests -> AnswerType \cup ErrorType \cup {None}] /\ reply'[w] = r
        /\ \A v \in Requests \ {w} : reply'[v] = reply[v]
        /\ UNCHANGED <<call, seen>>
    BY <2>5 DEF Say, TypeOK, Steps
  <2> HIDE <1>2 DEF Finalize
  <2>7. TypeOK'
    BY <1>2, <2>1, <2>6 DEF TypeOK
  <2>8. (RequestInv /\ ReplayInv)'
    <3>1. call[w] # None
      BY <2>4, LifecycleAssumption
    <3>2. RequestInv'
      BY <2>5, <2>6, <3>1 DEF RequestInv
    <3>3. ReplayInv'
      BY <2>1, <2>5, <2>6 DEF ReplayInv, Answered
    <3> QED BY <3>2, <3>3
  <2>9. (RowsInv /\ PlanInv /\ PurgeIsWhole)'
    BY <1>2, <2>1, <2>2, <2>6 DEF RowsInv, PlanInv, PurgeIsWhole
  <2> QED BY <2>7, <2>8, <2>9
<1> QED BY <1>1, <1>2 DEF Finalize

\* The inductive invariant holds of every behaviour.
THEOREM Invariance == Spec => []Inv
<1>1. Inv /\ UNCHANGED vars => Inv'
  BY DEF vars, rows, local, hist, Inv, TypeOK, RequestInv, ReplayInv, Answered, RowsInv, PlanInv,
         PurgeIsWhole
<1>2. Inv /\ Next => Inv'
  <2>1. ASSUME Inv, NEW w \in Requests, RequestStep(w) PROVE Inv'
    BY <2>1, LookupInv, ReadInv, BatchInv, ConfirmInv, IndexInv, PrepareInv, PlannedInv, RemoveInv,
       AllRemovedInv, FinalizeInv, RecordInv DEF RequestStep
  <2> QED BY <2>1, ArriveInv, CrashInv, PersistInv, PublishInv, RipenInv DEF Next
<1> QED BY InitInv, <1>1, <1>2, PTL DEF Spec

\* Every state of governance is well typed.
THEOREM TypeCorrect == Spec => []TypeOK
BY Invariance, PTL DEF Inv

\* No purge leaves content of a revision the item had.
THEOREM WholeCorrect == Spec => []PurgeIsWhole
BY Invariance, PTL DEF Inv

\* Every answered attempt of a numbered operation is answered the same.
THEOREM SameAnswerCorrect == Spec => []SameOperationSameAnswer
<1>1. Inv => SameOperationSameAnswer
  BY DEF Inv, ReplayInv, SameOperationSameAnswer
<1> QED BY <1>1, Invariance, PTL

\* A purge only ever ends a retention period that was sat out: the plan of
\* every purge that may still commit was made in it.
THEOREM RetentionCorrect == Spec => PurgeRespectsRetention
<1> DEFINE Respects == status # "gone" /\ status' = "gone" => status = "trashed" /\ ripe
<1>1. Inv /\ [Next]_vars => [Respects]_vars
  <2> SUFFICES ASSUME Inv, Next, status # "gone", status' = "gone"
               PROVE  status = "trashed" /\ ripe
    BY DEF vars, rows
  <2>1. PICK w \in Requests : Finalize(w) /\ CanPurge(w)
    <3>1. ASSUME NEW w \in Requests, Batch(w) \/ BatchThrows(w) PROVE FALSE
      <4>1. call[w] \in Calls
        BY <3>1 DEF Batch, BatchThrows, Inv, RequestInv, TypeOK
      <4> QED BY <3>1, <4>1, CallKinds DEF Batch, BatchThrows, Commit, Write, rows
    <3>2. ASSUME NEW w \in Requests, RequestStep(w), ~Batch(w), ~BatchThrows(w)
          PROVE  Finalize(w) /\ CanPurge(w)
      BY <3>2 DEF RequestStep, Lookup, Refused, ReadItem, ReadTarget, Confirm, AfterFailure, Index,
              Prepare, Plan, Remove, AllRemoved, Record, Finalize, rows
    <3> QED BY <3>1, <3>2 DEF Next, Arrive, Crash, Persist, Publish, Ripen, rows
  <2> QED BY <2>1 DEF Finalize, CanPurge, Inv, PlanInv
<1> QED BY <1>1, Invariance, PTL DEF Spec, PurgeRespectsRetention

-----------------------------------------------------------------------------
(* What a purge tells. *)

\* Which steps belong to the purge of an item.
KindInv ==
  \A w \in Requests :
    /\ pc[w] \in {"read", "batch", "confirm", "failed", "index"} => call[w].kind # "purge"
    /\ pc[w] \in {"prepare", "plan", "remove", "finalize"} => call[w].kind = "purge"

\* A purge that has its answer, told or still to be recorded.
Tells(w) == pc[w] \in {"record", "done"} /\ call[w].kind = "purge" /\ reply[w] \in AnswerType

\* It tells that it was the one that destroyed the item; so does a receipt.
Claims(w) == Tells(w) /\ reply[w].purged > 0
Vouches(n) ==
  receipts[n] # None /\ receipts[n].call.kind = "purge" /\ receipts[n].answer.purged > 0

\* What may be told of a purge.
Truth(answer) ==
  status = "gone" /\ answer \in [purged : Nat] /\ answer.purged \in {0, Cardinality(published)}

ToldInv ==
  /\ \A w \in Requests : Tells(w) => Truth(reply[w])
  /\ \A n \in Numbers : receipts[n] # None =>
       /\ receipts[n].call.number = n
       /\ receipts[n].call.kind = "purge" => Truth(receipts[n].answer)

\* All claims are of one operation, and those of an operation without a number
\* are of one request.
ClaimInv ==
  /\ \A v, w \in Requests : Claims(v) /\ Claims(w) /\ v # w =>
       call[v] = call[w] /\ call[w].number # None
  /\ \A n \in Numbers, w \in Requests :
       Vouches(n) /\ Claims(w) => call[w] = receipts[n].call
  /\ \A m, n \in Numbers : Vouches(m) /\ Vouches(n) => m = n

PurgeInv == KindInv /\ ToldInv /\ ClaimInv

\* A step of one request, as far as the other requests see it.
Alone(w) ==
  \A v \in Requests \ {w} : pc'[v] = pc[v] /\ call'[v] = call[v] /\ reply'[v] = reply[v]

\* A step that tells nothing of a purge, or what a receipt or the request itself
\* told before, or what is the first thing to be told of it.
LEMMA TellingStays ==
  ASSUME PurgeInv, NEW w \in Requests, Alone(w), UNCHANGED receipts,
         status = "gone" => UNCHANGED <<status, published>>,
         pc'[w] \in {"read", "batch", "confirm", "failed", "index"} => call'[w].kind # "purge",
         pc'[w] \in {"prepare", "plan", "remove", "finalize"} => call'[w].kind = "purge",
         Tells(w)' => Truth(reply[w])',
         Claims(w)' =>
           \/ Claims(w) /\ UNCHANGED <<call[w], reply[w]>>
           \/ \E n \in Numbers : Vouches(n) /\ receipts[n].call = call'[w]
           \/ status # "gone"
  PROVE  PurgeInv'
<1> USE DEF PurgeInv
<1>1. KindInv'
  BY DEF KindInv, Alone
<1>2. \A v \in Requests \ {w} : (Tells(v)' <=> Tells(v)) /\ (Claims(v)' <=> Claims(v))
  BY DEF Alone, Tells, Claims
<1>3. \A n \in Numbers : Vouches(n)' <=> Vouches(n)
  BY DEF Vouches
<1>4. \A answer : Truth(answer) => Truth(answer)'
  BY DEF Truth
<1>5. ToldInv'
  BY <1>2, <1>4 DEF ToldInv, Alone
<1>6. ClaimInv'
  <2>1. CASE ~Claims(w)'
    BY <1>2, <1>3, <2>1 DEF ClaimInv, Alone
  <2>2. CASE Claims(w) /\ UNCHANGED <<call[w], reply[w]>>
    BY <1>2, <1>3, <2>2 DEF ClaimInv, Alone
  <2>3. ASSUME NEW n \in Numbers, Vouches(n), receipts[n].call = call'[w] PROVE ClaimInv'
    <3>1. receipts[n].call.number = n /\ n # None
      BY <2>3, LifecycleAssumption DEF ToldInv, Vouches
    <3>2. \A v \in Requests \ {w} : Claims(v) => call[v] = call'[w]
      BY <2>3 DEF ClaimInv
    <3> QED BY <1>2, <1>3, <2>3, <3>1, <3>2 DEF ClaimInv, Alone
  <2>4. CASE status # "gone"
    <3>1. /\ \A v \in Requests : ~Claims(v)
          /\ \A n \in Numbers : ~Vouches(n)
      BY <2>4 DEF ToldInv, Claims, Vouches, Truth
    <3> QED BY <1>2, <1>3, <3>1 DEF ClaimInv
  <2> QED BY <2>1, <2>2, <2>3, <2>4
<1> QED BY <1>1, <1>5, <1>6

\* What is told of anything else says nothing of a purge.
LEMMA NothingTold ==
  ASSUME Inv, PurgeInv, NEW w \in Requests, Alone(w), UNCHANGED receipts,
         status = "gone" => UNCHANGED <<status, published>>,
         pc'[w] \in {"read", "batch", "confirm", "failed", "index"} => call'[w].kind # "purge",
         pc'[w] \in {"prepare", "plan", "remove", "finalize"} => call'[w].kind = "purge",
         ~Tells(w)'
  PROVE  PurgeInv'
BY TellingStays DEF Claims

\* Steps by which a request moves on leave the others alone.
LEMMA StepsAlone ==
  ASSUME Inv, NEW w \in Requests, NEW p, NEW r
  PROVE  /\ Goto(w, p) => Alone(w) /\ pc'[w] = p /\ UNCHANGED <<call, reply>>
         /\ GotoSeeing(w, p) => Alone(w) /\ pc'[w] = p /\ UNCHANGED <<call, reply>>
         /\ Say(w, p, r) => Alone(w) /\ pc'[w] = p /\ reply'[w] = r /\ UNCHANGED call
BY DEF Inv, TypeOK, Goto, GotoSeeing, Say, Alone

LEMMA ErrorsTellNothing ==
  ASSUME NEW w \in Requests, reply'[w] \in ErrorType
  PROVE  ~Tells(w)'
BY AnswersAreNotErrors DEF Tells

LEMMA RefusalTells ==
  ASSUME Inv, PurgeInv, NEW w \in Requests,
         NEW code \in {"target_invalid", "conflict", "retention_active", "unavailable"},
         Refuse(w, code), UNCHANGED receipts, status = "gone" => UNCHANGED <<status, published>>
  PROVE  PurgeInv'
<1>1. Alone(w) /\ pc'[w] = "refused" /\ reply'[w] = [error |-> code] /\ UNCHANGED call
  BY StepsAlone DEF Refuse
<1> QED BY <1>1, NothingTold, ErrorsTellNothing, Errors

\* A replay tells what the receipt tells.
LEMMA ReplayTells ==
  ASSUME Inv, PurgeInv, NEW w \in Requests, Recorded(w), Replay(w), pc[w] # "idle",
         UNCHANGED <<rows, receipts, hist>>
  PROVE  PurgeInv'
<1> DEFINE n == call[w].number
<1>1. n \in Numbers /\ receipts[n] # None
  BY CallKinds DEF Inv, TypeOK, RequestInv, Recorded
<1>2. UNCHANGED <<status, published>>
  BY DEF rows, hist
<1>3. CASE receipts[n].call = call[w]
  <2>1. Alone(w) /\ pc'[w] = "done" /\ reply'[w] = receipts[n].answer /\ UNCHANGED call
    BY <1>3, StepsAlone DEF Replay, Finish
  <2>2. Tells(w)' => Truth(reply[w])'
    BY <1>1, <1>2, <1>3, <2>1 DEF Tells, PurgeInv, ToldInv, Truth
  <2>3. Claims(w)' => Vouches(n)
    BY <1>1, <1>3, <2>1 DEF Claims, Tells, Vouches
  <2> QED BY <1>1, <1>2, <1>3, <2>1, <2>2, <2>3, TellingStays
<1>4. CASE receipts[n].call # call[w]
  <2>1. Alone(w) /\ pc'[w] = "done" /\ reply'[w] \in ErrorType /\ UNCHANGED call
    BY <1>4, StepsAlone, Errors DEF Replay, Finish
  <2> QED BY <1>2, <2>1, NothingTold, ErrorsTellNothing
<1> QED BY <1>3, <1>4

LEMMA LookupTells ==
  ASSUME Inv, PurgeInv, NEW w \in Requests, Lookup(w) \/ Refused(w)
  PROVE  PurgeInv'
<1>0. UNCHANGED <<rows, receipts, hist>> /\ UNCHANGED <<status, published>> /\ pc[w] # "idle"
  BY DEF Lookup, Refused, rows, hist
<1>1. CASE Recorded(w)
  BY <1>0, <1>1, ReplayTells DEF Lookup, Refused
<1>2. CASE ~Recorded(w) /\ Lookup(w)
  <2>1. /\ Alone(w) /\ UNCHANGED call
        /\ pc'[w] = IF call[w].kind = "purge" THEN "prepare" ELSE "read"
    BY <1>2, StepsAlone DEF Lookup
  <2> QED BY <1>0, <2>1, NothingTold DEF Tells
<1>3. CASE ~Recorded(w) /\ Refused(w)
  <2>1. Alone(w) /\ pc'[w] = "done" /\ reply'[w] \in ErrorType /\ UNCHANGED call
    BY <1>3, StepsAlone DEF Refused, Finish, Inv, RequestInv
  <2> QED BY <1>0, <2>1, NothingTold, ErrorsTellNothing
<1> QED BY <1>1, <1>2, <1>3

\* Trash, restore and rollback tell nothing of a purge.
LEMMA OthersTell ==
  ASSUME Inv, PurgeInv, NEW w \in Requests,
         ReadItem(w) \/ ReadTarget(w) \/ Confirm(w) \/ AfterFailure(w) \/ Index(w)
  PROVE  PurgeInv'
<1>0. UNCHANGED receipts /\ UNCHANGED <<status, published>> /\ call[w].kind # "purge"
  BY DEF ReadItem, ReadTarget, Confirm, AfterFailure, Index, rows, hist, PurgeInv, KindInv
<1>1. CASE \E code \in {"target_invalid", "conflict", "unavailable"} : Refuse(w, code)
  BY <1>0, <1>1, RefusalTells
<1>2. CASE GotoSeeing(w, "batch")
  <2>1. Alone(w) /\ UNCHANGED call /\ pc'[w] = "batch"
    BY <1>2, StepsAlone
  <2> QED BY <1>0, <2>1, NothingTold DEF Tells
<1>3. CASE \E p \in {"index", "record", "done"} : \E r \in AnswerType : Say(w, p, r)
  <2>1. Alone(w) /\ UNCHANGED call /\ pc'[w] \in {"index", "record", "done"}
    BY <1>3, StepsAlone
  <2> QED BY <1>0, <2>1, NothingTold DEF Tells
<1>4. call[w] \in Calls /\ (pc[w] = "index" => reply[w] \in AnswerType)
  BY DEF Inv, RequestInv, TypeOK, ReadItem, ReadTarget, Confirm, AfterFailure, Index
<1>5. CASE Confirm(w) /\ call[w].kind = "rollback" /\ current = call[w].to
  <2>1. call[w].to \in Revisions /\ seen[w].current \in Revisions
    BY <1>4, <1>5, CallKinds DEF Confirm, Inv, RequestInv
  <2>2. [to |-> call[w].to, from |-> seen[w].current] \in AnswerType
    BY <2>1 DEF AnswerType
  <2> QED BY <1>3, <1>5, <2>2 DEF Confirm
<1>6. CASE status = Goal(call[w]) /\ Say(w, "index", ItemAnswer)
  <2>1. status # "gone"
    BY <1>4, <1>6, CallKinds
  <2> QED BY <1>3, <1>6, <2>1, ItemAnswers
<1>7. CASE Index(w)
  BY <1>3, <1>4, <1>7 DEF Index, Settle
<1>8. CASE ReadItem(w) \/ ReadTarget(w)
  BY <1>1, <1>2, <1>6, <1>8 DEF ReadItem, ReadTarget, Goal
<1>9. CASE Confirm(w) \/ AfterFailure(w)
  BY <1>1, <1>5, <1>6, <1>9 DEF Confirm, AfterFailure
<1> QED BY <1>7, <1>8, <1>9

\* Their batches do not touch an item that is gone.
LEMMA BatchTells ==
  ASSUME Inv, PurgeInv, NEW w \in Requests, Batch(w) \/ BatchThrows(w)
  PROVE  PurgeInv'
<1>1. /\ Alone(w) /\ UNCHANGED <<receipts, call, published>>
      /\ pc'[w] \in {"confirm", "failed"} /\ call[w].kind # "purge"
  BY StepsAlone DEF Batch, BatchThrows, PurgeInv, KindInv
<1>2. status = "gone" => status' = "gone"
  <2>1. status = "gone" => ~Unchanged(w)
    BY LifecycleAssumption DEF Inv, RequestInv, RowsInv, Unchanged, Batch, BatchThrows
  <2> QED BY <2>1 DEF Batch, BatchThrows, Commit, rows
<1> QED BY <1>1, <1>2, NothingTold DEF Tells

\* A purge of an item that is gone tells that nothing was left to destroy.
LEMMA PlanTells ==
  ASSUME Inv, PurgeInv, NEW w \in Requests, Prepare(w) \/ Plan(w) \/ AllRemoved(w)
  PROVE  PurgeInv'
<1>0. UNCHANGED receipts /\ UNCHANGED <<status, published>> /\ call[w].kind = "purge"
  BY DEF Prepare, Plan, AllRemoved, rows, hist, PurgeInv, KindInv
<1>1. CASE \E code \in {"target_invalid", "conflict", "retention_active"} : Refuse(w, code)
  BY <1>0, <1>1, RefusalTells
<1>2. CASE GotoSeeing(w, "plan") \/ Goto(w, "finalize")
  <2>1. Alone(w) /\ UNCHANGED call /\ pc'[w] \in {"plan", "finalize"}
    BY <1>2, StepsAlone
  <2> QED BY <1>0, <2>1, NothingTold DEF Tells
<1>3. CASE pc' = [pc EXCEPT ![w] = "remove"] /\ UNCHANGED <<call, reply>>
  <2>1. Alone(w) /\ pc'[w] = "remove"
    BY <1>3 DEF Alone, Inv, TypeOK
  <2> QED BY <1>0, <1>3, <2>1, NothingTold DEF Tells
<1>4. CASE status = "gone" /\ Settle(w, [purged |-> 0])
  <2>1. /\ Alone(w) /\ UNCHANGED call /\ pc'[w] \in {"record", "done"}
        /\ reply'[w] = [purged |-> 0]
    BY <1>4, StepsAlone DEF Settle
  <2>2. Truth(reply[w])' /\ ~Claims(w)'
    BY <1>0, <1>4, <2>1 DEF Truth, Claims
  <2> QED BY <1>0, <2>1, <2>2, TellingStays
<1> QED BY <1>1, <1>2, <1>3, <1>4 DEF Prepare, Plan, AllRemoved

\* The purge that destroys is the first of which anything is told.
LEMMA FinalizeTells ==
  ASSUME Inv, PurgeInv, NEW w \in Requests, Finalize(w)
  PROVE  PurgeInv'
<1>0. UNCHANGED <<receipts, published>> /\ call[w].kind = "purge"
  BY DEF Finalize, PurgeInv, KindInv
<1>1. CASE Refuse(w, "conflict") /\ (status = "gone" => UNCHANGED status)
  BY <1>0, <1>1, RefusalTells
<1>2. CASE CanPurge(w) /\ status' = "gone" /\ Settle(w, [purged |-> Cardinality(seen[w].revs)])
  <2>1. /\ Alone(w) /\ UNCHANGED call /\ pc'[w] \in {"record", "done"}
        /\ reply'[w] = [purged |-> Cardinality(seen[w].revs)]
    BY <1>2, StepsAlone DEF Settle
  <2>2. seen[w].revs = published
    BY <1>2 DEF Finalize, CanPurge, Inv, PlanInv, RowsInv
  <2>3. Cardinality(published) \in Nat
    BY LifecycleAssumption, FS_Subset, FS_CardinalityType DEF Inv, TypeOK
  <2>4. Truth(reply[w])'
    BY <1>0, <1>2, <2>1, <2>2, <2>3 DEF Truth
  <2>5. status # "gone"
    BY <1>2 DEF CanPurge
  <2> QED BY <1>0, <2>1, <2>4, <2>5, TellingStays
<1> QED BY <1>1, <1>2 DEF Finalize, CanPurge

\* The first receipt of an operation tells what its request tells.
LEMMA RecordTells ==
  ASSUME Inv, PurgeInv, NEW w \in Requests, Record(w)
  PROVE  PurgeInv'
<1> DEFINE s == Stored(w)
<1>0. UNCHANGED <<status, published>> /\ pc[w] = "record"
  BY DEF Record, rows, hist
<1>n. PICK n \in Numbers : n = call[w].number
  BY <1>0, CallKinds DEF Inv, TypeOK, RequestInv
<1>1. call[w] \in Calls /\ reply[w] \in AnswerType
  BY <1>0 DEF Inv, TypeOK, RequestInv
<1>2. receipts' = [receipts EXCEPT ![n] = s]
  BY <1>n DEF Record
<1>3. /\ Alone(w) /\ UNCHANGED call /\ pc'[w] = "done"
      /\ reply'[w] = IF s.call = call[w] THEN s.answer ELSE [error |-> "operation_conflict"]
  BY <1>0, StepsAlone DEF Record, Finish
<1>4. CASE receipts[n] # None
  <2>1. UNCHANGED receipts /\ s = receipts[n]
    BY <1>n, <1>1, <1>2, <1>4 DEF Stored, Inv, TypeOK
  <2>2. CASE s.call = call[w]
    <3>1. Tells(w)' => Truth(reply[w])'
      BY <1>n, <1>0, <1>1, <1>3, <1>4, <2>1, <2>2 DEF Tells, PurgeInv, ToldInv, Truth
    <3>2. Claims(w)' => Vouches(n)
      BY <1>n, <1>1, <1>3, <1>4, <2>1, <2>2 DEF Claims, Tells, Vouches
    <3> QED BY <1>n, <1>0, <1>1, <1>3, <2>1, <2>2, <3>1, <3>2, TellingStays
  <2>3. CASE s.call # call[w]
    BY <1>0, <1>3, <2>1, <2>3, Errors, ErrorsTellNothing, NothingTold
  <2> QED BY <2>2, <2>3
<1>5. CASE receipts[n] = None
  <2>1. s = [call |-> call[w], answer |-> reply[w]] /\ s # None
    BY <1>n, <1>1, <1>5, LifecycleAssumption DEF Stored
  <2>2. /\ receipts'[n] = s /\ \A m \in Numbers \ {n} : receipts'[m] = receipts[m]
        /\ UNCHANGED reply
    <3>1. reply' = [reply EXCEPT ![w] = reply[w]]
      BY <2>1 DEF Record, Finish, Say
    <3> QED BY <1>n, <1>1, <1>2, <3>1 DEF Inv, TypeOK
  <2> HIDE DEF s
  <2>3. \A v \in Requests : (Tells(v)' <=> Tells(v)) /\ (Claims(v)' <=> Claims(v))
    BY <1>0, <1>3, <2>2 DEF Alone, Tells, Claims
  <2>4. /\ \A m \in Numbers \ {n} : Vouches(m)' <=> Vouches(m)
        /\ Vouches(n)' => Claims(w)
    <3>1. \A m \in Numbers \ {n} : Vouches(m)' <=> Vouches(m)
      BY <2>2 DEF Vouches
    <3>2. Vouches(n)' => call[w].kind = "purge" /\ reply[w].purged > 0
      BY <2>1, <2>2 DEF Vouches
    <3> QED BY <1>n, <1>0, <1>1, <3>1, <3>2 DEF Claims, Tells
  <2>5. KindInv'
    BY <1>3 DEF Alone, PurgeInv, KindInv
  <2>6. ToldInv'
    <3>1. \A v \in Requests : Tells(v)' => Truth(reply[v])'
      BY <1>0, <2>2, <2>3 DEF PurgeInv, ToldInv, Truth
    <3>2. call[w].kind = "purge" => Truth(reply[w])
      BY <1>0, <1>1 DEF PurgeInv, ToldInv, Tells
    <3>3. ASSUME NEW m \in Numbers, receipts'[m] # None
          PROVE  /\ receipts'[m].call.number = m
                 /\ receipts'[m].call.kind = "purge" => Truth(receipts[m].answer)'
      <4>1. CASE m = n
        BY <1>n, <1>0, <2>1, <2>2, <3>2, <4>1 DEF Truth
      <4>2. CASE m # n
        BY <1>0, <2>2, <3>3, <4>2 DEF PurgeInv, ToldInv, Truth
      <4> QED BY <4>1, <4>2
    <3> QED BY <3>1, <3>3 DEF ToldInv
  <2>7. ClaimInv'
    <3>1. \A v, u \in Requests : Claims(v)' /\ Claims(u)' /\ v # u =>
            call'[v] = call'[u] /\ call'[u].number # None
      BY <1>3, <2>3 DEF PurgeInv, ClaimInv
    <3>2. Claims(w) => \A m \in Numbers : ~Vouches(m)
      <4>1. \A m \in Numbers : Vouches(m) /\ Claims(w) => m = n
        BY <1>n DEF PurgeInv, ClaimInv, ToldInv, Vouches
      <4> QED BY <1>5, <4>1 DEF Vouches
    <3>3. \A v \in Requests : Claims(v) /\ Claims(w) => call[v] = call[w]
      BY DEF PurgeInv, ClaimInv
    <3>4. ASSUME NEW m \in Numbers, NEW v \in Requests, Vouches(m)', Claims(v)'
          PROVE  call'[v] = receipts'[m].call
      <4>1. CASE m = n
        <5>1. receipts'[n].call = call[w] /\ Claims(w) /\ Claims(v)
          BY <2>1, <2>2, <2>3, <2>4, <3>4, <4>1
        <5> QED BY <1>3, <3>3, <4>1, <5>1
      <4>2. CASE m # n
        BY <1>3, <2>2, <2>3, <2>4, <3>4, <4>2 DEF PurgeInv, ClaimInv
      <4> QED BY <4>1, <4>2
    <3>5. ASSUME NEW m \in Numbers, NEW k \in Numbers, Vouches(m)', Vouches(k)' PROVE m = k
      <4>1. CASE m = n \/ k = n
        <5>1. \A j \in Numbers : ~Vouches(j)
          BY <2>4, <3>2, <3>5, <4>1
        <5> QED BY <2>4, <3>5, <5>1
      <4>2. CASE m # n /\ k # n
        BY <2>4, <3>5, <4>2 DEF PurgeInv, ClaimInv
      <4> QED BY <4>1, <4>2
    <3> QED BY <3>1, <3>4, <3>5 DEF ClaimInv
  <2> QED BY <2>5, <2>6, <2>7 DEF PurgeInv
<1> QED BY <1>4, <1>5

\* Steps around the requests: while a revision is published, nothing has been
\* told of a purge.
LEMMA AroundTells ==
  ASSUME Inv, PurgeInv,
         \/ \E r \in Revisions : Persist(r) \/ Publish(r)
         \/ \E w \in Requests, r \in Revisions : Remove(w, r)
         \/ Ripen
         \/ UNCHANGED vars
  PROVE  PurgeInv'
<1>1. /\ UNCHANGED <<pc, call, reply, receipts>> /\ UNCHANGED status
      /\ status = "gone" => UNCHANGED published
  BY DEF Persist, Publish, Remove, Ripen, vars, rows, local, hist
<1>2. \A answer : Truth(answer) => Truth(answer)'
  BY <1>1 DEF Truth
<1>3. KindInv'
  BY <1>1 DEF PurgeInv, KindInv
<1>4. ToldInv'
  BY <1>1, <1>2 DEF PurgeInv, ToldInv, Tells
<1>5. ClaimInv'
  BY <1>1 DEF PurgeInv, ClaimInv, Claims, Tells, Vouches
<1> QED BY <1>3, <1>4, <1>5 DEF PurgeInv

LEMMA ComingAndGoingTell ==
  ASSUME Inv, PurgeInv, NEW w \in Requests, Crash(w) \/ \E c \in Calls : Arrive(w, c)
  PROVE  PurgeInv'
<1>1. UNCHANGED <<receipts, status, published>>
  BY DEF Crash, Arrive, rows, hist
<1>2. CASE Crash(w)
  <2>1. Alone(w) /\ UNCHANGED call /\ pc'[w] = "done" /\ reply'[w] \in ErrorType
    BY <1>2, StepsAlone, Errors DEF Crash, Finish
  <2> QED BY <1>1, <2>1, NothingTold, ErrorsTellNothing
<1>3. ASSUME NEW c \in Calls, Arrive(w, c) PROVE PurgeInv'
  <2>1. Alone(w) /\ pc'[w] = "lookup"
    BY <1>3 DEF Arrive, Alone, Inv, TypeOK
  <2> QED BY <1>1, <2>1, NothingTold DEF Tells
<1> QED BY <1>2, <1>3

\* Together with Inv, what is said of purges is inductive.
THEOREM PurgeInvariance == Spec => []PurgeInv
<1>1. Init => PurgeInv
  BY DEF Init, PurgeInv, KindInv, ToldInv, ClaimInv, Claims, Tells, Vouches
<1>2. Inv /\ PurgeInv /\ [Next]_vars => PurgeInv'
  <2>1. ASSUME Inv, PurgeInv, NEW w \in Requests, RequestStep(w) PROVE PurgeInv'
    BY <2>1, LookupTells, OthersTell, BatchTells, PlanTells, FinalizeTells, RecordTells,
       AroundTells DEF RequestStep
  <2> QED BY <2>1, ComingAndGoingTell, AroundTells DEF Next
<1> QED BY <1>1, <1>2, Invariance, PTL DEF Spec

\* A purge tells what it destroyed: the item is gone, the count is that of all
\* its revisions or zero, and one operation claims it.
THEOREM DestructionTold == Spec => []PurgeTellsWhatItDestroyed
<1>1. PurgeInv => PurgeTellsWhatItDestroyed
  BY DEF PurgeInv, ToldInv, ClaimInv, Tells, Claims, Truth, Answered, PurgeTellsWhatItDestroyed
<1> QED BY <1>1, PurgeInvariance, PTL
=============================================================================
