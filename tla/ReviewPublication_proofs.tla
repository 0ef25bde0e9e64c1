---------------------- MODULE ReviewPublication_proofs ----------------------
(* Machine-checked proofs about ReviewPublication, for any number of        *)
(* submissions, reviewers, requests, recovery runs, crashes and any calls.  *)
EXTENDS ReviewPublication, TLAPS

ResumeSteps  == {"resume", "commit", "mark", "marked", "finalize", "batch", "refinalize",
                 "index"}
PublishSteps == {"validate", "readIntent", "readPending", "readTarget", "readItem", "insert",
                 "readBack", "explain"}
DecideSteps  == {"findReview", "readStatus", "rereview", "decide", "decideFailed",
                 "readGuard", "readReview"}

\* What readGuard leaves for readReview.
Verdicts == {[error |-> code] : code \in {"version_conflict", "decision_conflict", "unavailable"}}

Recoveries == {RecoverCall(s) : s \in Submissions}

\* A worker that resumes an intent holds a copy of the revision in the table,
\* and a publish request only resumes an intent that is its own.
HoldsIntent(w) ==
  LET i == intent[call[w].sub] IN
  /\ i # None /\ mine[w] # None /\ mine[w].rev = i.rev
  /\ w \in Requests => call[w].kind = "published" /\ SameIntent(i, call[w])

\* What a worker may rely on at each step, whatever the others do.
WorkerInv(w) ==
  /\ pc[w] # "idle" =>
       \/ w \in Requests /\ call[w] \in Calls
       \/ w \in Sweepers /\ call[w] \in Recoveries /\ pc[w] \in ResumeSteps \cup {"condemn"}
  /\ pc[w] = "condemn" => w \in Sweepers
  /\ pc[w] \in PublishSteps => call[w].kind = "published"
  /\ pc[w] \in DecideSteps => call[w].kind # "published"
  /\ pc[w] \in ResumeSteps => HoldsIntent(w)
  /\ pc[w] = "mark" => mine[w].rev \in content
  /\ pc[w] = "index" => intent[call[w].sub].state = "completed"
  /\ pc[w] = "readReview" => reply[w] \in Verdicts
  /\ pc[w] = "record" =>
       HasOperation(call[w]) /\ reply[w] \in AnswerType /\ Committed(call[w], reply[w])
  /\ pc[w] = "done" /\ reply[w] \in AnswerType =>
       /\ Committed(call[w], reply[w])
       /\ HasOperation(call[w]) => Receipt(w) = [call |-> call[w], answer |-> reply[w]]

\* Every stored receipt tells the truth about the decision it was stored for.
ReceiptsTrue ==
  \A s \in Submissions, o \in Operations :
    receipts[s][o] # None =>
      /\ receipts[s][o].call.sub = s
      /\ Committed(receipts[s][o].call, receipts[s][o].answer)

TablesInv == OneOutcome /\ ContentBeforeRevision /\ ReceiptsTrue

WorkersInv == \A w \in Workers : WorkerInv(w)

Inv == TypeOK /\ TablesInv /\ WorkersInv

-----------------------------------------------------------------------------
(* Steps move one worker; the tables only ever advance. *)

DbTypeOK ==
  /\ status \in [Submissions -> Decisions \cup {"review_pending"}]
  /\ version \in [Submissions -> Versions]
  /\ intent \in [Submissions -> IntentType \cup {None}]
  /\ review \in [Submissions -> ReviewType \cup {None}]
  /\ notices \in [Submissions -> SUBSET Decisions]
  /\ receipts \in [Submissions -> [Operations -> ReceiptType \cup {None}]]
  /\ revisions \subseteq [id : Requests, sub : Submissions, item : ItemIds]
  /\ items \in [ItemIds -> {"absent", "active", "trashed"}]
  /\ current \in [ItemIds -> Requests \cup {None}]
  /\ content \subseteq Requests

EnvTypeOK ==
  /\ available \subseteq Inputs /\ admins \subseteq Reviewers /\ valid \subseteq Submissions
  /\ crashes \in 0..MaxCrashes

LocalTypeOK ==
  /\ pc \in [Workers -> Steps]
  /\ call \in [Workers -> Calls \cup Recoveries \cup {None}]
  /\ mine \in [Workers -> IntentType \cup {None}]
  /\ reply \in [Workers -> AnswerType \cup ErrorType \cup {None}]

LEMMA TypeParts == TypeOK <=> DbTypeOK /\ EnvTypeOK /\ LocalTypeOK
BY DEF TypeOK, DbTypeOK, EnvTypeOK, LocalTypeOK, Recoveries

Same(w) == pc'[w] = pc[w] /\ call'[w] = call[w] /\ mine'[w] = mine[w] /\ reply'[w] = reply[w]

OnlyMoves(w) == \A v \in Workers \ {w} : Same(v)

TablesAdvance ==
  /\ \A s \in Submissions :
       /\ intent[s] # None =>
            /\ intent'[s] # None
            /\ intent'[s].rev = intent[s].rev /\ intent'[s].item = intent[s].item
            /\ intent'[s].by = intent[s].by /\ intent'[s].why = intent[s].why
            /\ intent[s].state \in {"completed", "failed_terminal"} =>
                 intent'[s].state = intent[s].state
       /\ Decided(s) => status'[s] = status[s] /\ notices'[s] = notices[s]
       /\ review[s] # None => review'[s] = review[s]
       /\ \A o \in Operations : receipts[s][o] # None => receipts'[s][o] = receipts[s][o]
  /\ revisions \subseteq revisions' /\ content \subseteq content'

\* An error is no answer.
LEMMA ErrorIsNoAnswer == \A code : [error |-> code] \notin AnswerType
BY DEF AnswerType, ReviewType

\* The calls requests make, and those recovery stands for.
LEMMA CallFacts ==
  ASSUME NEW c \in Calls
  PROVE  /\ c \in CallType /\ c.sub \in Submissions
         /\ HasOperation(c) => OperationOf(c) \in Operations
         /\ ReviewOf(c) \in ReviewType /\ ReviewOf(c) \in AnswerType
<1>1. /\ c \in CallType /\ c.sub \in Submissions
      /\ ReviewOf(c) \in ReviewType
  BY CallsAssumption DEF CallType, ReviewOf, ReviewType
<1>2. HasOperation(c) => OperationOf(c) \in Operations
  BY <1>1 DEF CallType, HasOperation, OperationOf, Operations
<1> QED BY <1>1, <1>2 DEF AnswerType

LEMMA RecoveryFacts ==
  ASSUME NEW c \in Recoveries PROVE c.sub \in Submissions /\ ~HasOperation(c)
BY DEF Recoveries, RecoverCall, HasOperation

LEMMA ReviewNotNone == None \notin ReviewType /\ None \notin IntentType
                       /\ None \notin AnswerType /\ None \notin ReceiptType
                       /\ None \notin OutcomeType
BY NoneAssumption DEF OutcomeType

LEMMA GotoMoves ==
  ASSUME LocalTypeOK, NEW w \in Workers, NEW step \in Steps, Goto(w, step)
  PROVE  /\ LocalTypeOK' /\ OnlyMoves(w)
         /\ pc'[w] = step /\ call'[w] = call[w] /\ mine'[w] = mine[w] /\ reply'[w] = reply[w]
BY DEF LocalTypeOK, Goto, OnlyMoves, Same

LEMMA FinishMoves ==
  ASSUME LocalTypeOK, NEW w \in Workers, NEW r \in AnswerType \cup ErrorType \cup {None},
         Finish(w, r)
  PROVE  /\ LocalTypeOK' /\ OnlyMoves(w)
         /\ w \in Sweepers => pc'[w] = "idle"
         /\ w \notin Sweepers => pc'[w] = "done" /\ call'[w] = call[w] /\ reply'[w] = r
BY DEF LocalTypeOK, Finish, OnlyMoves, Same, Steps

LEMMA SettleMoves ==
  ASSUME LocalTypeOK, NEW w \in Workers, NEW a \in AnswerType, Settle(w, a)
  PROVE  /\ LocalTypeOK' /\ OnlyMoves(w)
         /\ HasOperation(call[w]) => pc'[w] = "record" /\ call'[w] = call[w] /\ reply'[w] = a
         /\ ~HasOperation(call[w]) => Finish(w, a)
<1>1. CASE HasOperation(call[w])
  BY <1>1 DEF Settle, LocalTypeOK, OnlyMoves, Same, Steps
<1>2. CASE ~HasOperation(call[w])
  BY <1>2, FinishMoves DEF Settle
<1> QED BY <1>1, <1>2

\* What is committed stays committed.
LEMMA CommittedStable ==
  ASSUME Inv, TablesAdvance, NEW c \in Calls, NEW a, Committed(c, a)
  PROVE  Committed(c, a)'
<1>1. c.sub \in Submissions /\ ReviewOf(c) # None
  BY CallFacts, ReviewNotNone
<1>2. review'[c.sub] = ReviewOf(c)
  BY <1>1 DEF Committed, TablesAdvance
<1> QED BY <1>2 DEF Committed, TablesAdvance

\* A worker that does not move keeps what it relies on.
LEMMA OthersInv ==
  ASSUME Inv, TablesAdvance, NEW w \in Workers, Same(w)
  PROVE  WorkerInv(w)'
<1> USE DEF Inv, WorkersInv, Same
<1>1. CASE pc[w] = "idle"
  BY <1>1 DEF WorkerInv, PublishSteps, DecideSteps, ResumeSteps
<1>2. CASE pc[w] # "idle"
  <2>1. call[w].sub \in Submissions
    <3>1. call[w] \in Calls \/ call[w] \in Recoveries
      BY <1>2 DEF WorkerInv
    <3> QED BY <3>1, CallFacts, RecoveryFacts
  <2>2. pc[w] \in ResumeSteps => HoldsIntent(w)'
    BY <2>1 DEF WorkerInv, HoldsIntent, SameIntent, TablesAdvance
  <2>3. pc[w] = "mark" => mine[w].rev \in content'
    BY DEF WorkerInv, TablesAdvance
  <2>4. pc[w] = "index" => intent'[call[w].sub].state = "completed"
    BY <2>1 DEF WorkerInv, ResumeSteps, HoldsIntent, TablesAdvance
  <2>5. pc[w] \in {"record", "done"} => call[w] \in Calls
    BY <1>2 DEF WorkerInv, ResumeSteps
  <2>6. pc[w] \in {"record", "done"} /\ Committed(call[w], reply[w])
          => Committed(call[w], reply[w])'
    BY <2>5, CommittedStable
  <2>7. pc[w] = "done" /\ HasOperation(call[w]) => OperationOf(call[w]) \in Operations
    BY <2>5, CallFacts
  <2>8. ASSUME pc[w] = "done", reply[w] \in AnswerType, HasOperation(call[w]),
               Receipt(w) = [call |-> call[w], answer |-> reply[w]]
        PROVE  Receipt(w)' = [call |-> call[w], answer |-> reply[w]]
    <3>1. Receipt(w) # None
      BY <2>5, <2>8, ReviewNotNone DEF ReceiptType
    <3>2. receipts'[call[w].sub][OperationOf(call[w])] = Receipt(w)
      BY <2>1, <2>7, <2>8, <3>1 DEF Receipt, TablesAdvance
    <3> QED BY <2>8, <3>2 DEF Receipt, OperationOf
  <2> QED BY <1>2, <2>2, <2>3, <2>4, <2>6, <2>8 DEF WorkerInv, HasOperation
<1> QED BY <1>1, <1>2

-----------------------------------------------------------------------------
(* How a step that only moves its worker keeps the invariant. *)

LEMMA Unchanged ==
  ASSUME Inv, UNCHANGED <<db, content>>
  PROVE  DbTypeOK' /\ TablesInv' /\ TablesAdvance
<1>1. TablesAdvance
  BY DEF db, TablesAdvance
<1>2. DbTypeOK'
  BY TypeParts DEF Inv, db, DbTypeOK
<1>3. TablesInv'
  BY DEF Inv, db, TablesInv, OneOutcome, Decided, ContentBeforeRevision, ReceiptsTrue, Committed
<1> QED BY <1>1, <1>2, <1>3

LEMMA Assemble ==
  ASSUME Inv, NEW w \in Workers, TablesAdvance, TablesInv', OnlyMoves(w),
         DbTypeOK', LocalTypeOK', EnvTypeOK', WorkerInv(w)'
  PROVE  Inv' /\ TablesAdvance
<1>1. TypeOK'
  BY TypeParts DEF TypeOK, DbTypeOK, EnvTypeOK, LocalTypeOK, Recoveries
<1>2. ASSUME NEW v \in Workers PROVE WorkerInv(v)'
  <2>1. CASE v = w
    BY <2>1
  <2>2. CASE v # w
    BY <2>2, OthersInv DEF OnlyMoves
  <2> QED BY <2>1, <2>2
<1>3. WorkersInv'
  BY <1>2 DEF WorkersInv, Workers
<1> QED BY <1>1, <1>3 DEF Inv

\* A step that only moves its worker: what that worker may rely on is all there
\* is to show.
LEMMA LocalStep ==
  ASSUME Inv, NEW w \in Workers, UNCHANGED <<db, content, env>>, EnvTypeOK',
         LocalTypeOK', OnlyMoves(w), WorkerInv(w)'
  PROVE  Inv' /\ TablesAdvance
BY Unchanged, Assemble

LEMMA ErrorCode ==
  ASSUME NEW code, [error |-> code] \in ErrorType
  PROVE  [error |-> code] \in AnswerType \cup ErrorType \cup {None}
OBVIOUS

\* Whoever fails relies on nothing.
LEMMA FailMoves ==
  ASSUME Inv, NEW w \in Workers, pc[w] # "idle",
         NEW code, [error |-> code] \in ErrorType, Fail(w, code)
  PROVE  LocalTypeOK' /\ OnlyMoves(w) /\ WorkerInv(w)'
<1>1. LocalTypeOK' /\ OnlyMoves(w)
      /\ (w \in Sweepers => pc'[w] = "idle")
      /\ (w \notin Sweepers => pc'[w] = "done" /\ call'[w] = call[w]
                               /\ reply'[w] = [error |-> code])
  BY TypeParts, FinishMoves DEF Fail, Inv
<1>2. WorkerInv(w)
  BY DEF Inv, WorkersInv
<1>3. CASE w \in Sweepers
  BY <1>1, <1>3 DEF WorkerInv, PublishSteps, DecideSteps, ResumeSteps
<1>4. CASE w \notin Sweepers
  BY <1>1, <1>2, <1>4, ErrorIsNoAnswer
  DEF WorkerInv, PublishSteps, DecideSteps, ResumeSteps
<1> QED BY <1>1, <1>3, <1>4

\* Whoever finishes with an answer says what is committed and, if its operation
\* is recorded, what was recorded for it.
LEMMA FinishMovesOn ==
  ASSUME Inv, NEW w \in Workers, pc[w] # "idle", NEW a \in AnswerType, Finish(w, a),
         w \in Requests =>
           /\ Committed(call[w], a) \/ Committed(call[w], a)'
           /\ TablesAdvance
           /\ HasOperation(call[w]) =>
                receipts'[call[w].sub][OperationOf(call[w])] = [call |-> call[w], answer |-> a]
  PROVE  LocalTypeOK' /\ OnlyMoves(w) /\ WorkerInv(w)'
<1>1. LocalTypeOK' /\ OnlyMoves(w)
      /\ (w \in Sweepers => pc'[w] = "idle")
      /\ (w \notin Sweepers => pc'[w] = "done" /\ call'[w] = call[w] /\ reply'[w] = a)
  BY TypeParts, FinishMoves DEF Inv
<1>2. WorkerInv(w)
  BY DEF Inv, WorkersInv
<1>3. CASE w \in Sweepers
  BY <1>1, <1>3 DEF WorkerInv, PublishSteps, DecideSteps, ResumeSteps
<1>4. CASE w \notin Sweepers
  <2>1. w \in Requests /\ call[w] \in Calls
    BY <1>2, <1>4 DEF WorkerInv, Workers
  <2>2. Committed(call[w], reply[w])'
    BY <1>1, <1>4, <2>1, CommittedStable
  <2>3. HasOperation(call[w])' => Receipt(w)' = [call |-> call[w], answer |-> reply[w]]'
    BY <1>1, <1>4, <2>1 DEF Receipt, HasOperation, OperationOf
  <2> QED BY <1>1, <1>4, <2>1, <2>2, <2>3
          DEF WorkerInv, PublishSteps, DecideSteps, ResumeSteps
<1> QED BY <1>1, <1>3, <1>4

\* Whoever settles on an answer that is committed records it next.
LEMMA SettleMovesOn ==
  ASSUME Inv, NEW w \in Workers, pc[w] # "idle", NEW a \in AnswerType, Settle(w, a),
         TablesAdvance,
         w \in Requests => Committed(call[w], a) \/ Committed(call[w], a)'
  PROVE  LocalTypeOK' /\ OnlyMoves(w) /\ WorkerInv(w)'
<1>1. WorkerInv(w)
  BY DEF Inv, WorkersInv
<1>2. CASE HasOperation(call[w])
  <2>1. w \in Requests /\ call[w] \in Calls
    BY <1>1, <1>2, RecoveryFacts DEF WorkerInv
  <2>2. /\ LocalTypeOK' /\ OnlyMoves(w)
        /\ pc'[w] = "record" /\ call'[w] = call[w] /\ reply'[w] = a
    BY <1>2, TypeParts, SettleMoves DEF Inv
  <2>3. Committed(call[w], reply[w])'
    BY <2>1, <2>2, CommittedStable
  <2> QED BY <1>2, <2>1, <2>2, <2>3
          DEF WorkerInv, PublishSteps, DecideSteps, ResumeSteps, HasOperation
<1>3. CASE ~HasOperation(call[w])
  <2>1. Finish(w, a)
    BY <1>3 DEF Settle
  <2> QED BY <1>3, <2>1, FinishMovesOn
<1> QED BY <1>2, <1>3

\* A replayed answer is committed, because every stored receipt is true.
LEMMA ReplayMoves ==
  ASSUME Inv, NEW w \in Workers, pc[w] # "idle", UNCHANGED db, UNCHANGED content,
         Recorded(w), Replay(w)
  PROVE  LocalTypeOK' /\ OnlyMoves(w) /\ WorkerInv(w)'
<1>1. WorkerInv(w) /\ HasOperation(call[w])
  BY DEF Inv, WorkersInv, Recorded
<1>2. /\ w \in Requests /\ call[w] \in Calls
      /\ call[w].sub \in Submissions /\ OperationOf(call[w]) \in Operations
  BY <1>1, CallFacts, RecoveryFacts DEF WorkerInv
<1>3. Receipt(w) \in ReceiptType
  BY <1>2, TypeParts DEF Inv, DbTypeOK, Receipt, Recorded
<1>4. TablesAdvance
  BY Unchanged DEF Inv
<1>5. CASE Receipt(w).call = call[w]
  <2>1. Committed(call[w], Receipt(w).answer)
    BY <1>2, <1>5 DEF Inv, TablesInv, ReceiptsTrue, Receipt, Recorded
  <2>2. Receipt(w) = [call |-> call[w], answer |-> Receipt(w).answer]
        /\ Receipt(w).answer \in AnswerType
    BY <1>3, <1>5 DEF ReceiptType
  <2>3. receipts'[call[w].sub][OperationOf(call[w])] = Receipt(w)
    BY DEF db, Receipt
  <2>4. Finish(w, Receipt(w).answer)
    BY <1>5 DEF Replay
  <2> QED BY <1>4, <2>1, <2>2, <2>3, <2>4, FinishMovesOn
<1>6. CASE Receipt(w).call # call[w]
  BY <1>6, FailMoves DEF Replay, ErrorType
<1> QED BY <1>5, <1>6

\* Going on to a step: its premises are all there is to show.
LEMMA GotoMovesOn ==
  ASSUME Inv, NEW w \in Workers, pc[w] # "idle", 
         NEW step \in Steps \ {"idle", "done", "record", "condemn", "readReview"},
         Goto(w, step), TablesAdvance,
         w \in Sweepers => step \in ResumeSteps,
         step \in PublishSteps => call[w].kind = "published",
         step \in DecideSteps => call[w].kind # "published",
         step \in ResumeSteps => HoldsIntent(w),
         step = "mark" => mine[w].rev \in content',
         step = "index" => intent'[call[w].sub].state = "completed"
  PROVE  LocalTypeOK' /\ OnlyMoves(w) /\ WorkerInv(w)'
<1>1. /\ LocalTypeOK' /\ OnlyMoves(w)
      /\ pc'[w] = step /\ call'[w] = call[w] /\ mine'[w] = mine[w] /\ reply'[w] = reply[w]
  BY TypeParts, GotoMoves DEF Inv
<1>2. /\ call[w].sub \in Submissions
      /\ \/ w \in Requests /\ call[w] \in Calls
         \/ w \in Sweepers /\ call[w] \in Recoveries
  BY CallFacts, RecoveryFacts DEF Inv, WorkersInv, WorkerInv
<1>3. step \in ResumeSteps => HoldsIntent(w)'
  BY <1>1, <1>2 DEF HoldsIntent, SameIntent, TablesAdvance
<1> QED BY <1>1, <1>2, <1>3 DEF WorkerInv

-----------------------------------------------------------------------------
(* Steps that only read. *)

LEMMA EnvSame == Inv /\ UNCHANGED <<env, crashes>> => EnvTypeOK'
BY TypeParts DEF Inv, env, EnvTypeOK

LEMMA WorkerFacts ==
  ASSUME Inv, NEW w \in Workers, pc[w] # "idle"
  PROVE  /\ WorkerInv(w) /\ call[w].sub \in Submissions
         /\ \/ w \in Requests /\ w \notin Sweepers /\ call[w] \in Calls
            \/ w \in Sweepers /\ w \notin Requests /\ call[w] \in Recoveries
BY CallFacts, RecoveryFacts, WorkersAssumption DEF Inv, WorkersInv, WorkerInv

LEMMA ArriveInv ==
  ASSUME Inv, NEW w \in Requests, NEW c \in Calls, Arrive(w, c)
  PROVE  Inv' /\ TablesAdvance
<1> USE DEF Arrive
<1>1. w \in Workers
  BY DEF Workers
<1>2. LocalTypeOK' /\ OnlyMoves(w)
  BY <1>1, TypeParts DEF Inv, LocalTypeOK, OnlyMoves, Same, Steps
<1>3. pc'[w] = "lookup" /\ call'[w] = c
  BY <1>1, TypeParts DEF Inv, LocalTypeOK
<1>4. WorkerInv(w)'
  BY <1>3 DEF WorkerInv, PublishSteps, DecideSteps, ResumeSteps
<1> QED BY <1>1, <1>2, <1>4, EnvSame, LocalStep DEF env

LEMMA LookupInv ==
  ASSUME Inv, NEW w \in Requests, Lookup(w)
  PROVE  Inv' /\ TablesAdvance
<1> USE DEF Lookup
<1>1. w \in Workers /\ w \notin Sweepers /\ TablesAdvance
  BY WorkersAssumption, Unchanged DEF Workers
<1>2. LocalTypeOK' /\ OnlyMoves(w) /\ WorkerInv(w)'
  <2>1. CASE Recorded(w)
    BY <1>1, <2>1, ReplayMoves
  <2>2. CASE ~Recorded(w)
    BY <1>1, <2>2, GotoMovesOn DEF Steps, PublishSteps, DecideSteps, ResumeSteps
  <2> QED BY <2>1, <2>2
<1> QED BY <1>1, <1>2, EnvSame, LocalStep

LEMMA ValidateInv ==
  ASSUME Inv, NEW w \in Requests, Validate(w)
  PROVE  Inv' /\ TablesAdvance
<1> USE DEF Validate
<1>1. w \in Workers /\ w \notin Sweepers /\ TablesAdvance
  BY WorkersAssumption, Unchanged DEF Workers
<1>2. call[w].kind = "published"
  BY <1>1, WorkerFacts DEF WorkerInv, PublishSteps
<1>3. LocalTypeOK' /\ OnlyMoves(w) /\ WorkerInv(w)'
  <2>1. ASSUME NEW code \in {"target_invalid", "content_mismatch"}, Fail(w, code)
        PROVE  LocalTypeOK' /\ OnlyMoves(w) /\ WorkerInv(w)'
    BY <1>1, <2>1, FailMoves DEF ErrorType
  <2>2. CASE Goto(w, "readIntent")
    BY <1>1, <1>2, <2>2, GotoMovesOn DEF Steps, PublishSteps, DecideSteps, ResumeSteps
  <2> QED BY <2>1, <2>2
<1> QED BY <1>1, <1>3, EnvSame, LocalStep

\* Adopting the intent found in the table, if it is the caller's own.
LEMMA AdoptMoves ==
  ASSUME Inv, NEW w \in Requests, pc[w] \in {"readIntent", "readBack"},
         UNCHANGED <<db, content>>,
         intent[call[w].sub] # None, Adopt(w, intent[call[w].sub])
  PROVE  LocalTypeOK' /\ OnlyMoves(w) /\ WorkerInv(w)'
<1>1. w \in Workers /\ w \notin Sweepers /\ pc[w] # "idle"
  BY WorkersAssumption DEF Workers
<1>2. /\ call[w].kind = "published" /\ call[w].sub \in Submissions
      /\ call[w] \in Calls
  BY <1>1, WorkerFacts DEF WorkerInv, PublishSteps
<1>3. CASE SameIntent(intent[call[w].sub], call[w])
  <2>1. intent[call[w].sub] \in IntentType
    BY <1>2, TypeParts DEF Inv, DbTypeOK
  <2>2. LocalTypeOK' /\ OnlyMoves(w)
    BY <1>1, <1>3, <2>1, TypeParts DEF Inv, Adopt, LocalTypeOK, OnlyMoves, Same, Steps
  <2>3. /\ pc'[w] = "resume" /\ call'[w] = call[w]
        /\ mine'[w] = intent[call[w].sub] /\ intent' = intent
    BY <1>1, <1>3, TypeParts DEF Inv, Adopt, LocalTypeOK, db
  <2>4. HoldsIntent(w)'
    BY <1>2, <1>3, <2>3 DEF HoldsIntent, SameIntent
  <2> QED BY <1>1, <1>2, <2>2, <2>3, <2>4
          DEF WorkerInv, PublishSteps, DecideSteps, ResumeSteps
<1>4. CASE ~SameIntent(intent[call[w].sub], call[w])
  BY <1>1, <1>4, FailMoves DEF Adopt, ErrorType
<1> QED BY <1>3, <1>4

LEMMA ReadIntentInv ==
  ASSUME Inv, NEW w \in Requests, ReadIntent(w)
  PROVE  Inv' /\ TablesAdvance
<1> USE DEF ReadIntent
<1>1. w \in Workers /\ w \notin Sweepers /\ TablesAdvance
  BY WorkersAssumption, Unchanged DEF Workers
<1>2. call[w].kind = "published"
  BY <1>1, WorkerFacts DEF WorkerInv, PublishSteps
<1>3. LocalTypeOK' /\ OnlyMoves(w) /\ WorkerInv(w)'
  <2>1. CASE intent[call[w].sub] # None
    BY <2>1, AdoptMoves
  <2>2. CASE intent[call[w].sub] = None
    BY <1>1, <1>2, <2>2, GotoMovesOn DEF Steps, PublishSteps, DecideSteps, ResumeSteps
  <2> QED BY <2>1, <2>2
<1> QED BY <1>1, <1>3, EnvSame, LocalStep

\* The reads between the look for an intent and the INSERT, and the one after it.
LEMMA ReadsInv ==
  ASSUME Inv, NEW w \in Requests,
         ReadPending(w) \/ ReadTarget(w) \/ ReadItem(w) \/ Explain(w)
  PROVE  Inv' /\ TablesAdvance
<1> USE DEF ReadPending, ReadTarget, ReadItem, Explain
<1>1. w \in Workers /\ w \notin Sweepers /\ TablesAdvance
  BY WorkersAssumption, Unchanged DEF Workers
<1>2. call[w].kind = "published"
  BY <1>1, WorkerFacts DEF WorkerInv, PublishSteps
<1>3. LocalTypeOK' /\ OnlyMoves(w) /\ WorkerInv(w)'
  <2>1. ASSUME NEW code \in {"submission_not_pending", "target_invalid", "version_conflict"},
               Fail(w, code)
        PROVE  LocalTypeOK' /\ OnlyMoves(w) /\ WorkerInv(w)'
    BY <1>1, <2>1, FailMoves DEF ErrorType
  <2>2. ASSUME NEW step \in {"readTarget", "readItem", "insert"}, Goto(w, step)
        PROVE  LocalTypeOK' /\ OnlyMoves(w) /\ WorkerInv(w)'
    BY <1>1, <1>2, <2>2, GotoMovesOn DEF Steps, PublishSteps, DecideSteps, ResumeSteps
  <2> QED BY <2>1, <2>2
<1> QED BY <1>1, <1>3, EnvSame, LocalStep

LEMMA ReadBackInv ==
  ASSUME Inv, NEW w \in Requests, ReadBack(w)
  PROVE  Inv' /\ TablesAdvance
<1> USE DEF ReadBack
<1>1. w \in Workers /\ w \notin Sweepers /\ TablesAdvance
  BY WorkersAssumption, Unchanged DEF Workers
<1>2. call[w].kind = "published"
  BY <1>1, WorkerFacts DEF WorkerInv, PublishSteps
<1>3. LocalTypeOK' /\ OnlyMoves(w) /\ WorkerInv(w)'
  <2>1. CASE intent[call[w].sub] # None
    BY <2>1, AdoptMoves
  <2>2. CASE intent[call[w].sub] = None
    BY <1>1, <1>2, <2>2, GotoMovesOn DEF Steps, PublishSteps, DecideSteps, ResumeSteps
  <2> QED BY <2>1, <2>2
<1> QED BY <1>1, <1>3, EnvSame, LocalStep

\* What a worker that resumes an intent may use.
LEMMA HolderFacts ==
  ASSUME Inv, NEW w \in Workers, pc[w] \in ResumeSteps
  PROVE  /\ pc[w] # "idle" /\ WorkerInv(w) /\ HoldsIntent(w)
         /\ call[w].sub \in Submissions
         /\ intent[call[w].sub] \in IntentType /\ mine[w] \in IntentType
<1>1. pc[w] # "idle"
  BY DEF ResumeSteps
<1>2. WorkerInv(w) /\ HoldsIntent(w) /\ call[w].sub \in Submissions
  BY <1>1, WorkerFacts DEF WorkerInv
<1> QED BY <1>1, <1>2, TypeParts DEF Inv, DbTypeOK, LocalTypeOK, HoldsIntent

LEMMA ResumeInv ==
  ASSUME Inv, NEW w \in Workers, Resume(w)
  PROVE  Inv' /\ TablesAdvance
<1> USE DEF Resume
<1>1. pc[w] \in ResumeSteps /\ TablesAdvance
  BY Unchanged DEF ResumeSteps
<1>2. LocalTypeOK' /\ OnlyMoves(w) /\ WorkerInv(w)'
  <2>1. CASE Recorded(w)
    BY <2>1, ReplayMoves
  <2>2. CASE Fail(w, "content_mismatch")
    BY <2>2, FailMoves DEF ErrorType
  <2>3. ASSUME NEW step \in {"commit", "finalize"}, Goto(w, step)
        PROVE  LocalTypeOK' /\ OnlyMoves(w) /\ WorkerInv(w)'
    BY <1>1, <2>3, HolderFacts, GotoMovesOn DEF Steps, PublishSteps, DecideSteps, ResumeSteps
  <2> QED BY <2>1, <2>2, <2>3
<1> QED BY <1>2, EnvSame, LocalStep

LEMMA ReadForFinalizeInv ==
  ASSUME Inv, NEW w \in Workers, ReadForFinalize(w)
  PROVE  Inv' /\ TablesAdvance
<1> USE DEF ReadForFinalize
<1>1. pc[w] \in ResumeSteps /\ TablesAdvance /\ intent' = intent
  BY Unchanged DEF ResumeSteps, db
<1>2. LocalTypeOK' /\ OnlyMoves(w) /\ WorkerInv(w)'
  <2>1. CASE intent[call[w].sub].state = "completed"
    BY <1>1, <2>1, HolderFacts, GotoMovesOn DEF Steps, PublishSteps, DecideSteps, ResumeSteps
  <2>2. CASE Fail(w, "receipt_mismatch")
    BY <2>2, FailMoves DEF ErrorType
  <2>3. CASE Goto(w, "batch")
    BY <1>1, <2>3, HolderFacts, GotoMovesOn DEF Steps, PublishSteps, DecideSteps, ResumeSteps
  <2> QED BY <2>1, <2>2, <2>3
<1> QED BY <1>2, EnvSame, LocalStep

LEMMA RefinalizeInv ==
  ASSUME Inv, NEW w \in Workers, Refinalize(w)
  PROVE  Inv' /\ TablesAdvance
<1> USE DEF Refinalize
<1>1. pc[w] \in ResumeSteps /\ TablesAdvance /\ intent' = intent
  BY Unchanged DEF ResumeSteps, db
<1>2. LocalTypeOK' /\ OnlyMoves(w) /\ WorkerInv(w)'
  <2>1. CASE intent[call[w].sub].state = "completed"
    BY <1>1, <2>1, HolderFacts, GotoMovesOn DEF Steps, PublishSteps, DecideSteps, ResumeSteps
  <2>2. CASE Fail(w, "unavailable")
    BY <2>2, FailMoves DEF ErrorType
  <2> QED BY <2>1, <2>2
<1> QED BY <1>2, EnvSame, LocalStep

\* A publication that is completed is the caller's decision committed.
LEMMA CompletedIsCommitted ==
  ASSUME Inv, NEW w \in Requests, pc[w] \in ResumeSteps,
         intent[call[w].sub].state = "completed",
         NEW search \in {"indexed", "pending"}
  PROVE  /\ Published(intent[call[w].sub].rev, search) \in AnswerType
         /\ Committed(call[w], Published(intent[call[w].sub].rev, search))
<1> DEFINE s == call[w].sub
           r == [id |-> intent[s].rev, sub |-> s, item |-> intent[s].item]
<1>1. /\ w \in Workers /\ HoldsIntent(w) /\ s \in Submissions
      /\ intent[s] \in IntentType
      /\ call[w].kind = "published" /\ SameIntent(intent[s], call[w])
  BY HolderFacts DEF Workers, HoldsIntent
<1>2. status[s] = "published" /\ intent[s] # None
  BY <1>1 DEF Inv, TablesInv, OneOutcome, HoldsIntent
<1>3. /\ review[s] # None /\ review[s].decision = "published" /\ r \in revisions
      /\ review[s].by = intent[s].by /\ review[s].why = intent[s].why
  BY <1>1, <1>2 DEF Inv, TablesInv, OneOutcome, Decided
<1>4. review[s] \in ReviewType
  BY <1>1, <1>3, TypeParts DEF Inv, DbTypeOK
<1>5. review[s] = ReviewOf(call[w])
  BY <1>1, <1>3, <1>4 DEF ReviewType, ReviewOf, SameIntent
<1>6. \E x \in revisions : /\ x.id = intent[s].rev /\ x.sub = s
                           /\ call[w].item # None => x.item = call[w].item
  BY <1>1, <1>3 DEF SameIntent
<1> QED BY <1>1, <1>5, <1>6 DEF Committed, Published, AnswerType, IntentType

LEMMA IndexInv ==
  ASSUME Inv, NEW w \in Workers, Index(w)
  PROVE  Inv' /\ TablesAdvance
<1> USE DEF Index
<1>1. pc[w] \in ResumeSteps /\ TablesAdvance
  BY Unchanged DEF ResumeSteps
<1>2. PICK search \in {"indexed", "pending"} :
        Settle(w, Published(intent[call[w].sub].rev, search))
  OBVIOUS
<1>3. pc[w] # "idle" /\ intent[call[w].sub].state = "completed"
      /\ intent[call[w].sub] \in IntentType
  BY <1>1, HolderFacts DEF WorkerInv
<1>4. Published(intent[call[w].sub].rev, search) \in AnswerType
  BY <1>3 DEF Published, AnswerType, IntentType
<1>5. LocalTypeOK' /\ OnlyMoves(w) /\ WorkerInv(w)'
  BY <1>1, <1>2, <1>3, <1>4, CompletedIsCommitted, SettleMovesOn
<1> QED BY <1>5, EnvSame, LocalStep

\* A review that is the caller's own commits the caller's answer.
LEMMA ReviewIsCommitted ==
  ASSUME Inv, NEW w \in Requests, pc[w] \in DecideSteps
  PROVE  /\ w \in Workers /\ pc[w] # "idle" /\ w \notin Sweepers
         /\ call[w] \in Calls /\ call[w].sub \in Submissions /\ call[w].kind # "published"
         /\ ReviewOf(call[w]) \in AnswerType
         /\ review[call[w].sub] = ReviewOf(call[w]) =>
              Committed(call[w], ReviewOf(call[w]))
<1>1. w \in Workers /\ pc[w] # "idle"
  BY DEF Workers, DecideSteps
<1>2. call[w] \in Calls /\ w \notin Sweepers /\ call[w].kind # "published"
  BY <1>1, WorkerFacts DEF WorkerInv
<1> QED BY <1>1, <1>2, CallFacts DEF Committed, ReviewOf

LEMMA FindReviewInv ==
  ASSUME Inv, NEW w \in Requests, FindReview(w) \/ ReadStatus(w) \/ Rereview(w)
  PROVE  Inv' /\ TablesAdvance
<1> USE DEF FindReview, ReadStatus, Rereview
<1>1. pc[w] \in DecideSteps /\ TablesAdvance /\ w \in Workers
  BY Unchanged DEF DecideSteps, Workers
<1>2. LocalTypeOK' /\ OnlyMoves(w) /\ WorkerInv(w)'
  <2>1. CASE Converge(w) /\ review[call[w].sub] = ReviewOf(call[w])
    BY <1>1, <2>1, ReviewIsCommitted, SettleMovesOn DEF Converge
  <2>2. CASE Fail(w, "decision_conflict")
    BY <1>1, <2>2, FailMoves, ReviewIsCommitted DEF ErrorType
  <2>3. ASSUME NEW step \in {"readStatus", "decide", "rereview"}, Goto(w, step)
        PROVE  LocalTypeOK' /\ OnlyMoves(w) /\ WorkerInv(w)'
    BY <1>1, <2>3, ReviewIsCommitted, GotoMovesOn
    DEF Steps, PublishSteps, DecideSteps, ResumeSteps
  <2> QED BY <2>1, <2>2, <2>3 DEF Converge
<1> QED BY <1>1, <1>2, EnvSame, LocalStep

LEMMA DecideFailedInv ==
  ASSUME Inv, NEW w \in Requests, DecideFailed(w)
  PROVE  Inv' /\ TablesAdvance
<1> USE DEF DecideFailed
<1>1. pc[w] \in DecideSteps /\ TablesAdvance /\ w \in Workers
  BY Unchanged DEF DecideSteps, Workers
<1>2. LocalTypeOK' /\ OnlyMoves(w) /\ WorkerInv(w)'
  <2>1. CASE Recorded(w)
    BY <1>1, <2>1, ReplayMoves, ReviewIsCommitted
  <2>2. CASE Goto(w, "readGuard")
    BY <1>1, <2>2, ReviewIsCommitted, GotoMovesOn
    DEF Steps, PublishSteps, DecideSteps, ResumeSteps
  <2> QED BY <2>1, <2>2
<1> QED BY <1>1, <1>2, EnvSame, LocalStep

LEMMA ReadGuardInv ==
  ASSUME Inv, NEW w \in Requests, ReadGuard(w)
  PROVE  Inv' /\ TablesAdvance
<1> USE DEF ReadGuard
<1>1. /\ pc[w] \in DecideSteps /\ w \in Workers /\ w \notin Sweepers
      /\ pc[w] # "idle" /\ call[w] \in Calls /\ call[w].kind # "published"
  BY ReviewIsCommitted DEF DecideSteps
<1>2. [error |-> Verdict(call[w])] \in Verdicts /\ Verdicts \subseteq ErrorType
  BY DEF Verdict, Verdicts, ErrorType
<1>3. LocalTypeOK' /\ OnlyMoves(w)
  BY <1>1, <1>2, TypeParts DEF Inv, LocalTypeOK, OnlyMoves, Same, Steps
<1>4. /\ pc'[w] = "readReview" /\ call'[w] = call[w] /\ reply'[w] \in Verdicts
  BY <1>1, <1>2, TypeParts DEF Inv, LocalTypeOK
<1>5. WorkerInv(w)'
  BY <1>1, <1>4 DEF WorkerInv, PublishSteps, DecideSteps, ResumeSteps
<1> QED BY <1>1, <1>3, <1>5, EnvSame, LocalStep

LEMMA ReadReviewInv ==
  ASSUME Inv, NEW w \in Requests, ReadReview(w)
  PROVE  Inv' /\ TablesAdvance
<1> USE DEF ReadReview
<1>1. /\ pc[w] \in DecideSteps /\ TablesAdvance /\ w \in Workers /\ pc[w] # "idle"
      /\ w \notin Sweepers
  BY Unchanged, ReviewIsCommitted DEF DecideSteps, Workers
<1>2. LocalTypeOK' /\ OnlyMoves(w) /\ WorkerInv(w)'
  <2>1. CASE Settle(w, ReviewOf(call[w])) /\ review[call[w].sub] = ReviewOf(call[w])
    BY <1>1, <2>1, ReviewIsCommitted, SettleMovesOn
  <2>2. CASE Fail(w, "decision_conflict")
    BY <1>1, <2>2, FailMoves DEF ErrorType
  <2>3. CASE Finish(w, reply[w])
    <3>1. reply[w] \in Verdicts
      BY <1>1 DEF Inv, WorkersInv, WorkerInv
    <3>2. PICK code \in {"version_conflict", "decision_conflict", "unavailable"} :
            reply[w] = [error |-> code]
      BY <3>1 DEF Verdicts
    <3>3. Fail(w, code)
      BY <2>3, <3>2 DEF Fail
    <3> QED BY <1>1, <3>3, FailMoves DEF ErrorType
  <2> QED BY <2>1, <2>2, <2>3
<1> QED BY <1>1, <1>2, EnvSame, LocalStep

LEMMA SweepInv ==
  ASSUME Inv, NEW w \in Sweepers, NEW s \in Submissions, Sweep(w, s)
  PROVE  Inv' /\ TablesAdvance
<1> USE DEF Sweep
<1>1. w \in Workers /\ w \notin Requests /\ RecoverCall(s) \in Recoveries
  BY WorkersAssumption DEF Workers, Recoveries
<1>2. intent[s] \in IntentType /\ intent[s] # None
  BY TypeParts DEF Inv, DbTypeOK, Unfinished
<1>3. LocalTypeOK' /\ OnlyMoves(w)
  BY <1>1, <1>2, TypeParts DEF Inv, LocalTypeOK, OnlyMoves, Same, Steps
<1>4. /\ pc'[w] \in {"resume", "condemn"} /\ call'[w] = RecoverCall(s)
      /\ mine'[w] = intent[s] /\ intent' = intent /\ RecoverCall(s).sub = s
  BY <1>1, TypeParts DEF Inv, LocalTypeOK, db, RecoverCall
<1>5. HoldsIntent(w)'
  BY <1>1, <1>2, <1>4 DEF HoldsIntent
<1>6. WorkerInv(w)'
  BY <1>1, <1>4, <1>5 DEF WorkerInv, PublishSteps, DecideSteps, ResumeSteps
<1> QED BY <1>1, <1>3, <1>6, EnvSame, LocalStep DEF env

LEMMA CrashInv ==
  ASSUME Inv, NEW w \in Workers, Crash(w)
  PROVE  Inv' /\ TablesAdvance
<1> USE DEF Crash
<1>1. LocalTypeOK' /\ OnlyMoves(w) /\ WorkerInv(w)'
  BY FailMoves DEF ErrorType
<1>2. EnvTypeOK'
  BY TypeParts, WorkersAssumption DEF Inv, env, EnvTypeOK
<1> QED BY <1>1, <1>2, LocalStep

-----------------------------------------------------------------------------
(* Steps that write. *)

LEMMA InsertIntentInv ==
  ASSUME Inv, NEW w \in Requests, InsertIntent(w)
  PROVE  Inv' /\ TablesAdvance
<1> USE DEF InsertIntent
<1> DEFINE s == call[w].sub
<1>1. w \in Workers /\ pc[w] # "idle"
  BY DEF Workers
<1>2. /\ call[w] \in Calls /\ call[w] \in CallType /\ s \in Submissions /\ w \notin Sweepers
      /\ call[w].kind = "published"
  BY <1>1, WorkerFacts, CallFacts DEF WorkerInv, PublishSteps
<1>3. NewIntent(w) \in IntentType /\ NewIntent(w).state = "pending_content"
  BY <1>2 DEF NewIntent, IntentType, CallType, ItemIds
<1>4. CASE CanIntend(call[w])
  <2>1. /\ intent' = [intent EXCEPT ![s] = NewIntent(w)]
        /\ intent[s] = None /\ status[s] = "review_pending"
    BY <1>4 DEF CanIntend
  <2>2. DbTypeOK'
    BY <1>3, <2>1, TypeParts DEF Inv, DbTypeOK
  <2>3. TablesAdvance
    BY <2>1, TypeParts DEF Inv, DbTypeOK, TablesAdvance
  <2>4. OneOutcome'
    BY <1>2, <1>3, <2>1, TypeParts DEF Inv, DbTypeOK, TablesInv, OneOutcome, Decided
  <2>5. ContentBeforeRevision'
    BY <1>2, <1>3, <2>1, TypeParts DEF Inv, DbTypeOK, TablesInv, ContentBeforeRevision
  <2>6. ReceiptsTrue'
    BY DEF Inv, TablesInv, ReceiptsTrue, Committed
  <2>7. LocalTypeOK' /\ OnlyMoves(w) /\ WorkerInv(w)'
    BY <1>1, <1>2, <2>3, GotoMovesOn DEF Steps, PublishSteps, DecideSteps, ResumeSteps
  <2> QED BY <1>1, <2>2, <2>3, <2>4, <2>5, <2>6, <2>7, EnvSame, Assemble DEF TablesInv
<1>5. CASE ~CanIntend(call[w])
  <2>1. UNCHANGED <<db, content>>
    BY <1>5 DEF db
  <2>2. LocalTypeOK' /\ OnlyMoves(w) /\ WorkerInv(w)'
    BY <1>1, <1>2, <2>1, Unchanged, GotoMovesOn DEF Steps, PublishSteps, DecideSteps, ResumeSteps
  <2> QED BY <1>1, <2>1, <2>2, EnvSame, LocalStep
<1> QED BY <1>4, <1>5

LEMMA CommitContentInv ==
  ASSUME Inv, NEW w \in Workers, CommitContent(w)
  PROVE  Inv' /\ TablesAdvance
<1> USE DEF CommitContent
<1>1. pc[w] \in ResumeSteps
  BY DEF ResumeSteps
<1>2. mine[w].rev \in Requests /\ mine[w].rev \in content'
  BY <1>1, HolderFacts DEF IntentType
<1>3. DbTypeOK' /\ TablesAdvance
  BY <1>2, TypeParts DEF Inv, DbTypeOK, db, TablesAdvance
<1>4. TablesInv'
  BY DEF Inv, db, TablesInv, OneOutcome, Decided, ContentBeforeRevision, ReceiptsTrue, Committed
<1>5. LocalTypeOK' /\ OnlyMoves(w) /\ WorkerInv(w)'
  BY <1>1, <1>2, <1>3, HolderFacts, GotoMovesOn DEF Steps, PublishSteps, DecideSteps, ResumeSteps
<1> QED BY <1>3, <1>4, <1>5, EnvSame, Assemble

\* An intent that moves to a later state keeps what it names.
LEMMA IntentMoves ==
  ASSUME Inv, NEW s \in Submissions, intent[s] # None,
         NEW st \in {"content_written", "failed_terminal"},
         intent[s].state \in {"pending_content", "content_written"},
         st = "content_written" => intent[s].rev \in content,
         intent' = [intent EXCEPT ![s].state = st],
         UNCHANGED <<status, version, review, notices, receipts, revisions, items, current>>,
         UNCHANGED content
  PROVE  DbTypeOK' /\ TablesInv' /\ TablesAdvance
<1>1. intent[s] \in IntentType
  BY TypeParts DEF Inv, DbTypeOK
<1>2. /\ intent'[s] \in IntentType /\ intent'[s] # None
      /\ intent'[s].state = st
      /\ intent'[s].rev = intent[s].rev /\ intent'[s].item = intent[s].item
      /\ intent'[s].by = intent[s].by /\ intent'[s].why = intent[s].why
      /\ \A t \in Submissions : t # s => intent'[t] = intent[t]
  BY <1>1, ReviewNotNone, TypeParts DEF Inv, DbTypeOK, IntentType
<1>3. intent' \in [Submissions -> IntentType \cup {None}]
  BY <1>1, <1>2, TypeParts DEF Inv, DbTypeOK
<1>4. DbTypeOK'
  BY <1>3, TypeParts DEF Inv, DbTypeOK
<1>5. TablesAdvance
  BY <1>2 DEF TablesAdvance
<1>6. OneOutcome'
  <2>1. status[s] = "review_pending"
    BY <1>1, TypeParts DEF Inv, DbTypeOK, TablesInv, OneOutcome, Decisions
  <2> QED BY <1>2, <2>1 DEF Inv, TablesInv, OneOutcome, Decided
<1>7. ContentBeforeRevision'
  BY <1>2 DEF Inv, TablesInv, ContentBeforeRevision
<1>8. ReceiptsTrue'
  BY DEF Inv, TablesInv, ReceiptsTrue, Committed
<1> QED BY <1>4, <1>5, <1>6, <1>7, <1>8 DEF TablesInv

\* Whoever knows its intent is marked goes on to finalize it.
LEMMA MarkedMoves ==
  ASSUME Inv, NEW w \in Workers, pc[w] \in ResumeSteps, TablesAdvance, Marked(w)
  PROVE  LocalTypeOK' /\ OnlyMoves(w) /\ WorkerInv(w)'
<1>1. /\ HoldsIntent(w) /\ call[w].sub \in Submissions /\ pc[w] # "idle" /\ WorkerInv(w)
      /\ mine[w] \in IntentType
  BY HolderFacts
<1>2. /\ [mine[w] EXCEPT !.state = "content_written"] \in IntentType
      /\ [mine[w] EXCEPT !.state = "content_written"].rev = mine[w].rev
  BY <1>1 DEF IntentType
<1>3. LocalTypeOK' /\ OnlyMoves(w)
  BY <1>2, TypeParts DEF Inv, Marked, LocalTypeOK, OnlyMoves, Same, Steps
<1>4. /\ pc'[w] = "finalize" /\ call'[w] = call[w]
      /\ mine'[w] \in IntentType /\ mine'[w].rev = mine[w].rev
  BY <1>2, TypeParts DEF Inv, Marked, LocalTypeOK
<1>5. HoldsIntent(w)'
  BY <1>1, <1>4, ReviewNotNone DEF HoldsIntent, SameIntent, TablesAdvance
<1> QED BY <1>1, <1>3, <1>4, <1>5 DEF WorkerInv, PublishSteps, DecideSteps, ResumeSteps

LEMMA MarkContentWrittenInv ==
  ASSUME Inv, NEW w \in Workers, MarkContentWritten(w)
  PROVE  Inv' /\ TablesAdvance
<1> USE DEF MarkContentWritten
<1> DEFINE s == call[w].sub
<1>1. pc[w] \in ResumeSteps
  BY DEF ResumeSteps
<1>2. /\ HoldsIntent(w) /\ s \in Submissions /\ mine[w].rev \in content
      /\ pc[w] # "idle" /\ WorkerInv(w)
      /\ mine[w] \in IntentType /\ intent[s] # None /\ intent[s].rev \in content
  BY <1>1, HolderFacts DEF WorkerInv, HoldsIntent
<1>3. CASE intent[s].state = "pending_content"
  <2>1. DbTypeOK' /\ TablesInv' /\ TablesAdvance
    BY <1>2, <1>3, IntentMoves
  <2>2. LocalTypeOK' /\ OnlyMoves(w) /\ WorkerInv(w)'
    BY <1>1, <1>3, <2>1, MarkedMoves
  <2> QED BY <2>1, <2>2, EnvSame, Assemble
<1>4. CASE intent[s].state # "pending_content"
  <2>1. UNCHANGED <<db, content>>
    BY <1>4 DEF db
  <2>2. LocalTypeOK' /\ OnlyMoves(w) /\ WorkerInv(w)'
    BY <1>1, <1>2, <1>4, <2>1, Unchanged, GotoMovesOn
    DEF Steps, PublishSteps, DecideSteps, ResumeSteps
  <2> QED BY <2>1, <2>2, EnvSame, LocalStep
<1> QED BY <1>3, <1>4

LEMMA ReadMarkedInv ==
  ASSUME Inv, NEW w \in Workers, ReadMarked(w)
  PROVE  Inv' /\ TablesAdvance
<1> USE DEF ReadMarked
<1>1. pc[w] \in ResumeSteps /\ pc[w] # "idle" /\ TablesAdvance
  BY Unchanged DEF ResumeSteps
<1>2. LocalTypeOK' /\ OnlyMoves(w) /\ WorkerInv(w)'
  <2>1. CASE Fail(w, "receipt_mismatch")
    BY <1>1, <2>1, FailMoves DEF ErrorType
  <2>2. CASE Marked(w)
    BY <1>1, <2>2, MarkedMoves
  <2> QED BY <2>1, <2>2
<1> QED BY <1>2, EnvSame, LocalStep

LEMMA MarkFailedTerminalInv ==
  ASSUME Inv, NEW w \in Workers, MarkFailedTerminal(w)
  PROVE  Inv' /\ TablesAdvance
<1> USE DEF MarkFailedTerminal
<1> DEFINE s == call[w].sub
<1>1. s \in Submissions /\ pc[w] # "idle" /\ WorkerInv(w)
  BY WorkerFacts
<1>2. w \in Sweepers
  BY <1>1 DEF WorkerInv, MarkFailedTerminal
<1>3. DbTypeOK' /\ TablesInv' /\ TablesAdvance
  <2>1. CASE Unfinished(s)
    BY <1>1, <2>1, IntentMoves DEF Unfinished
  <2>2. CASE ~Unfinished(s)
    BY <2>2, Unchanged DEF db
  <2> QED BY <2>1, <2>2
<1>4. LocalTypeOK' /\ OnlyMoves(w) /\ pc'[w] = "idle"
  BY <1>2, TypeParts, FinishMoves DEF Inv
<1>5. WorkerInv(w)'
  BY <1>4 DEF WorkerInv, PublishSteps, DecideSteps, ResumeSteps
<1> QED BY <1>3, <1>4, <1>5, EnvSame, Assemble

\* The publication batch.
LEMMA PublishTables ==
  ASSUME Inv, NEW w \in Workers, pc[w] = "batch", CanFinalize(w),
         Publish(call[w].sub), UNCHANGED content
  PROVE  /\ DbTypeOK' /\ TablesInv' /\ TablesAdvance
         /\ intent'[call[w].sub].state = "completed"
<1> DEFINE s == call[w].sub
           i == intent[s]
           r == [id |-> i.rev, sub |-> s, item |-> i.item]
<1>1. /\ s \in Submissions /\ i \in IntentType /\ i # None
      /\ i.rev \in Requests /\ i.item \in ItemIds /\ i.by \in Reviewers /\ i.why \in Inputs
  BY HolderFacts DEF ResumeSteps, HoldsIntent, IntentType
<1>2. /\ status[s] = "review_pending" /\ i.state = "content_written" /\ review[s] = None
  BY DEF CanFinalize
<1>3. /\ intent'[s] \in IntentType /\ intent'[s] # None /\ intent'[s].state = "completed"
      /\ intent'[s].rev = i.rev /\ intent'[s].item = i.item
      /\ intent'[s].by = i.by /\ intent'[s].why = i.why
      /\ \A t \in Submissions : t # s => intent'[t] = intent[t]
  <2>1. PICK j : j = [i EXCEPT !.state = "completed"]
    OBVIOUS
  <2>2. /\ j \in IntentType /\ j.state = "completed"
        /\ j.rev = i.rev /\ j.item = i.item /\ j.by = i.by /\ j.why = i.why
    BY <1>1, <2>1 DEF IntentType
  <2>3. intent \in [Submissions -> IntentType \cup {None}]
    BY TypeParts DEF Inv, DbTypeOK
  <2>4. intent' = [intent EXCEPT ![s] = j]
    BY <2>1 DEF Publish
  <2>5. intent'[s] = j /\ \A t \in Submissions : t # s => intent'[t] = intent[t]
    BY <1>1, <2>3, <2>4
  <2> QED BY <2>2, <2>5, ReviewNotNone
<1>4. /\ review'[s] = [decision |-> "published", by |-> i.by, why |-> i.why]
      /\ review'[s] \in ReviewType
      /\ \A t \in Submissions : t # s => review'[t] = review[t]
  BY <1>1, TypeParts DEF Publish, Inv, DbTypeOK, ReviewType, Decisions
<1>5. /\ status'[s] = "published" /\ notices'[s] = notices[s] \cup {"published"}
      /\ \A t \in Submissions : t # s => status'[t] = status[t] /\ notices'[t] = notices[t]
      /\ revisions' = revisions \cup {r}
  BY <1>1, TypeParts DEF Publish, Inv, DbTypeOK
<1>6. DbTypeOK'
  <2>1. intent' \in [Submissions -> IntentType \cup {None}]
    BY <1>1, <1>3, TypeParts DEF Publish, Inv, DbTypeOK
  <2>2. review' \in [Submissions -> ReviewType \cup {None}]
    BY <1>1, <1>4, TypeParts DEF Publish, Inv, DbTypeOK
  <2>3. r \in [id : Requests, sub : Submissions, item : ItemIds]
    BY <1>1
  <2>4. /\ status' \in [Submissions -> Decisions \cup {"review_pending"}]
        /\ version' \in [Submissions -> Versions]
        /\ notices' \in [Submissions -> SUBSET Decisions]
    BY <1>1, TypeParts DEF Publish, Inv, DbTypeOK, Decisions, Versions
  <2>5. /\ items' \in [ItemIds -> {"absent", "active", "trashed"}]
        /\ current' \in [ItemIds -> Requests \cup {None}]
    BY <1>1, TypeParts DEF Publish, Inv, DbTypeOK
  <2>6. receipts' \in [Submissions -> [Operations -> ReceiptType \cup {None}]]
        /\ content' \subseteq Requests
    BY TypeParts DEF Publish, Inv, DbTypeOK
  <2> QED BY <1>5, <2>1, <2>2, <2>3, <2>4, <2>5, <2>6, TypeParts DEF Inv, DbTypeOK
<1>7. TablesAdvance
  BY <1>2, <1>3, <1>4, <1>5 DEF TablesAdvance, Publish, Decided
<1>8. OneOutcome'
  <2>1. notices[s] = {} /\ {x \in revisions : x.sub = s} = {}
    BY <1>1, <1>2 DEF Inv, TablesInv, OneOutcome, Decided
  <2>2. {x \in revisions' : x.sub = s} = {r}
    BY <1>5, <2>1
  <2>3. ASSUME NEW t \in Submissions, t # s
        PROVE  {x \in revisions' : x.sub = t} = {x \in revisions : x.sub = t}
    BY <1>5, <2>3
  <2>4. ReviewType \subseteq [decision : Decisions, by : Reviewers, why : Inputs]
        /\ review'[s] # None
    BY <1>4, ReviewNotNone DEF ReviewType
  <2> QED BY <1>1, <1>3, <1>4, <1>5, <2>1, <2>2, <2>3, <2>4, SMTT(60)
          DEF Inv, TablesInv, OneOutcome, Decided
<1>9. ContentBeforeRevision'
  <2>1. i.rev \in content
    BY <1>1, <1>2 DEF Inv, TablesInv, ContentBeforeRevision
  <2>2. \A x \in revisions' : x.id \in content'
    BY <1>5, <2>1 DEF Inv, TablesInv, ContentBeforeRevision
  <2>3. ASSUME NEW it \in ItemIds, current'[it] # None
        PROVE  \E x \in revisions' : x.id = current'[it] /\ x.item = it
    <3>1. CASE it = i.item
      <4>1. current'[it] = i.rev
        BY <1>1, <3>1, TypeParts DEF Publish, Inv, DbTypeOK
      <4>2. r \in revisions' /\ r.id = i.rev /\ r.item = i.item
        BY <1>5
      <4> QED BY <3>1, <4>1, <4>2
    <3>2. CASE it # i.item
      <4>1. current'[it] = current[it]
        BY <1>1, <3>2, TypeParts DEF Publish, Inv, DbTypeOK
      <4> QED BY <1>5, <2>3, <4>1 DEF Inv, TablesInv, ContentBeforeRevision
    <3> QED BY <3>1, <3>2
  <2> QED BY <1>3, <2>1, <2>2, <2>3 DEF Inv, TablesInv, ContentBeforeRevision
<1>10. ReceiptsTrue'
  <2> SUFFICES ASSUME NEW t \in Submissions, NEW o \in Operations, receipts'[t][o] # None
               PROVE  /\ receipts'[t][o].call.sub = t
                      /\ Committed(receipts[t][o].call, receipts[t][o].answer)'
    BY DEF ReceiptsTrue
  <2>1. receipts' = receipts /\ receipts[t][o] \in ReceiptType
    BY TypeParts DEF Publish, Inv, DbTypeOK
  <2>2. receipts[t][o].call \in Calls /\ receipts[t][o].call.sub = t
        /\ Committed(receipts[t][o].call, receipts[t][o].answer)
    BY <2>1 DEF ReceiptType, Inv, TablesInv, ReceiptsTrue
  <2> QED BY <1>7, <2>1, <2>2, CommittedStable
<1> QED BY <1>3, <1>6, <1>7, <1>8, <1>9, <1>10 DEF TablesInv

LEMMA FinalizeInv ==
  ASSUME Inv, NEW w \in Workers, Finalize(w)
  PROVE  Inv' /\ TablesAdvance
<1> USE DEF Finalize
<1>1. pc[w] \in ResumeSteps
  BY DEF ResumeSteps
<1>2. CASE CanFinalize(w)
  <2>1. UNCHANGED <<content, env, crashes>> /\ Publish(call[w].sub)
    BY <1>2
  <2>2. /\ DbTypeOK' /\ TablesInv' /\ TablesAdvance
        /\ intent'[call[w].sub].state = "completed"
    BY <1>2, <2>1, PublishTables
  <2>3. PICK step \in {"index", "refinalize"} : Goto(w, step)
    BY <1>2
  <2>4. LocalTypeOK' /\ OnlyMoves(w) /\ WorkerInv(w)'
    BY <1>1, <2>2, <2>3, HolderFacts, GotoMovesOn
    DEF Steps, PublishSteps, DecideSteps, ResumeSteps
  <2> QED BY <2>1, <2>2, <2>4, EnvSame, Assemble
<1>3. CASE ~CanFinalize(w)
  <2>1. LocalTypeOK' /\ OnlyMoves(w) /\ WorkerInv(w)'
    BY <1>1, <1>3, HolderFacts, GotoMovesOn, Unchanged
    DEF Steps, PublishSteps, DecideSteps, ResumeSteps
  <2> QED BY <1>3, <2>1, EnvSame, LocalStep
<1> QED BY <1>2, <1>3

\* A new receipt tells what its request knows to be committed; a stored one stays.
LEMMA ReceiptStored ==
  ASSUME Inv, NEW w \in Requests, call[w] \in Calls, NEW a \in AnswerType,
         HasOperation(call[w]), Receipt(w) = None, Committed(call[w], a)', TablesAdvance,
         call'[w] = call[w],
         receipts' = [receipts EXCEPT ![call[w].sub][OperationOf(call[w])] =
                        [call |-> call[w], answer |-> a]]
  PROVE  /\ receipts' \in [Submissions -> [Operations -> ReceiptType \cup {None}]]
         /\ ReceiptsTrue'
         /\ receipts'[call[w].sub][OperationOf(call[w])] = [call |-> call[w], answer |-> a]
<1> DEFINE s == call[w].sub
           o == OperationOf(call[w])
           new == [call |-> call[w], answer |-> a]
<1>1. s \in Submissions /\ o \in Operations /\ new \in ReceiptType
  BY CallFacts DEF ReceiptType
<1>2. /\ receipts' \in [Submissions -> [Operations -> ReceiptType \cup {None}]]
      /\ receipts'[s][o] = new
      /\ \A t \in Submissions, p \in Operations :
           <<t, p>> # <<s, o>> => receipts'[t][p] = receipts[t][p]
  BY <1>1, TypeParts DEF Inv, DbTypeOK
<1>3. ASSUME NEW t \in Submissions, NEW p \in Operations, receipts'[t][p] # None
      PROVE  /\ receipts'[t][p].call.sub = t
             /\ Committed(receipts[t][p].call, receipts[t][p].answer)'
  <2>1. CASE t = s /\ p = o
    BY <1>2, <2>1, SMTT(60) DEF Committed, ReviewOf
  <2>2. CASE <<t, p>> # <<s, o>>
    <3>1. receipts'[t][p] = receipts[t][p] /\ receipts[t][p] \in ReceiptType
      BY <1>2, <1>3, <2>2, TypeParts DEF Inv, DbTypeOK
    <3>2. receipts[t][p].call \in Calls /\ receipts[t][p].call.sub = t
          /\ Committed(receipts[t][p].call, receipts[t][p].answer)
      BY <1>3, <3>1 DEF ReceiptType, Inv, TablesInv, ReceiptsTrue
    <3> QED BY <3>1, <3>2, CommittedStable
  <2> QED BY <2>1, <2>2
<1>4. ReceiptsTrue'
  BY <1>3 DEF ReceiptsTrue
<1> QED BY <1>2, <1>4

LEMMA RecordInv ==
  ASSUME Inv, NEW w \in Requests, Record(w)
  PROVE  Inv' /\ TablesAdvance
<1> USE DEF Record
<1> DEFINE s == call[w].sub
           o == OperationOf(call[w])
<1>1. /\ w \in Workers /\ pc[w] # "idle" /\ w \notin Sweepers /\ call[w] \in Calls
      /\ HasOperation(call[w]) /\ reply[w] \in AnswerType /\ Committed(call[w], reply[w])
      /\ s \in Submissions /\ o \in Operations
  BY WorkerFacts, CallFacts DEF WorkerInv, Workers
<1>2. CASE Receipt(w) = None
  <2>1. PICK a \in AnswerType : a = reply[w]
    BY <1>1
  <2>2. StoredReceipt(w) = [call |-> call[w], answer |-> a]
    BY <1>2, <2>1 DEF StoredReceipt
  <2>3. receipts' = [receipts EXCEPT ![s][o] = [call |-> call[w], answer |-> a]]
        /\ Finish(w, a)
    BY <2>2
  <2>4. TablesAdvance
    BY <1>1, <1>2, <2>3, TypeParts DEF Inv, DbTypeOK, TablesAdvance, Receipt
  <2>5. call'[w] = call[w]
    BY <1>1, <2>3, TypeParts, FinishMoves DEF Inv
  <2>6. Committed(call[w], a)'
    BY <1>1, <2>1, <2>4, <2>5, CommittedStable
  <2>7. /\ receipts' \in [Submissions -> [Operations -> ReceiptType \cup {None}]]
        /\ ReceiptsTrue'
        /\ receipts'[s][o] = [call |-> call[w], answer |-> a]
    BY <1>1, <1>2, <2>3, <2>4, <2>5, <2>6, ReceiptStored
  <2>8. DbTypeOK'
    BY <2>7, TypeParts DEF Inv, DbTypeOK
  <2>9. TablesInv'
    BY <2>7 DEF Inv, TablesInv, OneOutcome, Decided, ContentBeforeRevision
  <2>10. LocalTypeOK' /\ OnlyMoves(w) /\ WorkerInv(w)'
    BY <1>1, <2>1, <2>3, <2>4, <2>7, FinishMovesOn
  <2> QED BY <1>1, <2>4, <2>8, <2>9, <2>10, EnvSame, Assemble
<1>3. CASE Receipt(w) # None
  <2>1. StoredReceipt(w) = Receipt(w) /\ Receipt(w) \in ReceiptType
    BY <1>1, <1>3, TypeParts DEF StoredReceipt, Receipt, Inv, DbTypeOK
  <2>2. UNCHANGED <<db, content>>
    BY <1>1, <2>1, TypeParts DEF db, Receipt, Inv, DbTypeOK
  <2>3. Replay(w)
    BY <2>1 DEF Replay
  <2>4. LocalTypeOK' /\ OnlyMoves(w) /\ WorkerInv(w)'
    BY <1>1, <1>3, <2>2, <2>3, ReplayMoves DEF Recorded
  <2> QED BY <1>1, <2>2, <2>4, EnvSame, LocalStep
<1> QED BY <1>2, <1>3

\* The decision batch.
LEMMA RefuseTables ==
  ASSUME Inv, NEW w \in Requests, pc[w] = "decide", CanDecide(w), Refuse(w),
         UNCHANGED content, call'[w] = call[w]
  PROVE  DbTypeOK' /\ TablesInv' /\ TablesAdvance /\ Committed(call[w], ReviewOf(call[w]))'
<1> DEFINE c == call[w]
           s == c.sub
<1>1. /\ c \in Calls /\ c \in CallType /\ s \in Submissions
      /\ c.kind \in {"rejected", "revision_requested"}
      /\ ReviewOf(c) \in ReviewType /\ ReviewOf(c) \in AnswerType
      /\ HasOperation(c) => OperationOf(c) \in Operations
  BY ReviewIsCommitted, CallFacts DEF DecideSteps, CallType, Decisions
<1>2. /\ status[s] = "review_pending" /\ review[s] = None /\ intent[s] = None
      /\ HasOperation(c) => Receipt(w) = None
  BY DEF CanDecide
<1>3. /\ status'[s] = c.kind /\ notices'[s] = notices[s] \cup {c.kind}
      /\ review'[s] = ReviewOf(c) /\ ReviewOf(c) # None /\ ReviewOf(c).decision = c.kind
      /\ \A t \in Submissions : t # s =>
           status'[t] = status[t] /\ notices'[t] = notices[t] /\ review'[t] = review[t]
  <2>1. ReviewOf(c) # None /\ ReviewOf(c).decision = c.kind
    BY <1>1, ReviewNotNone DEF ReviewOf
  <2> QED BY <1>1, <2>1, TypeParts DEF Refuse, Inv, DbTypeOK
<1>4. Committed(c, ReviewOf(c))'
  BY <1>1, <1>3 DEF Committed, ReviewOf
<1>5. TablesAdvance
  <2>1. \A t \in Submissions, p \in Operations : receipts[t][p] # None =>
          receipts'[t][p] = receipts[t][p]
    BY <1>1, <1>2, TypeParts DEF Refuse, Inv, DbTypeOK, Receipt
  <2> QED BY <1>2, <1>3, <2>1 DEF TablesAdvance, Refuse, Decided
<1>6. receipts' \in [Submissions -> [Operations -> ReceiptType \cup {None}]] /\ ReceiptsTrue'
  <2>1. CASE HasOperation(c)
    <3>1. PICK a \in AnswerType : a = ReviewOf(c)
      BY <1>1
    <3>2. receipts' = [receipts EXCEPT ![s][OperationOf(c)] = [call |-> c, answer |-> a]]
      BY <2>1, <3>1 DEF Refuse
    <3>3. Committed(c, a)'
      BY <1>1, <1>3, <3>1 DEF Committed, ReviewOf
    <3> QED BY <1>1, <1>2, <1>5, <2>1, <3>2, <3>3, ReceiptStored
  <2>2. CASE ~HasOperation(c)
    <3>1. receipts' = receipts
      BY <2>2 DEF Refuse
    <3>2. ASSUME NEW t \in Submissions, NEW p \in Operations, receipts'[t][p] # None
          PROVE  /\ receipts'[t][p].call.sub = t
                 /\ Committed(receipts[t][p].call, receipts[t][p].answer)'
      <4>1. receipts[t][p] \in ReceiptType
        BY <3>1, <3>2, TypeParts DEF Inv, DbTypeOK
      <4>2. /\ receipts[t][p].call \in Calls /\ receipts[t][p].call.sub = t
            /\ Committed(receipts[t][p].call, receipts[t][p].answer)
        BY <3>1, <3>2, <4>1 DEF ReceiptType, Inv, TablesInv, ReceiptsTrue
      <4> QED BY <1>5, <3>1, <4>2, CommittedStable
    <3> QED BY <3>1, <3>2, TypeParts DEF ReceiptsTrue, Inv, DbTypeOK
  <2> QED BY <2>1, <2>2
<1>7. DbTypeOK'
  <2>1. /\ status' \in [Submissions -> Decisions \cup {"review_pending"}]
        /\ version' \in [Submissions -> Versions]
        /\ notices' \in [Submissions -> SUBSET Decisions]
    BY <1>1, TypeParts DEF Refuse, Inv, DbTypeOK, Decisions, Versions
  <2>2. review' \in [Submissions -> ReviewType \cup {None}]
    BY <1>1, TypeParts DEF Refuse, Inv, DbTypeOK
  <2> QED BY <1>6, <2>1, <2>2, TypeParts DEF Refuse, Inv, DbTypeOK
<1>8. OneOutcome'
  <2>1. notices[s] = {} /\ {x \in revisions : x.sub = s} = {}
    BY <1>1, <1>2 DEF Inv, TablesInv, OneOutcome, Decided
  <2>2. intent' = intent /\ revisions' = revisions
    BY DEF Refuse
  <2> QED BY <1>1, <1>2, <1>3, <2>1, <2>2 DEF Inv, TablesInv, OneOutcome, Decided
<1>9. ContentBeforeRevision'
  BY DEF Refuse, Inv, TablesInv, ContentBeforeRevision
<1> QED BY <1>4, <1>5, <1>6, <1>7, <1>8, <1>9 DEF TablesInv

LEMMA DecideInv ==
  ASSUME Inv, NEW w \in Requests, Decide(w)
  PROVE  Inv' /\ TablesAdvance
<1> USE DEF Decide
<1>1. /\ w \in Workers /\ pc[w] # "idle" /\ w \notin Sweepers
      /\ call[w] \in Calls /\ call[w].kind # "published" /\ ReviewOf(call[w]) \in AnswerType
  BY ReviewIsCommitted DEF DecideSteps
<1>2. CASE CanDecide(w)
  <2>1. Refuse(w) /\ UNCHANGED <<content, env, crashes>>
        /\ (Settle(w, ReviewOf(call[w])) \/ Goto(w, "decideFailed"))
    BY <1>2
  <2>2. call'[w] = call[w]
    <3>1. CASE Goto(w, "decideFailed")
      BY <3>1 DEF Goto
    <3>2. CASE Settle(w, ReviewOf(call[w]))
      BY <1>1, <3>2 DEF Settle, Finish
    <3> QED BY <2>1, <3>1, <3>2
  <2>3. DbTypeOK' /\ TablesInv' /\ TablesAdvance /\ Committed(call[w], ReviewOf(call[w]))'
    BY <1>2, <2>1, <2>2, RefuseTables
  <2>4. LocalTypeOK' /\ OnlyMoves(w) /\ WorkerInv(w)'
    <3>1. CASE Goto(w, "decideFailed")
      BY <1>1, <2>3, <3>1, GotoMovesOn DEF Steps, PublishSteps, DecideSteps, ResumeSteps
    <3>2. CASE Settle(w, ReviewOf(call[w]))
      <4>1. PICK a \in AnswerType : a = ReviewOf(call[w])
        BY <1>1
      <4>2. Committed(call[w], a)'
        BY <2>2, <2>3, <4>1 DEF Committed, ReviewOf
      <4> QED BY <1>1, <2>3, <3>2, <4>1, <4>2, SettleMovesOn
    <3> QED BY <2>1, <3>1, <3>2
  <2> QED BY <1>1, <2>1, <2>3, <2>4, EnvSame, Assemble
<1>3. CASE ~CanDecide(w)
  <2>1. LocalTypeOK' /\ OnlyMoves(w) /\ WorkerInv(w)'
    BY <1>1, <1>3, Unchanged, GotoMovesOn DEF Steps, PublishSteps, DecideSteps, ResumeSteps
  <2> QED BY <1>1, <1>3, <2>1, EnvSame, LocalStep
<1> QED BY <1>2, <1>3

-----------------------------------------------------------------------------
(* The rest of the workbench, and the theorems. *)

LEMMA EnvironmentInv ==
  ASSUME Inv, Environment
  PROVE  Inv' /\ TablesAdvance
<1>1. UNCHANGED <<status, version, intent, review, notices, receipts, revisions, current,
                  content, pc, call, mine, reply, crashes>>
  BY DEF Environment, ToggleTarget, ToggleAdmin, Drift, ToggleTrash, db, local
<1> DEFINE Around == /\ items \in [ItemIds -> {"absent", "active", "trashed"}]
                     /\ available \subseteq Inputs /\ admins \subseteq Reviewers
                     /\ valid \subseteq Submissions
<1>2. Around'
  <2>1. Around
    BY TypeParts DEF Inv, DbTypeOK, EnvTypeOK
  <2>2. ASSUME NEW f \in Inputs, ToggleTarget(f) PROVE Around'
    BY <2>1, <2>2 DEF ToggleTarget, db
  <2>3. ASSUME NEW a \in Reviewers, ToggleAdmin(a) PROVE Around'
    BY <2>1, <2>3 DEF ToggleAdmin, db
  <2>4. ASSUME NEW s \in Submissions, Drift(s) PROVE Around'
    BY <2>1, <2>4 DEF Drift, db
  <2>5. ASSUME NEW i \in ItemIds, ToggleTrash(i) PROVE Around'
    BY <2>1, <2>5 DEF ToggleTrash, env
  <2> QED BY <2>2, <2>3, <2>4, <2>5 DEF Environment
<1>3. TypeOK'
  BY <1>1, <1>2 DEF Inv, TypeOK
<1>4. TablesInv'
  BY <1>1 DEF Inv, TablesInv, OneOutcome, Decided, ContentBeforeRevision, ReceiptsTrue, Committed
<1>5. TablesAdvance
  BY <1>1 DEF TablesAdvance
<1>6. ASSUME NEW w \in Workers PROVE WorkerInv(w)'
  BY <1>1, <1>5, OthersInv DEF Same
<1>7. WorkersInv'
  BY <1>6 DEF WorkersInv, Workers
<1> QED BY <1>3, <1>4, <1>5, <1>7 DEF Inv

LEMMA InitInv == Init => Inv
<1> SUFFICES ASSUME Init PROVE Inv
  OBVIOUS
<1>1. TypeOK
  BY WorkersAssumption DEF Init, TypeOK, Versions, Steps
<1>2. TablesInv
  BY DEF Init, TablesInv, OneOutcome, Decided, ContentBeforeRevision, ReceiptsTrue, Decisions
<1>3. WorkersInv
  BY DEF Init, WorkersInv, WorkerInv, PublishSteps, DecideSteps, ResumeSteps
<1> QED BY <1>1, <1>2, <1>3 DEF Inv

LEMMA NextInv == Inv /\ [Next]_vars => Inv' /\ TablesAdvance
<1> SUFFICES ASSUME Inv, [Next]_vars PROVE Inv' /\ TablesAdvance
  OBVIOUS
<1>1. ASSUME NEW w \in Requests, NEW c \in Calls, Arrive(w, c) PROVE Inv' /\ TablesAdvance
  BY <1>1, ArriveInv
<1>2. ASSUME NEW w \in Requests, Lookup(w) \/ PublishStep(w) \/ DecideStep(w) \/ Record(w)
      PROVE  Inv' /\ TablesAdvance
  BY <1>2, LookupInv, ValidateInv, ReadIntentInv, ReadsInv, InsertIntentInv, ReadBackInv,
     FindReviewInv, DecideInv, DecideFailedInv, ReadGuardInv, ReadReviewInv, RecordInv
  DEF PublishStep, DecideStep
<1>3. ASSUME NEW w \in Sweepers, NEW s \in Submissions, Sweep(w, s) PROVE Inv' /\ TablesAdvance
  BY <1>3, SweepInv
<1>4. ASSUME NEW w \in Workers, SweepStep(w) \/ Crash(w) PROVE Inv' /\ TablesAdvance
  BY <1>4, ResumeInv, CommitContentInv, MarkContentWrittenInv, ReadMarkedInv, ReadForFinalizeInv,
     FinalizeInv, RefinalizeInv, IndexInv, MarkFailedTerminalInv, CrashInv
  DEF SweepStep, ResumeStep
<1>5. CASE Environment
  BY <1>5, EnvironmentInv
<1>6. CASE UNCHANGED vars
  <2>1. UNCHANGED <<db, content>> /\ TypeOK'
    BY <1>6 DEF vars, db, env, local, Inv, TypeOK
  <2>2. ASSUME NEW w \in Workers PROVE WorkerInv(w)'
    BY <1>6, <2>1, Unchanged, OthersInv DEF vars, local, Same
  <2> QED BY <2>1, <2>2, Unchanged DEF Inv, WorkersInv, Workers
<1> QED BY <1>1, <1>2, <1>3, <1>4, <1>5, <1>6 DEF Next

\* The inductive invariant holds in every reachable state.
THEOREM Invariance == Spec => []Inv
BY InitInv, NextInv, PTL DEF Spec

\* Every table and every worker keeps its type.
THEOREM TypeCorrect == Spec => []TypeOK
<1>1. Inv => TypeOK
  BY DEF Inv
<1> QED BY <1>1, Invariance, PTL

\* A submission has one outcome and every table tells the same one, whatever
\* publish, reject, request-revision and recovery run at the same time and
\* wherever they die.
THEOREM OutcomeCorrect == Spec => []OneOutcome
<1>1. Inv => OneOutcome
  BY DEF Inv, TablesInv
<1> QED BY <1>1, Invariance, PTL

\* The database never names a revision the Durable Object does not hold.
THEOREM ContentCorrect == Spec => []ContentBeforeRevision
<1>1. Inv => ContentBeforeRevision
  BY DEF Inv, TablesInv
<1> QED BY <1>1, Invariance, PTL

\* Every stored or given answer tells a decision that committed.
THEOREM AnswersCorrect == Spec => []AnswersAreTrue
<1>1. Inv => AnswersAreTrue
  <2> SUFFICES ASSUME Inv PROVE AnswersAreTrue
    OBVIOUS
  <2>1. ASSUME NEW w \in Requests, pc[w] = "done", reply[w] \in AnswerType
        PROVE  Committed(call[w], reply[w])
    BY <2>1 DEF Inv, WorkersInv, WorkerInv, Workers
  <2> QED BY <2>1 DEF Inv, TablesInv, ReceiptsTrue, AnswersAreTrue
<1> QED BY <1>1, Invariance, PTL

\* Two requests that make the same call under the same operation are never
\* answered differently: both answers are the recorded one.
THEOREM RetriesCorrect == Spec => []SameOperationSameAnswer
<1>1. Inv => SameOperationSameAnswer
  <2> SUFFICES ASSUME Inv, NEW v \in Requests, NEW w \in Requests,
                      pc[v] = "done", reply[v] \in AnswerType,
                      pc[w] = "done", reply[w] \in AnswerType,
                      call[v] = call[w], HasOperation(call[v])
               PROVE  reply[v] = reply[w]
    BY DEF SameOperationSameAnswer
  <2>1. /\ Receipt(v) = [call |-> call[v], answer |-> reply[v]]
        /\ Receipt(w) = [call |-> call[w], answer |-> reply[w]]
    BY DEF Inv, WorkersInv, WorkerInv, Workers
  <2>2. Receipt(v) = Receipt(w)
    BY DEF Receipt
  <2> QED BY <2>1, <2>2
<1> QED BY <1>1, Invariance, PTL

\* Decisions, reviews and receipts are write-once, and intents only move
\* forward.
THEOREM FinalDecisions == Spec => DecisionsAreFinal
<1> DEFINE Final(s) ==
      /\ Decided(s) => /\ status'[s] = status[s]
                       /\ review'[s] = review[s] /\ notices'[s] = notices[s]
      /\ \A o \in Operations : receipts[s][o] # None => receipts'[s][o] = receipts[s][o]
      /\ intent[s] # None =>
           /\ intent'[s] # None
           /\ [intent'[s] EXCEPT !.state = intent[s].state] = intent[s]
           /\ intent[s].state \in {"completed", "failed_terminal"} => intent'[s] = intent[s]
<1>1. ASSUME Inv, Inv', TablesAdvance, NEW s \in Submissions PROVE Final(s)
  <2>1. Decided(s) => review[s] # None
    BY <1>1 DEF Inv, TablesInv, OneOutcome
  <2>2. CASE intent[s] # None
    <3>1. intent[s] \in IntentType /\ intent'[s] # None /\ intent'[s] \in IntentType
      BY <1>1, <2>2, TypeParts DEF Inv, TypeOK, DbTypeOK, TablesAdvance
    <3>2. [intent'[s] EXCEPT !.state = intent[s].state] = intent[s]
      BY <1>1, <2>2, <3>1 DEF TablesAdvance, IntentType
    <3>3. intent[s].state \in {"completed", "failed_terminal"} => intent'[s] = intent[s]
      BY <1>1, <2>2, <3>1 DEF TablesAdvance, IntentType
    <3> QED BY <1>1, <2>1, <3>1, <3>2, <3>3 DEF TablesAdvance
  <2>3. CASE intent[s] = None
    BY <1>1, <2>1, <2>3 DEF TablesAdvance
  <2> QED BY <2>2, <2>3
<1>2. Inv /\ Inv' /\ [Next]_vars => [\A s \in Submissions : Final(s)]_vars
  BY <1>1, NextInv
<1> QED BY <1>2, Invariance, PTL DEF Spec, DecisionsAreFinal

-----------------------------------------------------------------------------
(* Refinement of ReviewOutcome. *)

\* Only three steps change a review or a receipt.
LEMMA QuietStep ==
  ASSUME Inv, [Next]_vars,
         ~ \E w \in Workers : Finalize(w) /\ CanFinalize(w),
         ~ \E w \in Requests : (Decide(w) /\ CanDecide(w)) \/ Record(w)
  PROVE  UNCHANGED <<review, receipts>>
<1>1. ASSUME NEW w \in Requests, NEW c \in Calls, Arrive(w, c)
      PROVE  UNCHANGED <<review, receipts>>
  BY <1>1 DEF Arrive, db
<1>2. ASSUME NEW w \in Requests, Lookup(w) \/ PublishStep(w) \/ DecideStep(w) \/ Record(w)
      PROVE  UNCHANGED <<review, receipts>>
  BY <1>2 DEF PublishStep, DecideStep, Lookup, Validate, ReadIntent, ReadPending, ReadTarget,
              ReadItem, InsertIntent, ReadBack, Explain, FindReview, ReadStatus, Rereview,
              Decide, DecideFailed, ReadGuard, ReadReview, db
<1>3. ASSUME NEW w \in Sweepers, NEW s \in Submissions, Sweep(w, s)
      PROVE  UNCHANGED <<review, receipts>>
  BY <1>3 DEF Sweep, db
<1>4. ASSUME NEW w \in Workers, SweepStep(w) \/ Crash(w)
      PROVE  UNCHANGED <<review, receipts>>
  BY <1>4 DEF SweepStep, ResumeStep, Resume, CommitContent, MarkContentWritten, ReadMarked,
              ReadForFinalize, Finalize, Refinalize, Index, MarkFailedTerminal, Crash, db
<1>5. CASE Environment
  BY <1>5 DEF Environment, ToggleTarget, ToggleAdmin, Drift, ToggleTrash, db
<1>6. CASE UNCHANGED vars
  BY <1>6 DEF vars, db
<1> QED BY <1>1, <1>2, <1>3, <1>4, <1>5, <1>6 DEF Next

\* While its review stands, a submission keeps its outcome.
LEMMA OutcomeStable ==
  ASSUME Inv, TablesAdvance, NEW s \in Submissions, review'[s] = review[s]
  PROVE  Outcome'[s] = Outcome[s]
<1>1. CASE review[s] = None
  BY <1>1 DEF Outcome
<1>2. CASE review[s] # None /\ review[s].decision = "published"
  <2>1. intent[s] # None
    BY <1>2 DEF Inv, TablesInv, OneOutcome
  <2> QED BY <1>2, <2>1 DEF Outcome, TablesAdvance
<1>3. CASE review[s] # None /\ review[s].decision # "published"
  BY <1>3 DEF Outcome
<1> QED BY <1>1, <1>2, <1>3

LEMMA QuietPromise ==
  ASSUME Inv, TablesAdvance, UNCHANGED <<review, receipts>>
  PROVE  UNCHANGED Promise!vars
<1>1. \A s \in Submissions : Outcome'[s] = Outcome[s]
  BY OutcomeStable
<1>2. Outcome' = Outcome
  BY <1>1 DEF Outcome
<1>3. Answered' = Answered
  BY DEF Answered, OutcomeOf
<1> QED BY <1>2, <1>3 DEF Promise!vars

\* The publication batch decides its submission and answers nobody yet.
LEMMA PublishPromise ==
  ASSUME Inv, NEW w \in Workers, Finalize(w), CanFinalize(w)
  PROVE  Promise!Next
<1> DEFINE s == call[w].sub
           d == [decision |-> "published", rev |-> intent[s].rev]
<1>1. /\ pc[w] = "batch" /\ Publish(s)
      /\ s \in Submissions /\ intent[s] \in IntentType /\ intent[s] # None
  BY HolderFacts DEF Finalize, ResumeSteps, HoldsIntent
<1>2. TablesAdvance /\ review[s] = None
  BY FinalizeInv DEF CanFinalize
<1>3. /\ review'[s] # None /\ review'[s].decision = "published"
      /\ \A t \in Submissions : t # s => review'[t] = review[t]
  <2>1. review'[s] = [decision |-> "published", by |-> intent[s].by, why |-> intent[s].why]
        /\ \A t \in Submissions : t # s => review'[t] = review[t]
    BY <1>1, TypeParts DEF Publish, Inv, DbTypeOK
  <2>2. review'[s] \in ReviewType
    BY <1>1, <2>1 DEF IntentType, ReviewType, Decisions
  <2> QED BY <2>1, <2>2, ReviewNotNone
<1>4. Outcome[s] = None /\ Outcome'[s] = d
  BY <1>1, <1>2, <1>3 DEF Outcome, TablesAdvance
<1>5. \A t \in Submissions : t # s => Outcome'[t] = Outcome[t]
  BY <1>2, <1>3, OutcomeStable
<1>6. Outcome' = [Outcome EXCEPT ![s] = d]
  BY <1>1, <1>4, <1>5 DEF Outcome
<1>7. Answered' = Answered
  BY <1>1 DEF Publish, Answered, OutcomeOf
<1>8. d \in OutcomeType
  BY <1>1 DEF IntentType, OutcomeType
<1>9. Promise!Decide(s, d)
  BY <1>4, <1>6, <1>7 DEF Promise!Decide
<1> QED BY <1>1, <1>8, <1>9 DEF Promise!Next

\* A single new receipt answers a single operation.
LEMMA AnswerOnce ==
  ASSUME NEW s \in Submissions, NEW o \in Operations,
         \A t \in Submissions, p \in Operations :
           <<t, p>> # <<s, o>> => receipts'[t][p] = receipts[t][p]
  PROVE  Answered' = [Answered EXCEPT ![s][o] = Answered'[s][o]]
<1>1. ASSUME NEW t \in Submissions, NEW p \in Operations, <<t, p>> # <<s, o>>
      PROVE  Answered'[t][p] = Answered[t][p]
  BY <1>1 DEF Answered, OutcomeOf
<1>2. ASSUME NEW t \in Submissions, t # s PROVE Answered'[t] = Answered[t]
  BY <1>2 DEF Answered, OutcomeOf
<1>3. Answered'[s] = [Answered[s] EXCEPT ![o] = Answered'[s][o]]
  BY <1>1, ZenonT(60) DEF Answered
<1> QED BY <1>2, <1>3 DEF Answered

\* The decision batch decides its submission and answers its own operation.
LEMMA RefusePromise ==
  ASSUME Inv, NEW w \in Requests, Decide(w), CanDecide(w)
  PROVE  Promise!Next
<1> DEFINE c == call[w]
           s == c.sub
           o == OperationOf(c)
           d == ReviewOf(c)
<1>1. /\ Refuse(w) /\ c \in Calls /\ s \in Submissions /\ d \in ReviewType
      /\ d.decision = c.kind /\ c.kind # "published"
      /\ HasOperation(c) => o \in Operations
  BY ReviewIsCommitted, CallFacts DEF Decide, DecideSteps, ReviewOf
<1>2. TablesAdvance /\ review[s] = None /\ (HasOperation(c) => receipts[s][o] = None)
  BY DecideInv DEF CanDecide, Receipt
<1>3. review'[s] = d /\ d # None /\ \A t \in Submissions : t # s => review'[t] = review[t]
  BY <1>1, ReviewNotNone, TypeParts DEF Refuse, Inv, DbTypeOK
<1>4. Outcome[s] = None /\ Outcome'[s] = d
  BY <1>1, <1>2, <1>3 DEF Outcome
<1>5. Outcome' = [Outcome EXCEPT ![s] = d]
  <2>1. \A t \in Submissions : t # s => Outcome'[t] = Outcome[t]
    BY <1>2, <1>3, OutcomeStable
  <2> QED BY <1>1, <1>4, <2>1 DEF Outcome
<1>6. Promise!Decide(s, d)
  <2>1. CASE ~HasOperation(c)
    <3>1. Answered' = Answered
      BY <1>1, <2>1 DEF Refuse, Answered, OutcomeOf
    <3> QED BY <1>4, <1>5, <3>1 DEF Promise!Decide
  <2>2. CASE HasOperation(c)
    <3>1. /\ receipts'[s][o] = [call |-> c, answer |-> d]
          /\ \A t \in Submissions, p \in Operations :
               <<t, p>> # <<s, o>> => receipts'[t][p] = receipts[t][p]
      BY <1>1, <2>2, TypeParts DEF Refuse, Inv, DbTypeOK
    <3>2. [call |-> c, answer |-> d] # None
      BY <1>1, ReviewNotNone DEF ReceiptType, AnswerType
    <3>3. Answered[s][o] = None /\ Answered'[s][o] = d
      BY <1>1, <1>2, <2>2, <3>1, <3>2 DEF Answered, OutcomeOf
    <3>4. Answered' = [Answered EXCEPT ![s][o] = d]
      BY <1>1, <2>2, <3>1, <3>3, AnswerOnce
    <3> QED BY <1>1, <1>4, <1>5, <2>2, <3>3, <3>4 DEF Promise!Decide
  <2> QED BY <2>1, <2>2
<1> QED BY <1>1, <1>6 DEF Promise!Next, OutcomeType

\* A new receipt of a publication tells the outcome of its submission; a receipt
\* that is already there stays.
LEMMA RecordPromise ==
  ASSUME Inv, NEW w \in Requests, Record(w)
  PROVE  [Promise!Next]_(Promise!vars)
<1> DEFINE c == call[w]
           s == c.sub
           o == OperationOf(c)
<1>1. /\ w \in Workers /\ c \in Calls /\ s \in Submissions /\ o \in Operations
      /\ reply[w] \in AnswerType /\ Committed(c, reply[w])
      /\ pc[w] = "record"
  BY WorkerFacts, CallFacts DEF Record, WorkerInv, Workers
<1>2. TablesAdvance /\ review' = review
  BY RecordInv DEF Record
<1>3. CASE Receipt(w) # None
  <2>1. receipts' = receipts
    BY <1>1, <1>3, TypeParts DEF Record, StoredReceipt, Receipt, Inv, DbTypeOK
  <2> QED BY <1>2, <2>1, QuietPromise
<1>4. CASE Receipt(w) = None
  <2>1. /\ receipts[s][o] = None
        /\ receipts'[s][o] = [call |-> c, answer |-> reply[w]]
        /\ \A t \in Submissions, p \in Operations :
             <<t, p>> # <<s, o>> => receipts'[t][p] = receipts[t][p]
    BY <1>1, <1>4, TypeParts DEF Record, StoredReceipt, Receipt, Inv, DbTypeOK
  <2>2. review[s] = ReviewOf(c) /\ ReviewOf(c) \in ReviewType /\ ReviewOf(c) # None
        /\ ReviewOf(c).decision = c.kind
    BY <1>1, CallFacts, ReviewNotNone DEF Committed, ReviewOf
  <2>3. Outcome[s] = OutcomeOf(reply[w]) /\ Outcome[s] # None
    <3>1. CASE c.kind = "published"
      <4>1. reply[w].decision = "published" /\ reply[w].rev = intent[s].rev
        BY <1>1, <2>2, <3>1 DEF Committed, Inv, TablesInv, OneOutcome, Decided
      <4>2. intent[s] \in IntentType
        BY <1>1, <2>2, <3>1, TypeParts DEF Inv, TablesInv, OneOutcome, Decided, DbTypeOK
      <4> QED BY <1>1, <2>2, <3>1, <4>1, <4>2, ReviewNotNone
              DEF Outcome, OutcomeOf, OutcomeType, IntentType
    <3>2. CASE c.kind # "published"
      <4>1. reply[w] \in ReviewType /\ reply[w].decision = c.kind
        BY <1>1, <3>2 DEF AnswerType, Committed
      <4>2. reply[w] = ReviewOf(c)
        BY <1>1, <3>2 DEF Committed
      <4> QED BY <1>1, <2>2, <3>2, <4>1, <4>2 DEF Outcome, OutcomeOf
    <3> QED BY <3>1, <3>2
  <2>4. Outcome' = Outcome
    BY <1>2, OutcomeStable DEF Outcome
  <2>5. [call |-> c, answer |-> reply[w]] # None
    BY <1>1, ReviewNotNone DEF ReceiptType
  <2>6. Answered[s][o] = None /\ Answered'[s][o] = Outcome[s]
    BY <1>1, <2>1, <2>3, <2>5, SMTT(60) DEF Answered, OutcomeOf
  <2>7. Answered' = [Answered EXCEPT ![s][o] = Outcome[s]]
    BY <1>1, <2>1, <2>6, AnswerOnce
  <2>8. Promise!Answer(s, o)
    BY <2>3, <2>4, <2>6, <2>7 DEF Promise!Answer
  <2> QED BY <1>1, <2>8 DEF Promise!Next
<1> QED BY <1>3, <1>4

LEMMA PromiseInit == Init => Promise!Init
BY DEF Init, Promise!Init, Outcome, Answered

LEMMA PromiseStep == Inv /\ [Next]_vars => [Promise!Next]_(Promise!vars)
<1> SUFFICES ASSUME Inv, [Next]_vars PROVE [Promise!Next]_(Promise!vars)
  OBVIOUS
<1>1. CASE \E w \in Workers : Finalize(w) /\ CanFinalize(w)
  BY <1>1, PublishPromise
<1>2. CASE \E w \in Requests : Decide(w) /\ CanDecide(w)
  BY <1>2, RefusePromise
<1>3. CASE \E w \in Requests : Record(w)
  BY <1>3, RecordPromise
<1>4. CASE /\ ~ \E w \in Workers : Finalize(w) /\ CanFinalize(w)
           /\ ~ \E w \in Requests : (Decide(w) /\ CanDecide(w)) \/ Record(w)
  <2>1. UNCHANGED <<review, receipts>>
    BY <1>4, QuietStep
  <2> QED BY <2>1, NextInv, QuietPromise
<1> QED BY <1>1, <1>2, <1>3, <1>4

\* The review of submissions keeps the promise of ReviewOutcome: one decision
\* per submission, and one answer per operation that tells it.
THEOREM PromiseKept == Spec => KeepsPromise
BY PromiseInit, PromiseStep, Invariance, PTL DEF Spec, Promise!Spec, KeepsPromise

-----------------------------------------------------------------------------
(* The reasons of refusals. *)

\* A step of one worker leaves every other one where it is.
LEMMA NobodyElse ==
  ASSUME LocalTypeOK, NEW v \in Workers, NEW w \in Workers, v # w
  PROVE  /\ \A step : Goto(v, step) => Same(w)
         /\ \A r : Finish(v, r) => Same(w)
         /\ \A code : Fail(v, code) => Same(w)
         /\ \A a : Settle(v, a) => Same(w)
         /\ Replay(v) => Same(w)
         /\ \A i : Adopt(v, i) => Same(w)
         /\ Converge(v) => Same(w)
         /\ Marked(v) => Same(w)
<1>1. \A step : Goto(v, step) => Same(w)
  BY DEF Goto, LocalTypeOK, Same
<1>2. \A r : Finish(v, r) => Same(w)
  BY DEF Finish, LocalTypeOK, Same
<1>3. \A code : Fail(v, code) => Same(w)
  BY <1>2 DEF Fail
<1>4. \A a : Settle(v, a) => Same(w)
  BY <1>2 DEF Settle, LocalTypeOK, Same
<1>5. /\ Replay(v) => Same(w)
      /\ Converge(v) => Same(w)
  BY <1>2, <1>3, <1>4 DEF Replay, Converge
<1>6. \A i : Adopt(v, i) => Same(w)
  BY <1>3 DEF Adopt, LocalTypeOK, Same
<1>7. Marked(v) => Same(w)
  BY DEF Marked, LocalTypeOK, Same
<1> QED BY <1>1, <1>2, <1>3, <1>4, <1>5, <1>6, <1>7

\* The steps of a request.
OwnStep(w) ==
  \/ \E c \in Calls : Arrive(w, c)
  \/ Lookup(w) \/ PublishStep(w) \/ DecideStep(w) \/ Record(w) \/ ResumeStep(w) \/ Crash(w)

LEMMA OwnSteps ==
  ASSUME Inv, [Next]_vars, NEW w \in Requests
  PROVE  Same(w) \/ OwnStep(w)
<1>0. w \in Workers /\ w \notin Sweepers /\ LocalTypeOK
  BY WorkersAssumption, TypeParts DEF Workers, Inv
<1>1. ASSUME NEW v \in Requests, v # w, \E c \in Calls : Arrive(v, c)
      PROVE  Same(w)
  BY <1>0, <1>1 DEF Arrive, LocalTypeOK, Same
<1>2. ASSUME NEW v \in Requests, v # w,
             Lookup(v) \/ PublishStep(v) \/ DecideStep(v) \/ Record(v)
      PROVE  Same(w)
  <2>1. v \in Workers
    BY DEF Workers
  <2>2. CASE Lookup(v) \/ PublishStep(v)
    BY <1>0, <1>2, <2>1, <2>2, NobodyElse
    DEF Lookup, PublishStep, Validate, ReadIntent, ReadPending, ReadTarget, ReadItem,
        InsertIntent, ReadBack, Explain
  <2>3. CASE ReadGuard(v)
    BY <1>0, <1>2, <2>1, <2>3 DEF ReadGuard, LocalTypeOK, Same
  <2>4. CASE (DecideStep(v) /\ ~ReadGuard(v)) \/ Record(v)
    BY <1>0, <1>2, <2>1, <2>4, NobodyElse
    DEF DecideStep, FindReview, ReadStatus, Rereview, Decide, DecideFailed, ReadReview, Record
  <2> QED BY <1>2, <2>2, <2>3, <2>4
<1>3. ASSUME NEW v \in Sweepers, NEW s \in Submissions, Sweep(v, s)
      PROVE  Same(w)
  BY <1>0, <1>3 DEF Sweep, LocalTypeOK, Same, Workers
<1>4. ASSUME NEW v \in Workers, v # w, SweepStep(v) \/ Crash(v)
      PROVE  Same(w)
  BY <1>0, <1>4, NobodyElse
  DEF SweepStep, ResumeStep, Resume, CommitContent, MarkContentWritten, ReadMarked,
      ReadForFinalize, Finalize, Refinalize, Index, MarkFailedTerminal, Crash
<1>5. ~MarkFailedTerminal(w)
  BY <1>0 DEF MarkFailedTerminal, Inv, WorkersInv, WorkerInv
<1>6. CASE Environment \/ UNCHANGED vars
  BY <1>6 DEF Environment, ToggleTarget, ToggleAdmin, Drift, ToggleTrash, local, vars, Same
<1> QED BY <1>1, <1>2, <1>3, <1>4, <1>5, <1>6 DEF Next, SweepStep, OwnStep

\* How a request moves when it does not move to an error.
LEMMA ErrorTold ==
  ASSUME LocalTypeOK, NEW w \in Requests, NEW code, Answers(w, code)
  PROVE  /\ \A step : step # "done" => ~Goto(w, step)
         /\ \A r : Finish(w, r) => r = [error |-> code]
         /\ \A a \in AnswerType : ~Settle(w, a) /\ ~Finish(w, a)
         /\ \A told : Fail(w, told) => told = code
         /\ \A i : Adopt(w, i) => code = "intent_mismatch"
         /\ ~Marked(w)
<1>1. w \in Workers /\ w \notin Sweepers
  BY WorkersAssumption DEF Workers
<1>2. \A step : step # "done" => ~Goto(w, step)
  BY <1>1 DEF Goto, LocalTypeOK, Answers
<1>3. \A r : Finish(w, r) => r = [error |-> code]
  BY <1>1 DEF Finish, LocalTypeOK, Answers
<1>4. \A a \in AnswerType : ~Finish(w, a)
  BY <1>3, ErrorIsNoAnswer
<1>5. \A a \in AnswerType : ~Settle(w, a)
  BY <1>1, <1>4 DEF Settle, LocalTypeOK, Answers
<1>6. ASSUME NEW told, Fail(w, told) PROVE told = code
  <2>1. [error |-> told] = [error |-> code]
    BY <1>3, <1>6 DEF Fail
  <2>2. [error |-> told].error = [error |-> code].error
    BY <2>1
  <2> QED BY <2>2
<1>7. ASSUME NEW i, Adopt(w, i) PROVE code = "intent_mismatch"
  BY <1>1, <1>6, <1>7 DEF Adopt, LocalTypeOK, Answers
<1>8. ~Marked(w)
  BY <1>1 DEF Marked, LocalTypeOK, Answers
<1> QED BY <1>2, <1>3, <1>4, <1>5, <1>6, <1>7, <1>8

\* A replay answers or tells of a conflict of operations.
LEMMA ReplayTold ==
  ASSUME Inv, NEW w \in Requests, pc[w] # "idle", Recorded(w), Replay(w), NEW code,
         Answers(w, code)
  PROVE  code = "operation_conflict"
<1>1. w \in Workers /\ LocalTypeOK
  BY TypeParts DEF Workers, Inv
<1>2. call[w] \in Calls
  BY <1>1, WorkerFacts, WorkersAssumption
<1>3. Receipt(w) \in ReceiptType
  BY <1>2, TypeParts, CallFacts DEF Inv, DbTypeOK, Receipt, Recorded
<1>4. Receipt(w).answer \in AnswerType
  BY <1>3 DEF ReceiptType
<1> QED BY <1>1, <1>4, ErrorTold DEF Replay

\* The steps of a request before it has written its intent, and the one after a
\* read that found no intent at all.
Before == {"idle", "lookup", "validate", "readIntent", "readPending", "readTarget", "readItem",
           "insert", "explain"}

OwnIntentInv ==
  \A w \in Requests, s \in Submissions :
    intent[s] # None /\ intent[s].rev = w => s = call[w].sub /\ pc[w] \notin Before

\* Whoever lost its decision batch can read why: what kept the batch from
\* committing does not go away, and a batch whose reply was lost has decided.
Stands(c) ==
  review[c.sub] # None \/ Decided(c.sub) \/ intent[c.sub] # None \/ ~ExpectedVersion(c)

Reason(w) ==
  /\ pc[w] = "rereview" => Decided(call[w].sub)
  /\ pc[w] = "decideFailed" => Stands(call[w]) \/ Recorded(w)
  /\ pc[w] = "readGuard" => Stands(call[w])
  /\ pc[w] = "readReview" =>
       /\ reply[w].error # "unavailable"
       /\ reply[w].error = "decision_conflict" =>
            Decided(call[w].sub) \/ intent[call[w].sub] # None

ReasonInv == \A w \in Requests : Reason(w)

\* An intent is only written by the request whose revision it names.
LEMMA IntentOrigin ==
  ASSUME Inv, [Next]_vars, NEW s \in Submissions, intent[s] = None, intent'[s] # None
  PROVE  \E w \in Requests : InsertIntent(w) /\ CanIntend(call[w]) /\ s = call[w].sub
<1>1. ASSUME NEW w \in Requests, InsertIntent(w), ~CanIntend(call[w]) \/ s # call[w].sub
      PROVE  FALSE
  BY <1>1, TypeParts DEF Inv, DbTypeOK, InsertIntent
<1>2. ASSUME NEW w \in Requests, \/ \E c \in Calls : Arrive(w, c)
                                 \/ Lookup(w) \/ DecideStep(w) \/ Record(w)
                                 \/ PublishStep(w) /\ ~InsertIntent(w)
      PROVE  FALSE
  BY <1>2 DEF Arrive, Lookup, DecideStep, FindReview, ReadStatus, Rereview, Decide, Refuse,
     DecideFailed, ReadGuard, ReadReview, Record, PublishStep, Validate, ReadIntent, ReadPending,
     ReadTarget, ReadItem, ReadBack, Explain, db
<1>3. ASSUME NEW w \in Sweepers, NEW r \in Submissions, Sweep(w, r) PROVE FALSE
  BY <1>3 DEF Sweep, db
<1>4. ASSUME NEW w \in Workers, MarkContentWritten(w) \/ Finalize(w) \/ MarkFailedTerminal(w)
      PROVE  FALSE
  <2>1. call[w].sub \in Submissions /\ (pc[w] \in ResumeSteps => intent[call[w].sub] # None)
    BY <1>4, WorkerFacts
    DEF MarkContentWritten, Finalize, MarkFailedTerminal, WorkerInv, HoldsIntent
  <2> QED BY <1>4, <2>1, TypeParts
          DEF MarkContentWritten, Finalize, Publish, MarkFailedTerminal, Unfinished, ResumeSteps,
              Inv, DbTypeOK, db
<1>5. ASSUME NEW w \in Workers,
             \/ Resume(w) \/ CommitContent(w) \/ ReadMarked(w) \/ ReadForFinalize(w)
             \/ Refinalize(w) \/ Index(w) \/ Crash(w)
      PROVE  FALSE
  BY <1>5 DEF Resume, CommitContent, ReadMarked, ReadForFinalize, Refinalize, Index, Crash, db
<1>6. CASE Environment \/ UNCHANGED vars
  BY <1>6 DEF Environment, ToggleTarget, ToggleAdmin, Drift, ToggleTrash, db, vars
<1> QED BY <1>1, <1>2, <1>3, <1>4, <1>5, <1>6 DEF Next, PublishStep, SweepStep, ResumeStep

\* A request that is past its own intent, or holds none, does not go back.
LEMMA NeverBack ==
  ASSUME Inv, [Next]_vars, NEW w \in Requests, pc[w] \notin Before,
         intent[call[w].sub] # None
  PROVE  call'[w] = call[w] /\ pc'[w] \notin Before
<1>0. w \in Workers /\ w \notin Sweepers /\ LocalTypeOK
  BY WorkersAssumption, TypeParts DEF Workers, Inv
<1>1. /\ \A step : Goto(w, step) => pc'[w] = step /\ call'[w] = call[w]
      /\ \A r : Finish(w, r) => pc'[w] = "done" /\ call'[w] = call[w]
      /\ Marked(w) => pc'[w] = "finalize" /\ call'[w] = call[w]
  BY <1>0 DEF Goto, Finish, Marked, LocalTypeOK
<1>2. /\ \A code : Fail(w, code) => pc'[w] = "done" /\ call'[w] = call[w]
      /\ \A a : Settle(w, a) => pc'[w] \in {"record", "done"} /\ call'[w] = call[w]
      /\ \A i : Adopt(w, i) => pc'[w] \in {"resume", "done"} /\ call'[w] = call[w]
  BY <1>0, <1>1 DEF Fail, Settle, Adopt, LocalTypeOK
<1>3. /\ Replay(w) => pc'[w] = "done" /\ call'[w] = call[w]
      /\ Converge(w) => pc'[w] \in {"record", "done"} /\ call'[w] = call[w]
  BY <1>1, <1>2 DEF Replay, Converge
<1>4. CASE Same(w)
  BY <1>4 DEF Same
<1>5. CASE (\E c \in Calls : Arrive(w, c)) \/ Lookup(w) \/ PublishStep(w)
  BY <1>2, <1>5 DEF Arrive, Lookup, PublishStep, Validate, ReadIntent, ReadPending, ReadTarget,
     ReadItem, InsertIntent, ReadBack, Explain, Before
<1>6. CASE DecideStep(w) /\ ~ReadGuard(w)
  BY <1>1, <1>2, <1>3, <1>6 DEF DecideStep, FindReview, ReadStatus, Rereview, Decide,
     DecideFailed, ReadReview, Before
<1>7. CASE ReadGuard(w)
  BY <1>0, <1>7 DEF ReadGuard, LocalTypeOK, Before
<1>8. CASE Record(w) \/ Crash(w)
  BY <1>1, <1>2, <1>8 DEF Record, Crash, Before
<1>9. CASE ResumeStep(w)
  BY <1>1, <1>2, <1>3, <1>9 DEF ResumeStep, Resume, CommitContent, MarkContentWritten,
     ReadMarked, ReadForFinalize, Finalize, Refinalize, Index, Before
<1> QED BY <1>4, <1>5, <1>6, <1>7, <1>8, <1>9, OwnSteps DEF OwnStep

LEMMA OwnIntentStep == Inv /\ OwnIntentInv /\ [Next]_vars => OwnIntentInv'
<1> SUFFICES ASSUME Inv, OwnIntentInv, [Next]_vars, NEW w \in Requests, NEW s \in Submissions,
                    intent'[s] # None, intent'[s].rev = w
             PROVE  s = call'[w].sub /\ pc'[w] \notin Before
  BY DEF OwnIntentInv
<1>1. CASE intent[s] # None
  <2>1. intent[s].rev = w
    BY <1>1, NextInv DEF TablesAdvance
  <2>2. s = call[w].sub /\ pc[w] \notin Before
    BY <1>1, <2>1 DEF OwnIntentInv
  <2> QED BY <1>1, <2>2, NeverBack
<1>2. CASE intent[s] = None
  <2>1. PICK v \in Requests : InsertIntent(v) /\ CanIntend(call[v]) /\ s = call[v].sub
    BY <1>2, IntentOrigin
  <2>2. intent'[s] = NewIntent(v)
    BY <2>1, TypeParts DEF InsertIntent, Inv, DbTypeOK
  <2>3. v = w
    BY <2>2 DEF NewIntent
  <2>4. pc'[w] = "readBack" /\ call'[w] = call[w]
    BY <2>1, <2>3, TypeParts DEF InsertIntent, Goto, Inv, LocalTypeOK, Workers
  <2> QED BY <2>1, <2>3, <2>4 DEF Before
<1> QED BY <1>1, <1>2

\* The version of a submission only changes with its decision.
LEMMA VersionMoves ==
  ASSUME Inv, [Next]_vars, NEW s \in Submissions
  PROVE  version'[s] = version[s] \/ Decided(s)'
<1> USE DEF Inv
<1>1. ASSUME NEW w \in Requests, Decide(w), CanDecide(w)
      PROVE  version'[s] = version[s] \/ Decided(s)'
  <2>1. w \in Workers /\ pc[w] # "idle" /\ pc[w] \in DecideSteps /\ pc[w] \notin ResumeSteps
    BY <1>1 DEF Workers, Decide, DecideSteps, ResumeSteps
  <2>2. call[w] \in CallType
    BY <2>1, WorkerFacts, CallFacts DEF ResumeSteps
  <2>3. call[w].kind \in Decisions
    BY <2>2 DEF CallType
  <2> QED BY <1>1, <2>3, TypeParts DEF Decide, Refuse, DbTypeOK, Decided, Decisions
<1>2. ASSUME NEW w \in Workers, Finalize(w), CanFinalize(w)
      PROVE  version'[s] = version[s] \/ Decided(s)'
  BY <1>2, TypeParts DEF Finalize, Publish, DbTypeOK, Decided
<1>3. CASE \/ \E w \in Requests, c \in Calls : Arrive(w, c)
           \/ \E w \in Requests : Lookup(w) \/ PublishStep(w) \/ Record(w)
           \/ \E w \in Sweepers, t \in Submissions : Sweep(w, t)
           \/ UNCHANGED vars
  BY <1>3 DEF Arrive, Lookup, PublishStep, Validate, ReadIntent, ReadPending, ReadTarget,
              ReadItem, InsertIntent, ReadBack, Explain, Record, Sweep, db, vars
<1>4. CASE \/ \E w \in Requests : DecideStep(w) /\ ~(Decide(w) /\ CanDecide(w))
           \/ \E w \in Workers : Finalize(w) /\ ~CanFinalize(w)
  BY <1>4 DEF DecideStep, FindReview, ReadStatus, Rereview, Decide, DecideFailed, ReadGuard,
              ReadReview, Finalize, db
<1>5. ASSUME NEW w \in Workers, SweepStep(w) \/ Crash(w), ~Finalize(w)
      PROVE  version'[s] = version[s]
  BY <1>5 DEF SweepStep, ResumeStep, Resume, CommitContent, MarkContentWritten, ReadMarked,
              ReadForFinalize, Refinalize, Index, MarkFailedTerminal, Crash, db
<1>6. CASE Environment
  BY <1>6 DEF Environment, ToggleTarget, ToggleAdmin, Drift, ToggleTrash, db
<1> QED BY <1>1, <1>2, <1>3, <1>4, <1>5, <1>6 DEF Next, SweepStep, ResumeStep, DecideStep

\* What stands in the way of a decision stays.
LEMMA ReasonsStay ==
  ASSUME Inv, [Next]_vars, NEW w \in Requests, pc[w] # "idle", call'[w] = call[w]
  PROVE  LET c == call[w] IN
         /\ Decided(c.sub) => Decided(c.sub)'
         /\ intent[c.sub] # None => intent'[c.sub] # None
         /\ Stands(c) => Stands(c)'
         /\ Recorded(w) => Recorded(w)'
<1>1. w \in Workers /\ call[w] \in Calls
  BY WorkerFacts, WorkersAssumption DEF Workers
<1>2. /\ call[w].sub \in Submissions
      /\ HasOperation(call[w]) => OperationOf(call[w]) \in Operations
  BY <1>1, CallFacts
<1>3. TablesAdvance
  BY NextInv
<1>4. Recorded(w) => Recorded(w)'
  BY <1>2, <1>3 DEF Recorded, Receipt, HasOperation, OperationOf, TablesAdvance
<1>5. ~ExpectedVersion(call[w]) => ~ExpectedVersion(call[w])' \/ Decided(call[w].sub)'
  BY <1>2, VersionMoves DEF ExpectedVersion
<1>6. Decided(call[w].sub) => Decided(call[w].sub)'
  BY <1>2, <1>3 DEF Decided, TablesAdvance
<1>7. intent[call[w].sub] # None => intent'[call[w].sub] # None
  BY <1>2, <1>3 DEF TablesAdvance
<1>8. review[call[w].sub] # None => review'[call[w].sub] # None
  BY <1>2, <1>3 DEF TablesAdvance
<1> QED BY <1>4, <1>5, <1>6, <1>7, <1>8 DEF Stands

Reading == {"rereview", "decideFailed", "readGuard", "readReview"}

\* The ways to the steps that look for the reason of a failure.
LEMMA WaysToReading ==
  ASSUME Inv, [Next]_vars, NEW w \in Requests, pc'[w] \in Reading
  PROVE  /\ call'[w] = call[w]
         /\ \/ Same(w)
            \/ ReadStatus(w) /\ pc'[w] = "rereview"
            \/ Decide(w) /\ pc'[w] = "decideFailed"
            \/ DecideFailed(w) /\ ~Recorded(w) /\ pc'[w] = "readGuard"
            \/ ReadGuard(w) /\ pc'[w] = "readReview"
<1>0. w \in Workers /\ w \notin Sweepers /\ LocalTypeOK
  BY WorkersAssumption, TypeParts DEF Workers, Inv
<1>1. /\ \A step : Goto(w, step) => pc'[w] = step /\ call'[w] = call[w]
      /\ \A r : ~Finish(w, r)
      /\ ~Marked(w)
  BY <1>0 DEF Goto, Finish, Marked, LocalTypeOK, Reading
<1>2. /\ \A code : ~Fail(w, code)
      /\ \A a : ~Settle(w, a)
      /\ \A i : ~Adopt(w, i)
  BY <1>0, <1>1 DEF Fail, Settle, Adopt, LocalTypeOK, Reading
<1>3. ~Replay(w) /\ ~Converge(w)
  BY <1>1, <1>2 DEF Replay, Converge
<1>4. CASE Same(w)
  BY <1>4 DEF Same
<1>5. CASE (\E c \in Calls : Arrive(w, c)) \/ Lookup(w) \/ PublishStep(w)
  BY <1>0, <1>1, <1>2, <1>3, <1>5 DEF Arrive, Lookup, PublishStep, Validate, ReadIntent,
     ReadPending, ReadTarget, ReadItem, InsertIntent, ReadBack, Explain, LocalTypeOK, Reading
<1>6. CASE DecideStep(w) /\ ~ReadGuard(w)
  BY <1>1, <1>2, <1>3, <1>6 DEF DecideStep, FindReview, ReadStatus, Rereview, Decide,
     DecideFailed, ReadReview, Reading
<1>7. CASE ReadGuard(w)
  BY <1>0, <1>7 DEF ReadGuard, LocalTypeOK
<1>8. CASE Record(w) \/ Crash(w)
  BY <1>1, <1>2, <1>8 DEF Record, Crash
<1>9. CASE ResumeStep(w)
  BY <1>1, <1>2, <1>3, <1>9 DEF ResumeStep, Resume, CommitContent, MarkContentWritten,
     ReadMarked, ReadForFinalize, Finalize, Refinalize, Index, Reading
<1> QED BY <1>4, <1>5, <1>6, <1>7, <1>8, <1>9, OwnSteps DEF OwnStep

\* A batch that did not answer its caller left a reason to be read.
LEMMA BatchLeavesReason ==
  ASSUME Inv, [Next]_vars, NEW w \in Requests, Decide(w), call'[w] = call[w]
  PROVE  Stands(call[w])' \/ Recorded(w)'
<1>0. w \in Workers /\ pc[w] # "idle" /\ call[w] \in Calls
  BY WorkerFacts, WorkersAssumption DEF Decide, Workers
<1>1. CASE CanDecide(w)
  <2>1. call[w].sub \in Submissions /\ ReviewOf(call[w]) # None
    BY <1>0, CallFacts, ReviewNotNone
  <2>2. review'[call[w].sub] = ReviewOf(call[w])
    BY <1>1, <2>1, TypeParts DEF Decide, Refuse, Inv, DbTypeOK
  <2> QED BY <2>1, <2>2 DEF Stands
<1>2. CASE ~CanDecide(w)
  <2>1. Stands(call[w]) \/ Recorded(w)
    BY <1>2 DEF CanDecide, Stands, Decided, Recorded
  <2> QED BY <1>0, <2>1, ReasonsStay
<1> QED BY <1>1, <1>2

LEMMA ReasonStep == Inv /\ ReasonInv /\ [Next]_vars => ReasonInv'
<1> SUFFICES ASSUME Inv, ReasonInv, [Next]_vars, NEW w \in Requests, pc'[w] \in Reading
             PROVE  Reason(w)'
  BY DEF ReasonInv, Reason, Reading
<1> Reason(w)
  BY DEF ReasonInv
<1>0. w \in Workers /\ call'[w] = call[w] /\ LocalTypeOK
  BY WaysToReading, TypeParts DEF Workers, Inv
<1>1. CASE Same(w)
  <2>1. pc[w] # "idle"
    BY <1>1 DEF Same, Reading
  <2>2. /\ Decided(call[w].sub) => Decided(call[w].sub)'
        /\ intent[call[w].sub] # None => intent'[call[w].sub] # None
        /\ Stands(call[w]) => Stands(call[w])'
        /\ Recorded(w) => Recorded(w)'
    BY <1>0, <2>1, ReasonsStay
  <2> QED BY <1>0, <1>1, <2>2 DEF Same, Reason
<1>2. CASE ReadStatus(w) /\ pc'[w] = "rereview"
  <2>1. Decided(call[w].sub)
    BY <1>0, <1>2 DEF ReadStatus, Goto, Decided, LocalTypeOK
  <2> QED BY <1>0, <1>2, <2>1, ReasonsStay DEF ReadStatus, Reason
<1>3. CASE Decide(w) /\ pc'[w] = "decideFailed"
  BY <1>0, <1>3, BatchLeavesReason DEF Reason
<1>4. CASE DecideFailed(w) /\ ~Recorded(w) /\ pc'[w] = "readGuard"
  <2>1. Stands(call[w])
    BY <1>4 DEF Reason, DecideFailed
  <2>2. Stands(call[w])'
    BY <1>0, <1>4, <2>1, ReasonsStay DEF DecideFailed
  <2> QED BY <1>4, <2>2 DEF Reason
<1>5. CASE ReadGuard(w) /\ pc'[w] = "readReview"
  <2>1. reply'[w] = [error |-> Verdict(call[w])]
    BY <1>0, <1>5 DEF ReadGuard, LocalTypeOK
  <2>2. reply'[w].error = Verdict(call[w])
    BY <2>1
  <2>3. call[w].sub \in Submissions /\ pc[w] # "idle"
    BY <1>0, <1>5, WorkerFacts DEF ReadGuard
  <2>4. Stands(call[w])
    BY <1>5 DEF Reason, ReadGuard
  <2>5. ~Decided(call[w].sub) => review[call[w].sub] = None
    BY <2>3 DEF Inv, TablesInv, OneOutcome
  <2>6. /\ Verdict(call[w]) # "unavailable"
        /\ Verdict(call[w]) = "decision_conflict" =>
             Decided(call[w].sub) \/ intent[call[w].sub] # None
    BY <2>4, <2>5 DEF Verdict, Stands, Decided
  <2> QED BY <1>0, <1>5, <2>2, <2>3, <2>6, ReasonsStay DEF Reason
<1> QED BY <1>1, <1>2, <1>3, <1>4, <1>5, WaysToReading

\* Whoever is told that a batch failed can read why, and whoever looks at a
\* submission without having found an intent has none of its own there.
THEOREM ReasonsInvariance == Spec => [](OwnIntentInv /\ ReasonInv)
<1>1. Init => OwnIntentInv /\ ReasonInv
  BY DEF Init, OwnIntentInv, ReasonInv, Reason, Workers
<1> QED BY <1>1, OwnIntentStep, ReasonStep, Invariance, PTL DEF Spec

Explained(w) ==
  LET s == call[w].sub IN
  /\ Answers(w, "decision_conflict") =>
       \/ intent[s] # None
       \/ review[s] # None /\ review[s] # ReviewOf(call[w])
  /\ Answers(w, "submission_not_pending") =>
       /\ Decided(s)
       /\ status[s] = "published" => intent[s].rev # w
  /\ pc[w] \in {"decideFailed", "readGuard", "readReview"} /\ Answers(w, "unavailable")
       => crashes' # crashes

Codes == {"decision_conflict", "submission_not_pending", "unavailable"}

LEMMA PublishExplains ==
  ASSUME Inv, OwnIntentInv, NEW w \in Requests, PublishStep(w), NEW code \in Codes,
         Answers(w, code)
  PROVE  Explained(w)
<1>1. /\ w \in Workers /\ LocalTypeOK /\ pc[w] # "idle"
      /\ pc[w] \in PublishSteps
  BY TypeParts DEF Workers, Inv, PublishStep, PublishSteps, Validate, ReadIntent, ReadPending,
     ReadTarget, ReadItem, InsertIntent, ReadBack, Explain
<1>2. call[w].sub \in Submissions
  BY <1>1, WorkerFacts
<1>3. /\ \A step : step # "done" => ~Goto(w, step)
      /\ \A told : Fail(w, told) => told = code
      /\ \A i : ~Adopt(w, i)
  BY <1>1, ErrorTold DEF Codes
<1>4. /\ pc[w] \in {"readPending", "explain"} /\ Decided(call[w].sub)
      /\ code = "submission_not_pending"
  BY <1>3 DEF PublishStep, Validate, ReadIntent, ReadPending, ReadTarget, ReadItem,
     InsertIntent, ReadBack, Explain, Codes, Decided
<1>5. \A other \in Codes : Answers(w, other) => other = code
  <2>1. ASSUME NEW other \in Codes, Answers(w, other) PROVE other = code
    <3>1. [error |-> other] = [error |-> code]
      BY <2>1 DEF Answers
    <3>2. [error |-> other].error = [error |-> code].error
      BY <3>1
    <3> QED BY <3>2
  <2> QED BY <2>1
<1>6. status[call[w].sub] = "published" => intent[call[w].sub].rev # w
  BY <1>2, <1>4 DEF OwnIntentInv, Before, Inv, TablesInv, OneOutcome
<1> QED BY <1>4, <1>5, <1>6 DEF Explained, Codes

LEMMA DecideExplains ==
  ASSUME Inv, ReasonInv, NEW w \in Requests, DecideStep(w), NEW code \in Codes,
         Answers(w, code)
  PROVE  Explained(w)
<1> DEFINE s == call[w].sub
<1>1. /\ pc[w] \in DecideSteps /\ LocalTypeOK
  BY TypeParts DEF Inv, DecideStep, DecideSteps, FindReview, ReadStatus, Rereview, Decide,
     DecideFailed, ReadGuard, ReadReview
<1>2. /\ w \in Workers /\ pc[w] # "idle" /\ s \in Submissions
      /\ ReviewOf(call[w]) \in AnswerType
  BY <1>1, ReviewIsCommitted
<1>3. /\ \A step : step # "done" => ~Goto(w, step)
      /\ \A told : Fail(w, told) => told = code
      /\ \A r : Finish(w, r) => r = [error |-> code]
      /\ ~Settle(w, ReviewOf(call[w]))
  BY <1>2, <1>1, ErrorTold
<1>4. ~(Recorded(w) /\ Replay(w))
  BY <1>2, ReplayTold DEF Codes
<1>5. ~ReadGuard(w)
  BY <1>1, <1>2 DEF ReadGuard, Answers, LocalTypeOK
<1>6. Decided(s) => review[s] # None
  BY <1>2 DEF Inv, TablesInv, OneOutcome
<1>7. code = "decision_conflict" /\ (intent[s] # None \/ (review[s] # None /\ review[s] # ReviewOf(call[w])))
  <2>1. CASE FindReview(w)
    BY <1>3, <2>1 DEF FindReview, Converge
  <2>2. CASE Rereview(w)
    BY <1>3, <1>6, <2>2 DEF Rereview, Converge, ReasonInv, Reason
  <2>3. CASE ReadReview(w)
    <3>1. /\ reply[w] \in Verdicts /\ reply[w].error # "unavailable"
          /\ reply[w].error = "decision_conflict" => Decided(s) \/ intent[s] # None
      BY <1>2, <2>3 DEF ReadReview, ReasonInv, Reason, Inv, WorkersInv, WorkerInv
    <3>2. review[s] # ReviewOf(call[w])
      BY <1>3, <2>3 DEF ReadReview
    <3>3. CASE Finish(w, reply[w])
      <4>1. reply[w] = [error |-> code]
        BY <1>3, <3>3
      <4>2. reply[w].error = code
        BY <4>1
      <4>3. code # "version_conflict"
        BY DEF Codes
      <4>4. PICK told \in {"version_conflict", "decision_conflict", "unavailable"} :
              reply[w] = [error |-> told]
        BY <3>1 DEF Verdicts
      <4>5. reply[w].error = told
        BY <4>4
      <4> QED BY <1>6, <3>1, <3>2, <4>2, <4>3, <4>5
    <3>4. CASE review[s] # None /\ Fail(w, "decision_conflict")
      BY <1>3, <3>2, <3>4
    <3> QED BY <2>3, <3>2, <3>3, <3>4 DEF ReadReview
  <2>4. CASE ReadStatus(w) \/ Decide(w) \/ DecideFailed(w)
    BY <1>3, <1>4, <2>4 DEF ReadStatus, Decide, DecideFailed
  <2> QED BY <1>5, <2>1, <2>2, <2>3, <2>4 DEF DecideStep
<1>8. \A other \in Codes : Answers(w, other) => other = code
  <2>1. ASSUME NEW other \in Codes, Answers(w, other) PROVE other = code
    <3>1. [error |-> other] = [error |-> code]
      BY <2>1 DEF Answers
    <3>2. [error |-> other].error = [error |-> code].error
      BY <3>1
    <3> QED BY <3>2
  <2> QED BY <2>1
<1> QED BY <1>7, <1>8 DEF Explained, Codes

\* The other steps tell none of these errors, except that a call that failed
\* tells of that.
LEMMA OthersExplain ==
  ASSUME Inv, NEW w \in Requests, NEW code \in Codes, Answers(w, code),
         \/ \E c \in Calls : Arrive(w, c)
         \/ Lookup(w) \/ Record(w) \/ ResumeStep(w) \/ Crash(w)
  PROVE  /\ code = "unavailable"
         /\ pc[w] \in {"decideFailed", "readGuard", "readReview"} => crashes' # crashes
<1>0. w \in Workers /\ LocalTypeOK /\ crashes \in Nat
  BY WorkersAssumption, TypeParts DEF Workers, Inv, EnvTypeOK
<1>1. /\ \A step : step # "done" => ~Goto(w, step)
      /\ \A told : Fail(w, told) => told = code
      /\ \A a \in AnswerType : ~Settle(w, a) /\ ~Finish(w, a)
      /\ ~Marked(w)
  BY <1>0, ErrorTold
<1>2. CASE \E c \in Calls : Arrive(w, c)
  BY <1>0, <1>2 DEF Arrive, Answers, LocalTypeOK
<1>3. CASE Crash(w)
  BY <1>0, <1>1, <1>3 DEF Crash
<1>4. CASE Lookup(w)
  BY <1>1, <1>4, ReplayTold DEF Lookup, Codes
<1>5. CASE Record(w)
  <2>1. StoredReceipt(w).call = call[w] => StoredReceipt(w).answer \in AnswerType
    <3>1. HasOperation(call[w]) /\ reply[w] \in AnswerType /\ call[w] \in Calls
      BY <1>0, <1>5, WorkerFacts, RecoveryFacts DEF Record, WorkerInv
    <3>2. Receipt(w) # None => Receipt(w) \in ReceiptType
      BY <3>1, CallFacts, TypeParts DEF Inv, DbTypeOK, Receipt
    <3> QED BY <3>1, <3>2 DEF StoredReceipt, ReceiptType
  <2> QED BY <1>1, <1>5, <2>1 DEF Record, Codes
<1>6. CASE ResumeStep(w)
  <2>1. pc[w] \in ResumeSteps /\ pc[w] # "idle"
    BY <1>6 DEF ResumeStep, Resume, CommitContent, MarkContentWritten, ReadMarked,
                ReadForFinalize, Finalize, Refinalize, Index, ResumeSteps
  <2>2. ~Index(w)
    <3>1. intent[call[w].sub] \in IntentType
      BY <1>0, <2>1, HolderFacts
    <3>2. \A search \in {"indexed", "pending"} :
            Published(intent[call[w].sub].rev, search) \in AnswerType
      BY <3>1 DEF IntentType, AnswerType, Published
    <3> QED BY <1>1, <3>2 DEF Index
  <2>3. ~(Recorded(w) /\ Replay(w))
    BY <2>1, ReplayTold DEF Codes
  <2>4. code = "unavailable"
    BY <1>1, <1>6, <2>2, <2>3
    DEF ResumeStep, Resume, CommitContent, MarkContentWritten, ReadMarked, ReadForFinalize,
        Finalize, Refinalize, Codes
  <2> QED BY <2>1, <2>4 DEF ResumeSteps
<1> QED BY <1>2, <1>3, <1>4, <1>5, <1>6

\* A caller is refused for the reason it is told, although it is pieced together
\* from reads that others wrote between.
THEOREM RefusalsCorrect == Spec => RefusalsAreExplained
<1>1. ASSUME Inv, OwnIntentInv, ReasonInv, [Next]_vars, NEW w \in Requests PROVE Explained(w)
  <2>1. CASE \A code \in Codes : ~Answers(w, code)
    BY <2>1 DEF Explained, Codes
  <2>2. ASSUME NEW code \in Codes, Answers(w, code) PROVE Explained(w)
    <3>1. ~Same(w)
      BY <2>2 DEF Same, Answers
    <3>2. CASE PublishStep(w)
      BY <1>1, <2>2, <3>2, PublishExplains
    <3>3. CASE DecideStep(w)
      BY <1>1, <2>2, <3>3, DecideExplains
    <3>4. CASE \/ \E c \in Calls : Arrive(w, c)
               \/ Lookup(w) \/ Record(w) \/ ResumeStep(w) \/ Crash(w)
      BY <1>1, <2>2, <3>4, OthersExplain DEF Explained, Codes
    <3> QED BY <1>1, <3>1, <3>2, <3>3, <3>4, OwnSteps DEF OwnStep
  <2> QED BY <2>1, <2>2
<1>2. Inv /\ OwnIntentInv /\ ReasonInv /\ [Next]_vars =>
        [\A w \in Requests : Explained(w)]_vars
  BY <1>1
<1> QED BY <1>2, ReasonsInvariance, Invariance, PTL
        DEF Spec, RefusalsAreExplained, Explained
=============================================================================
