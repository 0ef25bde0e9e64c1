------------------------ MODULE AssetIngestion_proofs ------------------------
(* Machine-checked proofs about AssetIngestion, for any number of uploads, *)
(* keys, workers and faults.                                               *)
EXTENDS AssetIngestion, TLAPS

\* The steps of an upload before its row can exist, and after it is done.
Early == {"new", "measure", "put", "insert"}
Over  == {"answered", "refused"}

\* What an upload knows of the rows and of its original at each step.
UploadOK(u) ==
  /\ upload[u].at \in {"measure", "put", "insert", "compensate", "answered"} =>
       upload[u].key \in Keys
  /\ upload[u].at \in Early => row[u] = None
  /\ upload[u].at = "insert" => staging[u] # "absent"
  /\ upload[u].at = "compensate" => row[u] = None \/ u \in doubtful
  /\ staging[u] = "old" => upload[u].at \in Over

\* What an answered upload knows of the asset it was told.
AnswerOK(u) ==
  upload[u].at = "answered" =>
    /\ upload[u].answer \in Uploads
    /\ upload[upload[u].answer].at \notin Early
    /\ row[upload[u].answer] # None => row[upload[u].answer].key = upload[u].key

\* What a worker knows of its asset at each step, whoever acted on it since.
WorkOK(w) ==
  /\ work[w].at # "idle" => work[w].asset \in Uploads
  /\ work[w].at \in {"parse", "store", "mark"} => JobIn(work[w].asset, {"processing"})
  /\ work[w].at \in {"cleanup", "fail"} =>
       JobIn(work[w].asset, {"processing"}) \/
       (JobIn(work[w].asset, {"succeeded"}) /\ work[w].asset \in doubtful)
  /\ work[w].at = "mark" => parsed[work[w].asset] # "absent" \/ work[w].asset \in doubtful
  /\ work[w].at = "unstage" => row[work[w].asset] = None /\ upload[work[w].asset].at \notin Early
  /\ work[w].at \in {"referenced", "delete"} /\ work[w].folder = "staging" =>
       upload[work[w].asset].at \in Over
  /\ work[w].at \in {"submit", "pair"} => JobIn(work[w].asset, {"succeeded"})

\* What UNIQUE(owner_id, idempotency_key) keeps.
OneAssetPerKey == \A a, b \in Rows : row[a].key = row[b].key => a = b

UploadsInv == \A u \in Uploads : UploadOK(u) /\ AnswerOK(u)

WorkersInv == \A w \in Workers : WorkOK(w)

\* The inductive invariant.
Inv ==
  /\ TypeOK
  /\ UploadsInv
  /\ WorkersInv
  /\ OneAssetPerKey
  /\ OneParserAtATime
  /\ OriginalKept
  /\ ResultKept

-----------------------------------------------------------------------------
(* Types of what the steps write *)

LEMMA ToStepTyped ==
  ASSUME TypeOK, NEW u \in Uploads, NEW s \in UploadSteps, ToStep(u, s)
  PROVE  upload' \in [Uploads -> UploadType]
BY DEF TypeOK, ToStep, UploadType

LEMMA GoTyped ==
  ASSUME TypeOK, NEW w \in Workers, NEW s \in WorkSteps, Go(w, s)
  PROVE  work' \in [Workers -> WorkType]
BY DEF TypeOK, Go, WorkType

LEMMA IdleTyped == Idle \in WorkType
BY DEF Idle, WorkType, WorkSteps, Folders

LEMMA EndTyped ==
  ASSUME TypeOK, NEW w \in Workers, End(w)
  PROVE  work' \in [Workers -> WorkType]
BY IdleTyped DEF TypeOK, End

LEMMA NewRowTyped ==
  \A k \in Keys : NewRow(k) \in RowType /\ NewRow(k).job = "queued" /\ NewRow(k).key = k
BY AssetAssumption DEF NewRow, RowType, JobStates

LEMMA ClaimedTyped ==
  ASSUME NEW r \in RowType, r.attempts < MaxAttempts
  PROVE  [r EXCEPT !.job = "processing", !.attempts = @ + 1] \in RowType
<1>1. r.attempts + 1 \in 0..MaxAttempts
  BY AssetAssumption DEF RowType
<1> QED BY <1>1 DEF RowType, JobStates

LEMMA RowsTyped ==
  ASSUME NEW r \in RowType
  PROVE  /\ [r EXCEPT !.job = "succeeded"] \in RowType
         /\ [r EXCEPT !.paired = TRUE] \in RowType
         /\ Requeued(r) \in RowType
<1>1. [r EXCEPT !.job = "succeeded"] \in RowType
  BY DEF RowType, JobStates
<1>2. [r EXCEPT !.paired = TRUE] \in RowType
  BY DEF RowType
<1>3. Requeued(r) \in RowType
  <2>1. 0 \in 0..MaxAttempts
    BY AssetAssumption
  <2> QED BY <2>1 DEF RowType, JobStates, Requeued
<1> QED BY <1>1, <1>2, <1>3

LEMMA FailedRowTyped ==
  ASSUME NEW r \in RowType, NEW t \in BOOLEAN
  PROVE  /\ FailedRow(r, t) \in RowType
         /\ FailedRow(r, t).key = r.key
         /\ FailedRow(r, t).job \in {"failed_retryable", "failed_terminal", r.job}
         /\ r.job # "processing" => FailedRow(r, t).job = r.job
         /\ FailedRow(r, t).job # "processing"
BY DEF FailedRow, RowType, JobStates

LEMMA RowWritten ==
  ASSUME TypeOK, NEW a \in Uploads, NEW r \in RowType \cup {None}, row' = [row EXCEPT ![a] = r]
  PROVE  row' \in [Uploads -> RowType \cup {None}]
BY DEF TypeOK

-----------------------------------------------------------------------------
(* The actions that write to a store *)

\* The original is stored before its row.
LEMMA PutInv ==
  ASSUME Inv, NEW u \in Uploads, Put(u)
  PROVE  Inv'
<1>1. TypeOK'
  <2>1. upload' \in [Uploads -> UploadType]
    BY DEF Put, ToStep, Inv, TypeOK, UploadSteps, UploadType
  <2> QED BY <2>1 DEF Put, Inv, TypeOK, ObjectType, bounds
<1>2. UploadsInv'
  BY DEF Put, At, ToStep, Inv, UploadsInv, TypeOK, UploadOK, AnswerOK, Early
<1>3. WorkersInv'
  BY DEF Put, At, ToStep, Inv, WorkersInv, Early, Over, WorkOK, JobIn
<1>4. OneAssetPerKey'
  BY DEF Put, Inv, OneAssetPerKey, Rows
<1>5. OneParserAtATime'
  BY DEF Put, Inv, OneParserAtATime, On
<1>6. OriginalKept'
  BY DEF Put, Inv, OriginalKept, Rows
<1>7. ResultKept'
  BY DEF Put, Inv, ResultKept, Rows
<1> QED BY <1>1, <1>2, <1>3, <1>4, <1>5, <1>6, <1>7 DEF Inv

\* The original may be there or not: its row is not.
LEMMA PutThrowsInv ==
  ASSUME Inv, NEW u \in Uploads, PutThrows(u)
  PROVE  Inv'
<1>1. TypeOK'
  <2>1. upload' \in [Uploads -> UploadType]
    BY DEF PutThrows, ToStep, Inv, TypeOK, UploadSteps, UploadType
  <2> QED BY <2>1, AssetAssumption DEF PutThrows, Fault, Inv, TypeOK, ObjectType
<1>2. UploadsInv'
  BY DEF PutThrows, At, ToStep, Inv, UploadsInv, TypeOK, UploadOK, AnswerOK, Early, Over
<1>3. WorkersInv'
  BY DEF PutThrows, At, ToStep, Inv, WorkersInv, Early, Over, WorkOK, JobIn
<1>4. OneAssetPerKey'
  BY DEF PutThrows, Inv, OneAssetPerKey, Rows
<1>5. OneParserAtATime'
  BY DEF PutThrows, Inv, OneParserAtATime, On
<1>6. OriginalKept'
  BY DEF PutThrows, Inv, TypeOK, OriginalKept, Rows
<1>7. ResultKept'
  BY DEF PutThrows, Inv, ResultKept, Rows
<1> QED BY <1>1, <1>2, <1>3, <1>4, <1>5, <1>6, <1>7 DEF Inv

\* The row comes to be when its key is free, and with its original.
LEMMA InsertInv ==
  ASSUME Inv, NEW u \in Uploads, Insert(u)
  PROVE  Inv'
<1>1. TypeOK'
  <2>1. row' \in [Uploads -> RowType \cup {None}]
    <3>1. upload[u].key \in Keys
      BY DEF Insert, At, Inv, UploadsInv, UploadOK
    <3>2. row' = row \/ row' = [row EXCEPT ![u] = NewRow(upload[u].key)]
      BY DEF Insert
    <3> QED BY <3>1, <3>2, NewRowTyped DEF Inv, TypeOK
  <2>2. upload' \in [Uploads -> UploadType]
    BY ToStepTyped DEF Insert, Inv, TypeOK, UploadSteps, UploadType
  <2> QED BY <2>1, <2>2 DEF Insert, Inv, TypeOK, bounds
<1>2. UploadsInv'
  <2>1. CASE KeyFree(upload[u].key)
    <3>1. upload'[u].at = "answered" /\ upload'[u].answer = u /\ upload'[u].key = upload[u].key
      BY <2>1 DEF Insert, Inv, TypeOK, UploadType
    <3>2. row'[u].key = upload[u].key /\ upload[u].at = "insert"
      BY <2>1, NewRowTyped DEF Insert, At, Inv, TypeOK, UploadsInv, UploadOK
    <3>3. \A v \in Uploads : v # u => upload'[v] = upload[v] /\ row'[v] = row[v]
      BY <2>1 DEF Insert, Inv, TypeOK
    <3> QED BY <3>1, <3>2, <3>3 DEF Insert, Inv, UploadsInv, UploadOK, AnswerOK, Early, Over
  <2>2. CASE ~KeyFree(upload[u].key)
    <3>1. upload'[u].at = "compensate" /\ upload'[u].key = upload[u].key
      BY <2>2 DEF Insert, ToStep, Inv, TypeOK, UploadType
    <3>2. \A v \in Uploads : v # u => upload'[v] = upload[v]
      BY <2>2 DEF Insert, ToStep, Inv, TypeOK
    <3>3. upload[u].at = "insert" /\ row' = row
      BY <2>2 DEF Insert, At
    <3> QED BY <3>1, <3>2, <3>3 DEF Insert, Inv, UploadsInv, UploadOK, AnswerOK, Early, Over
  <2> QED BY <2>1, <2>2
<1>3. WorkersInv'
  BY DEF Insert, At, ToStep, Inv, UploadsInv, WorkersInv, TypeOK, UploadOK, Early, Over,
     WorkOK, JobIn
<1>4. OneAssetPerKey'
  BY DEF Insert, KeyFree, Owning, NewRow, Inv, TypeOK, OneAssetPerKey, Rows
<1>5. OneParserAtATime'
  BY DEF Insert, Inv, OneParserAtATime, On
<1>6. OriginalKept'
  BY DEF Insert, At, Inv, UploadsInv, TypeOK, OriginalKept, Rows, UploadOK
<1>7. ResultKept'
  BY DEF Insert, NewRow, Inv, TypeOK, ResultKept, Rows
<1> QED BY <1>1, <1>2, <1>3, <1>4, <1>5, <1>6, <1>7 DEF Inv

\* A row inserted without a reply is in doubt.
LEMMA InsertThrowsInv ==
  ASSUME Inv, NEW u \in Uploads, InsertThrows(u)
  PROVE  Inv'
<1>1. TypeOK'
  <2>1. row' \in [Uploads -> RowType \cup {None}]
    <3>1. upload[u].key \in Keys
      BY DEF InsertThrows, At, Inv, UploadsInv, UploadOK
    <3>2. row' = row \/ row' = [row EXCEPT ![u] = NewRow(upload[u].key)]
      BY DEF InsertThrows
    <3> QED BY <3>1, <3>2, NewRowTyped DEF Inv, TypeOK
  <2>2. upload' \in [Uploads -> UploadType]
    BY ToStepTyped DEF InsertThrows, Inv, UploadSteps
  <2> QED BY <2>1, <2>2, AssetAssumption DEF InsertThrows, Fault, Inv, TypeOK
<1>2. UploadsInv'
  BY DEF InsertThrows, At, ToStep, Inv, UploadsInv, TypeOK, UploadOK, AnswerOK, Early,
     Over
<1>3. WorkersInv'
  BY DEF InsertThrows, At, ToStep, Inv, UploadsInv, WorkersInv, TypeOK, UploadOK, Early,
     Over, WorkOK, JobIn
<1>4. OneAssetPerKey'
  BY DEF InsertThrows, KeyFree, Owning, NewRow, Inv, TypeOK, OneAssetPerKey, Rows
<1>5. OneParserAtATime'
  BY DEF InsertThrows, Inv, OneParserAtATime, On
<1>6. OriginalKept'
  BY DEF InsertThrows, Inv, TypeOK, OriginalKept, Rows
<1>7. ResultKept'
  BY DEF InsertThrows, Inv, TypeOK, ResultKept, Rows
<1> QED BY <1>1, <1>2, <1>3, <1>4, <1>5, <1>6, <1>7 DEF Inv

\* The original that is removed has no row, or one that is in doubt.
LEMMA CompensateInv ==
  ASSUME Inv, NEW u \in Uploads, Compensate(u)
  PROVE  Inv'
<1>1. TypeOK'
  <2>1. upload' \in [Uploads -> UploadType]
    BY DEF Compensate, ToStep, Refuse, Inv, TypeOK, UploadSteps, UploadType
  <2> QED BY <2>1 DEF Compensate, Inv, TypeOK, ObjectType, bounds
<1>2. UploadsInv'
  BY DEF Compensate, ToStep, Refuse, Inv, UploadsInv, TypeOK, UploadOK, AnswerOK, Early
<1>3. WorkersInv'
  BY DEF Compensate, ToStep, Refuse, Inv, WorkersInv, Early, Over, WorkOK, JobIn
<1>4. OneAssetPerKey'
  BY DEF Compensate, Inv, OneAssetPerKey, Rows
<1>5. OneParserAtATime'
  BY DEF Compensate, Inv, OneParserAtATime, On
<1>6. OriginalKept'
  BY DEF Compensate, At, Inv, UploadsInv, OriginalKept, Rows, UploadOK
<1>7. ResultKept'
  BY DEF Compensate, Inv, ResultKept, Rows
<1> QED BY <1>1, <1>2, <1>3, <1>4, <1>5, <1>6, <1>7 DEF Inv

\* The job that is claimed is at no other worker that processes it.
LEMMA ClaimInv ==
  ASSUME Inv, NEW w \in Workers, Claim(w)
  PROVE  Inv'
<1>1. TypeOK'
  <2>1. row' \in [Uploads -> RowType \cup {None}]
    <3>1. CASE CanClaim(On(w))
      <4> DEFINE a == On(w)
      <4>1. a \in Uploads /\ row[a] \in RowType /\ row[a].attempts < MaxAttempts
        BY <3>1 DEF Claim, Working, On, CanClaim, JobIn, Inv, TypeOK, WorkersInv, WorkOK
      <4>2. row' = [row EXCEPT ![a] = [row[a] EXCEPT !.job = "processing", !.attempts = @ + 1]]
        BY <3>1 DEF Claim, Claimed
      <4> HIDE DEF a
      <4> QED BY <4>1, <4>2, ClaimedTyped, RowWritten DEF Inv
    <3> QED BY <3>1 DEF Claim, Inv, TypeOK
  <2>2. work' \in [Workers -> WorkType]
    BY GoTyped, EndTyped DEF Claim, Inv, WorkSteps
  <2> QED BY <2>1, <2>2 DEF Claim, Inv, TypeOK, bounds
<1>2. UploadsInv'
  BY DEF Claim, CanClaim, Claimed, Inv, UploadsInv, TypeOK, RowType, UploadOK, AnswerOK,
     JobIn
<1>3. WorkersInv'
  BY DEF Claim, Working, On, CanClaim, Claimed, End, Idle, Inv, WorkersInv, TypeOK,
     RowType, WorkOK, JobIn
<1>4. OneAssetPerKey'
  BY DEF Claim, CanClaim, Claimed, Inv, TypeOK, RowType, OneAssetPerKey, Rows, JobIn
<1>5. OneParserAtATime'
  BY AssetAssumption DEF Claim, On, Claimed, Go, End, Idle, Inv, WorkersInv, TypeOK,
     RowType, WorkType, OneParserAtATime, Processing, WorkOK, JobIn
<1>6. OriginalKept'
  BY DEF Claim, CanClaim, Claimed, Inv, TypeOK, OriginalKept, Rows, JobIn
<1>7. ResultKept'
  BY DEF Claim, CanClaim, Claimed, Inv, TypeOK, RowType, JobStates, ResultKept, Rows,
     JobIn
<1> QED BY <1>1, <1>2, <1>3, <1>4, <1>5, <1>6, <1>7 DEF Inv

\* A claim without a reply leaves the job to nobody.
LEMMA ClaimThrowsInv ==
  ASSUME Inv, NEW w \in Workers, ClaimThrows(w)
  PROVE  Inv'
<1>1. TypeOK'
  <2>1. row' \in [Uploads -> RowType \cup {None}]
    <3>1. CASE CanClaim(On(w))
      <4> DEFINE a == On(w)
      <4>1. a \in Uploads /\ row[a] \in RowType /\ row[a].attempts < MaxAttempts
        BY <3>1 DEF ClaimThrows, Working, On, CanClaim, JobIn, Inv, TypeOK, WorkersInv,
           WorkOK
      <4>2. row' = [row EXCEPT ![a] = [row[a] EXCEPT !.job = "processing", !.attempts = @ + 1]]
        BY <3>1 DEF ClaimThrows, Claimed
      <4> HIDE DEF a
      <4> QED BY <4>1, <4>2, ClaimedTyped, RowWritten DEF Inv
    <3> QED BY <3>1 DEF ClaimThrows
  <2>2. work' \in [Workers -> WorkType]
    BY EndTyped DEF ClaimThrows, Inv
  <2> QED BY <2>1, <2>2, AssetAssumption DEF ClaimThrows, Fault, Inv, TypeOK
<1>2. UploadsInv'
  BY DEF ClaimThrows, Working, On, CanClaim, Claimed, Inv, WorkersInv, TypeOK, RowType,
     WorkOK, JobIn
<1>3. WorkersInv'
  <2>1. \A b \in Uploads : b # On(w) => row'[b] = row[b]
    BY DEF ClaimThrows, Claimed, Inv, TypeOK
  <2>2. JobIn(On(w), Processable)
    BY DEF ClaimThrows, CanClaim
  <2>3. work'[w].at = "idle" /\ \A v \in Workers : v # w => work'[v] = work[v]
    BY DEF ClaimThrows, End, Idle, Inv, TypeOK
  <2> QED BY <2>1, <2>2, <2>3
          DEF ClaimThrows, On, Processable, JobIn, Inv, WorkersInv, WorkOK
<1>4. OneAssetPerKey'
  BY DEF ClaimThrows, Working, On, CanClaim, Claimed, Inv, WorkersInv, TypeOK, RowType,
     WorkOK, JobIn
<1>5. OneParserAtATime'
  BY DEF ClaimThrows, Working, On, CanClaim, Claimed, Inv, WorkersInv, TypeOK, RowType,
     WorkOK, JobIn
<1>6. OriginalKept'
  BY DEF ClaimThrows, Working, On, CanClaim, Claimed, Inv, WorkersInv, TypeOK, RowType,
     WorkOK, JobIn
<1>7. ResultKept'
  BY DEF ClaimThrows, Claimed, Inv, TypeOK, ResultKept, Rows
<1> QED BY <1>1, <1>2, <1>3, <1>4, <1>5, <1>6, <1>7 DEF Inv

\* The result is stored while its job is in processing.
LEMMA StoreInv ==
  ASSUME Inv, NEW w \in Workers, Store(w)
  PROVE  Inv'
<1>1. TypeOK'
  <2>1. work' \in [Workers -> WorkType]
    BY GoTyped DEF Store, Inv, WorkSteps
  <2> QED BY <2>1 DEF Store, Stored, Inv, TypeOK, ObjectType, bounds
<1>2. UploadsInv'
  BY DEF Store, Inv, UploadsInv, UploadOK, AnswerOK
<1>3. WorkersInv'
  BY DEF Store, Working, On, Stored, Go, Inv, WorkersInv, TypeOK, WorkOK, JobIn
<1>4. OneAssetPerKey'
  BY DEF Store, Inv, OneAssetPerKey, Rows
<1>5. OneParserAtATime'
  BY DEF Store, Working, On, Go, Inv, OneParserAtATime, Processing
<1>6. OriginalKept'
  BY DEF Store, Inv, OriginalKept, Rows
<1>7. ResultKept'
  BY DEF Store, Stored, Inv, ResultKept, Rows
<1> QED BY <1>1, <1>2, <1>3, <1>4, <1>5, <1>6, <1>7 DEF Inv

\* The result may be there or not: its job has not succeeded.
LEMMA StoreThrowsInv ==
  ASSUME Inv, NEW w \in Workers, StoreThrows(w)
  PROVE  Inv'
<1>1. TypeOK'
  <2>1. work' \in [Workers -> WorkType]
    BY GoTyped DEF StoreThrows, Inv, WorkSteps
  <2> QED BY <2>1, AssetAssumption DEF StoreThrows, Stored, Fault, Inv, TypeOK, ObjectType
<1>2. UploadsInv'
  BY DEF StoreThrows, Inv, UploadsInv, UploadOK, AnswerOK
<1>3. WorkersInv'
  BY DEF StoreThrows, Working, Stored, Go, Inv, WorkersInv, TypeOK, WorkOK, JobIn
<1>4. OneAssetPerKey'
  BY DEF StoreThrows, Inv, OneAssetPerKey, Rows
<1>5. OneParserAtATime'
  BY DEF StoreThrows, Working, On, Go, Inv, OneParserAtATime, Processing
<1>6. OriginalKept'
  BY DEF StoreThrows, Inv, OriginalKept, Rows
<1>7. ResultKept'
  BY DEF StoreThrows, Stored, Inv, TypeOK, ResultKept, Rows
<1> QED BY <1>1, <1>2, <1>3, <1>4, <1>5, <1>6, <1>7 DEF Inv

\* The job succeeds after its result is stored.
LEMMA MarkSucceededInv ==
  ASSUME Inv, NEW w \in Workers, MarkSucceeded(w)
  PROVE  Inv'
<1>1. TypeOK'
  <2>1. row' \in [Uploads -> RowType \cup {None}]
    <3> DEFINE a == On(w)
    <3>1. a \in Uploads /\ row[a] \in RowType
      BY DEF MarkSucceeded, Working, On, JobIn, Inv, TypeOK, WorkersInv, WorkOK
    <3>2. row' = row \/ row' = [row EXCEPT ![a] = [row[a] EXCEPT !.job = "succeeded"]]
      BY DEF MarkSucceeded, Succeeded
    <3> HIDE DEF a
    <3> QED BY <3>1, <3>2, RowsTyped DEF Inv, TypeOK
  <2>2. work' \in [Workers -> WorkType]
    BY EndTyped DEF MarkSucceeded, Inv
  <2> QED BY <2>1, <2>2 DEF MarkSucceeded, Inv, TypeOK, bounds
<1>2. UploadsInv'
  BY DEF MarkSucceeded, Succeeded, Inv, UploadsInv, UploadOK, AnswerOK, JobIn
<1>3. WorkersInv'
  BY DEF MarkSucceeded, Working, On, Succeeded, End, Idle, Inv, WorkersInv, TypeOK,
     WorkOK, JobIn, OneParserAtATime, Processing
<1>4. OneAssetPerKey'
  BY DEF MarkSucceeded, Succeeded, Inv, OneAssetPerKey, Rows, JobIn
<1>5. OneParserAtATime'
  BY DEF MarkSucceeded, On, End, Idle, Inv, OneParserAtATime, Processing
<1>6. OriginalKept'
  BY DEF MarkSucceeded, Succeeded, Inv, OriginalKept, Rows, JobIn
<1>7. ResultKept'
  BY DEF MarkSucceeded, Working, On, Succeeded, Inv, WorkersInv, ResultKept, Rows, WorkOK
<1> QED BY <1>1, <1>2, <1>3, <1>4, <1>5, <1>6, <1>7 DEF Inv

\* A success without a reply is in doubt.
LEMMA MarkSucceededThrowsInv ==
  ASSUME Inv, NEW w \in Workers, MarkSucceededThrows(w)
  PROVE  Inv'
<1>1. TypeOK'
  <2>1. row' \in [Uploads -> RowType \cup {None}]
    <3> DEFINE a == On(w)
    <3>1. a \in Uploads /\ row[a] \in RowType
      BY DEF MarkSucceededThrows, Working, On, JobIn, Inv, TypeOK, WorkersInv, WorkOK
    <3>2. row' = row \/ row' = [row EXCEPT ![a] = [row[a] EXCEPT !.job = "succeeded"]]
      BY DEF MarkSucceededThrows, Succeeded
    <3> HIDE DEF a
    <3> QED BY <3>1, <3>2, RowsTyped DEF Inv, TypeOK
  <2>2. work' \in [Workers -> WorkType]
    BY GoTyped DEF MarkSucceededThrows, Inv, WorkSteps
  <2> QED BY <2>1, <2>2, AssetAssumption DEF MarkSucceededThrows, Working, On, Fault,
             Inv, TypeOK, WorkersInv, WorkOK
<1>2. UploadsInv'
  BY DEF MarkSucceededThrows, On, Succeeded, Inv, UploadsInv, TypeOK, RowType, UploadOK,
     AnswerOK, JobIn
<1>3. WorkersInv'
  BY AssetAssumption DEF MarkSucceededThrows, Working, On, Succeeded, Go, Inv,
     WorkersInv, TypeOK, RowType, JobStates, WorkOK, JobIn, OneParserAtATime, Processing
<1>4. OneAssetPerKey'
  <2>1. \A a \in Uploads : row[a] # None => row[a] \in RowType
    BY DEF Inv, TypeOK
  <2>2. \A a \in Uploads : row'[a] # None => row[a] # None /\ row'[a].key = row[a].key
    BY <2>1 DEF MarkSucceededThrows, Succeeded, JobIn, Inv, TypeOK, RowType
  <2> QED BY <2>2 DEF OneAssetPerKey, Rows, Inv
<1>5. OneParserAtATime'
  BY DEF MarkSucceededThrows, Working, On, Go, Inv, OneParserAtATime, Processing
<1>6. OriginalKept'
  BY DEF MarkSucceededThrows, Succeeded, Inv, TypeOK, OriginalKept, Rows
<1>7. ResultKept'
  BY DEF MarkSucceededThrows, Succeeded, Inv, TypeOK, ResultKept, Rows
<1> QED BY <1>1, <1>2, <1>3, <1>4, <1>5, <1>6, <1>7 DEF Inv

\* The result that is removed is of a job that has not succeeded, or is in doubt.
LEMMA CleanupInv ==
  ASSUME Inv, NEW w \in Workers, Cleanup(w)
  PROVE  Inv'
<1>1. TypeOK'
  <2>1. work' \in [Workers -> WorkType]
    BY GoTyped DEF Cleanup, Inv, WorkSteps
  <2> QED BY <2>1 DEF Cleanup, Inv, TypeOK, ObjectType, bounds
<1>2. UploadsInv'
  BY DEF Cleanup, Inv, UploadsInv, UploadOK, AnswerOK
<1>3. WorkersInv'
  BY DEF Cleanup, Working, On, Go, Inv, WorkersInv, WorkOK, JobIn, OneParserAtATime,
     Processing
<1>4. OneAssetPerKey'
  BY DEF Cleanup, Inv, OneAssetPerKey, Rows
<1>5. OneParserAtATime'
  BY DEF Cleanup, Working, On, Go, Inv, OneParserAtATime, Processing
<1>6. OriginalKept'
  BY DEF Cleanup, Inv, OriginalKept, Rows
<1>7. ResultKept'
  BY DEF Cleanup, Working, On, Inv, WorkersInv, ResultKept, Rows, WorkOK, JobIn
<1> QED BY <1>1, <1>2, <1>3, <1>4, <1>5, <1>6, <1>7 DEF Inv

\* A failure ends the job of this worker and of no other.
LEMMA MarkFailedInv ==
  ASSUME Inv, NEW w \in Workers, MarkFailed(w)
  PROVE  Inv'
<1>1. TypeOK'
  <2> DEFINE a == On(w)
             r == FailedRow(row[a], work[w].terminal)
  <2>0. a \in Uploads /\ row[a] \in RowType /\ row[a] # None /\ work[w].terminal \in BOOLEAN
    BY DEF MarkFailed, Working, On, JobIn, Inv, TypeOK, WorkType, WorkersInv, WorkOK
  <2>1. row' \in [Uploads -> RowType \cup {None}]
    <3>1. row' = [row EXCEPT ![a] = r]
      BY <2>0 DEF MarkFailed
    <3>2. r \in RowType
      BY <2>0, FailedRowTyped
    <3> HIDE DEF a, r
    <3> QED BY <2>0, <3>1, <3>2, RowWritten DEF Inv
  <2>2. work' \in [Workers -> WorkType]
    BY EndTyped DEF MarkFailed, Inv
  <2> QED BY <2>1, <2>2 DEF MarkFailed, Inv, TypeOK, bounds
<1>2. UploadsInv'
  BY DEF MarkFailed, FailedRow, Inv, UploadsInv, UploadOK, AnswerOK
<1>3. WorkersInv'
  <2> DEFINE a == On(w)
             r == FailedRow(row[a], work[w].terminal)
  <2>1. a \in Uploads /\ row[a] \in RowType /\ row[a] # None /\ work[w].terminal \in BOOLEAN
    BY DEF MarkFailed, Working, On, JobIn, Inv, TypeOK, WorkType, WorkersInv, WorkOK
  <2>2. row' = [row EXCEPT ![a] = r] /\ r # None
    BY <2>1, FailedRowTyped, AssetAssumption DEF MarkFailed
  <2>3. /\ \A b \in Uploads : row'[b] = None <=> row[b] = None
        /\ \A b \in Uploads : b # a => row'[b] = row[b]
        /\ row[a].job # "processing" => row'[a].job = row[a].job
    BY <2>1, <2>2, FailedRowTyped
  <2>4. work'[w].at = "idle" /\ \A v \in Workers : v # w => work'[v] = work[v]
    BY DEF MarkFailed, End, Idle, Inv, TypeOK
  <2>5. \A v \in Workers : v # w /\ On(v) = a => work[v].at \notin Processing
    BY DEF MarkFailed, Working, Processing, Inv, OneParserAtATime
  <2> QED BY <2>1, <2>3, <2>4, <2>5
          DEF MarkFailed, On, Processing, Inv, WorkersInv, WorkOK, JobIn
<1>4. OneAssetPerKey'
  BY DEF MarkFailed, FailedRow, Inv, OneAssetPerKey, Rows
<1>5. OneParserAtATime'
  BY DEF MarkFailed, On, End, Idle, Inv, OneParserAtATime, Processing
<1>6. OriginalKept'
  BY DEF MarkFailed, Inv, OriginalKept, Rows
<1>7. ResultKept'
  BY DEF MarkFailed, FailedRow, Inv, ResultKept, Rows
<1> QED BY <1>1, <1>2, <1>3, <1>4, <1>5, <1>6, <1>7 DEF Inv

\* Nobody processes a job that can be cancelled.
LEMMA CancelInv ==
  ASSUME Inv, NEW w \in Workers, Cancel(w)
  PROVE  Inv'
<1>1. TypeOK'
  <2>1. row' \in [Uploads -> RowType \cup {None}]
    BY DEF Cancel, TypeOK, Inv
  <2>2. work' \in [Workers -> WorkType]
    BY GoTyped, EndTyped DEF Cancel, Inv, WorkSteps
  <2> QED BY <2>1, <2>2 DEF Cancel, Inv, TypeOK, bounds
<1>2. UploadsInv'
  <2>1. \A b \in Uploads : row'[b] = None \/ row'[b] = row[b]
    BY DEF Cancel, Inv, TypeOK
  <2> QED BY <2>1 DEF Cancel, Inv, UploadsInv, UploadOK, AnswerOK
<1>3. WorkersInv'
  BY DEF Cancel, Working, On, Go, End, Idle, Processable, Inv, UploadsInv, WorkersInv,
     TypeOK, WorkType, UploadOK, WorkOK, JobIn
<1>4. OneAssetPerKey'
  BY DEF Cancel, Inv, TypeOK, OneAssetPerKey, Rows
<1>5. OneParserAtATime'
  BY DEF Cancel, On, Go, End, Idle, Inv, TypeOK, WorkType, OneParserAtATime, Processing
<1>6. OriginalKept'
  BY DEF Cancel, Inv, TypeOK, OriginalKept, Rows
<1>7. ResultKept'
  BY DEF Cancel, Inv, TypeOK, ResultKept, Rows
<1> QED BY <1>1, <1>2, <1>3, <1>4, <1>5, <1>6, <1>7 DEF Inv

\* The original that is removed has no row, nor will have one.
LEMMA UnstageInv ==
  ASSUME Inv, NEW w \in Workers, Unstage(w)
  PROVE  Inv'
<1>1. TypeOK'
  <2>1. work' \in [Workers -> WorkType]
    BY EndTyped DEF Unstage, Inv
  <2> QED BY <2>1 DEF Unstage, Inv, TypeOK, ObjectType, bounds
<1>2. UploadsInv'
  BY DEF Unstage, Working, On, Inv, UploadsInv, WorkersInv, UploadOK, AnswerOK, Early,
     WorkOK
<1>3. WorkersInv'
  BY DEF Unstage, End, Idle, Inv, WorkersInv, WorkOK, JobIn
<1>4. OneAssetPerKey'
  BY DEF Unstage, Inv, OneAssetPerKey, Rows
<1>5. OneParserAtATime'
  BY DEF Unstage, On, End, Idle, Inv, OneParserAtATime, Processing
<1>6. OriginalKept'
  BY DEF Unstage, Working, On, Inv, WorkersInv, OriginalKept, Rows, WorkOK
<1>7. ResultKept'
  BY DEF Unstage, Inv, ResultKept, Rows
<1> QED BY <1>1, <1>2, <1>3, <1>4, <1>5, <1>6, <1>7 DEF Inv

\* Nobody processes a job that failed.
LEMMA ResetInv ==
  ASSUME Inv, NEW w \in Workers, Reset(w)
  PROVE  Inv'
<1>1. TypeOK'
  <2>1. row' \in [Uploads -> RowType \cup {None}]
    BY RowsTyped DEF Reset, TypeOK, Inv, JobIn
  <2>2. work' \in [Workers -> WorkType]
    BY EndTyped DEF Reset, Inv
  <2> QED BY <2>1, <2>2 DEF Reset, Inv, TypeOK, bounds
<1>2. UploadsInv'
  BY DEF Reset, Requeued, Inv, UploadsInv, UploadOK, AnswerOK, JobIn
<1>3. WorkersInv'
  BY DEF Reset, End, Idle, Failed, Inv, WorkersInv, WorkOK, JobIn
<1>4. OneAssetPerKey'
  BY DEF Reset, Requeued, Inv, OneAssetPerKey, Rows, JobIn
<1>5. OneParserAtATime'
  BY DEF Reset, On, End, Idle, Inv, OneParserAtATime, Processing
<1>6. OriginalKept'
  BY DEF Reset, Inv, OriginalKept, Rows, JobIn
<1>7. ResultKept'
  BY DEF Reset, Requeued, Inv, ResultKept, Rows
<1> QED BY <1>1, <1>2, <1>3, <1>4, <1>5, <1>6, <1>7 DEF Inv

\* What is removed is not referenced, or is in doubt from now on.
LEMMA DeleteInv ==
  ASSUME Inv, NEW w \in Workers, Delete(w)
  PROVE  Inv'
<1>1. TypeOK'
  <2>1. work' \in [Workers -> WorkType]
    BY EndTyped DEF Delete, Inv
  <2> QED BY <2>1 DEF Delete, Working, On, Inv, TypeOK, ObjectType, bounds, WorkersInv,
             WorkOK
<1>2. UploadsInv'
  BY DEF Delete, Working, On, Inv, UploadsInv, WorkersInv, TypeOK, UploadOK, AnswerOK,
     Over, WorkOK
<1>3. WorkersInv'
  BY DEF Delete, Working, On, End, Idle, Late, Inv, WorkersInv, TypeOK, WorkOK, JobIn
<1>4. OneAssetPerKey'
  BY DEF Delete, Inv, OneAssetPerKey, Rows
<1>5. OneParserAtATime'
  BY DEF Delete, On, End, Idle, Inv, OneParserAtATime, Processing
<1>6. OriginalKept'
  BY DEF Delete, Late, Referenced, Inv, TypeOK, OriginalKept, Rows
<1>7. ResultKept'
  BY DEF Delete, Late, Referenced, Inv, TypeOK, ResultKept, Rows
<1> QED BY <1>1, <1>2, <1>3, <1>4, <1>5, <1>6, <1>7 DEF Inv

\* A submission names a succeeded asset.
LEMMA SubmitInv ==
  ASSUME Inv, NEW w \in Workers, Submit(w)
  PROVE  Inv'
<1>1. TypeOK'
  <2>1. work' \in [Workers -> WorkType]
    BY GoTyped, EndTyped DEF Submit, Inv, WorkSteps
  <2> QED BY <2>1 DEF Submit, Working, On, Inv, TypeOK, bounds, WorkersInv, WorkOK
<1>2. UploadsInv'
  BY DEF Submit, Inv, UploadsInv, UploadOK, AnswerOK
<1>3. WorkersInv'
  BY DEF Submit, Working, Go, End, Idle, Inv, WorkersInv, TypeOK, WorkType, WorkOK, JobIn
<1>4. OneAssetPerKey'
  BY DEF Submit, Inv, OneAssetPerKey, Rows
<1>5. OneParserAtATime'
  BY DEF Submit, On, Go, End, Idle, Inv, TypeOK, WorkType, OneParserAtATime, Processing
<1>6. OriginalKept'
  BY DEF Submit, Inv, OriginalKept, Rows
<1>7. ResultKept'
  BY DEF Submit, Inv, ResultKept, Rows
<1> QED BY <1>1, <1>2, <1>3, <1>4, <1>5, <1>6, <1>7 DEF Inv

\* A succeeded asset is there to be linked.
LEMMA PairInv ==
  ASSUME Inv, NEW w \in Workers, Pair(w)
  PROVE  Inv'
<1>1. TypeOK'
  <2>1. row' \in [Uploads -> RowType \cup {None}]
    BY RowsTyped DEF Pair, Working, On, TypeOK, Inv, WorkersInv, WorkOK, JobIn
  <2>2. work' \in [Workers -> WorkType]
    BY EndTyped DEF Pair, Inv
  <2> QED BY <2>1, <2>2 DEF Pair, Inv, TypeOK, bounds
<1>2. UploadsInv'
  BY DEF Pair, Working, On, Inv, UploadsInv, WorkersInv, UploadOK, AnswerOK, WorkOK, JobIn
<1>3. WorkersInv'
  <2> DEFINE a == On(w)
             r == [row[a] EXCEPT !.paired = TRUE]
  <2>1. a \in Uploads /\ row[a] \in RowType
    BY DEF Pair, Working, On, JobIn, Inv, TypeOK, WorkersInv, WorkOK
  <2>2. row' = [row EXCEPT ![a] = r]
    BY DEF Pair
  <2> r \in RowType /\ r.job = row[a].job
    BY <2>1 DEF RowType
  <2>3. \A b \in Uploads :
           /\ row'[b] = None <=> row[b] = None
           /\ row[b] # None => row'[b].job = row[b].job
    <3> HIDE DEF r
    <3> QED BY <2>1, <2>2, AssetAssumption
  <2>4. \A v \in Workers : v # w => work'[v] = work[v]
    BY DEF Pair, End
  <2>5. work'[w].at = "idle"
    BY DEF Pair, End, Idle, Inv, TypeOK
  <2> QED BY <2>3, <2>4, <2>5 DEF Pair, Inv, WorkersInv, WorkOK, JobIn
<1>4. OneAssetPerKey'
  BY DEF Pair, Working, On, Inv, WorkersInv, OneAssetPerKey, Rows, WorkOK, JobIn
<1>5. OneParserAtATime'
  BY DEF Pair, On, End, Idle, Inv, OneParserAtATime, Processing
<1>6. OriginalKept'
  BY DEF Pair, Working, On, Inv, WorkersInv, OriginalKept, Rows, WorkOK, JobIn
<1>7. ResultKept'
  BY DEF Pair, Working, On, Inv, WorkersInv, ResultKept, Rows, WorkOK, JobIn
<1> QED BY <1>1, <1>2, <1>3, <1>4, <1>5, <1>6, <1>7 DEF Inv

\* An original grows old after its upload is over.
LEMMA AgeOriginalInv ==
  ASSUME Inv, NEW a \in Uploads, AgeOriginal(a)
  PROVE  Inv'
<1>1. TypeOK'
  BY DEF AgeOriginal, Inv, TypeOK, ObjectType, bounds
<1>2. UploadsInv'
  BY DEF AgeOriginal, Inv, UploadsInv, UploadOK, AnswerOK, Over
<1>3. WorkersInv'
  BY DEF AgeOriginal, Inv, WorkersInv, WorkOK, JobIn
<1>4. OneAssetPerKey'
  BY DEF AgeOriginal, Inv, OneAssetPerKey, Rows
<1>5. OneParserAtATime'
  BY DEF AgeOriginal, Inv, OneParserAtATime, On
<1>6. OriginalKept'
  BY DEF AgeOriginal, Inv, OriginalKept, Rows
<1>7. ResultKept'
  BY DEF AgeOriginal, Inv, ResultKept, Rows
<1> QED BY <1>1, <1>2, <1>3, <1>4, <1>5, <1>6, <1>7 DEF Inv

\* A result grows old.
LEMMA AgeResultInv ==
  ASSUME Inv, NEW a \in Uploads, AgeResult(a)
  PROVE  Inv'
<1>1. TypeOK'
  BY DEF AgeResult, Inv, TypeOK, ObjectType, bounds
<1>2. UploadsInv'
  BY DEF AgeResult, Inv, UploadsInv, UploadOK, AnswerOK
<1>3. WorkersInv'
  BY DEF AgeResult, Inv, WorkersInv, WorkOK, JobIn
<1>4. OneAssetPerKey'
  BY DEF AgeResult, Inv, OneAssetPerKey, Rows
<1>5. OneParserAtATime'
  BY DEF AgeResult, Inv, OneParserAtATime, On
<1>6. OriginalKept'
  BY DEF AgeResult, Inv, OriginalKept, Rows
<1>7. ResultKept'
  BY DEF AgeResult, Inv, ResultKept, Rows
<1> QED BY <1>1, <1>2, <1>3, <1>4, <1>5, <1>6, <1>7 DEF Inv

-----------------------------------------------------------------------------
(* The actions that leave the stores alone *)

\* A step of one upload that leaves both stores alone.
LEMMA UploadOnlyInv ==
  ASSUME Inv, NEW u \in Uploads, NEW x \in UploadType,
         upload' = [upload EXCEPT ![u] = x],
         UNCHANGED <<stores, work, doubtful>>,
         retries' \in 0..MaxRetries, faults' \in 0..MaxFaults,
         UploadOK(u)', AnswerOK(u)',
         upload[u].at \notin Early => x.at \notin Early,
         upload[u].at \in Over => x.at \in Over
  PROVE  Inv'
<1>1. TypeOK'
  BY DEF Inv, TypeOK, stores
<1>2. \A v \in Uploads : v # u => upload'[v] = upload[v]
  BY DEF Inv, TypeOK
<1>3. upload'[u] = x
  BY DEF Inv, TypeOK
<1>4. UploadsInv'
  <2> SUFFICES ASSUME NEW v \in Uploads, v # u PROVE UploadOK(v)' /\ AnswerOK(v)'
    BY DEF UploadsInv
  <2>1. UploadOK(v) /\ AnswerOK(v)
    BY DEF Inv, UploadsInv
  <2> QED BY <1>2, <1>3, <2>1 DEF UploadOK, AnswerOK, stores
<1>5. WorkersInv'
  BY <1>2, <1>3 DEF Inv, WorkersInv, WorkOK, JobIn, stores
<1>6. OneAssetPerKey' /\ OriginalKept' /\ ResultKept'
  BY DEF Inv, OneAssetPerKey, OriginalKept, ResultKept, Rows, stores
<1>7. OneParserAtATime'
  BY DEF Inv, OneParserAtATime, On
<1> QED BY <1>1, <1>4, <1>5, <1>6, <1>7 DEF Inv

\* A step of one worker that leaves both stores alone and does not begin to
\* process an asset.
LEMMA WorkerOnlyInv ==
  ASSUME Inv, NEW w \in Workers, NEW x \in WorkType,
         work' = [work EXCEPT ![w] = x],
         UNCHANGED <<stores, upload, doubtful>>,
         retries' \in 0..MaxRetries, faults' \in 0..MaxFaults,
         x.at \in Processing => work[w].at \in Processing /\ x.asset = work[w].asset,
         WorkOK(w)'
  PROVE  Inv'
<1>1. TypeOK'
  BY DEF Inv, TypeOK, stores
<1>2. \A v \in Workers : v # w => work'[v] = work[v]
  BY DEF Inv, TypeOK
<1>3. work'[w] = x
  BY DEF Inv, TypeOK
<1>4. UploadsInv'
  BY DEF Inv, UploadsInv, UploadOK, AnswerOK, stores
<1>5. WorkersInv'
  BY <1>2 DEF Inv, WorkersInv, WorkOK, JobIn, stores
<1>6. OneAssetPerKey' /\ OriginalKept' /\ ResultKept'
  BY DEF Inv, OneAssetPerKey, OriginalKept, ResultKept, Rows, stores
<1>7. OneParserAtATime'
  BY <1>2, <1>3 DEF Inv, OneParserAtATime, On
<1> QED BY <1>1, <1>4, <1>5, <1>6, <1>7 DEF Inv

LEMMA BeginInv ==
  ASSUME Inv, NEW u \in Uploads, NEW k \in Keys, Begin(u, k)
  PROVE  Inv'
<1>0. upload[u] \in UploadType /\ retries' \in 0..MaxRetries /\ faults' \in 0..MaxFaults
  BY DEF Begin, bounds, Inv, TypeOK
<1>1. CASE \E a \in Owning(k) : Replay(u, k, a)
  <2> PICK a \in Owning(k) : Replay(u, k, a)
    BY <1>1
  <2> DEFINE x == [at |-> "answered", key |-> k, answer |-> a]
  <2>1. a \in Uploads /\ row[a] # None /\ row[a].key = k
    BY DEF Owning, Rows
  <2>2. x \in UploadType
    BY <2>1 DEF UploadType, UploadSteps
  <2>3. upload' = [upload EXCEPT ![u] = x]
    BY DEF Replay
  <2>4. upload'[u] = x /\ upload[u].at = "new" /\ row[u] = None /\ upload[a].at \notin Early
    BY <2>1, <2>3 DEF Begin, At, Early, Inv, TypeOK, UploadsInv, UploadOK
  <2>5. u # a /\ upload'[a] = upload[a]
    BY <2>1, <2>3, <2>4 DEF Inv, TypeOK
  <2>6. UploadOK(u)' /\ AnswerOK(u)'
    BY <2>1, <2>4, <2>5 DEF UploadOK, AnswerOK, Early, Over, Begin, stores
  <2>7. UNCHANGED <<stores, work, doubtful>> /\ x.at \notin Early /\ x.at \in Over
    BY DEF Begin, Early, Over
  <2> HIDE DEF x
  <2> QED BY <1>0, <2>2, <2>3, <2>6, <2>7, UploadOnlyInv
<1>2. CASE upload' = [upload EXCEPT ![u] = [@ EXCEPT !.at = "measure", !.key = k]]
  <2> DEFINE x == [upload[u] EXCEPT !.at = "measure", !.key = k]
  <2>1. x \in UploadType /\ x.at = "measure" /\ x.key = k
    BY <1>0 DEF UploadType, UploadSteps
  <2>2. upload' = [upload EXCEPT ![u] = x]
    BY <1>2
  <2> HIDE DEF x
  <2>3. upload'[u] = x /\ upload[u].at = "new" /\ row[u] = None /\ staging[u] # "old"
    BY <2>2 DEF Begin, At, Early, Over, Inv, TypeOK, UploadsInv, UploadOK
  <2>4. UploadOK(u)' /\ AnswerOK(u)'
    BY <2>1, <2>3 DEF UploadOK, AnswerOK, Begin, stores
  <2>5. UNCHANGED <<stores, work, doubtful>> /\ upload[u].at \in Early /\ upload[u].at \notin Over
    BY <2>3 DEF Begin, Early, Over
  <2> QED BY <1>0, <2>1, <2>2, <2>4, <2>5, UploadOnlyInv
<1> QED BY <1>1, <1>2 DEF Begin

LEMMA MeasureInv ==
  ASSUME Inv, NEW u \in Uploads, Measure(u)
  PROVE  Inv'
<1>1. PICK s \in {"refused", "put"} : upload' = [upload EXCEPT ![u] = [@ EXCEPT !.at = s]]
  BY DEF Measure, Refuse, ToStep
<1> DEFINE x == [upload[u] EXCEPT !.at = s]
<1>2. x \in UploadType /\ x.at = s /\ x.key = upload[u].key
  BY DEF Inv, TypeOK, UploadType, UploadSteps
<1>3. upload' = [upload EXCEPT ![u] = x]
  BY <1>1
<1> HIDE DEF x
<1>4. upload'[u] = x /\ upload[u].at = "measure"
  BY <1>3 DEF Measure, At, Inv, TypeOK
<1>5. UploadOK(u)' /\ AnswerOK(u)'
  BY <1>2, <1>4 DEF Measure, UploadOK, AnswerOK, Early, Over, Inv, UploadsInv, stores
<1>6. UNCHANGED <<stores, work, doubtful>> /\ upload[u].at \in Early /\ upload[u].at \notin Over
  BY <1>4 DEF Measure, Early, Over
<1>7. retries' \in 0..MaxRetries /\ faults' \in 0..MaxFaults
  BY DEF Measure, bounds, Inv, TypeOK
<1> QED BY <1>2, <1>3, <1>5, <1>6, <1>7, UploadOnlyInv

LEMMA UploadStopsInv ==
  ASSUME Inv, NEW u \in Uploads, UploadStops(u)
  PROVE  Inv'
<1> DEFINE x == [upload[u] EXCEPT !.at = "refused"]
<1>1. x \in UploadType /\ x.at = "refused"
  BY DEF Inv, TypeOK, UploadType, UploadSteps
<1>2. upload' = [upload EXCEPT ![u] = x]
  BY DEF UploadStops, Refuse, ToStep
<1> HIDE DEF x
<1>3. upload'[u] = x
  BY <1>2 DEF Inv, TypeOK
<1>4. UploadOK(u)' /\ AnswerOK(u)'
  BY <1>1, <1>3 DEF UploadOK, AnswerOK, Early, Over
<1>5. UNCHANGED <<stores, work, doubtful>> /\ x.at \notin Early /\ x.at \in Over
  BY <1>1 DEF UploadStops, Early, Over
<1>6. retries' \in 0..MaxRetries /\ faults' \in 0..MaxFaults
  BY AssetAssumption DEF UploadStops, Fault, Inv, TypeOK
<1> QED BY <1>1, <1>2, <1>4, <1>5, <1>6, UploadOnlyInv

LEMMA TakeInv ==
  ASSUME Inv, NEW w \in Workers, NEW a \in Uploads,
         NEW step \in {"claim", "cancel", "reset", "submit"}, Take(w, a, step),
         step = "submit" => JobIn(a, {"succeeded"}),
         UNCHANGED <<stores, upload, doubtful>>,
         retries' \in 0..MaxRetries, faults' \in 0..MaxFaults
  PROVE  Inv'
<1> DEFINE x == [Idle EXCEPT !.at = step, !.asset = a]
<1>1. x \in WorkType /\ x.at = step /\ x.asset = a
  BY IdleTyped DEF WorkType, WorkSteps, Idle
<1>2. work' = [work EXCEPT ![w] = x]
  BY DEF Take
<1> HIDE DEF x
<1>3. work'[w] = x
  BY <1>2 DEF Inv, TypeOK
<1>4. WorkOK(w)'
  BY <1>1, <1>3 DEF WorkOK, JobIn, stores
<1>5. x.at \notin Processing
  BY <1>1 DEF Processing
<1> QED BY <1>1, <1>2, <1>4, <1>5, WorkerOnlyInv

LEMMA EndInv ==
  ASSUME Inv, NEW w \in Workers, End(w),
         UNCHANGED <<stores, upload, doubtful>>,
         retries' \in 0..MaxRetries, faults' \in 0..MaxFaults
  PROVE  Inv'
<1>1. work' = [work EXCEPT ![w] = Idle] /\ Idle.at \notin Processing
  BY DEF End, Idle, Processing
<1>2. work'[w].at = "idle"
  BY <1>1 DEF Inv, TypeOK, Idle
<1>3. WorkOK(w)'
  BY <1>2 DEF WorkOK
<1> QED BY <1>1, <1>3, IdleTyped, WorkerOnlyInv

LEMMA StartsInv ==
  ASSUME Inv, NEW w \in Workers, Starts(w)
  PROVE  Inv'
<1> PICK a \in Uploads :
       \/ Find(w, a) \/ FindForCancel(w, a) \/ FindForRetry(w, a) \/ FindForSubmit(w, a)
       \/ \E folder \in Folders : Head(w, folder, a)
  BY DEF Starts
<1>1. CASE Find(w, a)
  BY <1>1, TakeInv DEF Find, bounds, Inv, TypeOK
<1>2. CASE FindForCancel(w, a)
  BY <1>2, TakeInv DEF FindForCancel, bounds, Inv, TypeOK
<1>3. CASE FindForRetry(w, a)
  <2>1. retries' \in 0..MaxRetries /\ faults' \in 0..MaxFaults
    BY <1>3, AssetAssumption DEF FindForRetry, Inv, TypeOK
  <2> QED BY <1>3, <2>1, TakeInv DEF FindForRetry
<1>4. CASE FindForSubmit(w, a)
  BY <1>4, TakeInv DEF FindForSubmit, bounds, Inv, TypeOK
<1>5. ASSUME NEW folder \in Folders, Head(w, folder, a)
      PROVE  Inv'
  <2> DEFINE x == [Idle EXCEPT !.at = "referenced", !.asset = a, !.folder = folder]
  <2>1. x \in WorkType /\ x.at = "referenced" /\ x.asset = a /\ x.folder = folder
    BY IdleTyped DEF WorkType, WorkSteps, Idle
  <2>2. work' = [work EXCEPT ![w] = x]
    BY <1>5 DEF Head
  <2> HIDE DEF x
  <2>3. work'[w] = x
    BY <2>2 DEF Inv, TypeOK
  <2>4. folder = "staging" => upload[a].at \in Over
    BY <1>5 DEF Head, Object, Inv, UploadsInv, UploadOK
  <2>5. WorkOK(w)'
    BY <1>5, <2>1, <2>3, <2>4 DEF WorkOK, Head
  <2>6. x.at \notin Processing
    BY <2>1 DEF Processing
  <2>7. retries' \in 0..MaxRetries /\ faults' \in 0..MaxFaults
    BY <1>5 DEF Head, bounds, Inv, TypeOK
  <2> QED BY <1>5, <2>1, <2>2, <2>5, <2>6, <2>7, WorkerOnlyInv DEF Head
<1> QED BY <1>1, <1>2, <1>3, <1>4, <1>5

LEMMA ParseInv ==
  ASSUME Inv, NEW w \in Workers, Parse(w)
  PROVE  Inv'
<1>0. JobIn(On(w), {"processing"}) /\ On(w) \in Uploads /\ work[w] \in WorkType
  BY DEF Parse, Working, On, Inv, TypeOK, WorkersInv, WorkOK
<1>1. PICK s \in {"store", "cleanup"}, terminal \in BOOLEAN :
        work' = [work EXCEPT ![w] = [@ EXCEPT !.at = s, !.terminal = terminal]]
  <2>1. CASE Go(w, "store")
    <3>1. work[w] = [work[w] EXCEPT !.terminal = work[w].terminal] /\ work[w].terminal \in BOOLEAN
      BY <1>0 DEF WorkType
    <3>2. [work[w] EXCEPT !.at = "store"] = [work[w] EXCEPT !.at = "store", !.terminal = work[w].terminal]
      BY <1>0, <3>1 DEF WorkType
    <3> QED BY <2>1, <3>1, <3>2 DEF Go
  <2>2. CASE \E terminal \in BOOLEAN : work' = [work EXCEPT ![w].at = "cleanup", ![w].terminal = terminal]
    BY <2>2 DEF Inv, TypeOK
  <2> QED BY <2>1, <2>2 DEF Parse
<1> DEFINE x == [work[w] EXCEPT !.at = s, !.terminal = terminal]
<1>2. x \in WorkType /\ x.at = s /\ x.asset = On(w)
  BY <1>0 DEF WorkType, WorkSteps, On
<1>3. work' = [work EXCEPT ![w] = x]
  BY <1>1
<1> HIDE DEF x
<1>4. work'[w] = x
  BY <1>3 DEF Inv, TypeOK
<1>5. WorkOK(w)'
  BY <1>0, <1>2, <1>4 DEF Parse, WorkOK, JobIn, stores
<1>6. work[w].at \in Processing /\ x.asset = work[w].asset
  BY <1>2 DEF Parse, Working, Processing, On
<1>7. retries' \in 0..MaxRetries /\ faults' \in 0..MaxFaults
  BY DEF Parse, bounds, Inv, TypeOK
<1> QED BY <1>2, <1>3, <1>5, <1>6, <1>7, WorkerOnlyInv DEF Parse

LEMMA CleanupThrowsInv ==
  ASSUME Inv, NEW w \in Workers, CleanupThrows(w)
  PROVE  Inv'
<1> DEFINE x == [work[w] EXCEPT !.at = "fail"]
<1>1. x \in WorkType /\ x.at = "fail" /\ x.asset = work[w].asset
  BY DEF Inv, TypeOK, WorkType, WorkSteps
<1>2. work' = [work EXCEPT ![w] = x]
  BY DEF CleanupThrows, Go
<1> HIDE DEF x
<1>3. work'[w] = x
  BY <1>2 DEF Inv, TypeOK
<1>4. WorkOK(w)'
  BY <1>1, <1>3 DEF CleanupThrows, Working, Inv, WorkersInv, WorkOK, JobIn, stores
<1>5. work[w].at \in Processing
  BY DEF CleanupThrows, Working, Processing
<1>6. retries' \in 0..MaxRetries /\ faults' \in 0..MaxFaults
  BY AssetAssumption DEF CleanupThrows, Fault, Inv, TypeOK
<1> QED BY <1>1, <1>2, <1>4, <1>5, <1>6, WorkerOnlyInv DEF CleanupThrows

LEMMA DieInv ==
  ASSUME Inv, NEW w \in Workers, Die(w)
  PROVE  Inv'
<1>1. retries' \in 0..MaxRetries /\ faults' \in 0..MaxFaults
  BY AssetAssumption DEF Die, Fault, Inv, TypeOK
<1> QED BY <1>1, EndInv DEF Die

LEMMA CheckReferenceInv ==
  ASSUME Inv, NEW w \in Workers, CheckReference(w)
  PROVE  Inv'
<1>1. retries' \in 0..MaxRetries /\ faults' \in 0..MaxFaults
  BY DEF CheckReference, bounds, Inv, TypeOK
<1>2. CASE End(w)
  BY <1>1, <1>2, EndInv DEF CheckReference
<1>3. CASE Go(w, "delete")
  <2> DEFINE x == [work[w] EXCEPT !.at = "delete"]
  <2>1. x \in WorkType /\ x.at = "delete" /\ x.asset = work[w].asset /\ x.folder = work[w].folder
    BY DEF Inv, TypeOK, WorkType, WorkSteps
  <2>2. work' = [work EXCEPT ![w] = x]
    BY <1>3 DEF Go
  <2> HIDE DEF x
  <2>3. work'[w] = x
    BY <2>2 DEF Inv, TypeOK
  <2>4. WorkOK(w)'
    BY <2>1, <2>3 DEF CheckReference, Working, Inv, WorkersInv, WorkOK
  <2>5. x.at \notin Processing
    BY <2>1 DEF Processing
  <2> QED BY <1>1, <2>1, <2>2, <2>4, <2>5, WorkerOnlyInv DEF CheckReference
<1> QED BY <1>2, <1>3 DEF CheckReference

-----------------------------------------------------------------------------
(* The invariant and the theorems *)

LEMMA InitInv == Init => Inv
<1> SUFFICES ASSUME Init PROVE Inv
  OBVIOUS
<1>1. TypeOK
  BY IdleTyped, AssetAssumption DEF Init, TypeOK, UploadType, UploadSteps, ObjectType
<1>2. UploadsInv
  BY DEF Init, UploadsInv, UploadOK, AnswerOK
<1>3. WorkersInv /\ OneParserAtATime
  BY DEF Init, Idle, WorkersInv, WorkOK, OneParserAtATime, Processing
<1>4. OneAssetPerKey /\ OriginalKept /\ ResultKept
  BY DEF Init, OneAssetPerKey, OriginalKept, ResultKept, Rows
<1> QED BY <1>1, <1>2, <1>3, <1>4 DEF Inv

LEMMA NextInv == Inv /\ [Next]_vars => Inv'
<1> SUFFICES ASSUME Inv, [Next]_vars PROVE Inv'
  OBVIOUS
<1>1. ASSUME NEW u \in Uploads, Uploading(u) PROVE Inv'
  BY <1>1, BeginInv, MeasureInv, PutInv, PutThrowsInv, InsertInv, InsertThrowsInv,
     CompensateInv, UploadStopsInv DEF Uploading
<1>2. ASSUME NEW w \in Workers, Step(w) PROVE Inv'
  BY <1>2, ClaimInv, ParseInv, StoreInv, MarkSucceededInv, CleanupInv, MarkFailedInv,
     CancelInv,
     UnstageInv, ResetInv, CheckReferenceInv, DeleteInv, SubmitInv, PairInv DEF Step
<1>3. ASSUME NEW w \in Workers, Throws(w) PROVE Inv'
  BY <1>3, ClaimThrowsInv, StoreThrowsInv, MarkSucceededThrowsInv, CleanupThrowsInv,
     DieInv DEF Throws
<1>4. CASE UNCHANGED vars
  <2>1. UNCHANGED <<row, submission, staging, parsed, upload, work, retries, faults, doubtful>>
    BY <1>4 DEF vars, stores, bounds
  <2> QED BY <2>1 DEF Inv, TypeOK, UploadsInv, UploadOK, AnswerOK, WorkersInv, WorkOK,
             JobIn, On,
                      OneAssetPerKey, OneParserAtATime, OriginalKept, ResultKept, Rows
<1> QED BY <1>1, <1>2, <1>3, <1>4, StartsInv, AgeOriginalInv, AgeResultInv DEF Next

LEMMA InvHolds == Spec => []Inv
BY InitInv, NextInv, PTL DEF Spec

\* Every variable keeps its type, however often calls throw and are retried.
THEOREM TypesAreKept == Spec => []TypeOK
<1>1. Inv => TypeOK
  BY DEF Inv
<1> QED BY <1>1, InvHolds, PTL

\* claimParseJob, resetParseJob, cancelOwned and the marks of success and
\* failure never let two workers process one asset.
THEOREM OneParser == Spec => []OneParserAtATime
<1>1. Inv => OneParserAtATime
  BY DEF Inv
<1> QED BY <1>1, InvHolds, PTL

\* No upload, cancellation or reclaim leaves an asset without its original,
\* unless the reply of its insertion was lost.
THEOREM OriginalsAreKept == Spec => []OriginalKept
<1>1. Inv => OriginalKept
  BY DEF Inv
<1> QED BY <1>1, InvHolds, PTL

\* A succeeded job has its Markdown, unless the reply of its success was lost
\* or a reclaim was overtaken.
THEOREM ResultsAreKept == Spec => []ResultKept
<1>1. Inv => ResultKept
  BY DEF Inv
<1> QED BY <1>1, InvHolds, PTL

\* Repeated and racing uploads of one idempotency key name one asset.
THEOREM OneAnswerPerKey == Spec => []SameKeySameAsset
<1>1. Inv => SameKeySameAsset
  BY DEF Inv, UploadsInv, AnswerOK, OneAssetPerKey, SameKeySameAsset, Rows
<1> QED BY <1>1, InvHolds, PTL
=============================================================================
