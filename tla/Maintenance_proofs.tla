------------------------- MODULE Maintenance_proofs -------------------------
(* Machine-checked proofs about Maintenance, for any number of scopes, tasks *)
(* and windows.                                                              *)
EXTENDS Maintenance, FiniteSetTheorems, TLAPS

\* What each stage of a scope knows about the coordinator.  Complete happens
\* after sealing, so nothing runs any more when a permit becomes done, and the
\* gate reopens only when no permit is active.
StageInv ==
  \A s \in Scopes :
    /\ stage[s] = "new" => permits[s] = "absent" /\ live[s] = {}
    /\ stage[s] \in {"admitted", "running", "completing"} =>
         permits[s] = "active" /\ permitEpoch[s] = epoch
    /\ stage[s] \in {"running", "completing"} => held[s] = permitEpoch[s]
    /\ stage[s] # "running" => live[s] = {}
    /\ sealed[s] <=> stage[s] \in {"completing", "released", "uncertain", "unconfirmed"}
    /\ stage[s] \in {"new", "admitted", "completing", "released", "refused", "unconfirmed"}
         => ~failed[s]
    /\ stage[s] = "uncertain" => permits[s] = "active"

Inv == TypeOK /\ PendingCountsLive /\ StageInv

\* The invariant holds of a fresh coordinator with no scope running.
LEMMA InitInv == Init => Inv
<1> SUFFICES ASSUME Init PROVE Inv
  OBVIOUS
<1> USE MaintenanceAssumption DEF Init
<1>1. TypeOK
  BY DEF TypeOK, Stages
<1>2. PendingCountsLive
  BY FS_EmptySet DEF PendingCountsLive
<1>3. StageInv
  BY DEF StageInv
<1> QED BY <1>1, <1>2, <1>3 DEF Inv

\* A set of tracked work is finite, so its size can be counted up and down.
LEMMA LiveFinite == ASSUME TypeOK, NEW s \in Scopes PROVE IsFiniteSet(live[s])
<1>1. IsFiniteSet(Tasks \cup {Root})
  BY MaintenanceAssumption, FS_AddElement
<1> QED BY <1>1, FS_Subset DEF TypeOK

\* The coordinator's answers move a scope without touching its work.
LEMMA AcquireInv ==
  ASSUME Inv, NEW s \in Scopes, Acquire(s) \/ AcquireRefused(s) \/ AcquireReplyLost(s)
  PROVE  Inv'
<1> USE DEF Inv
<1>1. CASE Acquire(s)
  <2> USE <1>1 DEF Acquire, CanAcquire, Reach
  <2>1. TypeOK'
    BY DEF TypeOK, Stages
  <2>2. PendingCountsLive'
    BY DEF PendingCountsLive
  <2>3. StageInv'
    BY DEF StageInv, TypeOK
  <2> QED BY <2>1, <2>2, <2>3
<1>2. CASE AcquireRefused(s) \/ AcquireReplyLost(s)
  <2> USE <1>2 DEF AcquireRefused, AcquireReplyLost, Reach, coordinator
  <2>1. TypeOK'
    BY DEF TypeOK, Stages
  <2>2. PendingCountsLive'
    BY DEF PendingCountsLive
  <2>3. StageInv'
    BY DEF StageInv, TypeOK
  <2> QED BY <2>1, <2>2, <2>3
<1> QED BY <1>1, <1>2

\* A scope that starts counts its root.
LEMMA StartInv == ASSUME Inv, NEW s \in Scopes, Start(s) PROVE Inv'
<1> USE DEF Inv, Start, Reach, coordinator
<1>1. TypeOK'
  BY DEF TypeOK, Stages
<1>2. PendingCountsLive'
  BY FS_Singleton DEF PendingCountsLive, TypeOK
<1>3. StageInv'
  BY DEF StageInv, TypeOK
<1> QED BY <1>1, <1>2, <1>3

\* Tracking one more promise counts one more.
LEMMA RunInv ==
  ASSUME Inv, NEW s \in Scopes, NEW t \in Tasks, Run(s, t) PROVE Inv'
<1> USE DEF Inv, Run, CanRun, coordinator
<1>1. TypeOK'
  BY DEF TypeOK
<1>2. Cardinality(live[s] \cup {t}) = pending[s] + 1
  <2>1. IsFiniteSet(live[s])
    BY LiveFinite
  <2>2. Cardinality(live[s] \cup {t}) = Cardinality(live[s]) + 1
    BY <2>1, FS_AddElement
  <2> QED BY <2>2 DEF PendingCountsLive
<1>3. PendingCountsLive'
  BY <1>2 DEF PendingCountsLive, TypeOK
<1>4. stage[s] = "running"
  BY DEF StageInv, TypeOK, Stages
<1>5. StageInv'
  BY <1>4 DEF StageInv, TypeOK
<1> QED BY <1>1, <1>3, <1>5

\* A failure is only noted while the scope runs.
LEMMA MarkUncertainInv ==
  ASSUME Inv, NEW s \in Scopes, MarkUncertain(s) PROVE Inv'
<1> USE DEF Inv, MarkUncertain, CanRun, coordinator
<1>1. TypeOK'
  BY DEF TypeOK
<1>2. PendingCountsLive'
  BY DEF PendingCountsLive
<1>3. stage[s] = "running"
  BY DEF StageInv, TypeOK, Stages
<1>4. StageInv'
  BY <1>3 DEF StageInv, TypeOK
<1> QED BY <1>1, <1>2, <1>4

\* When the count reaches zero nothing is running: the scope may be sealed and
\* its permit given back.
LEMMA EndInv ==
  ASSUME Inv, NEW s \in Scopes, NEW t \in Tasks \cup {Root}, NEW ok \in BOOLEAN,
         End(s, t, ok)
  PROVE  Inv'
<1> USE DEF Inv, End, coordinator
<1>1. /\ IsFiniteSet(live[s] \ {t})
      /\ Cardinality(live[s] \ {t}) = pending[s] - 1
      /\ pending[s] - 1 \in Nat
  <2>1. IsFiniteSet(live[s])
    BY LiveFinite
  <2>2. /\ IsFiniteSet(live[s] \ {t})
        /\ Cardinality(live[s] \ {t}) = Cardinality(live[s]) - 1
    BY <2>1, FS_RemoveElement
  <2>3. Cardinality(live[s] \ {t}) \in Nat
    BY <2>2, FS_CardinalityType
  <2> QED BY <2>2, <2>3 DEF PendingCountsLive
<1>2. stage[s] = "running"
  BY DEF StageInv
<1>3. pending[s] - 1 = 0 => live[s] \ {t} = {}
  BY <1>1, FS_EmptySet
<1>4. TypeOK'
  BY <1>1 DEF TypeOK, Settle, Reach, Stages
<1>5. PendingCountsLive'
  BY <1>1 DEF PendingCountsLive, Settle, TypeOK
<1>6. StageInv'
  <2>1. CASE pending[s] - 1 = 0
    BY <1>2, <1>3, <2>1 DEF StageInv, Settle, Reach, TypeOK
  <2>2. CASE pending[s] - 1 # 0
    BY <1>2, <2>2 DEF StageInv, Settle, Reach, TypeOK
  <2> QED BY <2>1, <2>2
<1> QED BY <1>4, <1>5, <1>6

\* A cancelled body is replaced by its cancellation in one step, so the count
\* does not move.
LEMMA CancelInv ==
  ASSUME Inv, NEW s \in Scopes, NEW body \in Tasks, NEW t \in Tasks, Cancel(s, body, t)
  PROVE  Inv'
<1> USE DEF Inv, Cancel, CanRun, coordinator
<1>1. TypeOK'
  BY DEF TypeOK
<1>2. Cardinality((live[s] \ {body}) \cup {t}) = pending[s]
  <2>1. /\ IsFiniteSet(live[s] \ {body})
        /\ Cardinality(live[s] \ {body}) = Cardinality(live[s]) - 1
    BY LiveFinite, FS_RemoveElement
  <2>2. Cardinality((live[s] \ {body}) \cup {t}) = Cardinality(live[s] \ {body}) + 1
    BY <2>1, FS_AddElement
  <2> QED BY <2>1, <2>2 DEF PendingCountsLive, TypeOK
<1>3. PendingCountsLive'
  BY <1>2 DEF PendingCountsLive, TypeOK
<1>4. stage[s] = "running"
  BY DEF StageInv
<1>5. StageInv'
  BY <1>4 DEF StageInv, TypeOK
<1> QED BY <1>1, <1>3, <1>5

\* A permit becomes done only when its scope has nothing left to run.
LEMMA CompleteInv ==
  ASSUME Inv, NEW s \in Scopes, Complete(s) \/ CompleteFails(s) PROVE Inv'
<1> USE DEF Inv, Complete, CompleteFails, Reach, coordinator
<1>1. TypeOK'
  BY DEF TypeOK, Stages
<1>2. PendingCountsLive'
  BY DEF PendingCountsLive
<1>3. StageInv'
  BY DEF StageInv, TypeOK
<1> QED BY <1>1, <1>2, <1>3

\* The epoch moves only when no permit is active, so no running scope is left
\* behind in the old one.
LEMMA ControlInv ==
  ASSUME Inv, NEW w \in Windows, NEW e \in 0..MaxEpoch, BeginDrain(w, e) \/ Resume(w, e)
  PROVE  Inv'
<1> USE MaintenanceAssumption DEF Inv, BeginDrain, Resume, CanResume, scopeState
<1>1. TypeOK'
  BY DEF TypeOK
<1>2. PendingCountsLive'
  BY DEF PendingCountsLive
<1>3. StageInv'
  BY DEF StageInv, TypeOK, Active
<1> QED BY <1>1, <1>2, <1>3

LEMMA NextInv == Inv /\ [Next]_vars => Inv'
<1> SUFFICES ASSUME Inv, [Next]_vars PROVE Inv'
  OBVIOUS
<1>1. ASSUME NEW s \in Scopes, ScopeStep(s) PROVE Inv'
  BY <1>1, AcquireInv, StartInv, RunInv, MarkUncertainInv, EndInv, CancelInv, CompleteInv
  DEF ScopeStep
<1>2. CASE Control
  BY <1>2, ControlInv DEF Control
<1>3. CASE UNCHANGED vars
  BY <1>3 DEF vars, coordinator, scopeState, Inv, TypeOK, PendingCountsLive, StageInv
<1> QED BY <1>1, <1>2, <1>3 DEF Next

\* The inductive invariant holds in every reachable state.
THEOREM Invariance == Spec => []Inv
BY InitInv, NextInv, PTL DEF Spec

\* Every variable keeps its type; in particular #pending never goes below zero.
THEOREM TypeCorrect == Spec => []TypeOK
<1>1. Inv => TypeOK
  BY DEF Inv
<1> QED BY <1>1, Invariance, PTL

\* #pending is the number of promises that are still running.
THEOREM CountCorrect == Spec => []PendingCountsLive
<1>1. Inv => PendingCountsLive
  BY DEF Inv
<1> QED BY <1>1, Invariance, PTL

\* DRAINED means that no admitted scope is starting, running or completing.
THEOREM DrainedCorrect == Spec => []DrainedIsQuiet
<1>1. Inv => DrainedIsQuiet
  BY DEF Inv, StageInv, DrainedIsQuiet, Phase, Active
<1> QED BY <1>1, Invariance, PTL

\* Whatever is running holds an active permit of the present epoch.
THEOREM FenceCorrect == Spec => []WorkIsFenced
<1>1. Inv => WorkIsFenced
  BY DEF Inv, StageInv, WorkIsFenced
<1> QED BY <1>1, Invariance, PTL

\* A scope in which anything failed stays failed and keeps its permit active.
THEOREM UncertaintyCorrect == Spec => UncertainWorkHoldsPermit
<1> DEFINE Kept == \A s \in Scopes : failed[s] => failed'[s] /\ permits'[s] = "active"
<1>1. Inv /\ [Next]_vars => [Kept]_vars
  <2> SUFFICES ASSUME Inv, Next, NEW s \in Scopes, failed[s]
               PROVE  failed'[s] /\ permits'[s] = "active"
    OBVIOUS
  <2> USE DEF Inv, TypeOK, StageInv
  <2>1. stage[s] \in {"running", "uncertain"} /\ permits[s] = "active"
    BY DEF Stages
  <2>2. CASE Control
    BY <2>1, <2>2 DEF Control, BeginDrain, Resume, scopeState
  <2>3. ASSUME NEW x \in Scopes, ScopeStep(x) PROVE failed'[s] /\ permits'[s] = "active"
    <3>1. CASE Acquire(x)
      BY <2>1, <3>1 DEF Acquire, CanAcquire
    <3>2. CASE Complete(x)
      BY <2>1, <3>2 DEF Complete
    <3>3. CASE \E t \in Tasks \cup {Root}, ok \in BOOLEAN : End(x, t, ok)
      BY <2>1, <3>3 DEF End, Settle, coordinator
    <3>4. CASE AcquireRefused(x) \/ Start(x) \/ AcquireReplyLost(x) \/ CompleteFails(x)
      BY <2>1, <3>4 DEF AcquireRefused, Start, AcquireReplyLost, CompleteFails, coordinator
    <3>5. CASE (\E t \in Tasks : Run(x, t)) \/ MarkUncertain(x) \/ (\E body, t \in Tasks : Cancel(x, body, t))
      BY <2>1, <3>5 DEF Run, MarkUncertain, Cancel, coordinator
    <3> QED BY <2>3, <3>1, <3>2, <3>3, <3>4, <3>5 DEF ScopeStep
  <2> QED BY <2>2, <2>3 DEF Next
<1> QED BY <1>1, Invariance, PTL DEF Spec, UncertainWorkHoldsPermit

-----------------------------------------------------------------------------
(* Refinement of AdmissionGate. *)

LEMMA GateInit == Init => Gate!Init
BY DEF Init, Gate!Init, Active, Records

\* Admission enters the gate, a completed permit leaves it, the rest of a scope
\* does not touch it.
LEMMA GateScopeStep ==
  ASSUME Inv, NEW s \in Scopes, ScopeStep(s)
  PROVE  [Gate!Next]_(Gate!vars)
<1> USE DEF Inv, TypeOK
<1>1. CASE Acquire(s)
  <2>1. window = None /\ window' = None
    BY <1>1 DEF Acquire, CanAcquire, Phase
  <2>2. s \notin Records /\ Active' = Active \cup {s} /\ Records' = Records \cup {s}
    BY <1>1 DEF Acquire, CanAcquire, Active, Records
  <2>3. Gate!Enter(s)
    BY <2>1, <2>2 DEF Gate!Enter
  <2> QED BY <2>3 DEF Gate!Next
<1>2. CASE Complete(s)
  <2>1. s \in Active
    BY <1>2 DEF Complete, StageInv, Active
  <2>2. Active' = Active \ {s} /\ Records' = Records /\ window' = window
    BY <1>2 DEF Complete, Active, Records
  <2>3. Gate!Leave(s)
    BY <2>1, <2>2 DEF Gate!Leave
  <2> QED BY <2>3 DEF Gate!Next
<1>3. ASSUME UNCHANGED coordinator PROVE UNCHANGED Gate!vars
  BY <1>3 DEF coordinator, Gate!vars, Active, Records
<1>4. ~Acquire(s) /\ ~Complete(s) => UNCHANGED coordinator
  BY DEF ScopeStep, AcquireRefused, Start, AcquireReplyLost, Run, MarkUncertain, End,
         Cancel, CompleteFails
<1> QED BY <1>1, <1>2, <1>3, <1>4

\* Draining closes the gate, resuming reopens it once nobody is inside.
LEMMA GateControl ==
  ASSUME Inv, NEW w \in Windows, NEW e \in 0..MaxEpoch, BeginDrain(w, e) \/ Resume(w, e)
  PROVE  [Gate!Next]_(Gate!vars)
<1>1. w # None
  BY MaintenanceAssumption
<1>2. CASE BeginDrain(w, e)
  BY <1>1, <1>2 DEF BeginDrain, Active, Records, Gate!Close, Gate!Next, Gate!vars
<1>3. CASE Resume(w, e)
  BY <1>1, <1>3 DEF Resume, CanResume, Active, Records, Gate!Reopen, Gate!Next
<1> QED BY <1>2, <1>3

\* The coordinator and its scopes implement the gate: nobody enters while it is
\* closed and it reopens only when it is empty.
THEOREM GateCorrect == Spec => KeepsGate
<1>1. Inv /\ [Next]_vars => [Gate!Next]_(Gate!vars)
  <2> SUFFICES ASSUME Inv, [Next]_vars PROVE [Gate!Next]_(Gate!vars)
    OBVIOUS
  <2>1. CASE Control
    BY <2>1, GateControl DEF Control
  <2>2. CASE \E s \in Scopes : ScopeStep(s)
    BY <2>2, GateScopeStep
  <2>3. CASE UNCHANGED vars
    BY <2>3 DEF vars, coordinator, Gate!vars, Active, Records
  <2> QED BY <2>1, <2>2, <2>3 DEF Next
<1> QED BY <1>1, GateInit, Invariance, PTL DEF Spec, Gate!Spec, KeepsGate
=============================================================================
