----------------------------- MODULE Maintenance -----------------------------
(***************************************************************************)
(* The maintenance gate.  Every HTTP request and every scheduled run is    *)
(* admitted by the MaintenanceCoordinator Durable Object, does its work in *)
(* a TrackedScope that counts what is still running, and gives its permit  *)
(* back when the count reaches zero.  An operator drains a window and      *)
(* resumes it.  Code: src/src/maintenance/coordinator.ts (the coordinator) *)
(* and lifecycle.ts (admit, guardFetch, guardScheduled, TrackedScope).     *)
(*                                                                         *)
(* The coordinator's methods are single synchronous transactions, one      *)
(* action each.  The two RPCs to it, acquire and complete, are two actions *)
(* each: the transaction, and what the caller learns of it.                *)
(***************************************************************************)
EXTENDS Naturals, FiniteSets

CONSTANTS
  Scopes,      \* one guarded invocation each; also the permit id it draws
  Tasks,       \* tracked promises a scope may start
  Windows,     \* maintenance window names
  MaxEpoch,    \* bound on completed windows
  RecordLimit, \* MAINTENANCE_RECORD_LIMIT
  None

Root == "root"   \* the count the handler itself holds

ASSUME MaintenanceAssumption ==
  /\ MaxEpoch \in Nat /\ RecordLimit \in Nat
  /\ IsFiniteSet(Tasks) /\ Root \notin Tasks
  /\ None \notin Windows

VARIABLES
  \* coordinator storage
  epoch, window, resumedWindow,
  permits,     \* permits: absent, active or done (a tombstone)
  permitEpoch, \* the epoch a permit was issued in
  \* scopes
  stage,       \* where guardFetch or guardScheduled is
  held,        \* the epoch in the permit the scope holds
  pending,     \* TrackedScope.#pending
  failed,      \* TrackedScope.#failed or an uncertainty
  sealed,      \* TrackedScope.#sealed
  live         \* the tracked work that is really still running

coordinator == <<epoch, window, resumedWindow, permits, permitEpoch>>
scopeState  == <<stage, held, pending, failed, sealed, live>>
vars        == <<coordinator, scopeState>>

Stages == {"new", "admitted", "running", "completing", "refused",
           "released", "uncertain", "unconfirmed"}

TypeOK ==
  /\ epoch \in 0..MaxEpoch
  /\ window \in Windows \cup {None} /\ resumedWindow \in Windows \cup {None}
  /\ permits \in [Scopes -> {"absent", "active", "done"}]
  /\ permitEpoch \in [Scopes -> 0..MaxEpoch]
  /\ stage \in [Scopes -> Stages]
  /\ held \in [Scopes -> 0..MaxEpoch]
  /\ pending \in [Scopes -> Nat]
  /\ failed \in [Scopes -> BOOLEAN] /\ sealed \in [Scopes -> BOOLEAN]
  /\ live \in [Scopes -> SUBSET (Tasks \cup {Root})]

Init ==
  /\ epoch = 0 /\ window = None /\ resumedWindow = None
  /\ permits = [s \in Scopes |-> "absent"]
  /\ permitEpoch = [s \in Scopes |-> 0]
  /\ stage = [s \in Scopes |-> "new"]
  /\ held = [s \in Scopes |-> 0]
  /\ pending = [s \in Scopes |-> 0]
  /\ failed = [s \in Scopes |-> FALSE] /\ sealed = [s \in Scopes |-> FALSE]
  /\ live = [s \in Scopes |-> {}]

-----------------------------------------------------------------------------
(* status() *)

Active  == {s \in Scopes : permits[s] = "active"}
Records == {s \in Scopes : permits[s] # "absent"}
Phase   == IF window = None THEN "OPEN"
           ELSE IF Active = {} THEN "DRAINED" ELSE "DRAINING"

-----------------------------------------------------------------------------
(* Admission *)

Reach(s, st) == stage' = [stage EXCEPT ![s] = st]

\* Mutant: acquire() forgets to look at the phase.
CanAcquireAnytime(s) ==
  /\ permits[s] = "absent"
  /\ Cardinality(Records) < RecordLimit

\* acquire(): a closed gate or a full table issues nothing.
CanAcquire(s) ==
  /\ Phase = "OPEN"
  /\ permits[s] = "absent"
  /\ Cardinality(Records) < RecordLimit

Acquire(s) ==
  /\ stage[s] = "new" /\ CanAcquire(s)
  /\ permits' = [permits EXCEPT ![s] = "active"]
  /\ permitEpoch' = [permitEpoch EXCEPT ![s] = epoch]
  /\ Reach(s, "admitted")
  /\ UNCHANGED <<epoch, window, resumedWindow, held, pending, failed, sealed, live>>

AcquireRefused(s) ==
  /\ stage[s] = "new" /\ ~CanAcquire(s)
  /\ Reach(s, "refused")
  /\ UNCHANGED <<coordinator, held, pending, failed, sealed, live>>

\* admit() returns the scope and the handler starts.
Start(s) ==
  /\ stage[s] = "admitted"
  /\ Reach(s, "running")
  /\ held' = [held EXCEPT ![s] = permitEpoch[s]]
  /\ pending' = [pending EXCEPT ![s] = 1]
  /\ live' = [live EXCEPT ![s] = {Root}]
  /\ UNCHANGED <<coordinator, failed, sealed>>

\* The reply to acquire is lost: admit() answers 503 and nobody holds the
\* permit, which stays active.
AcquireReplyLost(s) ==
  /\ stage[s] = "admitted"
  /\ Reach(s, "refused")
  /\ UNCHANGED <<coordinator, held, pending, failed, sealed, live>>

-----------------------------------------------------------------------------
(* TrackedScope *)

\* Mutant: the fence that refuses late work is missing.
CanRunUnfenced(s) == stage[s] \in {"running", "completing"}

\* run() and waitUntil() after assertOpen(): any code of the scope, a callback
\* that outlived its task included, may start tracked work until it is sealed.
CanRun(s) == stage[s] \in {"running", "completing"} /\ ~sealed[s]

Run(s, t) ==
  /\ CanRun(s)
  /\ t \notin live[s]
  /\ pending' = [pending EXCEPT ![s] = @ + 1]
  /\ live' = [live EXCEPT ![s] = @ \cup {t}]
  /\ UNCHANGED <<coordinator, stage, held, failed, sealed>>

MarkUncertain(s) ==
  /\ CanRun(s)
  /\ failed' = [failed EXCEPT ![s] = TRUE]
  /\ UNCHANGED <<coordinator, stage, held, pending, sealed, live>>

\* Mutant: the count is compared before it is decremented.
SettleLate(s, ok) ==
  LET bad == failed[s] \/ ~ok IN
  /\ failed' = [failed EXCEPT ![s] = bad]
  /\ pending' = [pending EXCEPT ![s] = @ - 1]
  /\ IF pending[s] = 0
     THEN /\ sealed' = [sealed EXCEPT ![s] = TRUE]
          /\ Reach(s, IF bad THEN "uncertain" ELSE "completing")
     ELSE UNCHANGED <<sealed, stage>>

\* #settle(): the last count seals the scope and decides whether its permit
\* goes back.
Settle(s, ok) ==
  LET bad == failed[s] \/ ~ok IN
  /\ failed' = [failed EXCEPT ![s] = bad]
  /\ pending' = [pending EXCEPT ![s] = @ - 1]
  /\ IF pending[s] - 1 = 0
     THEN /\ sealed' = [sealed EXCEPT ![s] = TRUE]
          /\ Reach(s, IF bad THEN "uncertain" ELSE "completing")
     ELSE UNCHANGED <<sealed, stage>>

\* A tracked promise settles, or the handler returns or throws (finishRoot).
End(s, t, ok) ==
  /\ t \in live[s]
  /\ live' = [live EXCEPT ![s] = @ \ {t}]
  /\ Settle(s, ok)
  /\ UNCHANGED <<coordinator, held>>

\* The reader of a tracked response body cancels: the cancellation is tracked
\* before the body's own lifetime is rejected.
Cancel(s, body, t) ==
  /\ CanRun(s)
  /\ body \in live[s] \ {Root} /\ t \notin live[s]
  /\ live' = [live EXCEPT ![s] = (@ \ {body}) \cup {t}]
  /\ failed' = [failed EXCEPT ![s] = TRUE]
  /\ UNCHANGED <<coordinator, stage, held, pending, sealed>>

\* complete(): the coordinator marks the permit of that epoch done.
Complete(s) ==
  /\ stage[s] = "completing"
  /\ permits[s] # "absent" /\ permitEpoch[s] = held[s]
  /\ permits' = [permits EXCEPT ![s] = "done"]
  /\ \/ Reach(s, "released")
     \/ Reach(s, "unconfirmed")
  /\ UNCHANGED <<epoch, window, resumedWindow, permitEpoch>>
  /\ UNCHANGED <<held, pending, failed, sealed, live>>

CompleteFails(s) ==
  /\ stage[s] = "completing"
  /\ Reach(s, "unconfirmed")
  /\ UNCHANGED <<coordinator, held, pending, failed, sealed, live>>

-----------------------------------------------------------------------------
(* Control: commands carry the window and the epoch the operator read, and  *)
(* may arrive late or again.                                                *)

BeginDrain(w, e) ==
  /\ e = epoch
  /\ window \in {None, w}
  /\ window' = w
  /\ UNCHANGED <<epoch, resumedWindow, permits, permitEpoch, scopeState>>

\* Mutant: resume does not wait for active work.
CanResumeWithWork(w, e) == e = epoch /\ window = w /\ epoch < MaxEpoch

\* The retry of the resume that opened this epoch only reads the status; it
\* changes nothing and is the stuttering step.
CanResume(w, e) ==
  /\ e = epoch /\ window = w
  /\ Active = {}
  /\ epoch < MaxEpoch

Resume(w, e) ==
  /\ CanResume(w, e)
  /\ epoch' = e + 1
  /\ window' = None
  /\ resumedWindow' = w
  /\ UNCHANGED <<permits, permitEpoch, scopeState>>

-----------------------------------------------------------------------------
ScopeStep(s) ==
  \/ Acquire(s) \/ AcquireRefused(s) \/ Start(s) \/ AcquireReplyLost(s)
  \/ \E t \in Tasks : Run(s, t)
  \/ MarkUncertain(s)
  \/ \E t \in Tasks \cup {Root}, ok \in BOOLEAN : End(s, t, ok)
  \/ \E body, t \in Tasks : Cancel(s, body, t)
  \/ Complete(s) \/ CompleteFails(s)

Control == \E w \in Windows, e \in 0..MaxEpoch : BeginDrain(w, e) \/ Resume(w, e)

Next == (\E s \in Scopes : ScopeStep(s)) \/ Control

Spec == Init /\ [][Next]_vars

\* Tracked promises settle, the handler returns, and the runtime delivers what
\* the coordinator answered.
Fairness ==
  \A s \in Scopes :
    /\ WF_vars(Start(s)) /\ WF_vars(Complete(s))
    /\ \A t \in Tasks \cup {Root} : WF_vars(\E ok \in BOOLEAN : End(s, t, ok))

FairSpec == Spec /\ Fairness

-----------------------------------------------------------------------------
(* Properties *)

\* DRAINED is evidence: no admitted scope is about to start, still runs
\* tracked work or still owes the coordinator its permit.
DrainedIsQuiet ==
  Phase = "DRAINED" =>
    \A s \in Scopes : live[s] = {} /\ stage[s] \notin {"admitted", "running", "completing"}

\* Work of one epoch never runs in the next: whatever is running holds an
\* active permit of the present epoch.
WorkIsFenced ==
  \A s \in Scopes :
    live[s] # {} \/ stage[s] = "admitted" =>
      permits[s] = "active" /\ permitEpoch[s] = epoch

\* A permit is only given back for work known to have succeeded: once anything
\* in a scope has failed, that is remembered and its permit stays active,
\* whatever succeeds afterwards.
UncertainWorkHoldsPermit ==
  [][\A s \in Scopes : failed[s] => failed'[s] /\ permits'[s] = "active"]_vars

\* The counter that decides when a scope is over counts what is running.
PendingCountsLive == \A s \in Scopes : pending[s] = Cardinality(live[s])

\* Once no scope starts further work, and as long as no work fails and no reply
\* is lost, a drain does not stay DRAINING.
Certain == \A s \in Scopes : permits[s] = "active" => ~failed[s] /\ stage[s] \notin {"refused", "unconfirmed"}

DrainCompletes ==
  /\ []Certain
  /\ <>[][\A s \in Scopes, t \in Tasks : ~Run(s, t)]_vars
  => []<>(Phase # "DRAINING")

\* Refinement: the open permits are the visitors of a gate that reopens only
\* when it is empty.
Gate ==
  INSTANCE AdmissionGate WITH
    Visitors <- Scopes, open <- (window = None), inside <- Active, seen <- Records

KeepsGate == Gate!Spec
=============================================================================
