--------------------------- MODULE ReviewOutcome ---------------------------
(***************************************************************************)
(* What the review of submissions promises its callers, whatever the code  *)
(* does in between: a submission is decided at most once, and an operation *)
(* number is answered at most once, with the outcome of its submission.    *)
(***************************************************************************)
CONSTANTS
  Submissions,   \* the submissions under review
  Operations,    \* the operation numbers callers use
  Outcomes,      \* what a submission can be decided to
  Pending        \* neither an outcome nor an answer yet; not in Outcomes

VARIABLES
  outcome,       \* the outcome of each submission, or Pending
  answered       \* what each operation on each submission was told, or Pending

vars == <<outcome, answered>>

TypeOK ==
  /\ outcome \in [Submissions -> Outcomes \cup {Pending}]
  /\ answered \in [Submissions -> [Operations -> Outcomes \cup {Pending}]]

Init ==
  /\ outcome = [s \in Submissions |-> Pending]
  /\ answered = [s \in Submissions |-> [o \in Operations |-> Pending]]

\* The only decision of submission s; the operation that made it may be
\* answered in the same step.
Decide(s, d) ==
  /\ outcome[s] = Pending
  /\ outcome' = [outcome EXCEPT ![s] = d]
  /\ \/ UNCHANGED answered
     \/ \E o \in Operations :
          /\ answered[s][o] = Pending
          /\ answered' = [answered EXCEPT ![s][o] = d]

\* An operation that reached a decided submission is told its outcome.
Answer(s, o) ==
  /\ outcome[s] # Pending
  /\ answered[s][o] = Pending
  /\ answered' = [answered EXCEPT ![s][o] = outcome[s]]
  /\ UNCHANGED outcome

Next ==
  \E s \in Submissions :
    \/ \E d \in Outcomes : Decide(s, d)
    \/ \E o \in Operations : Answer(s, o)

Spec == Init /\ [][Next]_vars
=============================================================================
