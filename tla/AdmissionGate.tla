---------------------------- MODULE AdmissionGate ----------------------------
(***************************************************************************)
(* What maintenance promises an operator: a gate that can be closed at any *)
(* time, lets nobody in while it is closed, and is only opened again once  *)
(* everybody has left.                                                     *)
(***************************************************************************)
CONSTANT Visitors
VARIABLES open, inside, seen     \* seen: a visitor comes in once

vars == <<open, inside, seen>>

TypeOK == open \in BOOLEAN /\ inside \subseteq Visitors /\ seen \subseteq Visitors

Init == open = TRUE /\ inside = {} /\ seen = {}

Enter(v) ==
  /\ open /\ v \notin seen
  /\ inside' = inside \cup {v} /\ seen' = seen \cup {v}
  /\ UNCHANGED open

Leave(v) ==
  /\ v \in inside
  /\ inside' = inside \ {v}
  /\ UNCHANGED <<open, seen>>

Close == open /\ open' = FALSE /\ UNCHANGED <<inside, seen>>

Reopen == ~open /\ inside = {} /\ open' = TRUE /\ UNCHANGED <<inside, seen>>

Next == Close \/ Reopen \/ \E v \in Visitors : Enter(v) \/ Leave(v)

Spec == Init /\ [][Next]_vars
=============================================================================
