------------------------ MODULE MCReviewPublication ------------------------
(* Instances of ReviewPublication for TLC. *)
EXTENDS ReviewPublication, TLC

CONSTANTS s1, ann, bob, form, other, item, r1, r2, r3, w1, n1, n2

PublishCall(s, a, f, i, n, v) ==
  [kind |-> "published", sub |-> s, by |-> a, why |-> f, item |-> i,
   number |-> n, expected |-> v]
DecideCall(k, s, a, f, n, v) ==
  [kind |-> k, sub |-> s, by |-> a, why |-> f, item |-> None,
   number |-> n, expected |-> v]

\* One submission fought over: the same publication with two numbers and with
\* none, another reviewer's publication, a rejection and a revision request.
ContendedCalls ==
  {PublishCall(s1, ann, form, None, n1, 0),
   PublishCall(s1, ann, form, None, n2, None),
   PublishCall(s1, bob, other, item, None, 0),
   DecideCall("rejected", s1, ann, form, n1, 0),
   DecideCall("rejected", s1, ann, form, n2, 1),
   DecideCall("revision_requested", s1, bob, form, None, None)}

\* A publication, the same one without a number, and a refusal.
InterruptedCalls ==
  {PublishCall(s1, ann, form, item, n1, 0),
   PublishCall(s1, ann, form, None, None, None),
   DecideCall("rejected", s1, bob, other, n2, 0)}

\* One publication into an existing item and its retries.
RetriedCalls ==
  {PublishCall(s1, ann, form, item, n1, 0),
   PublishCall(s1, ann, form, None, n1, 0)}

RequestSymmetry == Permutations(Requests)
=============================================================================
