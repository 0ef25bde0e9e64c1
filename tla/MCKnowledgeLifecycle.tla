------------------------ MODULE MCKnowledgeLifecycle ------------------------
(* Instances of KnowledgeLifecycle for TLC. *)
EXTENDS KnowledgeLifecycle, TLC

CONSTANTS n1, n2

Symmetry == Permutations(Requests)

Act(kind, number) == [kind |-> kind, to |-> None, by |-> CHOOSE x \in Admins : TRUE, number |-> number]
Back(number) ==
  [kind |-> "rollback", to |-> First, by |-> CHOOSE x \in Admins : TRUE, number |-> number]

\* A purge and a trash that clients retry, against everything that moves the
\* item; a rollback uses a number again.
PurgeCalls == {Act("trash", n1), Act("restore", None), Back(n1), Act("purge", n2)}

\* A trash that its client retries, and a restore.
RetryCalls == {Act("trash", n1), Act("restore", None)}
=============================================================================
