------------------------------ MODULE Requests ------------------------------
(***************************************************************************)
(* Requests that are answered in steps: what each one is at, and what it   *)
(* has read so far, is a record of its own.  The modules of the services   *)
(* say what the fields are and what a step does to the stores.             *)
(***************************************************************************)

CONSTANTS
  Requests,  \* calls of the services that may be under way together
  None

VARIABLE request

At(r, step) == request[r].at = step

Go(r, step) == request' = [request EXCEPT ![r].at = step]

Do(r, change) == request' = [request EXCEPT ![r] = change]

\* The step in which a request of one of these operations gets this answer.
Answers(r, operations, answer) ==
  /\ request[r].op \in operations
  /\ request[r].at # answer /\ request'[r].at = answer
=============================================================================
