---------------------------- MODULE RecoverySweep ----------------------------
(***************************************************************************)
(* What one call of recoverPending takes up: it lists the oldest           *)
(* unfinished intents and resumes them in turn, and what is left of its    *)
(* limit goes to the index jobs that wait longest.  What resuming an       *)
(* intent does is in ReviewPublication, what processing a job does in      *)
(* KnowledgeIndex; here they leave the lists, move to their end or keep    *)
(* their place.  Code: recoverPending of src/src/publication/service.ts,   *)
(* listPendingIntents, listRecoverableIndexRevisionIds, markContentWritten *)
(* and markIntentFailedTerminal of src/src/publication/repository.ts.      *)
(*                                                                         *)
(* The job of the revision an intent publishes has the intent's name.      *)
(***************************************************************************)
EXTENDS Naturals, FiniteSets, SequencesExt

CONSTANTS
  Intents,      \* intents, and the index jobs of what they publish
  Hopeless,     \* those that cannot be published: the target was archived,
                \* the reviewer is no administrator any more
  Blocked,      \* those whose job cannot be claimed: the Space was archived
  Limit,        \* how many a call takes up
  MaxSetbacks   \* bound on failures that pass

ASSUME SweepAssumption ==
  /\ Hopeless \subseteq Intents /\ Blocked \subseteq Intents
  /\ Cardinality(Hopeless) + Cardinality(Blocked) < Limit
  /\ MaxSetbacks \in Nat

VARIABLES
  unresumed,   \* unfinished intents, by updated_at
  written,     \* those whose content is written
  unindexed,   \* recoverable index jobs, by available_at
  arrived,     \* intents that were ever inserted
  sweep,       \* the call that runs: what it lists, what it has yet to take
               \* up and has room for, and what it resumed
  setbacks

lines == <<unresumed, written, unindexed, arrived>>
sweepVars == <<lines, sweep, setbacks>>

NoSweep == [at |-> "idle", todo |-> <<>>, room |-> 0, tried |-> {}]

SweepInit ==
  /\ unresumed = <<>> /\ written = {} /\ unindexed = <<>> /\ arrived = {}
  /\ sweep = NoSweep /\ setbacks = 0

Leaves(line, i) == SelectSeq(line, LAMBDA j : j # i)

ToEnd(line, i) == Append(Leaves(line, i), i)

Oldest(line, n) == IF Len(line) <= n THEN line ELSE SubSeq(line, 1, n)

\* A publication died after it inserted its intent, or its index job failed.
InsertIntent(i) ==
  /\ i \notin arrived
  /\ arrived' = arrived \cup {i}
  /\ \/ unresumed' = Append(unresumed, i) /\ UNCHANGED unindexed
     \/ i \notin Hopeless /\ unindexed' = Append(unindexed, i) /\ UNCHANGED unresumed
  /\ UNCHANGED <<written, sweep, setbacks>>

\* Its request comes again and publishes it, and may fail to index it.
PublishAgain(i) ==
  /\ i \in ToSet(unresumed) \ Hopeless
  /\ unresumed' = Leaves(unresumed, i)
  /\ unindexed' \in {unindexed, ToEnd(unindexed, i)}
  /\ UNCHANGED <<written, arrived, sweep, setbacks>>

\* listPendingIntents.  A call that finds nothing changes nothing.
StartSweep ==
  LET todo == Oldest(unresumed, Limit) IN
  /\ sweep.at = "idle" /\ unresumed \o unindexed # <<>>
  /\ sweep' = [at |-> "intents", todo |-> todo, room |-> Limit - Len(todo), tried |-> {}]
  /\ UNCHANGED <<lines, setbacks>>

\* Mutant: a failure ends the call.
AfterTroubleStops(i) == NoSweep

\* A failure is noted and the next one taken up.
AfterTrouble(i) == [sweep EXCEPT !.todo = Tail(@)]

Taking(i) == sweep.at = "intents" /\ sweep.todo # <<>> /\ i = Head(sweep.todo)

\* It is published, by this call or by another one, or found invalid for good.
ResumeIntent(i) ==
  /\ Taking(i)
  /\ i \notin Hopeless \/ i \notin ToSet(unresumed)
  /\ unresumed' = Leaves(unresumed, i)
  /\ \/ sweep' = [sweep EXCEPT !.todo = Tail(@), !.tried = @ \cup {i}]
     \/ sweep' = AfterTrouble(i)
  /\ UNCHANGED <<written, unindexed, arrived, setbacks>>

\* It is published, but indexing it fails and the job has to wait.
ResumeUnindexed(i) ==
  /\ Taking(i) /\ i \in ToSet(unresumed) \ Hopeless
  /\ unresumed' = Leaves(unresumed, i)
  /\ unindexed' = ToEnd(unindexed, i)
  /\ sweep' = [sweep EXCEPT !.todo = Tail(@), !.tried = @ \cup {i}]
  /\ UNCHANGED <<written, arrived, setbacks>>

\* It fails, for good or for now; only that its content is written moves it.
FailIntent(i) ==
  /\ Taking(i) /\ i \in ToSet(unresumed)
  /\ setbacks' = IF i \in Hopeless THEN setbacks ELSE setbacks + 1
  /\ setbacks' \in 0..MaxSetbacks
  /\ \/ i \notin written /\ written' = written \cup {i} /\ unresumed' = ToEnd(unresumed, i)
     \/ UNCHANGED <<written, unresumed>>
  /\ sweep' = AfterTrouble(i)
  /\ UNCHANGED <<unindexed, arrived>>

\* What the listed intents leave of the limit.
Room == sweep.room

ListJobs ==
  /\ sweep.at = "intents" /\ sweep.todo = <<>>
  /\ sweep' = IF Room = 0 THEN NoSweep
              ELSE [sweep EXCEPT !.at = "jobs",
                                 !.todo = SelectSeq(Oldest(unindexed, Room),
                                                    LAMBDA i : i \notin sweep.tried)]
  /\ UNCHANGED <<lines, setbacks>>

\* processIndexJob: it ends, or fails and waits, or cannot be claimed.
TakeJob ==
  LET i == Head(sweep.todo) IN
  /\ sweep.at = "jobs" /\ sweep.todo # <<>>
  /\ \/ i \notin Blocked /\ unindexed' = Leaves(unindexed, i) /\ UNCHANGED setbacks
     \/ /\ i \notin Blocked /\ i \in ToSet(unindexed) /\ setbacks < MaxSetbacks
        /\ unindexed' = ToEnd(unindexed, i) /\ setbacks' = setbacks + 1
     \/ i \in Blocked /\ UNCHANGED <<unindexed, setbacks>>
  /\ sweep' = [sweep EXCEPT !.todo = Tail(@)]
  /\ UNCHANGED <<unresumed, written, arrived>>

EndSweep ==
  /\ sweep.at = "jobs" /\ sweep.todo = <<>>
  /\ sweep' = NoSweep
  /\ UNCHANGED <<lines, setbacks>>

Sweeps ==
  \/ StartSweep \/ ListJobs \/ TakeJob \/ EndSweep
  \/ \E i \in Intents : ResumeIntent(i) \/ ResumeUnindexed(i) \/ FailIntent(i)

SweepNext ==
  \/ Sweeps
  \/ \E i \in Intents : InsertIntent(i) \/ PublishAgain(i)

SweepSpec == SweepInit /\ [][SweepNext]_sweepVars

\* An administrator calls it again and again.
SweepFairness == WF_sweepVars(Sweeps)

-----------------------------------------------------------------------------
\* Recovery reaches everything: as long as fewer intents and jobs fail for good
\* than a call takes up, every other intent is published and its job ends.
RecoveryReachesAll ==
  \A i \in Intents :
    /\ i \in ToSet(unresumed) /\ i \notin Hopeless ~> i \notin ToSet(unresumed)
    /\ i \in ToSet(unindexed) /\ i \notin Blocked ~> i \notin ToSet(unindexed)
=============================================================================
