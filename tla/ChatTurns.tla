------------------------------ MODULE ChatTurns ------------------------------
(***************************************************************************)
(* Turns of one conversation of a member: a question is claimed under its  *)
(* idempotency key, the conversation is taken, an answer is generated, and *)
(* the message and the receipt are stored together.  Code: runChatTurn of  *)
(* src/src/routes/library.ts, src/src/chat/turn-receipts.ts and            *)
(* repository.ts.                                                          *)
(*                                                                         *)
(* Each step of a request is one statement or batch of D1, or the          *)
(* generation, which may fail, as may the readings around it.  A turn has  *)
(* the name of the request that runs it.  A request that dies takes no     *)
(* more steps.                                                             *)
(***************************************************************************)
EXTENDS Naturals, Sequences, FiniteSets, Requests

CONSTANTS
  Keys,       \* idempotency keys
  Questions   \* what is asked, with its scope

VARIABLES
  turn,      \* active_turn_id of the conversation
  cancel,    \* whether cancel_requested_at is set
  messages,  \* the turns whose question and answer are stored, in order
  turnReceipt  \* chat_turn_requests, by key

conversation == <<turn, cancel, messages, turnReceipt>>
chatVars == <<conversation, request>>

TurnReceiptType ==
  [id : Requests, question : Questions, status : {"pending", "completed", "failed"}]

ASSUME ChatAssumption == None \notin Keys \cup Requests \cup TurnReceiptType

ChatSteps ==
  {"new", "claim", "lookup", "replay", "start", "taken", "generate", "check", "commit",
   "fail", "finish"}

ChatAnswers == {"ok", "pending", "failed", "mismatch", "busy", "cancelled", "error"}

ChatRequest ==
  [op : {"none", "chat"}, at : ChatSteps \cup ChatAnswers,
   key : Keys \cup {None},           \* None is an older client
   question : Questions \cup {None},
   answer : Requests \cup {None},    \* the turn whose answer it is given
   started : BOOLEAN,                \* whether the conversation was taken
   outcome : ChatAnswers]            \* what it will be answered after cleaning up

ChatTypeOK ==
  /\ turn \in Requests \cup {None}
  /\ cancel \in BOOLEAN
  /\ messages \in Seq(Requests)
  /\ turnReceipt \in [Keys -> TurnReceiptType \cup {None}]
  /\ request \in [Requests -> ChatRequest]

NoQuestion ==
  [op |-> "none", at |-> "new", key |-> None, question |-> None, answer |-> None,
   started |-> FALSE, outcome |-> "error"]

ChatInit ==
  /\ turn = None /\ cancel = FALSE /\ messages = <<>>
  /\ turnReceipt = [k \in Keys |-> None]
  /\ request = [r \in Requests |-> NoQuestion]

Turns(r, step) == Go(r, step) /\ UNCHANGED conversation

Ask(r, k, q) ==
  /\ At(r, "new")
  /\ Do(r, [NoQuestion EXCEPT !.op = "chat", !.at = IF k = None THEN "start" ELSE "claim",
                              !.key = k, !.question = q])
  /\ UNCHANGED conversation

-----------------------------------------------------------------------------
(* claim, and the answer to a request whose key was claimed before. *)

Receipt(r) == turnReceipt[request[r].key]

\* UNIQUE (member_id, idempotency_key)
Claimable(r) == Receipt(r) = None

Claim(r) ==
  /\ At(r, "claim")
  /\ IF Claimable(r)
     THEN /\ turnReceipt' =
               [turnReceipt EXCEPT ![request[r].key] =
                  [id |-> r, question |-> request[r].question, status |-> "pending"]]
          /\ Go(r, "start")
     ELSE Go(r, "lookup") /\ UNCHANGED turnReceipt
  /\ UNCHANGED <<turn, cancel, messages>>

Lookup(r) ==
  /\ At(r, "lookup")
  /\ Turns(r, IF Receipt(r).question # request[r].question THEN "mismatch"
              ELSE IF Receipt(r).status = "completed" THEN "replay" ELSE Receipt(r).status)

\* What the answer rests on is read again, and may not be readable any more.
Replay(r) ==
  /\ At(r, "replay")
  /\ \/ Do(r, [request[r] EXCEPT !.at = "ok", !.answer = Receipt(r).id])
     \/ Go(r, "error")
  /\ UNCHANGED conversation

-----------------------------------------------------------------------------
(* One generation. *)

\* Where a request goes that ends without an answer before it commits.
Fails(r, outcome) ==
  Do(r, [request[r] EXCEPT
           !.outcome = outcome,
           !.at = IF request[r].key # None THEN "fail"
                  ELSE IF request[r].started THEN "finish" ELSE outcome])

Free == turn = None

\* startTurn.  When its answer is lost the conversation stays taken.
StartTurn(r) ==
  /\ At(r, "start")
  /\ IF Free
     THEN /\ turn' = r /\ cancel' = FALSE
          /\ \/ Do(r, [request[r] EXCEPT !.at = "generate", !.started = TRUE])
             \/ Fails(r, "error")
     ELSE Go(r, "taken") /\ UNCHANGED <<turn, cancel>>
  /\ UNCHANGED <<messages, turnReceipt>>

ReadTaken(r) ==
  /\ At(r, "taken")
  /\ Fails(r, "busy")
  /\ UNCHANGED conversation

\* The history, the search, the generation and the readings after it.
Generate(r) ==
  /\ At(r, "generate")
  /\ Go(r, "check") \/ Fails(r, "error")
  /\ UNCHANGED conversation

\* isCancelled
Cancelled(r) == turn # r \/ cancel

CheckCancelled(r) ==
  /\ At(r, "check")
  /\ IF Cancelled(r) THEN Fails(r, "cancelled") ELSE Go(r, "commit")
  /\ UNCHANGED conversation

Ends(r, outcome) ==
  Do(r, [request[r] EXCEPT !.at = "finish", !.outcome = outcome,
                           !.answer = IF outcome = "ok" THEN r ELSE None])

\* Mutant: the receipt is completed although no message was stored.
CommitReceiptFirst(r) ==
  /\ At(r, "commit") /\ request[r].key # None
  /\ messages' = IF ~Cancelled(r) THEN Append(messages, r) ELSE messages
  /\ turnReceipt' = [turnReceipt EXCEPT ![request[r].key].status = "completed"]
  /\ Ends(r, IF Cancelled(r) THEN "cancelled" ELSE "ok")
  /\ UNCHANGED <<turn, cancel>>

\* complete: one batch.  Its answer may be lost, and the receipt is left as it
\* is then.
Commit(r) ==
  /\ At(r, "commit") /\ request[r].key # None
  /\ IF ~Cancelled(r) /\ Receipt(r).id = r /\ Receipt(r).status = "pending"
     THEN /\ messages' = Append(messages, r)
          /\ turnReceipt' = [turnReceipt EXCEPT ![request[r].key].status = "completed"]
          /\ Ends(r, "ok") \/ Ends(r, "error")
     ELSE Ends(r, "cancelled") /\ UNCHANGED <<messages, turnReceipt>>
  /\ UNCHANGED <<turn, cancel>>

\* appendTurn
AppendTurn(r) ==
  /\ At(r, "commit") /\ request[r].key = None
  /\ IF ~Cancelled(r)
     THEN messages' = Append(messages, r) /\ Ends(r, "ok")
     ELSE Ends(r, "cancelled") /\ UNCHANGED messages
  /\ UNCHANGED <<turn, cancel, turnReceipt>>

FailReceipt(r) ==
  /\ At(r, "fail")
  /\ turnReceipt' = IF Receipt(r).id = r /\ Receipt(r).status = "pending"
                    THEN [turnReceipt EXCEPT ![request[r].key].status = "failed"]
                    ELSE turnReceipt
  /\ Go(r, IF request[r].started THEN "finish" ELSE request[r].outcome)
  /\ UNCHANGED <<turn, cancel, messages>>

FinishTurn(r) ==
  /\ At(r, "finish")
  /\ IF turn = r THEN turn' = None /\ cancel' = FALSE ELSE UNCHANGED <<turn, cancel>>
  /\ Go(r, request[r].outcome)
  /\ UNCHANGED <<messages, turnReceipt>>

\* requestCancel: whatever turn runs is meant.
RequestCancel ==
  /\ turn # None /\ ~cancel
  /\ cancel' = TRUE
  /\ UNCHANGED <<turn, messages, turnReceipt, request>>

ChatNext ==
  \/ \E r \in Requests :
       \/ \E k \in Keys \cup {None}, q \in Questions : Ask(r, k, q)
       \/ Claim(r) \/ Lookup(r) \/ Replay(r)
       \/ StartTurn(r) \/ ReadTaken(r) \/ Generate(r) \/ CheckCancelled(r)
       \/ Commit(r) \/ AppendTurn(r) \/ FailReceipt(r) \/ FinishTurn(r)
  \/ RequestCancel

ChatSpec == ChatInit /\ [][ChatNext]_chatVars

-----------------------------------------------------------------------------
\* A question has one answer: its receipt is completed exactly when its turn is
\* in the conversation, where no turn is twice, and every request that was
\* given an answer under the key was given that one.  Retries, cancellations,
\* lost answers and failures do not bring the three apart.
ReceiptMatchesMessage ==
  /\ \A i, j \in DOMAIN messages : messages[i] = messages[j] => i = j
  /\ \A r \in Requests : request[r].op = "chat" /\ request[r].key # None =>
       /\ At(r, "ok") => Receipt(r).status = "completed" /\ Receipt(r).id = request[r].answer
       /\ r \in {messages[i] : i \in DOMAIN messages}
            <=> Receipt(r) # None /\ Receipt(r).id = r /\ Receipt(r).status = "completed"

Running(r) == request[r].op = "chat" /\ request[r].started /\ request[r].at \in ChatSteps

\* Turns of a conversation do not overlap: a turn has the conversation to itself
\* from the start to the end, so that its answer rests on the messages before.
TurnsDoNotOverlap == \A r \in Requests : Running(r) => turn = r
=============================================================================
