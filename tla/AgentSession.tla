---------------------------- MODULE AgentSession ----------------------------
(***************************************************************************)
(* The turns of one agent session, a Durable Object, and the requests that *)
(* stream answers into it.  Code: src/src/agent/session-do.ts, and         *)
(* startAgentTurn, runAgentTurn and agentStreamResponse of                 *)
(* src/src/routes/agent.ts.                                                *)
(*                                                                         *)
(* A call of the object runs alone; a request is a sequence of calls, with *)
(* the generation between them.  A turn has the name of the request that   *)
(* started it.  A request that dies takes no more steps.                   *)
(***************************************************************************)
EXTENDS Naturals, Sequences, Requests

CONSTANT Prompts  \* what is asked

VARIABLES
  turns,      \* agent_session_turns
  transcript  \* agent_session_messages: whose question or answer, of which turn

session == <<turns, transcript>>
agentVars == <<session, request>>

AgentTurnType == [question : Prompts, status : {"active", "completed", "terminated"}]

AgentMessageType == [role : {"user", "assistant"}, turn : Requests, author : Requests]

ASSUME AgentAssumption == None \notin Requests \cup AgentTurnType

AgentRequest ==
  [op : {"none", "stream"},
   at : {"new", "start", "terminate", "restart", "generate", "complete", "abandon",
         "ok", "error"},
   question : Prompts \cup {None},
   turn : Requests \cup {None}]  \* the turn it answers, or has to end first

AgentTypeOK ==
  /\ turns \in [Requests -> AgentTurnType \cup {None}]
  /\ transcript \in Seq(AgentMessageType)
  /\ request \in [Requests -> AgentRequest]

NoPrompt == [op |-> "none", at |-> "new", question |-> None, turn |-> None]

AgentInit ==
  /\ turns = [r \in Requests |-> None]
  /\ transcript = <<>>
  /\ request = [r \in Requests |-> NoPrompt]

Active == {t \in Requests : turns[t] # None /\ turns[t].status = "active"}

Stream(r, q) ==
  /\ At(r, "new")
  /\ Do(r, [NoPrompt EXCEPT !.op = "stream", !.at = "start", !.question = q])
  /\ UNCHANGED session

-----------------------------------------------------------------------------
(* The object. *)

Message(role, t, r) == [role |-> role, turn |-> t, author |-> r]

\* startTurn: the active turn, whatever its question, or a new one.
Begin(r, t) ==
  IF Active # {}
  THEN t \in Active /\ UNCHANGED session
  ELSE /\ t = r
       /\ turns' = [turns EXCEPT ![r] = [question |-> request[r].question, status |-> "active"]]
       /\ transcript' = Append(transcript, Message("user", r, r))

\* Mutant: a turn is terminated although it is completed.
TerminatedAlways(t) == [turns EXCEPT ![t].status = "terminated"]

\* terminateTurn
Terminated(t) == IF t \in Active THEN [turns EXCEPT ![t].status = "terminated"] ELSE turns

Stores(t) == turns[t].status = "active"

-----------------------------------------------------------------------------
(* The requests. *)

\* startAgentTurn: a turn with the same question is joined, another is ended.
StartStream(r) ==
  /\ At(r, "start")
  /\ \E t \in Requests :
       /\ Begin(r, t)
       /\ Do(r, [request[r] EXCEPT !.turn = t,
                                   !.at = IF turns'[t].question = request[r].question
                                          THEN "generate" ELSE "terminate"])

EndOther(r) ==
  /\ At(r, "terminate")
  /\ turns' = Terminated(request[r].turn)
  /\ Go(r, "restart")
  /\ UNCHANGED transcript

\* The question of the turn that is found is not looked at again.
Restart(r) ==
  /\ At(r, "restart")
  /\ \E t \in Requests : Begin(r, t) /\ Do(r, [request[r] EXCEPT !.turn = t, !.at = "generate"])

\* The generation, which may fail, or the client may have gone.
GenerateAnswer(r) ==
  /\ At(r, "generate")
  /\ Go(r, "complete") \/ Go(r, "abandon")
  /\ UNCHANGED session

\* completeTurn: a turn that is completed already answers as if it had been now.
CompleteTurn(r) ==
  LET t == request[r].turn IN
  /\ At(r, "complete")
  /\ IF Stores(t)
     THEN /\ transcript' = Append(transcript, Message("assistant", t, r))
          /\ turns' = [turns EXCEPT ![t].status = "completed"]
     ELSE UNCHANGED session
  /\ Go(r, IF turns[t].status = "terminated" THEN "abandon" ELSE "ok")

\* After any failure the turn is ended, whoever else answers it.
Abandon(r) ==
  /\ At(r, "abandon")
  /\ turns' = Terminated(request[r].turn)
  /\ Go(r, "error")
  /\ UNCHANGED transcript

\* The member ends a turn it was told of.
TerminateTurn(t) ==
  /\ t \in Active
  /\ turns' = Terminated(t)
  /\ UNCHANGED <<transcript, request>>

AgentNext ==
  \E r \in Requests :
    \/ \E q \in Prompts : Stream(r, q)
    \/ StartStream(r) \/ EndOther(r) \/ Restart(r)
    \/ GenerateAnswer(r) \/ CompleteTurn(r) \/ Abandon(r)
    \/ TerminateTurn(r)

AgentSpec == AgentInit /\ [][AgentNext]_agentVars

-----------------------------------------------------------------------------
Said(role, t) == {i \in DOMAIN transcript : transcript[i].role = role /\ transcript[i].turn = t}

\* A turn is asked once and answered at most once, in this order: it is completed
\* exactly when its answer is stored, and one that was terminated stays without,
\* whatever the requests that share it go on to do.  A client that is shown an
\* answer has a turn that stays completed: neither the failure of another request
\* that shares it nor a termination takes it back.
OneAnswerPerTurn ==
  /\ \A t \in Requests :
       /\ turns[t] # None <=> \E i \in DOMAIN transcript : Said("user", t) = {i}
       /\ IF turns[t] # None /\ turns[t].status = "completed"
          THEN \E i, j \in DOMAIN transcript :
                 i < j /\ Said("user", t) = {i} /\ Said("assistant", t) = {j}
          ELSE Said("assistant", t) = {}
  /\ \A r \in Requests :
       request[r].op = "stream" /\ At(r, "ok") => turns[request[r].turn].status = "completed"

\* A client that is shown an answer finds it in the transcript: the answer of a
\* request is stored before the client is shown it.
AnswerShownIsStored ==
  \A r \in Requests :
    request[r].op = "stream" /\ At(r, "ok")
      => \E i \in DOMAIN transcript : transcript[i] = Message("assistant", request[r].turn, r)
=============================================================================
