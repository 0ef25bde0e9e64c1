--------------------------- MODULE Services_proofs ---------------------------
(***************************************************************************)
(* The services side by side: a behaviour of them all is a behaviour of    *)
(* the one that runs, so that what is proved of each by itself is so of    *)
(* them together.                                                          *)
(*                                                                         *)
(* The part that runs never changes.  A step of it is a step of its        *)
(* module, and the steps of the other parts leave its variables alone,     *)
(* as none is taken.                                                       *)
(***************************************************************************)
EXTENDS MCServices, Work_proofs, Governance_proofs

Runs(p) == part = p

LEMMA MembershipPart ==
  /\ Spec /\ Runs("membership") => MembershipSpec
  /\ Spec => [](Runs("membership") => MembershipTypeOK)
<1>1. Init /\ Runs("membership") => MembershipInit
  BY DEF Init, Runs
<1>2. Runs("membership") /\ [Next]_mcVars => [MembershipNext]_membershipVars
  BY DEF Next, mcVars, membershipVars, Runs
<1>3. Runs("membership") /\ [Next]_mcVars => Runs("membership")'
  BY DEF Next, mcVars, Runs
<1>4. ~Runs("membership") /\ [Next]_mcVars => ~Runs("membership")'
  BY DEF Next, mcVars, Runs
<1>5. Spec /\ Runs("membership") => MembershipSpec
  BY <1>1, <1>2, <1>3, PTL DEF Spec, MembershipSpec
<1>6. Spec /\ ~Runs("membership") => []~Runs("membership")
  BY <1>4, PTL DEF Spec
<1>7. MembershipInv => MembershipTypeOK
  BY DEF MembershipInv
<1> QED
  BY <1>5, <1>6, <1>7, MembershipInvariance, PTL

LEMMA AccessPart ==
  /\ Spec /\ Runs("access") => AccessSpec
  /\ Spec => [](Runs("access") => AccessTypeOK)
<1>1. Init /\ Runs("access") => AccessInit
  BY DEF Init, Runs
<1>2. Runs("access") /\ [Next]_mcVars => [AccessNext]_accessVars
  BY DEF Next, mcVars, accessVars, Runs
<1>3. Runs("access") /\ [Next]_mcVars => Runs("access")'
  BY DEF Next, mcVars, Runs
<1>4. ~Runs("access") /\ [Next]_mcVars => ~Runs("access")'
  BY DEF Next, mcVars, Runs
<1>5. Spec /\ Runs("access") => AccessSpec
  BY <1>1, <1>2, <1>3, PTL DEF Spec, AccessSpec
<1>6. Spec /\ ~Runs("access") => []~Runs("access")
  BY <1>4, PTL DEF Spec
<1> QED
  BY <1>5, <1>6, AccessTypes, PTL

LEMMA TasksPart ==
  /\ Spec /\ Runs("tasks") => TasksSpec
  /\ Spec => [](Runs("tasks") => TasksTypeOK)
<1>1. Init /\ Runs("tasks") => TasksInit
  BY DEF Init, Runs
<1>2. Runs("tasks") /\ [Next]_mcVars => [TasksNext]_tasksVars
  BY DEF Next, mcVars, tasksVars, Runs
<1>3. Runs("tasks") /\ [Next]_mcVars => Runs("tasks")'
  BY DEF Next, mcVars, Runs
<1>4. ~Runs("tasks") /\ [Next]_mcVars => ~Runs("tasks")'
  BY DEF Next, mcVars, Runs
<1>5. Spec /\ Runs("tasks") => TasksSpec
  BY <1>1, <1>2, <1>3, PTL DEF Spec, TasksSpec
<1>6. Spec /\ ~Runs("tasks") => []~Runs("tasks")
  BY <1>4, PTL DEF Spec
<1>7. TasksInv => TasksTypeOK
  BY DEF TasksInv
<1> QED
  BY <1>5, <1>6, <1>7, TasksInvariance, PTL

LEMMA InboxPart ==
  /\ Spec /\ Runs("inbox") => InboxSpec
  /\ Spec => [](Runs("inbox") => InboxTypeOK)
<1>1. Init /\ Runs("inbox") => InboxInit
  BY DEF Init, Runs
<1>2. Runs("inbox") /\ [Next]_mcVars => [InboxNext]_inboxVars
  BY DEF Next, mcVars, inboxVars, Runs
<1>3. Runs("inbox") /\ [Next]_mcVars => Runs("inbox")'
  BY DEF Next, mcVars, Runs
<1>4. ~Runs("inbox") /\ [Next]_mcVars => ~Runs("inbox")'
  BY DEF Next, mcVars, Runs
<1>5. Spec /\ Runs("inbox") => InboxSpec
  BY <1>1, <1>2, <1>3, PTL DEF Spec, InboxSpec
<1>6. Spec /\ ~Runs("inbox") => []~Runs("inbox")
  BY <1>4, PTL DEF Spec
<1>7. InboxInv => InboxTypeOK
  BY DEF InboxInv
<1> QED
  BY <1>5, <1>6, <1>7, InboxInvariance, PTL

LEMMA ChatPart ==
  /\ Spec /\ Runs("chat") => ChatSpec
  /\ Spec => [](Runs("chat") => ChatTypeOK)
<1>1. Init /\ Runs("chat") => ChatInit
  BY DEF Init, Runs
<1>2. Runs("chat") /\ [Next]_mcVars => [ChatNext]_chatVars
  BY DEF Next, mcVars, chatVars, Runs
<1>3. Runs("chat") /\ [Next]_mcVars => Runs("chat")'
  BY DEF Next, mcVars, Runs
<1>4. ~Runs("chat") /\ [Next]_mcVars => ~Runs("chat")'
  BY DEF Next, mcVars, Runs
<1>5. Spec /\ Runs("chat") => ChatSpec
  BY <1>1, <1>2, <1>3, PTL DEF Spec, ChatSpec
<1>6. Spec /\ ~Runs("chat") => []~Runs("chat")
  BY <1>4, PTL DEF Spec
<1>7. ChatInv => ChatTypeOK
  BY DEF ChatInv
<1> QED
  BY <1>5, <1>6, <1>7, ChatInvariance, PTL

LEMMA AgentPart ==
  /\ Spec /\ Runs("agent") => AgentSpec
  /\ Spec => [](Runs("agent") => AgentTypeOK)
<1>1. Init /\ Runs("agent") => AgentInit
  BY DEF Init, Runs
<1>2. Runs("agent") /\ [Next]_mcVars => [AgentNext]_agentVars
  BY DEF Next, mcVars, agentVars, Runs
<1>3. Runs("agent") /\ [Next]_mcVars => Runs("agent")'
  BY DEF Next, mcVars, Runs
<1>4. ~Runs("agent") /\ [Next]_mcVars => ~Runs("agent")'
  BY DEF Next, mcVars, Runs
<1>5. Spec /\ Runs("agent") => AgentSpec
  BY <1>1, <1>2, <1>3, PTL DEF Spec, AgentSpec
<1>6. Spec /\ ~Runs("agent") => []~Runs("agent")
  BY <1>4, PTL DEF Spec
<1>7. AgentInv => AgentTypeOK
  BY DEF AgentInv
<1> QED
  BY <1>5, <1>6, <1>7, AgentInvariance, PTL

LEMMA SubmissionsPart ==
  /\ Spec /\ Runs("submissions") => SubmissionsSpec
  /\ Spec => [](Runs("submissions") => SubmissionsTypeOK)
<1>1. Init /\ Runs("submissions") => SubmissionsInit
  BY DEF Init, Runs
<1>2. Runs("submissions") /\ [Next]_mcVars => [SubmissionsNext]_submissionsVars
  BY DEF Next, mcVars, submissionsVars, Runs
<1>3. Runs("submissions") /\ [Next]_mcVars => Runs("submissions")'
  BY DEF Next, mcVars, Runs
<1>4. ~Runs("submissions") /\ [Next]_mcVars => ~Runs("submissions")'
  BY DEF Next, mcVars, Runs
<1>5. Spec /\ Runs("submissions") => SubmissionsSpec
  BY <1>1, <1>2, <1>3, PTL DEF Spec, SubmissionsSpec
<1>6. Spec /\ ~Runs("submissions") => []~Runs("submissions")
  BY <1>4, PTL DEF Spec
<1>7. SubmissionsInv => SubmissionsTypeOK
  BY DEF SubmissionsInv
<1> QED
  BY <1>5, <1>6, <1>7, SubmissionsInvariance, PTL

LEMMA ReparsePart ==
  /\ Spec /\ Runs("reparse") => ReparseSpec
  /\ Spec => [](Runs("reparse") => ReparseTypeOK)
<1>1. Init /\ Runs("reparse") => ReparseInit
  BY DEF Init, Runs
<1>2. Runs("reparse") /\ [Next]_mcVars => [ReparseNext]_reparseVars
  BY DEF Next, mcVars, reparseVars, Runs
<1>3. Runs("reparse") /\ [Next]_mcVars => Runs("reparse")'
  BY DEF Next, mcVars, Runs
<1>4. ~Runs("reparse") /\ [Next]_mcVars => ~Runs("reparse")'
  BY DEF Next, mcVars, Runs
<1>5. Spec /\ Runs("reparse") => ReparseSpec
  BY <1>1, <1>2, <1>3, PTL DEF Spec, ReparseSpec
<1>6. Spec /\ ~Runs("reparse") => []~Runs("reparse")
  BY <1>4, PTL DEF Spec
<1>7. ReparseInv => ReparseTypeOK
  BY DEF ReparseInv
<1> QED
  BY <1>5, <1>6, <1>7, ReparseInvariance, PTL

LEMMA ConnectorsPart ==
  /\ Spec /\ Runs("connectors") => ConnectorsSpec
  /\ Spec => [](Runs("connectors") => ConnectorsTypeOK)
<1>1. Init /\ Runs("connectors") => ConnectorsInit
  BY DEF Init, Runs
<1>2. Runs("connectors") /\ [Next]_mcVars => [ConnectorsNext]_connectorVars
  BY DEF Next, mcVars, connectorVars, Runs
<1>3. Runs("connectors") /\ [Next]_mcVars => Runs("connectors")'
  BY DEF Next, mcVars, Runs
<1>4. ~Runs("connectors") /\ [Next]_mcVars => ~Runs("connectors")'
  BY DEF Next, mcVars, Runs
<1>5. Spec /\ Runs("connectors") => ConnectorsSpec
  BY <1>1, <1>2, <1>3, PTL DEF Spec, ConnectorsSpec
<1>6. Spec /\ ~Runs("connectors") => []~Runs("connectors")
  BY <1>4, PTL DEF Spec
<1>7. ConnectorsInv => ConnectorsTypeOK
  BY DEF ConnectorsInv
<1> QED
  BY <1>5, <1>6, <1>7, ConnectorsInvariance, PTL

LEMMA MenusPart ==
  /\ Spec /\ Runs("menus") => MenusSpec
  /\ Spec => [](Runs("menus") => MenusTypeOK)
<1>1. Init /\ Runs("menus") => MenusInit
  BY DEF Init, Runs
<1>2. Runs("menus") /\ [Next]_mcVars => [MenusNext]_menuVars
  BY DEF Next, mcVars, menuVars, Runs
<1>3. Runs("menus") /\ [Next]_mcVars => Runs("menus")'
  BY DEF Next, mcVars, Runs
<1>4. ~Runs("menus") /\ [Next]_mcVars => ~Runs("menus")'
  BY DEF Next, mcVars, Runs
<1>5. Spec /\ Runs("menus") => MenusSpec
  BY <1>1, <1>2, <1>3, PTL DEF Spec, MenusSpec
<1>6. Spec /\ ~Runs("menus") => []~Runs("menus")
  BY <1>4, PTL DEF Spec
<1>7. MenuInv => MenusTypeOK
  BY DEF MenuInv
<1> QED
  BY <1>5, <1>6, <1>7, MenusInvariance, PTL

LEMMA CollectionsPart ==
  /\ Spec /\ Runs("collections") => CollectionsSpec
  /\ Spec => [](Runs("collections") => CollectionsTypeOK)
<1>1. Init /\ Runs("collections") => CollectionsInit
  BY DEF Init, Runs
<1>2. Runs("collections") /\ [Next]_mcVars => [CollectionsNext]_collectionVars
  BY DEF Next, mcVars, collectionVars, Runs
<1>3. Runs("collections") /\ [Next]_mcVars => Runs("collections")'
  BY DEF Next, mcVars, Runs
<1>4. ~Runs("collections") /\ [Next]_mcVars => ~Runs("collections")'
  BY DEF Next, mcVars, Runs
<1>5. Spec /\ Runs("collections") => CollectionsSpec
  BY <1>1, <1>2, <1>3, PTL DEF Spec, CollectionsSpec
<1>6. Spec /\ ~Runs("collections") => []~Runs("collections")
  BY <1>4, PTL DEF Spec
<1>7. CollectionInv => CollectionsTypeOK
  BY DEF CollectionInv
<1> QED
  BY <1>5, <1>6, <1>7, CollectionsInvariance, PTL

\* A behaviour of the instance is one of the services by itself, so that every
\* theorem about a service is one about the instance while that service runs.
THEOREM ServicesAreApart ==
  Spec => \/ MembershipSpec
          \/ AccessSpec
          \/ TasksSpec
          \/ InboxSpec
          \/ ChatSpec
          \/ AgentSpec
          \/ SubmissionsSpec
          \/ ReparseSpec
          \/ ConnectorsSpec
          \/ MenusSpec
          \/ CollectionsSpec
<1>1. Init => \/ Runs("membership")
              \/ Runs("access")
              \/ Runs("tasks")
              \/ Runs("inbox")
              \/ Runs("chat")
              \/ Runs("agent")
              \/ Runs("submissions")
              \/ Runs("reparse")
              \/ Runs("connectors")
              \/ Runs("menus")
              \/ Runs("collections")
  BY DEF Init, Runs
<1>2. Spec => Init
  BY DEF Spec
<1> QED
  BY <1>1, <1>2, MembershipPart, AccessPart, TasksPart, InboxPart, ChatPart,
     AgentPart, SubmissionsPart, ReparsePart, ConnectorsPart, MenusPart, CollectionsPart, PTL

\* Every service keeps the types of its rows and of its requests.
THEOREM ServicesTypes == Spec => []TypeOK
<1>1. /\ (Runs("membership") => MembershipTypeOK)
      /\ (Runs("access") => AccessTypeOK)
      /\ (Runs("tasks") => TasksTypeOK)
      /\ (Runs("inbox") => InboxTypeOK)
      /\ (Runs("chat") => ChatTypeOK)
      /\ (Runs("agent") => AgentTypeOK)
      /\ (Runs("submissions") => SubmissionsTypeOK)
      /\ (Runs("reparse") => ReparseTypeOK)
      /\ (Runs("connectors") => ConnectorsTypeOK)
      /\ (Runs("menus") => MenusTypeOK)
      /\ (Runs("collections") => CollectionsTypeOK)
      => TypeOK
  BY DEF TypeOK, Runs
<1> QED
  BY <1>1, MembershipPart, AccessPart, TasksPart, InboxPart, ChatPart,
     AgentPart, SubmissionsPart, ReparsePart, ConnectorsPart, MenusPart, CollectionsPart, PTL
=============================================================================
