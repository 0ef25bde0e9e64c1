----------------------------- MODULE MCServices -----------------------------
(***************************************************************************)
(* An instance of the modules of the services for TLC.  What two of them   *)
(* share, the status of a member or the tasks of a promotion, each changes *)
(* by itself at any time, so a behaviour has requests of one of them, and  *)
(* the others keep still.                                                  *)
(***************************************************************************)
EXTENDS Membership, PasswordAccess, Tasks, Inbox, ChatTurns, AgentSession, Submissions, Reparse,
        Connectors, Menus, Collections, TLC

CONSTANTS g, h, w, e1, e2, e3, x, y, z

\* Two GitHub accounts that share an email, which one of them may change for
\* another, and a WeChat account.
Email == (g :> {e1, e3}) @@ (h :> {e1}) @@ (w :> {e2})

\* Two submissions of the same content, and another one.
Content == (x :> x) @@ (y :> x) @@ (z :> z)

\* The session of the connector's member ends at the first tick.
SessionEnd == [l \in Logins |-> 1]

VARIABLE part

mcVars ==
  <<part, stores, access, board, inbox, conversation, session, sources, reparsing, authority,
    menus, shelving, request>>

NoMembership ==
  /\ row = [m \in Members |-> None] /\ invitation = [c \in Codes |-> None]
  /\ attempts = 0 /\ trail = [m \in Members |-> <<>>]

NoAccess ==
  /\ now = 0 /\ record = First /\ word = [r \in Records |-> None]
  /\ failures = 0 /\ lockedUntil = None /\ missed = <<>> /\ active = TRUE
  /\ sessions = {} /\ switches = 0

NoTasks ==
  /\ clock = 0 /\ task = None /\ receipt = FALSE
  /\ pending = {} /\ delivered = {} /\ notices = {}

NoInbox == inboxClock = 0 /\ item = None /\ tasks = {}

NoChat ==
  /\ turn = None /\ cancel = FALSE /\ messages = <<>>
  /\ turnReceipt = [k \in Keys |-> None]

NoSession == turns = [r \in Requests |-> None] /\ transcript = <<>>

NoSubmissions ==
  /\ submission = [r \in Requests |-> None] /\ spaceActive = TRUE
  /\ published = [r \in Requests |-> None]

NoReparsing == reparse = None /\ promoted = None

NoConnectors ==
  /\ moment = 0 /\ present = FALSE /\ signedIn = {} /\ granted = FALSE
  /\ head = None /\ lease = None /\ issued = {}
  /\ slip = [o \in Operations |-> None]
  /\ used = [o \in Operations |-> None]

NoMenus ==
  /\ menu = [i \in MenuIds |-> None] /\ creation = [k \in MenuKeys |-> None]
  /\ removal = {}

NoCollections ==
  /\ collection = [i \in CollectionIds |-> None]
  /\ receipts = [k \in RequestKeys |-> None]

NoGovernance == NoConnectors /\ NoMenus /\ NoCollections

NoMember == NoMembership /\ NoAccess

NoWork == NoTasks /\ NoInbox

NoTalk == NoChat /\ NoSession

NoSources == NoSubmissions /\ NoReparsing

Init ==
  \/ /\ NoGovernance
     /\ \/ part = "membership" /\ MembershipInit /\ NoAccess /\ NoWork /\ NoTalk /\ NoSources
        \/ part = "access" /\ AccessInit /\ NoMembership /\ NoWork /\ NoTalk /\ NoSources
        \/ part = "tasks" /\ TasksInit /\ NoInbox /\ NoMember /\ NoTalk /\ NoSources
        \/ part = "inbox" /\ InboxInit /\ NoTasks /\ NoMember /\ NoTalk /\ NoSources
        \/ part = "chat" /\ ChatInit /\ NoSession /\ NoMember /\ NoWork /\ NoSources
        \/ part = "agent" /\ AgentInit /\ NoChat /\ NoMember /\ NoWork /\ NoSources
        \/ part = "submissions" /\ SubmissionsInit /\ NoReparsing /\ NoMember /\ NoWork /\ NoTalk
        \/ part = "reparse" /\ ReparseInit /\ NoSubmissions /\ NoMember /\ NoWork /\ NoTalk
  \/ /\ NoMember /\ NoWork /\ NoTalk /\ NoSources
     /\ \/ part = "connectors" /\ ConnectorsInit /\ NoMenus /\ NoCollections
        \/ part = "menus" /\ MenusInit /\ NoConnectors /\ NoCollections
        \/ part = "collections" /\ CollectionsInit /\ NoConnectors /\ NoMenus

people == <<stores, access>>
work == <<board, inbox>>
talk == <<conversation, session>>
stock == <<sources, reparsing>>
governance == <<authority, menus, shelving>>

Next ==
  \/ part = "membership" /\ MembershipNext /\ UNCHANGED <<part, access, work, talk, stock, governance>>
  \/ part = "access" /\ AccessNext /\ UNCHANGED <<part, stores, work, talk, stock, governance>>
  \/ part = "tasks" /\ TasksNext /\ UNCHANGED <<part, inbox, people, talk, stock, governance>>
  \/ part = "inbox" /\ InboxNext /\ UNCHANGED <<part, board, people, talk, stock, governance>>
  \/ part = "chat" /\ ChatNext /\ UNCHANGED <<part, session, people, work, stock, governance>>
  \/ part = "agent" /\ AgentNext /\ UNCHANGED <<part, conversation, people, work, stock, governance>>
  \/ part = "submissions" /\ SubmissionsNext /\ UNCHANGED <<part, reparsing, people, work, talk, governance>>
  \/ part = "reparse" /\ ReparseNext /\ UNCHANGED <<part, sources, people, work, talk, governance>>
  \/ part = "connectors" /\ ConnectorsNext /\ UNCHANGED <<part, people, work, talk, stock, menus, shelving>>
  \/ part = "menus" /\ MenusNext /\ UNCHANGED <<part, people, work, talk, stock, authority, shelving>>
  \/ part = "collections" /\ CollectionsNext /\ UNCHANGED <<part, people, work, talk, stock, authority, menus>>

Spec == Init /\ [][Next]_mcVars

\* The types of the rows and of the requests of the part that runs.
TypeOK ==
  /\ part = "membership" => MembershipTypeOK
  /\ part = "access" => AccessTypeOK
  /\ part = "tasks" => TasksTypeOK
  /\ part = "inbox" => InboxTypeOK
  /\ part = "chat" => ChatTypeOK
  /\ part = "agent" => AgentTypeOK
  /\ part = "submissions" => SubmissionsTypeOK
  /\ part = "reparse" => ReparseTypeOK
  /\ part = "connectors" => ConnectorsTypeOK
  /\ part = "menus" => MenusTypeOK
  /\ part = "collections" => CollectionsTypeOK

Symmetry == Permutations(Requests) \cup Permutations({x, y})
=============================================================================
