----------------------------- MODULE Membership -----------------------------
(***************************************************************************)
(* Who becomes a member, and how: logins with a GitHub or WeChat identity, *)
(* registrations with an invitation code, the sharing codes of members and *)
(* the status an administrator gives a contributor.  Code: src/src/members *)
(* /service.ts and repository.ts, src/src/invitations/service.ts and       *)
(* repository.ts, and register of src/src/password/service.ts with         *)
(* insertMember of its repository.                                         *)
(*                                                                         *)
(* A request is one call of a service; each step of it is one statement or *)
(* one batch of D1, which runs alone.  A request that dies takes no more   *)
(* steps.  The row a request inserts has the request's name for its id, as *)
(* every request draws a fresh one.                                        *)
(***************************************************************************)
EXTENDS Naturals, Sequences, FiniteSets, Requests

CONSTANTS
  Founder,            \* a member that may exist before the first request
  Identities,         \* subjects of GitHub and WeChat accounts
  WeChat,             \* those of them that are WeChat accounts
  Bootstrap,          \* the email and the WeChat subject configured to become administrator
  Emails,
  EmailsOf,           \* the emails an identity may come with: a GitHub account's primary
                      \* email may change between logins
  Codes,              \* the invitation codes that can be drawn
  RegistrationLimit,  \* registrations an address may try in an hour
  CodeAttempts        \* codes drawn before an invitation gives up

VARIABLES
  row,       \* members
  invitation,\* invitations, by code
  attempts,  \* password_registration_attempts of the one address
  trail      \* member.status_updated audits of each member, in order

stores == <<row, invitation, attempts, trail>>
membershipVars == <<stores, request>>

Members == Requests \cup {Founder}
Statuses == {"active", "disabled"}

RowType ==
  [sub : Identities \cup Members, email : Emails,
   role : {"admin", "contributor"}, status : Statuses]

InvitationType == [owner : Members \cup {None}, bound : Members \cup {None}]

ASSUME MembershipAssumption ==
  /\ IsFiniteSet(Requests) /\ Founder \notin Requests
  /\ Identities \cap Members = {}
  /\ EmailsOf \in [Identities -> SUBSET Emails]
  /\ RegistrationLimit \in Nat /\ CodeAttempts \in Nat \ {0}
  /\ None \notin RowType \cup InvitationType

MembershipSteps ==
  {"new", "subject", "email", "admin", "insert", "recover", "again", "link", "linked",
   "relink", "current", "count", "lookup", "create", "target", "reread", "write",
   "converge", "owned", "draw", "winner"}

MembershipAnswers ==
  {"ok", "conflict", "disabled", "error", "taken", "limited", "invalid", "missing", "protected"}

MembershipRequest ==
  [op : {"none", "identity", "register", "status", "invite"}, at : MembershipSteps \cup MembershipAnswers,
   who : Identities \cup {None},      \* the identity of a login
   email : Emails \cup {None},
   code : Codes \cup {None},          \* the code of a registration, or the answer of an invitation
   member : Members \cup {None},      \* the member acted upon, or admitted
   saw : Identities \cup Members \cup {None},     \* its subject, when it was read
   role : {"admin", "contributor"},   \* the role a login inserts
   to : Statuses,                     \* the status to set
   tries : 0..CodeAttempts]

MembershipTypeOK ==
  /\ row \in [Members -> RowType \cup {None}]
  /\ invitation \in [Codes -> InvitationType \cup {None}]
  /\ attempts \in 0..Cardinality(Requests)
  /\ trail \in [Members -> Seq(Statuses)]
  /\ request \in [Requests -> MembershipRequest]

NoCall ==
  [op |-> "none", at |-> "new", who |-> None, email |-> None, code |-> None,
   member |-> None, saw |-> None, role |-> "contributor", to |-> "active", tries |-> 0]

NewRow(sub, email, role) == [sub |-> sub, email |-> email, role |-> role, status |-> "active"]

\* The founder registered with a password.
MembershipInit ==
  /\ \E founder \in {None} \cup {NewRow(Founder, e, "contributor") : e \in Emails} :
       row = [m \in Members |-> IF m = Founder THEN founder ELSE None]
  /\ invitation = [c \in Codes |-> None]
  /\ attempts = 0
  /\ trail = [m \in Members |-> <<>>]
  /\ request = [r \in Requests |-> NoCall]

Rows == {m \in Members : row[m] # None}
BySubject(i) == {m \in Rows : row[m].sub = i}
ByEmail(e) == {m \in Rows : row[m].email = e}
ActiveAdmins == {m \in Rows : row[m].role = "admin" /\ row[m].status = "active"}
Owned(m) == {c \in Codes : invitation[c] # None /\ invitation[c].owner = m}

-----------------------------------------------------------------------------
(* resolveGitHubLogin and resolveWeChatLogin. *)

\* resolveExisting: the row as it was read decides.
Admit(r, m) ==
  Do(r, [request[r] EXCEPT !.at = IF row[m].status = "active" THEN "ok" ELSE "disabled",
                           !.member = m])

\* The email is what the provider says this time.
IdentityLogin(r, i, e) ==
  /\ At(r, "new")
  /\ Do(r, [NoCall EXCEPT !.op = "identity", !.at = "subject", !.who = i, !.email = e])
  /\ UNCHANGED stores

\* A row found by its subject is not compared with the email, nor updated.
FindSubject(r) ==
  /\ At(r, "subject")
  /\ \/ \E m \in BySubject(request[r].who) : Admit(r, m)
     \/ BySubject(request[r].who) = {} /\ Go(r, "email")
  /\ UNCHANGED stores

FindEmail(r) ==
  /\ At(r, "email")
  /\ \/ \E m \in ByEmail(request[r].email) :
          Do(r, [request[r] EXCEPT !.at = IF row[m].status = "active" THEN "link" ELSE "disabled",
                                   !.member = m, !.saw = row[m].sub])
     \/ ByEmail(request[r].email) = {} /\ Go(r, "admin")
  /\ UNCHANGED stores

\* The configuration names the administrator's email, or the WeChat subject.
IsBootstrap(r) ==
  IF request[r].who \in WeChat THEN request[r].who \in Bootstrap
                              ELSE request[r].email \in Bootstrap

ReadAdmin(r) ==
  /\ At(r, "admin")
  /\ Do(r, [request[r] EXCEPT
              !.at = "insert",
              !.role = IF ActiveAdmins = {} /\ IsBootstrap(r)
                       THEN "admin" ELSE "contributor"])
  /\ UNCHANGED stores

\* Mutant: emails are not unique among members.
EmailFreeAlways(e) == e \in Emails

\* The unique index members_canonical_email.
EmailFree(e) == ByEmail(e) = {}

\* Where each constraint an insert breaks sends the request; when it breaks
\* both, the database reports either.
InsertConflicts(r) ==
  (IF BySubject(request[r].who) # {} \/ ~EmailFree(request[r].email) THEN {"recover"} ELSE {})
    \cup (IF request[r].role = "admin" /\ ActiveAdmins # {} THEN {"again"} ELSE {})

InsertMember(r) ==
  /\ At(r, "insert")
  /\ \/ /\ InsertConflicts(r) = {}
        /\ row' = [row EXCEPT ![r] = NewRow(request[r].who, request[r].email, request[r].role)]
        /\ Do(r, [request[r] EXCEPT !.at = "ok", !.member = r])
     \/ \E next \in InsertConflicts(r) : Go(r, next) /\ UNCHANGED row
  /\ UNCHANGED <<invitation, attempts, trail>>

\* After a conflict about the identity: whoever has the subject is the member.
Recover(r) ==
  /\ At(r, "recover")
  /\ \/ \E m \in BySubject(request[r].who) : Admit(r, m)
     \/ BySubject(request[r].who) = {} /\ Go(r, "conflict")
  /\ UNCHANGED stores

\* Mutant: an identity that lost the race for administrator is refused.
AgainRefuses(r) ==
  /\ At(r, "again")
  /\ \/ \E m \in BySubject(request[r].who) : Admit(r, m)
     \/ BySubject(request[r].who) = {} /\ Go(r, "conflict")
  /\ UNCHANGED stores

\* After a conflict about the administrator: inserted again as a contributor.
Again(r) ==
  /\ At(r, "again")
  /\ \/ \E m \in BySubject(request[r].who) : Admit(r, m)
     \/ /\ BySubject(request[r].who) = {}
        /\ Do(r, [request[r] EXCEPT !.at = "insert", !.role = "contributor"])
  /\ UNCHANGED stores

\* linkExistingIdentity.  The audit of a link demands the provider github, so
\* a WeChat identity whose email is taken ends in a TypeError.
Link(r) ==
  LET m == request[r].member
      matches == row[m].sub = request[r].saw /\ row[m].status = "active"
      free == BySubject(request[r].who) \subseteq {m}
  IN  /\ At(r, "link")
      /\ \/ request[r].who \in WeChat /\ Go(r, "error") /\ UNCHANGED row
         \/ /\ request[r].who \notin WeChat /\ matches /\ free
            /\ row' = [row EXCEPT ![m].sub = request[r].who]
            /\ Go(r, "linked")
         \/ /\ request[r].who \notin WeChat /\ ~(matches /\ free)
            /\ Go(r, "relink") /\ UNCHANGED row
      /\ UNCHANGED <<invitation, attempts, trail>>

ReadLinked(r) ==
  /\ At(r, "linked")
  /\ Admit(r, request[r].member)
  /\ UNCHANGED stores

\* resolveConcurrentIdentityLink
Relink(r) ==
  /\ At(r, "relink")
  /\ \/ \E m \in BySubject(request[r].who) :
          IF m = request[r].member THEN Admit(r, m) ELSE Go(r, "conflict")
     \/ BySubject(request[r].who) = {} /\ Go(r, "current")
  /\ UNCHANGED stores

ReadCurrent(r) ==
  /\ At(r, "current")
  /\ Go(r, IF row[request[r].member].status = "active" THEN "conflict" ELSE "disabled")
  /\ UNCHANGED stores

-----------------------------------------------------------------------------
(* register. *)

Register(r, e, c) ==
  /\ At(r, "new")
  /\ Do(r, [NoCall EXCEPT !.op = "register", !.at = "count", !.email = e, !.code = c])
  /\ UNCHANGED stores

CountAttempts(r) ==
  /\ At(r, "count")
  /\ Go(r, IF attempts >= RegistrationLimit THEN "limited" ELSE "lookup")
  /\ UNCHANGED stores

LookupEmail(r) ==
  /\ At(r, "lookup")
  /\ Go(r, IF EmailFree(request[r].email) THEN "create" ELSE "taken")
  /\ UNCHANGED stores

Unused(c) == invitation[c] # None /\ invitation[c].bound = None

\* The batch of insertMember: the member, the claim of the code and the
\* attempt.  A code that is gone inserts no member, but the attempt counts; a
\* taken email throws, and nothing of the batch remains.
CreateMember(r) ==
  /\ At(r, "create")
  /\ LET c == request[r].code IN
     IF ~Unused(c)
     THEN Go(r, "invalid") /\ attempts' = attempts + 1 /\ UNCHANGED <<row, invitation>>
     ELSE IF ~EmailFree(request[r].email)
          THEN Go(r, "taken") /\ UNCHANGED <<row, invitation, attempts>>
          ELSE /\ row' = [row EXCEPT ![r] = NewRow(r, request[r].email, "contributor")]
               /\ invitation' = [invitation EXCEPT ![c].bound = r]
               /\ attempts' = attempts + 1
               /\ Go(r, "ok")
  /\ UNCHANGED trail

-----------------------------------------------------------------------------
(* setContributorStatus, asked by the administrator. *)

\* The precondition of the caller is the status it was shown, or none.
SetStatus(r, m, to) ==
  /\ At(r, "new")
  /\ Do(r, [NoCall EXCEPT !.op = "status", !.at = "target", !.member = m, !.to = to])
  /\ UNCHANGED stores

ReadTarget(r) ==
  LET m == request[r].member IN
  /\ At(r, "target")
  /\ \/ row[m] = None /\ Go(r, "missing")
     \/ row[m] # None /\ row[m].role = "admin" /\ Go(r, "protected")
     \/ row[m] # None /\ row[m].role # "admin" /\ row[m].status = request[r].to /\ Go(r, "ok")
     \/ row[m] # None /\ row[m].role # "admin" /\ row[m].status # request[r].to
        /\ \E next \in {"reread", "conflict"} : Go(r, next)
  /\ UNCHANGED stores

\* The status expected is the one read: the two statuses differ from `to`.
StatusMatches(r) ==
  LET m == request[r].member IN row[m].role = "contributor" /\ row[m].status # request[r].to

ReadAgain(r) ==
  /\ At(r, "reread")
  /\ Go(r, IF StatusMatches(r) THEN "write" ELSE "converge")
  /\ UNCHANGED stores

\* Mutant: the status is written whatever it has become.
WriteAlways(r) ==
  LET m == request[r].member IN
  /\ At(r, "write")
  /\ row' = [row EXCEPT ![m].status = request[r].to]
  /\ trail' = [trail EXCEPT ![m] = Append(@, request[r].to)]
  /\ Go(r, "ok")
  /\ UNCHANGED <<invitation, attempts>>

WriteStatus(r) ==
  LET m == request[r].member IN
  /\ At(r, "write")
  /\ IF StatusMatches(r)
     THEN /\ row' = [row EXCEPT ![m].status = request[r].to]
          /\ trail' = [trail EXCEPT ![m] = Append(@, request[r].to)]
          /\ Go(r, "ok")
     ELSE Go(r, "converge") /\ UNCHANGED <<row, trail>>
  /\ UNCHANGED <<invitation, attempts>>

Converge(r) ==
  /\ At(r, "converge")
  /\ Go(r, IF row[request[r].member].status = request[r].to THEN "ok" ELSE "conflict")
  /\ UNCHANGED stores

-----------------------------------------------------------------------------
(* ensureMemberInvitation: the one code a member may share. *)

Invite(r, m) ==
  /\ At(r, "new") /\ m \in Rows
  /\ Do(r, [NoCall EXCEPT !.op = "invite", !.at = "owned", !.member = m])
  /\ UNCHANGED stores

AnswerCode(r, c) == Do(r, [request[r] EXCEPT !.at = "ok", !.code = c])

FindOwned(r) ==
  /\ At(r, "owned")
  /\ \/ \E c \in Owned(request[r].member) : AnswerCode(r, c)
     \/ Owned(request[r].member) = {} /\ Go(r, "draw")
  /\ UNCHANGED stores

\* The unique index invitations_member_owner_unique.
OwnerFree(m) == Owned(m) = {}

\* Mutant: codes are drawn for as long as they collide.
NextDrawForEver(r) ==
  Do(r, [request[r] EXCEPT !.at = "draw", !.tries = @ + 1])

NextDraw(r) ==
  Do(r, [request[r] EXCEPT !.tries = @ + 1,
                           !.at = IF request[r].tries + 1 = CodeAttempts
                                  THEN "error" ELSE "draw"])

\* A code is drawn; the insert breaks the index on codes, the one on owners,
\* or both, and then either is reported.
DrawCode(r, c) ==
  LET m == request[r].member IN
  /\ At(r, "draw")
  /\ \/ /\ invitation[c] = None /\ OwnerFree(m)
        /\ invitation' = [invitation EXCEPT ![c] = [owner |-> m, bound |-> None]]
        /\ AnswerCode(r, c)
     \/ invitation[c] # None /\ NextDraw(r) /\ UNCHANGED invitation
     \/ ~OwnerFree(m) /\ Go(r, "winner") /\ UNCHANGED invitation
  /\ UNCHANGED <<row, attempts, trail>>

ReadWinner(r) ==
  /\ At(r, "winner")
  /\ \/ \E c \in Owned(request[r].member) : AnswerCode(r, c)
     \/ Owned(request[r].member) = {} /\ NextDraw(r)
  /\ UNCHANGED stores

\* insertAdminInvitation: each code an administrator asks for is an insert of
\* its own, drawn again while it collides.
IssueCode(c) ==
  /\ invitation[c] = None
  /\ invitation' = [invitation EXCEPT ![c] = [owner |-> None, bound |-> None]]
  /\ UNCHANGED <<row, attempts, trail, request>>

-----------------------------------------------------------------------------
MembershipNext ==
  \/ \E c \in Codes : IssueCode(c)
  \/ \E r \in Requests :
       \/ \E i \in Identities : \E e \in EmailsOf[i] : IdentityLogin(r, i, e)
       \/ FindSubject(r) \/ FindEmail(r) \/ ReadAdmin(r) \/ InsertMember(r)
       \/ Recover(r) \/ Again(r) \/ Link(r) \/ ReadLinked(r) \/ Relink(r) \/ ReadCurrent(r)
       \/ \E e \in Emails, c \in Codes : Register(r, e, c)
       \/ CountAttempts(r) \/ LookupEmail(r) \/ CreateMember(r)
       \/ \E m \in Members, to \in Statuses : SetStatus(r, m, to)
       \/ ReadTarget(r) \/ ReadAgain(r) \/ WriteStatus(r) \/ Converge(r)
       \/ \E m \in Members : Invite(r, m)
       \/ FindOwned(r) \/ (\E c \in Codes : DrawCode(r, c)) \/ ReadWinner(r)

MembershipSpec == MembershipInit /\ [][MembershipNext]_membershipVars

-----------------------------------------------------------------------------
Admitted(r) == request[r].op = "identity" /\ At(r, "ok")

\* A login of this identity, whatever became of it, came with this email.
Came(i, e) ==
  \E q \in Requests : request[q].op = "identity" /\ request[q].who = i /\ request[q].email = e

\* One person is one member, however first logins, links and registrations
\* race.  Whoever a login is admitted as has an email its identity has come
\* with, this time or before; and identities that only ever came with one email
\* are admitted as one member, the one that has it.
OnePersonOneMember ==
  \A r \in Requests : Admitted(r) =>
    /\ \E m \in Rows : m = request[r].member /\ Came(request[r].who, row[m].email)
    /\ \A q \in Requests :
         /\ Admitted(q)
         /\ \A e \in Emails :
              Came(request[r].who, e) \/ Came(request[q].who, e) => e = request[r].email
         => request[q].member = request[r].member

\* The look that decides that a login has an identity conflict finds a member
\* with an email of its identity under another subject: losing a race to a login
\* of its own identity, or the place of administrator to another, is never the
\* reason.
ConflictIsExplained ==
  [][\A r \in Requests :
       /\ request[r].op = "identity"
       /\ request[r].at \notin {"current", "conflict"}
       /\ request'[r].at \in {"current", "conflict"}
       => \E m \in Rows :
            row[m].sub # request[r].who /\ Came(request[r].who, row[m].email)]_membershipVars

\* The audit of a member's status tells every change, once and in order: its
\* entries alternate, starting from active, and end with the member's status.
TrailIsTrue ==
  \A m \in Rows :
    LET told == <<"active">> \o trail[m] IN
    /\ \A k \in 1..Len(trail[m]) : told[k] # told[k + 1]
    /\ told[Len(told)] = row[m].status
=============================================================================
