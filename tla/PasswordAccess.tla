--------------------------- MODULE PasswordAccess ---------------------------
(***************************************************************************)
(* How one member with a password gets in and is kept out: the failure     *)
(* count and the lock, the two ways to replace the password, and the       *)
(* sessions.  Code: login, resetPassword and changePassword of             *)
(* src/src/password/service.ts with their statements in repository.ts,     *)
(* src/src/identity/session.ts, and the routes that call them one after    *)
(* the other, src/src/routes/auth.ts and account.ts.                       *)
(*                                                                         *)
(* A request is one HTTP request; its steps are the statements and batches *)
(* of D1, between which others run and time may pass.  A request that dies *)
(* takes no more steps.  A password record is salted, so no two records    *)
(* are equal: a record is the request that stored it.                      *)
(***************************************************************************)
EXTENDS Naturals, Sequences, FiniteSets, Requests

CONSTANTS
  First,        \* the first record: a registration's, or none (a GitHub member)
  Passwords,
  Threshold,    \* wrong passwords before the account locks
  LockTime,     \* how long a lock lasts
  SessionLife,  \* how long a session lasts
  MaxSessions,  \* sessions a member may have
  MaxTime,      \* bound on the clock
  MaxSwitches   \* bound on the times the member is disabled or enabled

VARIABLES
  now,
  record,     \* members.password_hash: the request that stored it
  word,       \* the password each record was made from
  failures,   \* members.failed_login_count
  lockedUntil,\* members.locked_until
  missed,     \* history: the requests whose wrong passwords were counted, in that
              \* order, since the last right password or the last new one
  active,     \* members.status = 'active'
  sessions,   \* auth_sessions; a token is its request
  switches

member == <<record, word, failures, lockedUntil, missed, active>>
access == <<now, member, sessions, switches>>
accessVars == <<access, request>>

Records == Requests \cup {First}
Time == 0..(MaxTime + LockTime + SessionLife)

ASSUME AccessAssumption ==
  /\ IsFiniteSet(Requests)
  /\ Threshold \in Nat \ {0} /\ MaxTime \in Nat
  /\ MaxSessions \in Nat /\ MaxSwitches \in Nat
  /\ LockTime \in Nat /\ SessionLife \in Nat
  /\ None \notin Time

\* nth: the rowid.
SessionType == [token : Requests, expires : Time, nth : 1..Cardinality(Requests)]

AccessSteps == {"new", "read", "verify", "fail", "clear", "stamp", "open", "store", "enter",
          "own", "update", "revoke"}

AccessAnswers == {"ok", "invalid", "locked", "disabled", "conflict", "unauthenticated"}

AccessRequest ==
  [op : {"none", "password", "provider", "reset", "change"}, at : AccessSteps \cup AccessAnswers,
   try : Passwords \cup {None},     \* the password offered
   new : Passwords \cup {None},     \* the password to set
   session : Requests \cup {None},  \* the session a change comes with
   saw : Records \cup {None},       \* the record that was read
   wasActive : BOOLEAN,
   since : Time]                    \* the clock when it was read

MemberTypeOK ==
  /\ now \in 0..MaxTime
  /\ record \in Records
  /\ word \in [Records -> Passwords \cup {None}]
  /\ failures \in 0..Cardinality(Requests)
  /\ lockedUntil \in Time \cup {None}
  /\ missed \in Seq(Requests)
  /\ active \in BOOLEAN
  /\ request \in [Requests -> AccessRequest]

AccessTypeOK ==
  /\ MemberTypeOK
  /\ sessions \subseteq SessionType
  /\ switches \in 0..MaxSwitches

NoVisit ==
  [op |-> "none", at |-> "new", try |-> None, new |-> None, session |-> None,
   saw |-> None, wasActive |-> FALSE, since |-> 0]

AccessInit ==
  /\ now = 0
  /\ record = First
  /\ \E p \in Passwords \cup {None} : word = [r \in Records |-> IF r = First THEN p ELSE None]
  /\ failures = 0 /\ lockedUntil = None /\ missed = <<>> /\ active = TRUE
  /\ sessions = {} /\ switches = 0
  /\ request = [r \in Requests |-> NoVisit]

Start(r, change) ==
  /\ At(r, "new") /\ Do(r, change)
  /\ UNCHANGED access

-----------------------------------------------------------------------------
(* login, and the session that follows it. *)

Login(r, p) == Start(r, [NoVisit EXCEPT !.op = "password", !.at = "read", !.try = p])

\* The row is read once: the lock, the record and the status are judged as it
\* showed them, by the clock at its arrival.
ReadForLogin(r) ==
  /\ At(r, "read") /\ request[r].op = "password"
  /\ IF lockedUntil # None /\ lockedUntil > now
     THEN Go(r, "locked")
     ELSE IF word[record] = None
     THEN Go(r, "invalid")
     ELSE Do(r, [request[r] EXCEPT !.at = "verify", !.saw = record,
                                   !.wasActive = active, !.since = now])
  /\ UNCHANGED access

Verify(r) ==
  /\ At(r, "verify") /\ request[r].op = "password"
  /\ Go(r, IF word[request[r].saw] # request[r].try THEN "fail"
           ELSE IF request[r].wasActive THEN "clear" ELSE "disabled")
  /\ UNCHANGED access

\* Mutant: the count that locks is one too high.
LocksLate(n) == n > Threshold

Locks(n) == n >= Threshold

\* recordLoginFailure.  The count goes on when a lock has run out.
Fail(r) ==
  /\ At(r, "fail")
  /\ failures' = failures + 1
  /\ lockedUntil' = IF Locks(failures + 1) THEN request[r].since + LockTime ELSE lockedUntil
  /\ missed' = Append(missed, r)
  /\ Go(r, IF lockedUntil' # None THEN "locked" ELSE "invalid")
  /\ UNCHANGED <<now, record, word, active, sessions, switches>>

Clear(r) ==
  /\ At(r, "clear")
  /\ failures' = 0 /\ lockedUntil' = None /\ missed' = <<>>
  /\ Go(r, "stamp")
  /\ UNCHANGED <<now, record, word, active, sessions, switches>>

\* A login with a GitHub or WeChat identity that was admitted, see Membership.
Provider(r) ==
  /\ active
  /\ Start(r, [NoVisit EXCEPT !.op = "provider", !.at = "stamp"])

\* create: the time is taken before the token is hashed and stored.
Stamp(r) ==
  /\ At(r, "stamp")
  /\ Do(r, [request[r] EXCEPT !.at = "open", !.since = now])
  /\ UNCHANGED access

\* ORDER BY expires_at DESC, rowid DESC
Outlasts(s, t) == s.expires > t.expires \/ (s.expires = t.expires /\ s.nth > t.nth)

\* Those that fewer than MaxSessions outlast.
Kept(all) == {t \in all : Cardinality({s \in all : Outlasts(s, t)}) < MaxSessions}

\* The rowid of the next row is one more than the last one's.
IsNext(n) ==
  /\ \A s \in sessions : s.nth < n
  /\ n = 1 \/ \E s \in sessions : s.nth = n - 1

\* Mutant: the session is inserted for any member.
MayOpenAlways == active \in BOOLEAN

\* INSERT ... SELECT ... WHERE status = 'active'
MayOpen == active

\* A request opens one session, so there is a rowid for it.
Open(r) ==
  /\ At(r, "open")
  /\ IF MayOpen
     THEN \E n \in 1..Cardinality(Requests) :
            /\ IsNext(n)
            /\ sessions' = Kept(sessions \cup
                 {[token |-> r, expires |-> request[r].since + SessionLife, nth |-> n]})
     ELSE sessions' = Kept(sessions)
  /\ Go(r, IF MayOpen THEN "ok" ELSE "disabled")
  /\ UNCHANGED <<now, member, switches>>

-----------------------------------------------------------------------------
(* resetPassword and changePassword. *)

\* ... WHERE password_hash IS ?
Unreplaced(r) == record = request[r].saw

Replace(r) ==
  /\ record' = r
  /\ word' = [word EXCEPT ![r] = request[r].new]
  /\ failures' = 0 /\ lockedUntil' = None /\ missed' = <<>>
  /\ UNCHANGED active

\* Only requests that bring the invitation bound to the member get past the
\* reading of it, which never changes.
Reset(r, p) == Start(r, [NoVisit EXCEPT !.op = "reset", !.at = "read", !.new = p])

ReadForReset(r) ==
  /\ At(r, "read") /\ request[r].op = "reset"
  /\ \/ active /\ Do(r, [request[r] EXCEPT !.at = "store", !.saw = record])
     \/ Go(r, "invalid")
  /\ UNCHANGED access

\* One batch: the record, and every session goes with it.
StoreReset(r) ==
  /\ At(r, "store")
  /\ IF Unreplaced(r)
     THEN Replace(r) /\ sessions' = {} /\ Go(r, "ok")
     ELSE Go(r, "invalid") /\ UNCHANGED <<member, sessions>>
  /\ UNCHANGED <<now, switches>>

Tokens == {s.token : s \in sessions}

\* The cookies a login has set: the session may be gone by now.
Cookies == {r \in Requests : request[r].op \in {"password", "provider"} /\ request[r].at = "ok"}

\* The request is let in by resolvePrincipal, which reads the session and then
\* the member.
Change(r, t, p, new) ==
  Start(r, [NoVisit EXCEPT !.op = "change", !.at = "enter",
                         !.session = t, !.try = p, !.new = new])

FindSession(r) ==
  LET Live == {s \in sessions : s.token = request[r].session /\ s.expires > now} IN
  /\ At(r, "enter")
  /\ Go(r, IF Live = {} THEN "unauthenticated" ELSE IF active THEN "own" ELSE "disabled")
  /\ UNCHANGED access

FindMember(r) ==
  /\ At(r, "own")
  /\ Go(r, IF active THEN "read" ELSE "disabled")
  /\ UNCHANGED access

ReadForChange(r) ==
  /\ At(r, "read") /\ request[r].op = "change"
  /\ IF active /\ word[record] \in {None, request[r].try}
     THEN Do(r, [request[r] EXCEPT !.at = "update", !.saw = record])
     ELSE Go(r, "invalid")
  /\ UNCHANGED access

UpdatePassword(r) ==
  /\ At(r, "update")
  /\ IF Unreplaced(r)
     THEN Replace(r) /\ Go(r, "revoke")
     ELSE Go(r, "conflict") /\ UNCHANGED member
  /\ UNCHANGED <<now, sessions, switches>>

\* revokeOtherSessions, a statement of its own after the change.
RevokeOthers(r) ==
  /\ At(r, "revoke")
  /\ sessions' = {s \in sessions : s.token = request[r].session}
  /\ Go(r, "ok")
  /\ UNCHANGED <<now, member, switches>>

-----------------------------------------------------------------------------
(* What happens around the requests. *)

Logout(t) ==
  /\ t \in Tokens
  /\ sessions' = {s \in sessions : s.token # t}
  /\ UNCHANGED <<now, member, switches, request>>

\* scheduleExpiredCleanup, after any request that shows a token.
CleanUp ==
  /\ \E s \in sessions : s.expires <= now
  /\ sessions' = {s \in sessions : s.expires > now}
  /\ UNCHANGED <<now, member, switches, request>>

\* setContributorStatus, see Membership.
Switch ==
  /\ switches < MaxSwitches
  /\ switches' = switches + 1
  /\ active' = ~active
  /\ UNCHANGED <<now, record, word, failures, lockedUntil, missed, sessions, request>>

Tick ==
  /\ now < MaxTime
  /\ now' = now + 1
  /\ UNCHANGED <<member, sessions, switches, request>>

AccessNext ==
  \/ \E r \in Requests :
       \/ \E p \in Passwords : Login(r, p) \/ Reset(r, p)
       \/ ReadForLogin(r) \/ Verify(r) \/ Fail(r) \/ Clear(r)
       \/ Provider(r) \/ Stamp(r) \/ Open(r)
       \/ ReadForReset(r) \/ StoreReset(r)
       \/ \E t \in Cookies, p, new \in Passwords : Change(r, t, p, new)
       \/ FindSession(r) \/ FindMember(r) \/ ReadForChange(r)
       \/ UpdatePassword(r) \/ RevokeOthers(r)
       \/ Logout(r)
  \/ CleanUp \/ Switch \/ Tick

AccessSpec == AccessInit /\ [][AccessNext]_accessVars

-----------------------------------------------------------------------------
\* Threshold wrong passwords in a row, and the lock of the last one still lasts:
\* it runs from the moment that request had read the row.
Locked ==
  /\ Len(missed) >= Threshold
  /\ request[missed[Len(missed)]].since + LockTime > now

\* A login is turned away exactly while a lock that was earned lasts, and one that
\* gave a wrong password is told of a lock exactly when that password was the
\* Threshold-th in a row or a later one: requests that were judging passwords
\* meanwhile lose no failure, and leave no lock behind once one was right.
LockIsEarned ==
  [][\A r \in Requests :
       /\ request[r].op = "password" /\ At(r, "read") /\ ~At(r, "read")'
            => (At(r, "locked")' <=> Locked)
       /\ At(r, "fail") /\ ~At(r, "fail")'
            => (At(r, "locked")' <=> Len(missed') >= Threshold)]_accessVars

\* No session begins while its member is disabled, whatever a login saw of the
\* member before.
NoSessionForDisabled ==
  [][\A r \in Requests : Answers(r, {"password", "provider"}, "ok") => active]_accessVars
=============================================================================
