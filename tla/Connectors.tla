----------------------------- MODULE Connectors -----------------------------
(***************************************************************************)
(* The network authority of one browser environment: a member reserves a   *)
(* runtime, is given a ticket for it, a device consumes the ticket for a   *)
(* lease, and the lease is renewed until it ends or is revoked.  Code:     *)
(* src/src/environments/connector-authorizations.ts and                    *)
(* connector-authority-repository.ts, with migrations 0057 and 0058.       *)
(*                                                                         *)
(* Each step of a request is one statement or batch of D1, with the checks *)
(* that are made just before it and repeated in it.  A runtime has the     *)
(* name of its generation, and a lease that of its runtime: a generation   *)
(* is reserved once and connected once.  The member and the policy are one *)
(* each, and what their statements ask of them one bit.  A request, or its *)
(* answer, may be lost at any time, and its place is free for another then.*)
(***************************************************************************)
EXTENDS Naturals, FiniteSets, Requests

CONSTANTS
  MaxOperations, \* bound on the operation ids; a ticket has the name of its operation
  Consumers,     \* connections of the device
  Logins,        \* sessions of the member
  LoginEnd,      \* when they expire
  TicketLife,    \* 60 seconds
  RenewAfter,    \* 30 seconds
  MaxMoment,     \* bound on the clock
  MaxGeneration, \* bound on the generations
  MaxCalls,      \* bound on the requests under way together
  MaxTroubles    \* bound on what is amiss together

Operations == 1..MaxOperations

VARIABLES
  moment,    \* the clock
  present,   \* whether the environment is there
  signedIn,  \* sessions that are
  granted,   \* whether the member has the permission, and the policy is enabled
  head,      \* connector_authority_heads
  slip,      \* the receipts of both tables, by operation
  issued,    \* tickets that were handed out
  used,      \* connector_ticket_consumptions
  lease      \* connector_leases

authority == <<moment, present, signedIn, granted, head, slip, issued, used, lease>>
connectorVars == <<authority, request>>

Moments == 0..(MaxMoment + TicketLife)
Generations == 0..MaxGeneration
Revisions == 1..MaxOperations

HeadType ==
  [generation : Generations, login : Logins, state : {"active", "revoked"}]

SlipType ==
  [kind : {"reserve", "connect", "renew", "revoke"}, login : Logins,
   generation : Generations,      \* the one it asked for
   made : Generations,            \* the one it got
   revision : {0} \cup Revisions, \* the lease's, when a renewal was issued
   expires : Moments]

UseType == [consumer : Consumers, revision : Revisions]

LeaseType ==
  [generation : Generations, consumer : Consumers, revision : Revisions,
   expires : Moments, renewAfter : Moments]

ASSUME ConnectorsAssumption ==
  /\ MaxOperations \in Nat
  /\ LoginEnd \in [Logins -> Nat]
  /\ TicketLife \in Nat /\ RenewAfter \in 0..TicketLife
  /\ MaxMoment \in Nat /\ MaxGeneration \in Nat
  /\ MaxCalls \in Nat /\ MaxTroubles \in Nat
  /\ None \notin HeadType \cup SlipType \cup UseType \cup LeaseType

CallSteps == {"new", "owner", "head", "write", "receipt", "final"}

\* Bounded by MaxCalls.
MayBegin(r) == At(r, "new") /\ Cardinality({q \in Requests : ~At(q, "new")}) < MaxCalls

ConnectorRequest ==
  [op : {"none", "reserve", "connect", "renew", "revoke", "consume"},
   at : CallSteps,
   operation : Operations \cup {None},  \* its own, or that of the ticket it brings
   login : Logins \cup {None},
   generation : Generations,
   consumer : Consumers \cup {None},
   now : Moments]                       \* when it began

ConnectorsTypeOK ==
  /\ moment \in Moments /\ present \in BOOLEAN /\ signedIn \subseteq Logins
  /\ granted \in BOOLEAN
  /\ head \in HeadType \cup {None}
  /\ slip \in [Operations -> SlipType \cup {None}]
  /\ issued \subseteq Operations
  /\ used \in [Operations -> UseType \cup {None}]
  /\ lease \in LeaseType \cup {None}
  /\ request \in [Requests -> ConnectorRequest]

NoConnector ==
  [op |-> "none", at |-> "new", operation |-> None, login |-> None, generation |-> 0,
   consumer |-> None, now |-> 0]

ConnectorsInit ==
  /\ moment = 0 /\ present = TRUE /\ signedIn = Logins /\ granted = TRUE
  /\ head = None /\ lease = None /\ issued = {}
  /\ slip = [o \in Operations |-> None]
  /\ used = [o \in Operations |-> None]
  /\ request = [r \in Requests |-> NoConnector]

\* A request that is answered makes place for another.  What follows the write of a
\* reservation, a revocation or a consumption only reads, to decide what is answered.
Release(r) == Do(r, NoConnector)

-----------------------------------------------------------------------------
(* What the statements check. *)

\* eligible, without the policy.
Eligible(r, n) ==
  /\ present
  /\ request[r].login \in signedIn /\ n < LoginEnd[request[r].login]

Generation == IF head = None THEN 0 ELSE head.generation

\* The runtime the request names is the one that is reserved, by its session.
Holds(r) ==
  /\ head # None /\ head.state = "active"
  /\ head.generation = request[r].generation /\ head.login = request[r].login

Live(r, n) == Eligible(r, n) /\ granted /\ Holds(r)

LeaseLives(r) ==
  /\ lease # None /\ lease.generation = request[r].generation
  /\ request[r].now < lease.expires

\* A receipt is kept if its operation has none.
Unanswered(r) == slip[request[r].operation] = None

\* requestHash
Same(r) ==
  LET s == slip[request[r].operation] IN
  /\ s # None
  /\ s.kind = request[r].op /\ s.login = request[r].login
  /\ s.generation = request[r].generation

\* MIN of a minute and the end of the session.
Expiry(r) ==
  LET end == LoginEnd[request[r].login] IN
  IF request[r].now + TicketLife < end THEN request[r].now + TicketLife ELSE end

Slip(r, made, revision) ==
  [kind |-> request[r].op, login |-> request[r].login, generation |-> request[r].generation,
   made |-> made, revision |-> revision, expires |-> Expiry(r)]

Keep(r, made, revision) ==
  slip' = [slip EXCEPT ![request[r].operation] = Slip(r, made, revision)]

-----------------------------------------------------------------------------
(* The requests of the member. *)

Made(n) == \E o \in Operations : slip[o] # None /\ slip[o].made = n

Uses(n) == {o \in Operations : used[o] # None /\ slip[o].made = n}

\* The generations a ticket of which was consumed.
Connected == {slip[o].made : o \in {p \in Operations : used[p] # None}}

Asking(o) == {r \in Requests : request[r].operation = o}

\* An id names one request, however often it is sent; a bound on the inputs, for one
\* that names two is refused (see Same).
SameRequest(o, op, n) ==
  IF slip[o] # None THEN slip[o].kind = op /\ slip[o].generation = n
  ELSE \A r \in Asking(o) : request[r].op = op /\ request[r].generation = n

\* Ids are numbered in the order they are taken; a runtime, or a lease, is named
\* once the member was told of it.
Call(r, op, o, l, n) ==
  /\ present /\ l \in signedIn /\ moment < LoginEnd[l]
  /\ SameRequest(o, op, n)
  /\ \A p \in 1..(o - 1) : slip[p] # None \/ Asking(p) # {}
  /\ Made(n) \/ (op = "reserve" /\ n = 0)
  /\ op = "renew" => Uses(n) # {}
  /\ Do(r, [op |-> op, at |-> IF op = "renew" THEN "head" ELSE "write", operation |-> o,
            login |-> l, generation |-> n, consumer |-> None, now |-> moment])
  /\ UNCHANGED authority

Reserve(r) ==
  /\ At(r, "write") /\ request[r].op = "reserve"
  /\ IF /\ Eligible(r, request[r].now) /\ granted /\ Unanswered(r)
        /\ Generation = request[r].generation /\ Generation < MaxGeneration
     THEN /\ Keep(r, Generation + 1, 0)
          /\ head' = [generation |-> Generation + 1, login |-> request[r].login,
                      state |-> "active"]
     ELSE UNCHANGED <<slip, head>>
  /\ Release(r)
  /\ UNCHANGED <<moment, present, signedIn, granted, issued, used, lease>>

\* idx_connector_one_connect_per_generation
Ticketed(n) ==
  \E o \in Operations : slip[o] # None /\ slip[o].kind = "connect" /\ slip[o].made = n

Connect(r) ==
  /\ At(r, "write") /\ request[r].op = "connect"
  /\ IF Live(r, request[r].now) /\ Unanswered(r) /\ ~Ticketed(request[r].generation)
     THEN Keep(r, request[r].generation, 0)
     ELSE UNCHANGED slip
  /\ Go(r, "receipt")
  /\ UNCHANGED <<moment, present, signedIn, granted, head, issued, used, lease>>

\* UNIQUE(lease_id, expected_revision)
Renewed ==
  \E o \in Operations :
    /\ slip[o] # None /\ slip[o].kind = "renew"
    /\ slip[o].made = lease.generation /\ slip[o].revision = lease.revision

Renew(r) ==
  /\ At(r, "write") /\ request[r].op = "renew"
  /\ IF /\ Live(r, request[r].now) /\ LeaseLives(r) /\ lease.renewAfter <= request[r].now
        /\ Unanswered(r) /\ ~Renewed
     THEN Keep(r, request[r].generation, lease.revision)
     ELSE UNCHANGED slip
  /\ Go(r, "receipt")
  /\ UNCHANGED <<moment, present, signedIn, granted, head, issued, used, lease>>

\* Neither the permission nor the policy is needed, and any session will do.
Revoke(r) ==
  /\ At(r, "write") /\ request[r].op = "revoke"
  /\ IF /\ Eligible(r, request[r].now) /\ Unanswered(r)
        /\ head # None /\ head.state = "active" /\ head.generation = request[r].generation
     THEN /\ Keep(r, request[r].generation, 0)
          /\ head' = [head EXCEPT !.state = "revoked"]
     ELSE UNCHANGED <<slip, head>>
  /\ Release(r)
  /\ UNCHANGED <<moment, present, signedIn, granted, issued, used, lease>>

\* A renewal's receipt counts as long as the lease has the revision it renews.
Readable(r) ==
  /\ Same(r)
  /\ request[r].op = "renew" =>
       LeaseLives(r) /\ slip[request[r].operation].revision = lease.revision

ReadReceipt(r) ==
  /\ At(r, "receipt")
  /\ IF Readable(r)
     THEN Go(r, IF request[r].op = "renew" THEN "final" ELSE "head")
     ELSE Release(r)
  /\ UNCHANGED authority

\* assertCurrent
AssertCurrent(r) ==
  /\ At(r, "head")
  /\ IF Live(r, request[r].now)
     THEN Go(r, IF request[r].op = "renew" THEN "write" ELSE "final")
     ELSE Release(r)
  /\ UNCHANGED authority

\* assertCurrent again, after signing, by the clock of now; a ticket that is handed
\* out has not expired.
Finish(r) ==
  /\ At(r, "final")
  /\ issued' = IF Live(r, moment) /\ moment < slip[request[r].operation].expires
                THEN issued \cup {request[r].operation} ELSE issued
  /\ Release(r)
  /\ UNCHANGED <<moment, present, signedIn, granted, head, slip, used, lease>>

-----------------------------------------------------------------------------
(* The device. *)

\* consume: the ticket is genuine, and has not expired.
Bring(r, o, c) ==
  /\ o \in issued /\ moment < slip[o].expires
  /\ Do(r, [op |-> "consume", at |-> "owner", operation |-> o, login |-> None,
            generation |-> slip[o].made, consumer |-> c, now |-> moment])
  /\ UNCHANGED authority

\* accessForTicket: the session is that of the reservation.
FindOwner(r) ==
  /\ At(r, "owner")
  /\ IF head # None /\ head.state = "active" /\ head.generation = request[r].generation
     THEN Do(r, [request[r] EXCEPT !.login = head.login, !.at = "write"])
     ELSE Release(r)
  /\ UNCHANGED authority

Renewing(r) == slip[request[r].operation].kind = "renew"

\* What a ticket is worth when it is consumed; a renewal only to the connection
\* that has the lease, at the revision it had when the renewal was asked for.
Worth(r) ==
  LET s == slip[request[r].operation] IN
  /\ Live(r, request[r].now)
  /\ request[r].now < s.expires
  /\ used[request[r].operation] = None
  /\ Renewing(r) =>
       LeaseLives(r) /\ lease.revision = s.revision /\ lease.consumer = request[r].consumer

\* Mutant: a consumption leaves no row of its own.
Unmarked(r, revision) == UNCHANGED used

\* The row of connector_ticket_consumptions.
MarkUsed(r, revision) ==
  used' = [used EXCEPT ![request[r].operation] =
             [consumer |-> request[r].consumer, revision |-> revision]]

\* The acknowledgement is that of this request, never an older one.
Consume(r) ==
  LET o == request[r].operation
      revision == IF Renewing(r) THEN lease.revision + 1 ELSE 1 IN
  /\ At(r, "write") /\ request[r].op = "consume"
  /\ IF Worth(r)
     THEN /\ MarkUsed(r, revision)
          /\ lease' = [generation |-> request[r].generation, consumer |-> request[r].consumer,
                       revision |-> revision, expires |-> slip[o].expires,
                       renewAfter |-> request[r].now + RenewAfter]
     ELSE UNCHANGED <<used, lease>>
  /\ Release(r)
  /\ UNCHANGED <<moment, present, signedIn, granted, head, slip, issued>>

-----------------------------------------------------------------------------
(* What happens to them. *)

\* A request fails or dies, or what it stored is never answered.
Lose(r) ==
  /\ ~At(r, "new")
  /\ Release(r)
  /\ UNCHANGED authority

\* Ticks that passed, sessions that ended, a grant or an environment that is gone.
Troubles ==
  moment + Cardinality(Logins \ signedIn) + (IF granted THEN 0 ELSE 1) + (IF present THEN 0 ELSE 1)

SignOut(l) ==
  /\ l \in signedIn /\ Troubles < MaxTroubles
  /\ signedIn' = signedIn \ {l}
  /\ UNCHANGED <<moment, present, granted, head, slip, issued, used, lease, request>>

\* The role of the member, or the policy, is changed.
ChangeGrant ==
  /\ granted => Troubles < MaxTroubles
  /\ granted' = ~granted
  /\ UNCHANGED <<moment, present, signedIn, head, slip, issued, used, lease, request>>

\* The head and the lease go with the environment, the receipts stay.
DeleteEnvironment ==
  /\ present /\ Troubles < MaxTroubles
  /\ present' = FALSE /\ head' = None /\ lease' = None
  /\ UNCHANGED <<moment, signedIn, granted, slip, issued, used, request>>

Pass ==
  /\ moment < MaxMoment /\ Troubles < MaxTroubles
  /\ moment' = moment + 1
  /\ UNCHANGED <<present, signedIn, granted, head, slip, issued, used, lease, request>>

ConnectorsNext ==
  \/ \E r \in Requests :
       \/ /\ MayBegin(r)
          /\ \/ \E op \in {"reserve", "connect", "renew", "revoke"}, o \in Operations, l \in Logins,
                  n \in Generations : Call(r, op, o, l, n)
             \/ \E o \in Operations, c \in Consumers : Bring(r, o, c)
       \/ Reserve(r) \/ Connect(r) \/ Renew(r) \/ Revoke(r) \/ ReadReceipt(r)
       \/ AssertCurrent(r) \/ Finish(r) \/ FindOwner(r) \/ Consume(r) \/ Lose(r)
  \/ \E l \in Logins : SignOut(l)
  \/ ChangeGrant \/ DeleteEnvironment \/ Pass

ConnectorsSpec == ConnectorsInit /\ [][ConnectorsNext]_connectorVars

-----------------------------------------------------------------------------
\* A generation is one connection: whoever consumes its tickets, and whatever is
\* lost, sent again, revoked or reserved meanwhile, its tickets are all consumed by
\* the connection that consumed the first, one revision after the other, and the
\* lease is the last of them, which nothing of an older generation replaces.
OneConnection ==
  /\ \A n \in Connected :
       LET uses == Uses(n) IN
       /\ Cardinality({used[o].consumer : o \in uses}) = 1
       /\ {used[o].revision : o \in uses} = 1..Cardinality(uses)
  /\ lease # None =>
       LET uses == Uses(lease.generation) IN
       /\ lease.revision = Cardinality(uses)
       /\ \A o \in uses : used[o].consumer = lease.consumer
       /\ \A n \in Connected : n <= lease.generation
=============================================================================
