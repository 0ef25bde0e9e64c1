---------------------------- MODULE Collections ----------------------------
(***************************************************************************)
(* The collections of a Space that can be written, which administrators    *)
(* create, move under each other, archive and reactivate.  Code:           *)
(* src/src/spaces/service.ts and repository.ts.                            *)
(*                                                                         *)
(* A creation may carry a request key, and is answered again by the        *)
(* receipt of it; a change may name the version it was made of, and is     *)
(* written under the version it read.  That a collection is not put under  *)
(* itself is a condition of the same statement.  Names and positions       *)
(* travel with the change and decide nothing.  A request may stop after    *)
(* any of its steps.                                                       *)
(***************************************************************************)
EXTENDS Hierarchy

CONSTANTS
  Shelves,    \* the collections there are at first
  RequestKeys \* keys of creations

\* A collection that is created has the name of the request.
CollectionIds == Shelves \cup Requests

VARIABLES
  collection, \* the table
  receipts    \* admin_collection_creation_requests, by key

shelving == <<collection, receipts>>
collectionVars == <<shelving, request>>

Parents == CollectionIds \cup {None}

\* updated_at of a row grows with each change of it, as its version does here.
CollectionType == [parent : Parents, active : BOOLEAN, version : Nat]

\* The payload, and the collection it made.
CollectionReceipt == [id : Requests, parent : Parents, active : BOOLEAN]

ASSUME CollectionsAssumption ==
  /\ Shelves \cap Requests = {}
  /\ None \notin CollectionIds \cup RequestKeys \cup CollectionType \cup CollectionReceipt

CollectionRequest ==
  [op : {"none", "add", "move", "switch"},
   at : {"new", "replay", "insert", "again", "look", "update", "ok", "refused"},
   id : Parents,
   key : RequestKeys \cup {None},
   parent : Parents,
   active : BOOLEAN,
   version : {None} \cup Nat, \* the one the change names, then the one it read
   answer : Requests \cup {None}]

CollectionsTypeOK ==
  /\ collection \in [CollectionIds -> CollectionType \cup {None}]
  /\ receipts \in [RequestKeys -> CollectionReceipt \cup {None}]
  /\ request \in [Requests -> CollectionRequest]

NoShelving ==
  [op |-> "none", at |-> "new", id |-> None, key |-> None, parent |-> None,
   active |-> TRUE, version |-> None, answer |-> None]

Shelf(parent, active, version) == [parent |-> parent, active |-> active, version |-> version]

CollectionsInit ==
  /\ collection = [i \in CollectionIds |-> IF i \in Shelves THEN Shelf(None, TRUE, 0) ELSE None]
  /\ receipts = [k \in RequestKeys |-> None]
  /\ request = [r \in Requests |-> NoShelving]

Decides(r, change) == Do(r, change) /\ UNCHANGED shelving

\* A parent is an active collection of the Space.
Takes(p) == p # None => collection[p] # None /\ collection[p].active

-----------------------------------------------------------------------------
(* createCollection. *)

StartAddition(r) ==
  /\ At(r, "new")
  /\ \E k \in RequestKeys \cup {None}, p \in Nodes(collection) \cup {None}, a \in BOOLEAN :
       Decides(r, [NoShelving EXCEPT
         !.op = "add", !.at = IF k = None THEN "insert" ELSE "replay",
         !.key = k, !.parent = p, !.active = a])

Told(r) == receipts[request[r].key]

\* The receipt answers the same payload only.
Retold(r) ==
  IF Told(r).parent = request[r].parent /\ Told(r).active = request[r].active
  THEN [request[r] EXCEPT !.at = "ok", !.answer = Told(r).id]
  ELSE [request[r] EXCEPT !.at = "refused"]

ReplayAddition(r) ==
  /\ At(r, "replay")
  /\ Decides(r, IF Told(r) # None THEN Retold(r) ELSE [request[r] EXCEPT !.at = "insert"])

Fresh(r) == request[r].key # None => Told(r) = None

\* The row, its audit and its receipt, in one batch, of which the reply may be lost.
AddCollection(r) ==
  /\ At(r, "insert")
  /\ Takes(request[r].parent) /\ Fresh(r)
  /\ collection' = [collection EXCEPT ![r] = Shelf(request[r].parent, request[r].active, 0)]
  /\ receipts' = IF request[r].key = None THEN receipts
                 ELSE [receipts EXCEPT ![request[r].key] =
                         [id |-> r, parent |-> request[r].parent, active |-> request[r].active]]
  /\ \/ Do(r, [request[r] EXCEPT !.at = "ok", !.answer = r])
     \/ request[r].key # None /\ Go(r, "again")

FailAddition(r) ==
  /\ At(r, "insert")
  /\ ~(Takes(request[r].parent) /\ Fresh(r))
  /\ Decides(r, [request[r] EXCEPT !.at = IF request[r].key = None THEN "refused" ELSE "again"])

\* After whatever the batch threw: the winner of the key, or the reason.
FindAddition(r) ==
  /\ At(r, "again")
  /\ Decides(r, IF Told(r) # None THEN Retold(r) ELSE [request[r] EXCEPT !.at = "refused"])

-----------------------------------------------------------------------------
(* updateCollection. *)

StartChange(r) ==
  /\ At(r, "new")
  /\ \E i \in Nodes(collection) : \E v \in {collection[i].version, None} :
       \/ \E p \in Nodes(collection) \cup {None} :
            Decides(r, [NoShelving EXCEPT
              !.op = "move", !.at = "look", !.id = i, !.parent = p, !.version = v])
       \/ Decides(r, [NoShelving EXCEPT
            !.op = "switch", !.at = "look", !.id = i, !.version = v,
            !.active = ~collection[i].active])

Old(r) == collection[request[r].id]

\* What the change does not name stays as it is read here.
LookAtCollection(r) ==
  /\ At(r, "look")
  /\ Decides(r,
       IF request[r].version \notin {None, Old(r).version}
       THEN [request[r] EXCEPT !.at = "refused"]
       ELSE IF request[r].op = "move"
       THEN [request[r] EXCEPT !.at = "update", !.version = Old(r).version, !.active = Old(r).active]
       ELSE [request[r] EXCEPT !.at = "update", !.version = Old(r).version, !.parent = Old(r).parent])

\* Only the collection itself is compared: a mutant of NotUnderItself.
NotItself(r) == request[r].parent # request[r].id

\* The parent is not among the descendants, nor the collection itself.
NotUnderItself(r) ==
  /\ request[r].parent # request[r].id
  /\ request[r].parent \notin Below(collection, request[r].id)

Applies(r) ==
  /\ Old(r).version = request[r].version
  /\ Takes(request[r].parent) /\ NotUnderItself(r)

UpdateCollection(r) ==
  /\ At(r, "update") /\ Applies(r)
  /\ collection' = [collection EXCEPT ![request[r].id] =
                      Shelf(request[r].parent, request[r].active, Old(r).version + 1)]
  /\ Go(r, "ok")
  /\ UNCHANGED receipts

FailUpdate(r) ==
  /\ At(r, "update") /\ ~Applies(r)
  /\ Decides(r, [request[r] EXCEPT !.at = "refused"])

-----------------------------------------------------------------------------
CollectionsNext ==
  \E r \in Requests :
    \/ StartAddition(r) \/ ReplayAddition(r) \/ AddCollection(r) \/ FailAddition(r)
    \/ FindAddition(r)
    \/ StartChange(r) \/ LookAtCollection(r) \/ UpdateCollection(r) \/ FailUpdate(r)

CollectionsSpec == CollectionsInit /\ [][CollectionsNext]_collectionVars

-----------------------------------------------------------------------------
\* However changes overlap, the collections stay trees: a collection is never
\* under itself, and its parent exists.
CollectionsFormTrees == Grounded(collection) /\ ParentsExist(collection)

\* Creations under one key make one collection: all that were answered ok were
\* answered with it, and it is there.
SameKeySameCollection ==
  \A r \in Requests : At(r, "ok") /\ request[r].op = "add" /\ request[r].key # None =>
    Told(r) # None /\ request[r].answer = Told(r).id /\ collection[request[r].answer] # None
=============================================================================
