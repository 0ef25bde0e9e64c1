------------------------------- MODULE Menus -------------------------------
(***************************************************************************)
(* The menus of the workspace, which the administrator creates, moves and  *)
(* removes.  Code: src/src/authorization/menus-repository.ts.              *)
(*                                                                         *)
(* Every operation reads the whole table, judges the change it would make  *)
(* of it, and writes under the condition that the table is still what it   *)
(* read.  A creation is remembered under its key and a removal under the   *)
(* row's id, so that a request sent again is answered as the first was.    *)
(* The parent stands for all the fields an update may change: all are      *)
(* compared and written alike, and only the parent can spoil the tree.     *)
(* A request may stop after any of its steps.                              *)
(***************************************************************************)
EXTENDS Hierarchy

CONSTANTS
  Entries,     \* the menus there are at first, of which each is its own key
  SystemMenus, \* those of them that may not be changed
  MenuKeys,
  MaxDepth,    \* MAX_DEPTH
  MenuLimit    \* 200

\* A menu that is created has the name of the request.
MenuIds == Entries \cup Requests

VARIABLES
  menu,     \* the table
  creation, \* receipts of creations, by key
  removal   \* receipts of removals: the ids

menus == <<menu, creation, removal>>
menuVars == <<menus, request>>

MenuType == [parent : MenuIds \cup {None}, key : MenuKeys]
Tables == [MenuIds -> MenuType \cup {None}]
CreationType == [id : Requests, parent : MenuIds \cup {None}]

ASSUME MenusAssumption ==
  /\ SystemMenus \subseteq Entries /\ Entries \subseteq MenuKeys
  /\ Entries \cap Requests = {}
  /\ None \notin MenuIds \cup MenuKeys \cup MenuType \cup CreationType
  /\ MaxDepth \in Nat \ {0} /\ MenuLimit \in Nat

MenuRequest ==
  [op : {"none", "create", "move", "remove"},
   at : {"new", "receipt", "read", "write", "compare", "gone", "ok", "refused"},
   id : MenuIds \cup {None},
   key : MenuKeys \cup {None},
   parent : MenuIds \cup {None},
   shown : Tables \cup {None},  \* the page it was sent from, if it says what that showed
   saw : Tables \cup {None}]    \* the snapshot

MenusTypeOK ==
  /\ menu \in Tables
  /\ creation \in [MenuKeys -> CreationType \cup {None}]
  /\ removal \subseteq MenuIds
  /\ request \in [Requests -> MenuRequest]

NoMenuRequest ==
  [op |-> "none", at |-> "new", id |-> None, key |-> None, parent |-> None,
   shown |-> None, saw |-> None]

MenusInit ==
  /\ menu = [i \in MenuIds |-> IF i \in Entries THEN [parent |-> None, key |-> i] ELSE None]
  /\ creation = [k \in MenuKeys |-> None] /\ removal = {}
  /\ request = [r \in Requests |-> NoMenuRequest]

Judges(r, change) == Do(r, change) /\ UNCHANGED menus

Refuse(r) == Judges(r, [request[r] EXCEPT !.at = "refused"])

Accept(r) == Judges(r, [request[r] EXCEPT !.at = "write", !.saw = menu])

\* buildMenuTree takes the table: every menu hangs from a root, at most MaxDepth deep.
Sound(table) ==
  \E level \in [Nodes(table) -> 1..MaxDepth] :
    \A i \in Nodes(table) : table[i].parent # None =>
      table[i].parent \in Nodes(table) /\ level[table[i].parent] < level[i]

\* Only the row itself is compared: a mutant of Unmoved.
UnmovedRow(r) ==
  request[r].id # None => menu[request[r].id] = request[r].saw[request[r].id]

\* (snapshotSql) = token
Unmoved(r) == menu = request[r].saw

-----------------------------------------------------------------------------
(* create. *)

StartCreation(r) ==
  /\ At(r, "new")
  /\ \E k \in MenuKeys, p \in Nodes(menu) \cup {None} :
       Judges(r, [NoMenuRequest EXCEPT !.op = "create", !.at = "receipt", !.key = k, !.parent = p])

\* replayRecord: the receipt answers the same intent only.
Recorded(r) == creation[request[r].key]
Replays(r) == IF Recorded(r).parent = request[r].parent THEN "ok" ELSE "refused"

ReadCreation(r) ==
  /\ At(r, "receipt")
  /\ Judges(r, [request[r] EXCEPT !.at = IF Recorded(r) = None THEN "read" ELSE Replays(r)])

WithNew(r) ==
  [menu EXCEPT ![r] = [parent |-> request[r].parent, key |-> request[r].key]]

JudgeCreation(r) ==
  /\ At(r, "read") /\ request[r].op = "create"
  /\ IF Cardinality(Nodes(menu)) < MenuLimit /\ Sound(WithNew(r)) THEN Accept(r) ELSE Refuse(r)

WithKey(k) == {i \in Nodes(menu) : menu[i].key = k}

\* The claim, the row and the receipt that won, in one batch.
WriteCreation(r) ==
  /\ At(r, "write") /\ request[r].op = "create"
  /\ IF Unmoved(r) /\ WithKey(request[r].key) = {} /\ Recorded(r) = None
     THEN /\ menu' = WithNew(r)
          /\ creation' = [creation EXCEPT
               ![request[r].key] = [id |-> r, parent |-> request[r].parent]]
          /\ Go(r, "ok")
     ELSE /\ Go(r, IF Recorded(r) # None THEN Replays(r) ELSE "compare")
          /\ UNCHANGED <<menu, creation>>
  /\ UNCHANGED removal

\* sameCreationIntent, for a row that has no receipt.
CompareCreation(r) ==
  /\ At(r, "compare")
  /\ Judges(r, [request[r] EXCEPT !.at =
       IF \E i \in WithKey(request[r].key) \ SystemMenus : menu[i].parent = request[r].parent
       THEN "ok" ELSE "refused"])

-----------------------------------------------------------------------------
(* update. *)

StartMove(r) ==
  /\ At(r, "new")
  /\ \E i \in Nodes(menu), p \in Nodes(menu) \cup {None}, s \in {menu, None} :
       /\ p # i
       /\ Judges(r, [NoMenuRequest EXCEPT
            !.op = "move", !.at = "read", !.id = i, !.parent = p, !.shown = s])

Target(r) == menu[request[r].id]

Moved(r) == [menu EXCEPT ![request[r].id].parent = request[r].parent]

\* The fields are those the editor was opened with.
AsShown(r) ==
  request[r].shown = None \/ request[r].shown[request[r].id].parent = Target(r).parent

JudgeMove(r) ==
  /\ At(r, "read") /\ request[r].op = "move"
  /\ IF Target(r) # None /\ request[r].id \notin SystemMenus /\ AsShown(r) /\ Sound(Moved(r))
     THEN Accept(r) ELSE Refuse(r)

WriteMove(r) ==
  /\ At(r, "write") /\ request[r].op = "move"
  /\ IF Unmoved(r) THEN menu' = Moved(r) /\ Go(r, "ok")
     ELSE Go(r, "refused") /\ UNCHANGED menu
  /\ UNCHANGED <<creation, removal>>

-----------------------------------------------------------------------------
(* remove. *)

StartRemoval(r) ==
  /\ At(r, "new")
  /\ \E i \in Nodes(menu) \cup removal, s \in {menu, None} :
       Judges(r, [NoMenuRequest EXCEPT !.op = "remove", !.at = "read", !.id = i, !.shown = s])

Subtree(r) == Below(menu, request[r].id)

\* That something was acknowledged is enough: a mutant of Acknowledged.
AcknowledgedAnyhow(r) == request[r].shown # None

\* sameSubtreeImpact
Acknowledged(r) ==
  request[r].shown # None /\ Below(request[r].shown, request[r].id) = Subtree(r)

Removable(r) ==
  /\ request[r].id \notin SystemMenus
  /\ Subtree(r) # {} => Subtree(r) \cap SystemMenus = {} /\ Acknowledged(r)

JudgeRemoval(r) ==
  /\ At(r, "read") /\ request[r].op = "remove"
  /\ IF Target(r) = None THEN Judges(r, [request[r] EXCEPT !.at = "gone"])
     ELSE IF Removable(r) THEN Accept(r) ELSE Refuse(r)

ReadRemoval(r) ==
  /\ At(r, "gone")
  /\ Judges(r, [request[r] EXCEPT !.at = IF request[r].id \in removal THEN "ok" ELSE "refused"])

Without(S) == [i \in MenuIds |-> IF i \in S THEN None ELSE menu[i]]

\* The receipt of the creation of the menu itself goes, those of its subtree stay.
WriteRemoval(r) ==
  /\ At(r, "write") /\ request[r].op = "remove"
  /\ IF Unmoved(r)
     THEN /\ menu' = Without(Subtree(r) \cup {request[r].id})
          /\ removal' = removal \cup {request[r].id}
          /\ creation' = [creation EXCEPT ![Target(r).key] = None]
          /\ Go(r, "ok")
     ELSE /\ Go(r, IF request[r].id \in removal THEN "ok" ELSE "refused")
          /\ UNCHANGED menus

-----------------------------------------------------------------------------
MenusNext ==
  \E r \in Requests :
    \/ StartCreation(r) \/ ReadCreation(r) \/ JudgeCreation(r) \/ WriteCreation(r)
    \/ CompareCreation(r)
    \/ StartMove(r) \/ JudgeMove(r) \/ WriteMove(r)
    \/ StartRemoval(r) \/ JudgeRemoval(r) \/ ReadRemoval(r) \/ WriteRemoval(r)

MenusSpec == MenusInit /\ [][MenusNext]_menuVars

-----------------------------------------------------------------------------
\* Whatever administrators change together, navigation can build the tree: every
\* menu hangs from a root, no menu is under itself, and none is too deep.
NavigationIsATree == Sound(menu)

\* A menu disappears only in a removal: the one that was to be removed, or one that
\* the page the removal was sent from showed under it.
OnlyShownIsRemoved ==
  [][\A i \in Nodes(menu) : menu'[i] = None =>
       \E r \in Requests :
         /\ Answers(r, {"remove"}, "ok")
         /\ \/ i = request[r].id
            \/ request[r].shown # None /\ i \in Below(request[r].shown, request[r].id)]_menuVars

\* A key that was deleted can be created again: the receipt of a creation never
\* answers with a menu that no longer exists (menus-repository.ts:227).
ReceiptNamesAMenu == \A k \in MenuKeys : creation[k] # None => menu[creation[k].id] # None
=============================================================================
