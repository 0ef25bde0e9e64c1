------------------------- MODULE Governance_proofs -------------------------
(***************************************************************************)
(* What administrators and members govern together, for any number of      *)
(* requests and of rows: the menus and the collections stay trees, a lock  *)
(* is earned, one person is one member, a generation of a connector is one *)
(* connection.                                                             *)
(*                                                                         *)
(* Menus: a change was judged of the table it is written to, as that is    *)
(* what its condition says.  Collections: a set of rows that all have      *)
(* their parents in it, after a row was put under a parent that is not     *)
(* below it, was one already without the row and what is below it.         *)
(* Passwords: the count is that of the wrong passwords in a row, whose     *)
(* requests were told and move no more, and the lock that of the last one. *)
(* Members: rows and their emails stay, and so does what an identity has   *)
(* come with, so that a login keeps the member it found.  Connectors:      *)
(* receipts stay, a generation has one that connects it, and that one is   *)
(* consumed before any that renews.                                        *)
(***************************************************************************)
EXTENDS Menus, Collections, PasswordAccess, Membership, Connectors, FiniteSetTheorems,
        NaturalsInduction, WellFoundedInduction, TLAPS

-----------------------------------------------------------------------------
(* Rows and what is below them. *)

\* What is under a row below i, or under i, is below i.
LEMMA BelowIsClosed ==
  ASSUME NEW table, NEW i, NEW j \in Nodes(table), j # i,
         table[j].parent = i \/ table[j].parent \in Below(table, i)
  PROVE  j \in Below(table, i)
<1>1. SUFFICES ASSUME NEW S \in SUBSET DOMAIN table, i \in S, ClosedBelow(table, S)
               PROVE  j \in S
  BY DEF Below
<1>2. table[j].parent \in S
  BY <1>1 DEF Below
<1> QED
  BY <1>1, <1>2 DEF ClosedBelow

\* A row goes with all that is below it, and the rest is a tree still.
LEMMA RestIsSound ==
  ASSUME NEW i \in MenuIds, menu \in Tables, Sound(menu)
  PROVE  Sound(Without(Below(menu, i) \cup {i}))
<1> DEFINE rest == Without(Below(menu, i) \cup {i})
<1> PICK level \in [Nodes(menu) -> 1..MaxDepth] :
      \A j \in Nodes(menu) : menu[j].parent # None =>
        menu[j].parent \in Nodes(menu) /\ level[menu[j].parent] < level[j]
  BY DEF Sound
<1>1. \A j \in Nodes(rest) :
        j \in Nodes(menu) /\ rest[j] = menu[j] /\ j # i /\ j \notin Below(menu, i)
  BY DEF Nodes, Without, Tables
<1>2. \A j \in Nodes(menu) : j # i /\ j \notin Below(menu, i) => j \in Nodes(rest)
  BY DEF Nodes, Without, Tables
<1>3. [j \in Nodes(rest) |-> level[j]] \in [Nodes(rest) -> 1..MaxDepth]
  BY <1>1
<1>4. ASSUME NEW j \in Nodes(rest), rest[j].parent # None
      PROVE  /\ rest[j].parent \in Nodes(rest)
             /\ level[rest[j].parent] < level[j]
  <2>1. menu[j].parent \in Nodes(menu) /\ level[menu[j].parent] < level[j]
    BY <1>1, <1>4
  <2>2. menu[j].parent # i /\ menu[j].parent \notin Below(menu, i)
    BY <1>1, BelowIsClosed
  <2> QED
    BY <1>1, <1>2, <2>1, <2>2
<1> HIDE DEF rest
<1> QED
  BY <1>3, <1>4 DEF Sound, rest

-----------------------------------------------------------------------------
(* The menus. *)

\* A change that is to be written was judged of the snapshot.
FitToWrite(r, q) ==
  /\ q.saw \in Tables
  /\ q.op = "create" => Sound([q.saw EXCEPT ![r] = [parent |-> q.parent, key |-> q.key]])
  /\ q.op = "move" => q.saw[q.id] # None /\ Sound([q.saw EXCEPT ![q.id].parent = q.parent])
  /\ q.op = "remove" =>
       /\ q.saw[q.id] # None
       /\ Below(q.saw, q.id) # {} =>
            q.shown # None /\ Below(q.shown, q.id) = Below(q.saw, q.id)

Fit(r, q) ==
  /\ q \in MenuRequest
  /\ q.at \in {"receipt", "compare"} => q.op = "create"
  /\ q.op = "create" => q.key \in MenuKeys
  /\ q.op \in {"move", "remove"} => q.id \in MenuIds
  /\ q.at = "gone" => q.op = "remove"
  /\ q.at = "write" => FitToWrite(r, q)

Judged == \A r \in Requests : Fit(r, request[r])

MenuInv == MenusTypeOK /\ Sound(menu) /\ Judged

LEMMA MenusStart == MenusInit => MenuInv
<1> SUFFICES ASSUME MenusInit PROVE MenuInv
  OBVIOUS
<1>1. MenusTypeOK
  BY MenusAssumption
     DEF MenusInit, MenusTypeOK, Tables, MenuType, MenuIds, MenuRequest, NoMenuRequest
<1>2. Sound(menu)
  <2>1. [i \in Nodes(menu) |-> 1] \in [Nodes(menu) -> 1..MaxDepth]
    BY MenusAssumption
  <2>2. \A i \in Nodes(menu) : menu[i].parent = None
    BY DEF MenusInit, Nodes
  <2> QED
    BY <2>1, <2>2 DEF Sound
<1>3. Judged
  BY <1>1 DEF MenusInit, MenusTypeOK, NoMenuRequest, Judged, Fit
<1> QED
  BY <1>1, <1>2, <1>3 DEF MenuInv

\* A request that takes a step without writing.
LEMMA JudgingKeeps ==
  ASSUME MenuInv, NEW r \in Requests, NEW q, Judges(r, q), Fit(r, q)
  PROVE  MenuInv'
<1>1. request' = [request EXCEPT ![r] = q] /\ UNCHANGED menus
  BY DEF Judges, Do
<1>2. MenusTypeOK'
  BY <1>1 DEF MenuInv, MenusTypeOK, Fit, menus
<1>3. Sound(menu)'
  BY <1>1 DEF MenuInv, menus
<1>4. Judged'
  <2> SUFFICES ASSUME NEW t \in Requests PROVE Fit(t, request'[t])
    BY DEF Judged
  <2>1. CASE t = r
    BY <1>1, <2>1 DEF MenuInv, MenusTypeOK
  <2>2. CASE t # r
    BY <1>1, <2>2 DEF MenuInv, MenusTypeOK, Judged
  <2> QED
    BY <2>1, <2>2
<1> QED
  BY <1>2, <1>3, <1>4 DEF MenuInv

\* A request that is done with its write.
LEMMA WritingKeeps ==
  ASSUME MenuInv, NEW r \in Requests, NEW step \in {"ok", "refused", "compare"}, Go(r, step),
         step = "compare" => request[r].op = "create",
         menu' \in Tables, Sound(menu'),
         creation' \in [MenuKeys -> CreationType \cup {None}], removal' \subseteq MenuIds
  PROVE  MenuInv'
<1>1. request' = [request EXCEPT ![r].at = step] /\ request \in [Requests -> MenuRequest]
  BY DEF Go, MenuInv, MenusTypeOK
<1>2. [request[r] EXCEPT !.at = step] \in MenuRequest
  BY <1>1 DEF MenuRequest
<1>3. MenusTypeOK'
  BY <1>1, <1>2 DEF MenusTypeOK
<1>4. Judged'
  <2> SUFFICES ASSUME NEW t \in Requests PROVE Fit(t, request'[t])
    BY DEF Judged
  <2>1. CASE t = r
    <3>1. request'[t] = [request[r] EXCEPT !.at = step]
      BY <1>1, <2>1
    <3>2. Fit(r, request[r])
      BY DEF MenuInv, Judged
    <3> QED
      BY <1>2, <2>1, <3>1, <3>2 DEF Fit, MenuRequest
  <2>2. CASE t # r
    BY <1>1, <2>2 DEF MenuInv, Judged
  <2> QED
    BY <2>1, <2>2
<1> QED
  BY <1>3, <1>4 DEF MenuInv

LEMMA MenusStep ==
  ASSUME MenuInv, [MenusNext]_menuVars
  PROVE  MenuInv'
<1> USE DEF At
<1>t. /\ menu \in Tables /\ request \in [Requests -> MenuRequest]
      /\ creation \in [MenuKeys -> CreationType \cup {None}] /\ removal \subseteq MenuIds
  BY DEF MenuInv, MenusTypeOK
<1>n. Nodes(menu) \subseteq MenuIds
  BY <1>t DEF Nodes, Tables
<1>f. \A r \in Requests : Fit(r, request[r])
  BY DEF MenuInv, Judged
<1>s. \A r \in Requests, step \in {"ok", "refused", "read"} :
        Fit(r, [request[r] EXCEPT !.at = step])
  BY <1>t, <1>f DEF Fit, MenuRequest
<1>1. ASSUME NEW r \in Requests, StartCreation(r) PROVE MenuInv'
  <2> PICK k \in MenuKeys, p \in Nodes(menu) \cup {None} :
        Judges(r, [NoMenuRequest EXCEPT
          !.op = "create", !.at = "receipt", !.key = k, !.parent = p])
    BY <1>1 DEF StartCreation
  <2>1. Fit(r, [NoMenuRequest EXCEPT
          !.op = "create", !.at = "receipt", !.key = k, !.parent = p])
    BY <1>n DEF Fit, NoMenuRequest, MenuRequest
  <2> QED
    BY <2>1, JudgingKeeps
<1>2. ASSUME NEW r \in Requests, ReadCreation(r) PROVE MenuInv'
  BY <1>2, <1>s, JudgingKeeps DEF ReadCreation, Replays
<1>a. ASSUME NEW r \in Requests, Refuse(r) PROVE MenuInv'
  BY <1>a, <1>s, JudgingKeeps DEF Refuse
<1>b. ASSUME NEW r \in Requests, Accept(r),
             FitToWrite(r, [request[r] EXCEPT !.at = "write", !.saw = menu])
      PROVE  MenuInv'
  <2>1. Fit(r, [request[r] EXCEPT !.at = "write", !.saw = menu])
    BY <1>t, <1>f, <1>b DEF Fit, MenuRequest
  <2> QED
    BY <1>b, <2>1, JudgingKeeps DEF Accept
<1>3. ASSUME NEW r \in Requests, JudgeCreation(r) PROVE MenuInv'
  <2>1. CASE Sound(WithNew(r)) /\ Accept(r)
    <3>1. FitToWrite(r, [request[r] EXCEPT !.at = "write", !.saw = menu])
      BY <1>t, <1>3, <2>1 DEF FitToWrite, JudgeCreation, WithNew, MenuRequest
    <3> QED
      BY <1>b, <2>1, <3>1
  <2> QED
    BY <1>3, <1>a, <2>1 DEF JudgeCreation
<1>4. ASSUME NEW r \in Requests, WriteCreation(r) PROVE MenuInv'
  <2>1. CASE Unmoved(r) /\ WithKey(request[r].key) = {} /\ Recorded(r) = None
    <3>1. /\ menu' = WithNew(r) /\ Go(r, "ok") /\ removal' = removal
          /\ creation' = [creation EXCEPT
               ![request[r].key] = [id |-> r, parent |-> request[r].parent]]
      BY <1>4, <2>1 DEF WriteCreation
    <3>2. request[r].key \in MenuKeys /\ request[r].parent \in MenuIds \cup {None}
      BY <1>t, <1>f, <1>4 DEF Fit, WriteCreation, MenuRequest
    <3>3. menu' \in Tables
      BY <1>t, <3>1, <3>2 DEF WithNew, Tables, MenuType
    <3>4. Sound(menu')
      BY <1>f, <1>4, <2>1, <3>1 DEF Fit, FitToWrite, WriteCreation, WithNew, Unmoved
    <3>5. creation' \in [MenuKeys -> CreationType \cup {None}]
      BY <1>t, <3>1, <3>2 DEF CreationType
    <3> QED
      BY <1>t, <3>1, <3>3, <3>4, <3>5, WritingKeeps
  <2>2. CASE ~(Unmoved(r) /\ WithKey(request[r].key) = {} /\ Recorded(r) = None)
    <3>1. /\ UNCHANGED menus
          /\ Go(r, IF Recorded(r) # None THEN Replays(r) ELSE "compare")
      BY <1>4, <2>2 DEF WriteCreation, menus
    <3>2. PICK step \in {"ok", "refused", "compare"} : Go(r, step)
      BY <3>1 DEF Replays
    <3>3. request[r].op = "create"
      BY <1>4 DEF WriteCreation
    <3> QED
      BY <1>t, <3>1, <3>2, <3>3, WritingKeeps DEF menus, MenuInv
  <2> QED
    BY <2>1, <2>2
<1>5. ASSUME NEW r \in Requests, CompareCreation(r) PROVE MenuInv'
  BY <1>5, <1>s, JudgingKeeps DEF CompareCreation
<1>6. ASSUME NEW r \in Requests, StartMove(r) PROVE MenuInv'
  <2> PICK i \in Nodes(menu), p \in Nodes(menu) \cup {None}, s \in {menu, None} :
        Judges(r, [NoMenuRequest EXCEPT
          !.op = "move", !.at = "read", !.id = i, !.parent = p, !.shown = s])
    BY <1>6 DEF StartMove
  <2>1. Fit(r, [NoMenuRequest EXCEPT
          !.op = "move", !.at = "read", !.id = i, !.parent = p, !.shown = s])
    BY <1>t, <1>n DEF Fit, NoMenuRequest, MenuRequest
  <2> QED
    BY <2>1, JudgingKeeps
<1>7. ASSUME NEW r \in Requests, JudgeMove(r) PROVE MenuInv'
  <2>1. CASE Target(r) # None /\ Sound(Moved(r)) /\ Accept(r)
    <3>1. FitToWrite(r, [request[r] EXCEPT !.at = "write", !.saw = menu])
      BY <1>t, <1>7, <2>1 DEF FitToWrite, JudgeMove, Moved, Target, MenuRequest
    <3> QED
      BY <1>b, <2>1, <3>1
  <2> QED
    BY <1>7, <1>a, <2>1 DEF JudgeMove
<1>8. ASSUME NEW r \in Requests, WriteMove(r) PROVE MenuInv'
  <2>1. CASE Unmoved(r)
    <3>1. menu' = Moved(r) /\ Go(r, "ok") /\ UNCHANGED <<creation, removal>>
      BY <1>8, <2>1 DEF WriteMove
    <3>2. /\ request[r].id \in MenuIds /\ menu[request[r].id] # None /\ Sound(Moved(r))
          /\ request[r].parent \in MenuIds \cup {None}
      BY <1>t, <1>f, <1>8, <2>1
         DEF Fit, FitToWrite, WriteMove, Moved, Unmoved, MenuRequest
    <3>3. Moved(r) \in Tables
      BY <1>t, <3>2 DEF Moved, Tables, MenuType
    <3> QED
      BY <1>t, <3>1, <3>2, <3>3, WritingKeeps
  <2>2. CASE ~Unmoved(r)
    BY <1>t, <1>8, <2>2, WritingKeeps DEF WriteMove, MenuInv
  <2> QED
    BY <2>1, <2>2
<1>9. ASSUME NEW r \in Requests, StartRemoval(r) PROVE MenuInv'
  <2> PICK i \in Nodes(menu) \cup removal, s \in {menu, None} :
        Judges(r, [NoMenuRequest EXCEPT !.op = "remove", !.at = "read", !.id = i, !.shown = s])
    BY <1>9 DEF StartRemoval
  <2>1. Fit(r, [NoMenuRequest EXCEPT !.op = "remove", !.at = "read", !.id = i, !.shown = s])
    BY <1>t, <1>n DEF Fit, NoMenuRequest, MenuRequest
  <2> QED
    BY <2>1, JudgingKeeps
<1>10. ASSUME NEW r \in Requests, JudgeRemoval(r) PROVE MenuInv'
  <2>1. CASE Target(r) = None
    <3>1. Fit(r, [request[r] EXCEPT !.at = "gone"])
      BY <1>t, <1>f, <1>10 DEF Fit, JudgeRemoval, MenuRequest
    <3> QED
      BY <1>10, <2>1, <3>1, JudgingKeeps DEF JudgeRemoval
  <2>2. CASE Target(r) # None /\ Removable(r) /\ Accept(r)
    <3>1. FitToWrite(r, [request[r] EXCEPT !.at = "write", !.saw = menu])
      BY <1>t, <1>10, <2>2
         DEF FitToWrite, JudgeRemoval, Target, Removable, Acknowledged, Subtree, MenuRequest
    <3> QED
      BY <1>b, <2>2, <3>1
  <2> QED
    BY <1>10, <1>a, <2>1, <2>2 DEF JudgeRemoval
<1>11. ASSUME NEW r \in Requests, ReadRemoval(r) PROVE MenuInv'
  BY <1>11, <1>s, JudgingKeeps DEF ReadRemoval
<1>12. ASSUME NEW r \in Requests, WriteRemoval(r) PROVE MenuInv'
  <2>1. CASE Unmoved(r)
    <3>1. /\ menu' = Without(Subtree(r) \cup {request[r].id}) /\ Go(r, "ok")
          /\ removal' = removal \cup {request[r].id}
          /\ creation' = [creation EXCEPT ![Target(r).key] = None]
      BY <1>12, <2>1 DEF WriteRemoval
    <3>2. request[r].id \in MenuIds
      BY <1>f, <1>12 DEF Fit, WriteRemoval
    <3>3. menu' \in Tables
      BY <1>t, <3>1 DEF Without, Tables
    <3>4. Sound(menu')
      BY <1>t, <3>1, <3>2, RestIsSound DEF Subtree, MenuInv
    <3> QED
      BY <1>t, <3>1, <3>2, <3>3, <3>4, WritingKeeps
  <2>2. CASE ~Unmoved(r)
    <3>1. UNCHANGED menus /\ Go(r, IF request[r].id \in removal THEN "ok" ELSE "refused")
      BY <1>12, <2>2 DEF WriteRemoval
    <3>2. PICK step \in {"ok", "refused"} : Go(r, step)
      BY <3>1
    <3> QED
      BY <1>t, <3>1, <3>2, WritingKeeps DEF menus, MenuInv
  <2> QED
    BY <2>1, <2>2
<1>13. CASE UNCHANGED menuVars
  BY <1>13 DEF menuVars, menus, MenuInv, MenusTypeOK, Judged
<1> QED
  BY <1>1, <1>2, <1>3, <1>4, <1>5, <1>6, <1>7, <1>8, <1>9, <1>10, <1>11, <1>12, <1>13
     DEF MenusNext

\* The invariant of the menus: what a request is about to write was judged of the
\* table it read, and the table is a tree.
THEOREM MenusInvariance == MenusSpec => []MenuInv
<1>1. MenuInv /\ [MenusNext]_menuVars => MenuInv'
  BY MenusStep
<1> QED
  BY <1>1, MenusStart, PTL DEF MenusSpec

\* Whatever administrators change together, navigation can build the tree
\* (menus-repository.ts, the comparison of the whole snapshot).
THEOREM NavigationCorrect == MenusSpec => []NavigationIsATree
<1>1. MenuInv => NavigationIsATree
  BY DEF MenuInv, NavigationIsATree
<1> QED
  BY <1>1, MenusInvariance, PTL
\* Who removes a menu was judged of the table it still is.
LEMMA RemovalsAreShown ==
  ASSUME MenuInv, [MenusNext]_menuVars, NEW i \in Nodes(menu), menu'[i] = None
  PROVE  \E r \in Requests :
           /\ Answers(r, {"remove"}, "ok")
           /\ \/ i = request[r].id
              \/ request[r].shown # None /\ i \in Below(request[r].shown, request[r].id)
<1>t. /\ menu \in Tables /\ i \in MenuIds /\ menu[i] # None
      /\ request \in [Requests -> MenuRequest]
  BY DEF MenuInv, MenusTypeOK, Nodes, Tables
<1>1. ~UNCHANGED menu
  BY <1>t
<1>2. ASSUME NEW r \in Requests, WriteCreation(r) PROVE FALSE
  <2>1. menu' = WithNew(r)
    BY <1>1, <1>2 DEF WriteCreation
  <2>2. request[r].key \in MenuKeys /\ request[r].parent \in MenuIds \cup {None}
    BY <1>t, <1>2 DEF WriteCreation, MenuInv, Judged, Fit, MenuRequest
  <2>3. [parent |-> request[r].parent, key |-> request[r].key] \in MenuType
    BY <2>2 DEF MenuType
  <2> QED
    BY <1>t, <2>1, <2>3, MenusAssumption DEF WithNew, Tables
<1>3. ASSUME NEW r \in Requests, WriteMove(r) PROVE FALSE
  <2>1. menu' = Moved(r) /\ Unmoved(r)
    BY <1>1, <1>3 DEF WriteMove
  <2>2. menu'[i] \in MenuType
    <3>1. menu[i] \in MenuType /\ request[r].parent \in MenuIds \cup {None}
      BY <1>t DEF Tables, MenuRequest
    <3> QED
      BY <1>t, <2>1, <3>1 DEF Moved, Tables, MenuType
  <2> QED
    BY <2>2, MenusAssumption
<1>4. ASSUME NEW r \in Requests, WriteRemoval(r)
      PROVE  /\ Answers(r, {"remove"}, "ok")
             /\ \/ i = request[r].id
                \/ request[r].shown # None /\ i \in Below(request[r].shown, request[r].id)
  <2>1. /\ Unmoved(r) /\ Go(r, "ok") /\ menu' = Without(Subtree(r) \cup {request[r].id})
        /\ request[r].op = "remove" /\ request[r].at = "write"
    BY <1>1, <1>4 DEF WriteRemoval, menus, At
  <2>2. i \in Below(menu, request[r].id) \cup {request[r].id}
    BY <1>t, <2>1 DEF Without, Subtree
  <2>3. FitToWrite(r, request[r])
    BY <2>1 DEF MenuInv, Judged, Fit
  <2>4. Answers(r, {"remove"}, "ok")
    BY <1>t, <2>1 DEF Answers, Go, MenuRequest
  <2> QED
    BY <2>1, <2>2, <2>3, <2>4 DEF FitToWrite, Unmoved
<1>5. PICK r \in Requests : WriteCreation(r) \/ WriteMove(r) \/ WriteRemoval(r)
  BY <1>1 DEF MenusNext, menuVars, menus, StartCreation, ReadCreation, JudgeCreation,
       CompareCreation, StartMove, JudgeMove, StartRemoval, JudgeRemoval, ReadRemoval,
       Judges, Accept, Refuse
<1> QED
  BY <1>2, <1>3, <1>4, <1>5

\* A menu disappears only with one that was to be removed and had it below it on the
\* page the request was sent from (menus-repository.ts, sameSubtreeImpact).
THEOREM RemovalsCorrect == MenusSpec => OnlyShownIsRemoved
<1>1. MenuInv /\ [MenusNext]_menuVars =>
        [\A i \in Nodes(menu) : menu'[i] = None =>
           \E r \in Requests :
             /\ Answers(r, {"remove"}, "ok")
             /\ \/ i = request[r].id
                \/ request[r].shown # None /\ i \in Below(request[r].shown, request[r].id)]_menuVars
  BY RemovalsAreShown
<1> QED
  BY <1>1, MenusInvariance, PTL DEF MenusSpec, OnlyShownIsRemoved

-----------------------------------------------------------------------------
(* The collections. *)

\* A row that had nothing under it comes under one that is there.
LEMMA AddingKeepsTrees ==
  ASSUME NEW before, NEW after, NEW r,
         Grounded(before), ParentsExist(before), r \notin Nodes(before) \cup {None},
         Nodes(after) = Nodes(before) \cup {r},
         \A i \in Nodes(before) : after[i] = before[i],
         after[r].parent \in Nodes(before) \cup {None}
  PROVE  Grounded(after) /\ ParentsExist(after)
<1>1. ParentsExist(after)
  BY DEF ParentsExist
<1>2. ASSUME NEW S \in (SUBSET Nodes(after)) \ {{}}
      PROVE  \E i \in S : after[i].parent \notin S
  <2>n. None \notin Nodes(before) => None \notin S
    OBVIOUS
  <2>1. CASE S \subseteq Nodes(before)
    BY <2>1 DEF Grounded
  <2>2. CASE r \in S /\ after[r].parent \notin S
    BY <2>2
  <2>3. CASE r \in S /\ after[r].parent \in S
    <3>1. after[r].parent \in S \ {r} /\ S \ {r} \subseteq Nodes(before)
      BY <2>3
    <3>2. PICK i \in S \ {r} : before[i].parent \notin S \ {r}
      BY <3>1 DEF Grounded
    <3>3. before[i].parent # r
      BY <3>1 DEF ParentsExist
    <3> QED
      BY <3>1, <3>2, <3>3
  <2> QED
    BY <2>1, <2>2, <2>3
<1> QED
  BY <1>1, <1>2 DEF Grounded

\* A row moves, with all below it, under one that is not below it.
LEMMA MovingKeepsTrees ==
  ASSUME NEW before, NEW after, NEW n \in Nodes(before),
         Grounded(before), ParentsExist(before), None \notin Nodes(before),
         Nodes(after) = Nodes(before),
         \A i \in Nodes(before) \ {n} : after[i].parent = before[i].parent,
         after[n].parent \in Nodes(before) \cup {None},
         after[n].parent # n, after[n].parent \notin Below(before, n)
  PROVE  Grounded(after) /\ ParentsExist(after)
<1>1. ParentsExist(after)
  BY DEF ParentsExist
<1>2. ASSUME NEW S \in (SUBSET Nodes(after)) \ {{}}
      PROVE  \E i \in S : after[i].parent \notin S
  <2>1. CASE n \notin S
    BY <2>1 DEF Grounded
  <2>2. CASE n \in S /\ after[n].parent \notin S
    BY <2>2
  <2>3. CASE n \in S /\ after[n].parent \in S
    <3>1. PICK C \in SUBSET DOMAIN before :
            n \in C /\ ClosedBelow(before, C) /\ after[n].parent \notin C
      BY <2>3 DEF Below
    <3>2. S \ C \in (SUBSET Nodes(before)) \ {{}}
      BY <2>3, <3>1
    <3>3. PICK i \in S \ C : before[i].parent \notin S \ C
      BY <3>2 DEF Grounded
    <3>4. before[i].parent \notin C
      BY <3>1, <3>2, <3>3 DEF ClosedBelow
    <3>5. i # n
      BY <3>1
    <3> QED
      BY <3>2, <3>3, <3>4, <3>5
  <2> QED
    BY <2>1, <2>2, <2>3
<1> QED
  BY <1>1, <1>2 DEF Grounded

\* What a request knows of the rows and of the receipts.
Placed(rows, told, r, q) ==
  /\ q \in CollectionRequest
  /\ q.at \in {"new", "replay", "insert"} => rows[r] = None
  /\ q.at \in {"replay", "again"} => q.key \in RequestKeys
  /\ q.at \in {"look", "update"} => /\ q.op # "add"
                                    /\ q.id \in CollectionIds /\ rows[q.id] # None
  /\ q.at = "ok" /\ q.op = "add" /\ q.key # None =>
       told[q.key] # None /\ q.answer = told[q.key].id /\ rows[q.answer] # None

ReceiptsName == \A k \in RequestKeys :
  receipts[k] # None => collection[receipts[k].id] # None

CollectionInv ==
  /\ CollectionsTypeOK /\ CollectionsFormTrees /\ ReceiptsName
  /\ \A r \in Requests : Placed(collection, receipts, r, request[r])

LEMMA CollectionsStart == CollectionsInit => CollectionInv
<1> SUFFICES ASSUME CollectionsInit PROVE CollectionInv
  OBVIOUS
<1>1. NoShelving \in CollectionRequest
  BY DEF NoShelving, CollectionRequest, Parents
<1>2. CollectionsTypeOK
  BY <1>1 DEF CollectionsInit, CollectionsTypeOK, CollectionIds, CollectionType, Shelf, Parents
<1>3. \A i \in Nodes(collection) : collection[i].parent = None /\ i \in CollectionIds
  BY DEF CollectionsInit, Nodes, Shelf
<1>4. CollectionsFormTrees
  BY <1>3, CollectionsAssumption DEF CollectionsFormTrees, Grounded, ParentsExist
<1>5. ReceiptsName
  BY DEF CollectionsInit, ReceiptsName
<1>6. \A r \in Requests : collection[r] = None
  BY CollectionsAssumption DEF CollectionsInit, CollectionIds
<1> QED
  BY <1>1, <1>2, <1>4, <1>5, <1>6 DEF CollectionInv, Placed, NoShelving, CollectionsInit

\* Rows and receipts stay, and what others know of them stays true.
LEMMA OthersStayPlaced ==
  ASSUME CollectionInv, NEW r \in Requests, NEW q, Do(r, q),
         collection' \in [CollectionIds -> CollectionType \cup {None}],
         receipts' \in [RequestKeys -> CollectionReceipt \cup {None}],
         \A i \in CollectionIds : collection[i] # None => collection'[i] # None,
         \A t \in Requests \ {r} : collection'[t] = None <=> collection[t] = None,
         \A k \in RequestKeys : receipts[k] # None => receipts'[k] = receipts[k],
         CollectionsFormTrees', ReceiptsName',
         Placed(collection', receipts', r, q)
  PROVE  CollectionInv'
<1>t. /\ request \in [Requests -> CollectionRequest]
      /\ request' = [request EXCEPT ![r] = q]
  BY DEF CollectionInv, CollectionsTypeOK, Do
<1>1. CollectionsTypeOK'
  BY <1>t DEF CollectionsTypeOK, Placed
<1>2. ASSUME NEW t \in Requests PROVE Placed(collection', receipts', t, request'[t])
  <2>1. CASE t = r
    BY <1>t, <2>1
  <2>2. CASE t # r
    <3>1. request'[t] = request[t] /\ Placed(collection, receipts, t, request[t])
      BY <1>t, <2>2 DEF CollectionInv
    <3>2. request[t].key \in RequestKeys \cup {None} /\ request[t].answer \in Requests \cup {None}
      BY <1>t DEF CollectionRequest
    <3>3. ASSUME request[t].at = "ok", request[t].op = "add", request[t].key # None
          PROVE  /\ receipts'[request[t].key] # None
                 /\ request[t].answer = receipts'[request[t].key].id
                 /\ collection'[request[t].answer] # None
      <4>1. /\ receipts[request[t].key] # None
            /\ request[t].answer = receipts[request[t].key].id
            /\ collection[request[t].answer] # None
        BY <3>1, <3>3 DEF Placed
      <4>2. receipts[request[t].key] \in CollectionReceipt
        BY <3>2, <3>3, <4>1 DEF CollectionInv, CollectionsTypeOK
      <4>3. request[t].answer \in CollectionIds
        BY <4>1, <4>2 DEF CollectionReceipt, CollectionIds
      <4> QED
        BY <3>2, <3>3, <4>1, <4>3
    <3> QED
      BY <2>2, <3>1, <3>3 DEF Placed
  <2> QED
    BY <2>1, <2>2
<1> QED
  BY <1>1, <1>2 DEF CollectionInv
LEMMA DecidingKeeps ==
  ASSUME CollectionInv, NEW r \in Requests, NEW q, Decides(r, q),
         Placed(collection, receipts, r, q)
  PROVE  CollectionInv'
<1>1. Do(r, q) /\ collection' = collection /\ receipts' = receipts
  BY DEF Decides, shelving
<1>2. /\ CollectionsTypeOK /\ CollectionsFormTrees' /\ ReceiptsName'
  BY <1>1 DEF CollectionInv, CollectionsFormTrees, ReceiptsName
<1> QED
  BY <1>1, <1>2, OthersStayPlaced DEF CollectionsTypeOK

\* The answer a receipt gives.
LEMMA RetellingPlaces ==
  ASSUME CollectionInv, NEW r \in Requests, request[r].at \in {"replay", "again"},
         Told(r) # None
  PROVE  Placed(collection, receipts, r, Retold(r))
<1>1. request[r] \in CollectionRequest /\ request[r].key \in RequestKeys
  BY DEF CollectionInv, Placed
<1>2. Told(r) \in CollectionReceipt /\ collection[Told(r).id] # None
  BY <1>1 DEF CollectionInv, CollectionsTypeOK, Told, ReceiptsName
<1> QED
  BY <1>1, <1>2 DEF Placed, Retold, Told, CollectionRequest, CollectionReceipt

LEMMA AdditionKeeps ==
  ASSUME CollectionInv, NEW r \in Requests, AddCollection(r)
  PROVE  CollectionInv'
<1> DEFINE key == request[r].key
           shelf == Shelf(request[r].parent, request[r].active, 0)
           ticket == [id |-> r, parent |-> request[r].parent, active |-> request[r].active]
<1>t. /\ collection \in [CollectionIds -> CollectionType \cup {None}]
      /\ receipts \in [RequestKeys -> CollectionReceipt \cup {None}]
      /\ request[r] \in CollectionRequest /\ key \in RequestKeys \cup {None}
      /\ r \in CollectionIds
  BY DEF CollectionInv, CollectionsTypeOK, CollectionRequest, CollectionIds
<1>1. /\ request[r].at = "insert" /\ collection[r] = None
      /\ Takes(request[r].parent) /\ Fresh(r)
      /\ collection' = [collection EXCEPT ![r] = shelf]
      /\ receipts' = IF key = None THEN receipts ELSE [receipts EXCEPT ![key] = ticket]
  BY DEF AddCollection, At, CollectionInv, Placed
<1>2. shelf \in CollectionType /\ ticket \in CollectionReceipt
  BY <1>t DEF Shelf, CollectionType, CollectionReceipt, CollectionRequest
<1>3. shelf # None /\ ticket # None /\ None \notin CollectionIds
  BY <1>2, CollectionsAssumption
<1>4. /\ collection' \in [CollectionIds -> CollectionType \cup {None}]
      /\ receipts' \in [RequestKeys -> CollectionReceipt \cup {None}]
  BY <1>t, <1>1, <1>2
<1>5. /\ Nodes(collection') = Nodes(collection) \cup {r}
      /\ \A i \in Nodes(collection) : collection'[i] = collection[i]
      /\ collection'[r].parent = request[r].parent
      /\ r \notin Nodes(collection) \cup {None}
  BY <1>t, <1>1, <1>3 DEF Nodes, Shelf
<1>6. request[r].parent \in Nodes(collection) \cup {None}
  BY <1>t, <1>1 DEF Takes, Nodes, CollectionRequest, Parents
<1>7. CollectionsFormTrees'
  <2>1. Grounded(collection) /\ ParentsExist(collection)
    BY DEF CollectionInv, CollectionsFormTrees
  <2>2. Grounded(collection') /\ ParentsExist(collection')
    BY <1>5, <1>6, <2>1, AddingKeepsTrees
  <2> QED
    BY <2>2 DEF CollectionsFormTrees
<1>8. \A i \in CollectionIds : collection[i] # None => collection'[i] = collection[i]
  BY <1>t, <1>1
<1>9. \A k \in RequestKeys : receipts[k] # None => receipts'[k] = receipts[k]
  BY <1>t, <1>1 DEF Fresh, Told
<1>10. ReceiptsName'
  <2> SUFFICES ASSUME NEW k \in RequestKeys, receipts'[k] # None
               PROVE  collection'[receipts'[k].id] # None
    BY DEF ReceiptsName
  <2>1. CASE receipts[k] # None
    <3>1. receipts[k] \in CollectionReceipt /\ collection[receipts[k].id] # None
      BY <1>t, <2>1 DEF CollectionInv, ReceiptsName
    <3> QED
      BY <1>8, <1>9, <2>1, <3>1 DEF CollectionReceipt, CollectionIds
  <2>2. CASE receipts[k] = None
    <3>1. receipts'[k] = ticket
      BY <1>t, <1>1, <2>2
    <3> QED
      BY <1>t, <1>1, <1>3, <3>1
  <2> QED
    BY <2>1, <2>2
<1>11. PICK q : Do(r, q) /\ Placed(collection', receipts', r, q)
  <2>1. CASE Do(r, [request[r] EXCEPT !.at = "ok", !.answer = r])
    <3>1. Placed(collection', receipts', r, [request[r] EXCEPT !.at = "ok", !.answer = r])
      BY <1>t, <1>1, <1>3 DEF Placed, CollectionRequest
    <3> QED
      BY <2>1, <3>1
  <2>2. CASE key # None /\ Go(r, "again")
    <3>1. request' = [request EXCEPT ![r] = [request[r] EXCEPT !.at = "again"]]
      BY <2>2 DEF Go, CollectionInv, CollectionsTypeOK
    <3>2. Placed(collection', receipts', r, [request[r] EXCEPT !.at = "again"])
      BY <1>t, <2>2 DEF Placed, CollectionRequest
    <3> QED
      BY <3>1, <3>2 DEF Do
  <2> QED
    BY <2>1, <2>2 DEF AddCollection
<1>12. \A t \in Requests \ {r} : collection'[t] = None <=> collection[t] = None
  BY <1>t, <1>1 DEF CollectionIds
<1>13. \A i \in CollectionIds : collection[i] # None => collection'[i] # None
  BY <1>8
<1> QED
  BY <1>4, <1>7, <1>9, <1>10, <1>11, <1>12, <1>13, OthersStayPlaced

LEMMA UpdateKeeps ==
  ASSUME CollectionInv, NEW r \in Requests, UpdateCollection(r)
  PROVE  CollectionInv'
<1> DEFINE n == request[r].id
           shelf == Shelf(request[r].parent, request[r].active, Old(r).version + 1)
<1>t. /\ collection \in [CollectionIds -> CollectionType \cup {None}]
      /\ receipts \in [RequestKeys -> CollectionReceipt \cup {None}]
      /\ request[r] \in CollectionRequest
  BY DEF CollectionInv, CollectionsTypeOK
<1>1. /\ request[r].at = "update" /\ request[r].op # "add"
      /\ n \in CollectionIds /\ collection[n] # None
      /\ Takes(request[r].parent) /\ NotUnderItself(r)
      /\ collection' = [collection EXCEPT ![n] = shelf] /\ receipts' = receipts /\ Go(r, "ok")
  BY DEF UpdateCollection, Applies, At, CollectionInv, Placed
<1>2. shelf \in CollectionType /\ shelf # None /\ None \notin CollectionIds
  <2>1. Old(r) \in CollectionType
    BY <1>t, <1>1 DEF Old
  <2>2. shelf \in CollectionType
    BY <1>t, <2>1 DEF Shelf, CollectionType, CollectionRequest
  <2> QED
    BY <2>2, CollectionsAssumption
<1>3. collection' \in [CollectionIds -> CollectionType \cup {None}]
  BY <1>t, <1>1, <1>2
<1>4. \A i \in CollectionIds : collection'[i] = None <=> collection[i] = None
  BY <1>t, <1>1, <1>2
<1>5. /\ Nodes(collection') = Nodes(collection) /\ n \in Nodes(collection)
      /\ None \notin Nodes(collection)
      /\ \A i \in Nodes(collection) \ {n} : collection'[i].parent = collection[i].parent
      /\ collection'[n].parent = request[r].parent
  BY <1>t, <1>1, <1>2, <1>3, <1>4 DEF Nodes, Shelf
<1>6. request[r].parent \in Nodes(collection) \cup {None}
  BY <1>t, <1>1 DEF Takes, Nodes, CollectionRequest, Parents
<1>7. CollectionsFormTrees'
  <2>1. Grounded(collection) /\ ParentsExist(collection)
    BY DEF CollectionInv, CollectionsFormTrees
  <2>2. request[r].parent # n /\ request[r].parent \notin Below(collection, n)
    BY <1>1 DEF NotUnderItself
  <2>3. Grounded(collection') /\ ParentsExist(collection')
    BY <1>5, <1>6, <2>1, <2>2, MovingKeepsTrees
  <2> QED
    BY <2>3 DEF CollectionsFormTrees
<1>8. ReceiptsName'
  BY <1>t, <1>1, <1>4 DEF CollectionInv, ReceiptsName, CollectionReceipt, CollectionIds
<1>9. Do(r, [request[r] EXCEPT !.at = "ok"])
  BY <1>1 DEF Go, Do, CollectionInv, CollectionsTypeOK
<1>10. Placed(collection', receipts', r, [request[r] EXCEPT !.at = "ok"])
  BY <1>t, <1>1 DEF Placed, CollectionRequest
<1>11. /\ \A i \in CollectionIds : collection[i] # None => collection'[i] # None
       /\ \A t \in Requests \ {r} : collection'[t] = None <=> collection[t] = None
       /\ \A k \in RequestKeys : receipts[k] # None => receipts'[k] = receipts[k]
  BY <1>1, <1>4 DEF CollectionIds
<1> QED
  BY <1>t, <1>1, <1>3, <1>7, <1>8, <1>9, <1>10, <1>11, OthersStayPlaced

LEMMA CollectionsStep ==
  ASSUME CollectionInv, [CollectionsNext]_collectionVars
  PROVE  CollectionInv'
<1>t. /\ collection \in [CollectionIds -> CollectionType \cup {None}]
      /\ request \in [Requests -> CollectionRequest]
  BY DEF CollectionInv, CollectionsTypeOK
<1>p. \A r \in Requests : Placed(collection, receipts, r, request[r])
  BY DEF CollectionInv
<1>n. Nodes(collection) \subseteq CollectionIds /\ \A i \in Nodes(collection) : collection[i] # None
  BY <1>t DEF Nodes
<1>v. \A i \in Nodes(collection) : collection[i].version \in Nat /\ collection[i].active \in BOOLEAN
  <2> SUFFICES ASSUME NEW i \in Nodes(collection)
               PROVE  collection[i].version \in Nat /\ collection[i].active \in BOOLEAN
    OBVIOUS
  <2>1. collection[i] \in CollectionType
    BY <1>t, <1>n
  <2> QED
    BY <2>1 DEF CollectionType
<1>r. \A r \in Requests : Placed(collection, receipts, r, [request[r] EXCEPT !.at = "refused"])
  BY <1>t DEF Placed, CollectionRequest
<1>1. ASSUME NEW r \in Requests, StartAddition(r) PROVE CollectionInv'
  <2>1. PICK k \in RequestKeys \cup {None}, p \in Nodes(collection) \cup {None}, a \in BOOLEAN :
         Decides(r, [NoShelving EXCEPT
           !.op = "add", !.at = IF k = None THEN "insert" ELSE "replay",
           !.key = k, !.parent = p, !.active = a])
    BY <1>1 DEF StartAddition
  <2>2. collection[r] = None
    BY <1>1, <1>p DEF StartAddition, At, Placed
  <2>3. Placed(collection, receipts, r, [NoShelving EXCEPT
           !.op = "add", !.at = IF k = None THEN "insert" ELSE "replay",
           !.key = k, !.parent = p, !.active = a])
    BY <1>n, <2>2, ZenonT(60) DEF Placed, NoShelving, CollectionRequest, Parents
  <2> QED
    BY <2>1, <2>3, DecidingKeeps
<1>2. ASSUME NEW r \in Requests, ReplayAddition(r) PROVE CollectionInv'
  <2>1. CASE Told(r) # None
    BY <1>2, <2>1, RetellingPlaces, DecidingKeeps DEF ReplayAddition, At
  <2>2. CASE Told(r) = None
    <3>1. Placed(collection, receipts, r, [request[r] EXCEPT !.at = "insert"])
      BY <1>t, <1>p, <1>2 DEF ReplayAddition, At, Placed, CollectionRequest
    <3> QED
      BY <1>2, <2>2, <3>1, DecidingKeeps DEF ReplayAddition
  <2> QED
    BY <2>1, <2>2
<1>3. ASSUME NEW r \in Requests, FailAddition(r) PROVE CollectionInv'
  <2>1. request[r].key # None => Placed(collection, receipts, r, [request[r] EXCEPT !.at = "again"])
    BY <1>t DEF Placed, CollectionRequest
  <2> QED
    BY <1>3, <1>r, <2>1, DecidingKeeps DEF FailAddition
<1>4. ASSUME NEW r \in Requests, FindAddition(r) PROVE CollectionInv'
  BY <1>4, <1>r, RetellingPlaces, DecidingKeeps DEF FindAddition, At
<1>5. ASSUME NEW r \in Requests, StartChange(r) PROVE CollectionInv'
  <2>1. PICK i \in Nodes(collection) : \E v \in {collection[i].version, None} :
       \/ \E p \in Nodes(collection) \cup {None} :
            Decides(r, [NoShelving EXCEPT
              !.op = "move", !.at = "look", !.id = i, !.parent = p, !.version = v])
       \/ Decides(r, [NoShelving EXCEPT
            !.op = "switch", !.at = "look", !.id = i, !.version = v,
            !.active = ~collection[i].active])
    BY <1>5 DEF StartChange
  <2>2. PICK v \in {collection[i].version, None} :
       \/ \E p \in Nodes(collection) \cup {None} :
            Decides(r, [NoShelving EXCEPT
              !.op = "move", !.at = "look", !.id = i, !.parent = p, !.version = v])
       \/ Decides(r, [NoShelving EXCEPT
            !.op = "switch", !.at = "look", !.id = i, !.version = v,
            !.active = ~collection[i].active])
    BY <2>1
  <2>3. v \in {None} \cup Nat
    BY <1>v
  <2>4. ASSUME NEW p \in Nodes(collection) \cup {None}
        PROVE  Placed(collection, receipts, r, [NoShelving EXCEPT
                 !.op = "move", !.at = "look", !.id = i, !.parent = p, !.version = v])
    BY <1>n, <2>3 DEF Placed, NoShelving, CollectionRequest, Parents
  <2>5. Placed(collection, receipts, r, [NoShelving EXCEPT
          !.op = "switch", !.at = "look", !.id = i, !.version = v,
          !.active = ~collection[i].active])
    BY <1>n, <2>3 DEF Placed, NoShelving, CollectionRequest, Parents
  <2> QED
    BY <2>2, <2>4, <2>5, DecidingKeeps
<1>6. ASSUME NEW r \in Requests, LookAtCollection(r) PROVE CollectionInv'
  <2>1. /\ request[r].at = "look" /\ request[r].op # "add"
        /\ request[r].id \in CollectionIds /\ Old(r) \in CollectionType
    BY <1>t, <1>p, <1>6 DEF LookAtCollection, At, Placed, Old
  <2>2. Placed(collection, receipts, r, [request[r] EXCEPT
          !.at = "update", !.version = Old(r).version, !.active = Old(r).active])
    BY <1>t, <1>p, <2>1, ZenonT(60) DEF Placed, CollectionRequest, CollectionType
  <2>3. Placed(collection, receipts, r, [request[r] EXCEPT
          !.at = "update", !.version = Old(r).version, !.parent = Old(r).parent])
    BY <1>t, <1>p, <2>1, ZenonT(60) DEF Placed, CollectionRequest, CollectionType
  <2> QED
    BY <1>6, <1>r, <2>2, <2>3, DecidingKeeps DEF LookAtCollection
<1>7. ASSUME NEW r \in Requests, FailUpdate(r) PROVE CollectionInv'
  BY <1>7, <1>r, DecidingKeeps DEF FailUpdate
<1>8. CASE UNCHANGED collectionVars
  BY <1>8 DEF collectionVars, shelving, CollectionInv, CollectionsTypeOK, CollectionsFormTrees,
       ReceiptsName
<1> QED
  BY <1>1, <1>2, <1>3, <1>4, <1>5, <1>6, <1>7, <1>8, AdditionKeeps, UpdateKeeps
     DEF CollectionsNext

\* The invariant of the collections: rows and receipts stay, a receipt names a row,
\* and a request that is to insert has none.
THEOREM CollectionsInvariance == CollectionsSpec => []CollectionInv
<1>1. CollectionInv /\ [CollectionsNext]_collectionVars => CollectionInv'
  BY CollectionsStep
<1> QED
  BY <1>1, CollectionsStart, PTL DEF CollectionsSpec

\* However changes overlap, the collections stay trees (spaces/repository.ts, the
\* descendants in the condition of the update).
THEOREM CollectionsCorrect == CollectionsSpec => []CollectionsFormTrees
<1>1. CollectionInv => CollectionsFormTrees
  BY DEF CollectionInv
<1> QED
  BY <1>1, CollectionsInvariance, PTL

\* Creations under one key make one collection (spaces/repository.ts, the claim of
\* the key in the batch of the row).
THEOREM OneCollectionPerKey == CollectionsSpec => []SameKeySameCollection
<1>1. CollectionInv => SameKeySameCollection
  BY DEF CollectionInv, Placed, SameKeySameCollection, At, Told
<1> QED
  BY <1>1, CollectionsInvariance, PTL

-----------------------------------------------------------------------------
(* Passwords: a lock is earned, and no session begins for a disabled member. *)

\* The requests that were told of a wrong password, or of a lock.
Refused == {r \in Requests : request[r].at \in {"locked", "invalid"}}

\* What is so for a request that carries c.
Visits(c) ==
  /\ c.since <= MaxTime
  /\ c.at \in {"enter", "own", "update", "revoke"} => c.op = "change"
  /\ c.at = "store" => c.op = "reset"

\* The count is that of the wrong passwords in a row, whose requests were told, and
\* the lock that of the last of them.
LockFollows ==
  /\ failures = Len(missed)
  /\ \A k \in 1..Len(missed) : missed[k] \in Refused
  /\ lockedUntil = IF Len(missed) >= Threshold
                   THEN request[missed[Len(missed)]].since + LockTime ELSE None

\* Each failure is that of a request that was told.
AccessInv ==
  /\ MemberTypeOK /\ LockFollows
  /\ failures <= Cardinality(Refused)
  /\ \A r \in Requests : Visits(request[r])

LEMMA RefusedIsFinite ==
  /\ IsFiniteSet(Refused) /\ Cardinality(Refused) \in Nat
  /\ Cardinality(Requests) \in Nat
  /\ Cardinality(Refused) <= Cardinality(Requests)
<1>1. IsFiniteSet(Requests) /\ Refused \subseteq Requests
  BY AccessAssumption DEF Refused
<1> QED
  BY <1>1, FS_Subset, FS_CardinalityType

\* A step of a request that does not touch the count, but to set it back.
LEMMA VisitKeeps ==
  ASSUME AccessInv, NEW r \in Requests, NEW c \in AccessRequest, Do(r, c), Visits(c),
         r \notin Refused,
         UNCHANGED <<now, active>>, record' \in Records,
         word' \in [Records -> Passwords \cup {None}],
         \/ UNCHANGED <<failures, lockedUntil, missed>>
         \/ failures' = 0 /\ lockedUntil' = None /\ missed' = <<>>
  PROVE  AccessInv'
<1>1. /\ MemberTypeOK /\ LockFollows /\ Threshold \in Nat \ {0}
      /\ request \in [Requests -> AccessRequest] /\ failures \in Nat
      /\ failures <= Cardinality(Refused)
  BY RefusedIsFinite, AccessAssumption DEF AccessInv, MemberTypeOK
<1>2. /\ request'[r] = c /\ request' \in [Requests -> AccessRequest]
      /\ \A q \in Requests : q # r => request'[q] = request[q]
  BY <1>1 DEF Do
<1>3. Refused' = Refused \/ Refused' = Refused \cup {r}
  BY <1>2 DEF Refused
<1>4. Cardinality(Refused) <= Cardinality(Refused') /\ Cardinality(Refused') \in Nat
  <2>1. Refused' \subseteq Requests /\ Refused \subseteq Refused' /\ IsFiniteSet(Requests)
    BY <1>3, AccessAssumption DEF Refused
  <2> QED
    BY <2>1, FS_Subset, FS_CardinalityType
<1>5. MemberTypeOK'
  <2>1. missed \in Seq(Requests) /\ <<>> \in Seq(Requests)
    BY <1>1 DEF MemberTypeOK
  <2>2. missed' \in Seq(Requests)
    BY <2>1
  <2>3. failures' \in 0..Cardinality(Requests) /\ lockedUntil' \in Time \cup {None}
    BY <1>1, RefusedIsFinite DEF MemberTypeOK
  <2> QED
    BY <1>1, <1>2, <2>2, <2>3 DEF MemberTypeOK
<1>6. LockFollows'
  <2>1. CASE UNCHANGED <<failures, lockedUntil, missed>>
    <3>1. missed \in Seq(Requests) /\ Len(missed) \in Nat
      BY <1>1 DEF MemberTypeOK
    <3>2. \A k \in 1..Len(missed) : missed[k] \in Requests /\ missed[k] # r
      BY <1>1 DEF LockFollows, Refused
    <3>3. \A k \in 1..Len(missed) : request'[missed[k]] = request[missed[k]]
      BY <1>2, <3>2
    <3>4. \A k \in 1..Len(missed) : missed[k] \in Refused'
      BY <1>1, <3>2, <3>3 DEF LockFollows, Refused
    <3>5. Len(missed) >= Threshold => Len(missed) \in 1..Len(missed)
      BY <1>1, <3>1
    <3> QED
      BY <1>1, <2>1, <3>3, <3>4, <3>5 DEF LockFollows
  <2>2. CASE failures' = 0 /\ lockedUntil' = None /\ missed' = <<>>
    BY <1>1, <2>2 DEF LockFollows
  <2> QED
    BY <2>1, <2>2
<1>7. failures' <= Cardinality(Refused')
  BY <1>1, <1>4, RefusedIsFinite
<1>8. \A q \in Requests : Visits(request[q])'
  BY <1>2 DEF AccessInv, Visits
<1> QED
  BY <1>5, <1>6, <1>7, <1>8 DEF AccessInv

\* A wrong password is counted once, and locks when the count is full.
LEMMA FailKeeps ==
  ASSUME AccessInv, NEW r \in Requests, Fail(r)
  PROVE  AccessInv'
<1>1. /\ MemberTypeOK /\ LockFollows /\ Threshold \in Nat \ {0}
      /\ request \in [Requests -> AccessRequest] /\ failures \in Nat
      /\ failures <= Cardinality(Refused)
      /\ MaxTime \in Nat /\ LockTime \in Nat /\ SessionLife \in Nat /\ None \notin Time
  BY RefusedIsFinite, AccessAssumption DEF AccessInv, MemberTypeOK
<1>2. /\ request[r].at = "fail" /\ request[r] \in AccessRequest /\ Visits(request[r])
      /\ request[r].since \in Time /\ request[r].since \in Nat
  BY <1>1 DEF Fail, At, AccessInv, AccessRequest, Time
<1>3. /\ failures' = failures + 1
      /\ lockedUntil' = IF Locks(failures + 1) THEN request[r].since + LockTime ELSE lockedUntil
      /\ missed' = Append(missed, r)
      /\ UNCHANGED <<now, record, word, active>>
  BY DEF Fail
<1>4. PICK step \in {"locked", "invalid"} : request' = [request EXCEPT ![r].at = step]
  BY DEF Fail, Go
<1>5. /\ request'[r] = [request[r] EXCEPT !.at = step] /\ request'[r] \in AccessRequest
      /\ request' \in [Requests -> AccessRequest]
      /\ \A q \in Requests : q # r => request'[q] = request[q]
      /\ request'[r].at = step /\ request'[r].since = request[r].since
  BY <1>1, <1>2, <1>4 DEF AccessRequest, AccessAnswers
<1>6. Refused' = Refused \cup {r} /\ r \notin Refused /\ Refused' \subseteq Requests
  BY <1>2, <1>5 DEF Refused
<1>7. /\ Cardinality(Refused') = Cardinality(Refused) + 1
      /\ Cardinality(Refused') <= Cardinality(Requests)
  BY <1>6, RefusedIsFinite, AccessAssumption, FS_AddElement, FS_Subset
<1>8. failures' <= Cardinality(Refused') /\ failures' \in 0..Cardinality(Requests)
  BY <1>1, <1>3, <1>7, RefusedIsFinite
<1>9. request[r].since + LockTime \in Time
  BY <1>1, <1>2 DEF Visits, Time
<1>10. LockFollows'
  <2>1. /\ missed \in Seq(Requests) /\ missed' \in Seq(Requests) /\ Len(missed) \in Nat
        /\ Len(missed') = Len(missed) + 1 /\ missed'[Len(missed')] = r
        /\ \A k \in 1..Len(missed) : missed'[k] = missed[k]
    BY <1>1, <1>3 DEF MemberTypeOK
  <2>2. \A k \in 1..Len(missed') : missed'[k] \in Refused'
    BY <1>1, <1>6, <2>1 DEF LockFollows
  <2>3. failures' = Len(missed') /\ (Locks(failures + 1) <=> Len(missed') >= Threshold)
    BY <1>1, <1>3, <2>1 DEF LockFollows, Locks
  <2>4. ~Locks(failures + 1) => lockedUntil = None
    BY <1>1, <2>1, <2>3 DEF LockFollows
  <2> QED
    BY <1>3, <1>5, <2>1, <2>2, <2>3, <2>4 DEF LockFollows
<1>11. MemberTypeOK'
  <2>1. missed' \in Seq(Requests)
    BY <1>1, <1>3 DEF MemberTypeOK
  <2> QED
    BY <1>1, <1>3, <1>5, <1>8, <1>9, <2>1 DEF MemberTypeOK
<1>12. \A q \in Requests : Visits(request[q])'
  BY <1>2, <1>5 DEF AccessInv, Visits
<1> QED
  BY <1>8, <1>10, <1>11, <1>12 DEF AccessInv

\* A request that only moves on.
LEMMA VisitMoves ==
  ASSUME AccessInv, NEW r \in Requests, NEW step \in AccessSteps \cup AccessAnswers,
         Go(r, step), r \notin Refused,
         Visits([request[r] EXCEPT !.at = step]),
         UNCHANGED <<now, active>>, record' \in Records,
         word' \in [Records -> Passwords \cup {None}],
         \/ UNCHANGED <<failures, lockedUntil, missed>>
         \/ failures' = 0 /\ lockedUntil' = None /\ missed' = <<>>
  PROVE  AccessInv'
<1>1. request \in [Requests -> AccessRequest]
  BY DEF AccessInv, MemberTypeOK
<1>2. [request[r] EXCEPT !.at = step] \in AccessRequest
  BY <1>1 DEF AccessRequest
<1>3. Do(r, [request[r] EXCEPT !.at = step])
  BY <1>1 DEF Do, Go
<1> QED
  BY <1>2, <1>3, VisitKeeps

LEMMA VisitStep ==
  ASSUME AccessInv, NEW r \in Requests,
         \/ (\E p \in Passwords : Login(r, p) \/ Reset(r, p))
         \/ ReadForLogin(r) \/ Verify(r) \/ Clear(r) \/ Provider(r) \/ Stamp(r) \/ Open(r)
         \/ ReadForReset(r) \/ StoreReset(r)
         \/ (\E t \in Cookies, p, new \in Passwords : Change(r, t, p, new))
         \/ FindSession(r) \/ FindMember(r) \/ ReadForChange(r)
         \/ UpdatePassword(r) \/ RevokeOthers(r)
  PROVE  AccessInv'
<1>1. /\ request[r] \in AccessRequest /\ Visits(request[r])
      /\ record \in Records /\ word \in [Records -> Passwords \cup {None}]
      /\ r \in Records
      /\ 0 <= MaxTime /\ now <= MaxTime /\ now \in Time
      /\ 0 \in Time /\ NoVisit \in AccessRequest
      /\ NoVisit.since = 0 /\ NoVisit.at = "new"
  BY AccessAssumption
     DEF AccessInv, MemberTypeOK, Records, Time, NoVisit, AccessRequest, AccessSteps
<1>2. r \notin Refused
  BY DEF Refused, At, Login, Reset, Start, ReadForLogin, Verify, Clear, Provider, Stamp, Open,
         ReadForReset, StoreReset, Change, FindSession, FindMember, ReadForChange,
         UpdatePassword, RevokeOthers
<1> USE <1>1, <1>2
<1>3. ASSUME NEW c \in AccessRequest, Start(r, c), c.since = 0, c.at \in {"read", "stamp", "enter"},
             c.at = "enter" => c.op = "change"
      PROVE  AccessInv'
  BY <1>3, VisitKeeps DEF Start, Visits, access, member
<1>4. ASSUME NEW p \in Passwords, Login(r, p)
      PROVE  AccessInv'
  BY <1>3, <1>4 DEF Login, AccessRequest, AccessSteps
<1>5. ASSUME NEW p \in Passwords, Reset(r, p)
      PROVE  AccessInv'
  BY <1>3, <1>5 DEF Reset, AccessRequest, AccessSteps
<1>6. CASE Provider(r)
  BY <1>3, <1>6, ZenonT(60) DEF Provider, AccessRequest, AccessSteps
<1>7. ASSUME NEW t \in Cookies, NEW p \in Passwords, NEW new \in Passwords,
             Change(r, t, p, new)
      PROVE  AccessInv'
  <2>1. PICK c : c = [NoVisit EXCEPT !.op = "change", !.at = "enter",
                                     !.session = t, !.try = p, !.new = new]
    OBVIOUS
  <2>2. c \in AccessRequest /\ c.since = 0 /\ c.at = "enter" /\ c.op = "change"
    BY <2>1 DEF Cookies, AccessRequest, AccessSteps
  <2> QED
    BY <1>3, <1>7, <2>1, <2>2 DEF Change
<1>8. CASE ReadForLogin(r)
  <2> DEFINE c == [request[r] EXCEPT !.at = "verify", !.saw = record,
                                     !.wasActive = active, !.since = now]
  <2>1. c \in AccessRequest /\ Visits(c)
    BY ZenonT(60) DEF AccessRequest, AccessSteps, Visits, AccessInv, MemberTypeOK
  <2>2. \A step \in {"locked", "invalid"} : Visits([request[r] EXCEPT !.at = step])
    BY DEF Visits, AccessRequest
  <2>3. Go(r, "locked") \/ Go(r, "invalid") \/ Do(r, c)
    BY <1>8 DEF ReadForLogin
  <2>4. UNCHANGED <<now, record, word, failures, lockedUntil, missed, active>>
    BY <1>8 DEF ReadForLogin, access, member
  <2> QED
    BY <2>1, <2>2, <2>3, <2>4, VisitKeeps, VisitMoves DEF AccessAnswers
<1>9. CASE Verify(r)
  <2>1. PICK step \in {"fail", "clear", "disabled"} : Go(r, step)
    BY <1>9 DEF Verify
  <2> QED
    BY <1>9, <2>1, VisitMoves
       DEF Verify, Visits, AccessRequest, AccessSteps, AccessAnswers, access, member
<1>10. CASE Clear(r)
  BY <1>10, VisitMoves DEF Clear, Visits, AccessRequest, AccessSteps
<1>11. CASE Stamp(r)
  <2> DEFINE c == [request[r] EXCEPT !.at = "open", !.since = now]
  <2>1. c \in AccessRequest /\ Visits(c)
    BY DEF AccessRequest, AccessSteps, Visits
  <2> QED
    BY <1>11, <2>1, VisitKeeps DEF Stamp, access, member
<1>12. CASE Open(r)
  <2>1. PICK step \in {"ok", "disabled"} : Go(r, step)
    BY <1>12 DEF Open
  <2> QED
    BY <1>12, <2>1, VisitMoves DEF Open, Visits, AccessRequest, AccessAnswers, member
<1>13. CASE ReadForReset(r)
  <2> DEFINE c == [request[r] EXCEPT !.at = "store", !.saw = record]
  <2>1. request[r].op = "reset"
    BY <1>13 DEF ReadForReset
  <2>2. c \in AccessRequest /\ Visits(c)
    BY <2>1 DEF AccessRequest, AccessSteps, Visits
  <2>3. CASE Do(r, c)
    BY <1>13, <2>2, <2>3, VisitKeeps DEF ReadForReset, access, member
  <2>4. CASE Go(r, "invalid")
    BY <1>13, <2>4, VisitMoves DEF ReadForReset, Visits, AccessRequest, AccessAnswers, access, member
  <2> QED
    BY <1>13, <2>3, <2>4 DEF ReadForReset
<1>14. CASE StoreReset(r)
  <2>1. request[r].new \in Passwords \cup {None}
    BY DEF AccessRequest
  <2>2. \A step \in {"ok", "invalid"} : Visits([request[r] EXCEPT !.at = step])
    BY DEF Visits, AccessRequest
  <2>3. CASE Unreplaced(r)
    BY <1>14, <2>1, <2>2, <2>3, VisitMoves DEF StoreReset, Replace, AccessAnswers
  <2>4. CASE ~Unreplaced(r)
    BY <1>14, <2>2, <2>4, VisitMoves DEF StoreReset, AccessAnswers, member
  <2> QED
    BY <2>3, <2>4
<1>15. CASE FindSession(r)
  <2>1. PICK step \in {"unauthenticated", "own", "disabled"} : Go(r, step)
    BY <1>15 DEF FindSession
  <2>2. request[r].op = "change"
    BY <1>15 DEF FindSession, At, Visits
  <2> QED
    BY <1>15, <2>1, <2>2, VisitMoves
       DEF FindSession, Visits, AccessRequest, AccessSteps, AccessAnswers, access, member
<1>16. CASE FindMember(r)
  <2>1. PICK step \in {"read", "disabled"} : Go(r, step)
    BY <1>16 DEF FindMember
  <2> QED
    BY <1>16, <2>1, VisitMoves
       DEF FindMember, Visits, AccessRequest, AccessSteps, AccessAnswers, access, member
<1>17. CASE ReadForChange(r)
  <2> DEFINE c == [request[r] EXCEPT !.at = "update", !.saw = record]
  <2>1. request[r].op = "change"
    BY <1>17 DEF ReadForChange
  <2>2. c \in AccessRequest /\ Visits(c)
    BY <2>1 DEF AccessRequest, AccessSteps, Visits
  <2>3. CASE Do(r, c)
    BY <1>17, <2>2, <2>3, VisitKeeps DEF ReadForChange, access, member
  <2>4. CASE Go(r, "invalid")
    BY <1>17, <2>4, VisitMoves DEF ReadForChange, Visits, AccessRequest, AccessAnswers, access, member
  <2> QED
    BY <1>17, <2>3, <2>4 DEF ReadForChange
<1>18. CASE UpdatePassword(r)
  <2>1. request[r].new \in Passwords \cup {None} /\ request[r].op = "change"
    BY <1>18 DEF AccessRequest, UpdatePassword, At, Visits
  <2>2. \A step \in {"revoke", "conflict"} : Visits([request[r] EXCEPT !.at = step])
    BY <2>1 DEF Visits, AccessRequest
  <2>3. CASE Unreplaced(r)
    BY <1>18, <2>1, <2>2, <2>3, VisitMoves DEF UpdatePassword, Replace, AccessSteps
  <2>4. CASE ~Unreplaced(r)
    BY <1>18, <2>2, <2>4, VisitMoves DEF UpdatePassword, AccessAnswers, member
  <2> QED
    BY <2>3, <2>4
<1>19. CASE RevokeOthers(r)
  BY <1>19, VisitMoves DEF RevokeOthers, Visits, AccessRequest, AccessAnswers, member
<1> QED
  BY <1>4, <1>5, <1>6, <1>7, <1>8, <1>9, <1>10, <1>11, <1>12, <1>13, <1>14, <1>15, <1>16,
     <1>17, <1>18, <1>19

LEMMA AccessInitially == AccessInit => AccessInv
<1> SUFFICES ASSUME AccessInit
    PROVE  AccessInv
  OBVIOUS
<1>1. /\ NoVisit \in AccessRequest /\ NoVisit.at = "new" /\ NoVisit.since = 0
      /\ 0 \in 0..MaxTime /\ 0 <= MaxTime
  BY AccessAssumption DEF NoVisit, AccessRequest, AccessSteps, Time
<1>2. request \in [Requests -> AccessRequest] /\ \A r \in Requests : request[r] = NoVisit
  BY <1>1 DEF AccessInit
<1>3. word \in [Records -> Passwords \cup {None}]
  BY DEF AccessInit, Records
<1>4. /\ failures = 0 /\ lockedUntil = None /\ missed = <<>> /\ missed \in Seq(Requests)
      /\ active = TRUE /\ now = 0 /\ record \in Records
  BY DEF AccessInit, Records
<1>5. MemberTypeOK /\ failures <= Cardinality(Refused)
  BY <1>1, <1>2, <1>3, <1>4, RefusedIsFinite DEF MemberTypeOK
<1>6. LockFollows
  BY <1>4, AccessAssumption DEF LockFollows
<1>7. \A r \in Requests : Visits(request[r])
  BY <1>1, <1>2 DEF Visits
<1> QED
  BY <1>5, <1>6, <1>7 DEF AccessInv

LEMMA AccessStep == AccessInv /\ [AccessNext]_accessVars => AccessInv'
<1> SUFFICES ASSUME AccessInv, [AccessNext]_accessVars
    PROVE  AccessInv'
  OBVIOUS
<1>1. ASSUME UNCHANGED <<record, word, failures, lockedUntil, missed, request>>,
             now' \in 0..MaxTime, active' \in BOOLEAN
      PROVE  AccessInv'
  <2>1. MemberTypeOK' /\ LockFollows'
    BY <1>1 DEF AccessInv, MemberTypeOK, LockFollows, Refused
  <2>2. UNCHANGED Refused /\ \A r \in Requests : Visits(request[r])'
    BY <1>1 DEF AccessInv, Refused, Visits
  <2> QED
    BY <1>1, <2>1, <2>2 DEF AccessInv
<1>2. now \in 0..MaxTime /\ active \in BOOLEAN /\ MaxTime \in Nat
  BY AccessAssumption DEF AccessInv, MemberTypeOK
<1>3. CASE UNCHANGED accessVars
  BY <1>1, <1>2, <1>3 DEF accessVars, access, member
<1>4. CASE CleanUp
  BY <1>1, <1>2, <1>4 DEF CleanUp, member
<1>5. ASSUME NEW r \in Requests, Logout(r)
      PROVE  AccessInv'
  BY <1>1, <1>2, <1>5 DEF Logout, member
<1>6. CASE Switch
  BY <1>1, <1>2, <1>6 DEF Switch
<1>7. CASE Tick
  <2>1. now' \in 0..MaxTime
    BY <1>2, <1>7 DEF Tick
  <2> QED
    BY <1>1, <1>2, <1>7, <2>1 DEF Tick, member
<1> QED
  BY <1>3, <1>4, <1>5, <1>6, <1>7, VisitStep, FailKeeps DEF AccessNext

\* A member's record, count and lock, and where each request is.
THEOREM AccessInvariance == AccessSpec => []AccessInv
<1> QED
  BY AccessInitially, AccessStep, PTL DEF AccessSpec

\* A login that was to read the row, or to have its wrong password counted, and was
\* moved on, has done so.
LEMMA OwnStatement ==
  ASSUME AccessInv, AccessNext, NEW r \in Requests, request'[r].at # request[r].at
  PROVE  /\ request[r].op = "password" /\ At(r, "read") => ReadForLogin(r)
         /\ At(r, "fail") => Fail(r)
<1>1. request \in [Requests -> AccessRequest] /\ Visits(request[r])
  BY DEF AccessInv, MemberTypeOK
<1>2. ASSUME NEW q \in Requests, NEW step, Go(q, step)
      PROVE  q = r
  BY <1>1, <1>2 DEF Go
<1>3. ASSUME NEW q \in Requests, NEW c, Do(q, c)
      PROVE  q = r
  BY <1>1, <1>3 DEF Do
<1>4. ASSUME NEW q \in Requests, NEW c, Start(q, c)
      PROVE  At(r, "new")
  BY <1>3, <1>4 DEF Start
<1>5. ASSUME NEW q \in Requests,
             \/ (\E p \in Passwords : Login(q, p) \/ Reset(q, p))
             \/ Provider(q)
             \/ (\E t \in Cookies, p, new \in Passwords : Change(q, t, p, new))
      PROVE  At(r, "new")
  BY <1>4, <1>5 DEF Login, Reset, Provider, Change
<1>6. ASSUME NEW q \in Requests, ReadForLogin(q) \/ ReadForReset(q) \/ ReadForChange(q)
      PROVE  q = r
  BY <1>2, <1>3, <1>6 DEF ReadForLogin, ReadForReset, ReadForChange
<1>7. ASSUME NEW q \in Requests,
             \/ Verify(q) \/ Clear(q) \/ Stamp(q) \/ Open(q) \/ StoreReset(q)
             \/ FindSession(q) \/ FindMember(q) \/ UpdatePassword(q) \/ RevokeOthers(q)
      PROVE  ~At(r, "read") /\ ~At(r, "fail")
  <2>1. q = r
    BY <1>2, <1>3, <1>7
       DEF Verify, Clear, Stamp, Open, StoreReset, FindSession, FindMember, UpdatePassword,
           RevokeOthers
  <2> QED
    BY <1>7, <2>1
       DEF At, Verify, Clear, Stamp, Open, StoreReset, FindSession, FindMember, UpdatePassword,
           RevokeOthers
<1>8. ASSUME NEW q \in Requests, Fail(q)
      PROVE  q = r
  BY <1>2, <1>8 DEF Fail
<1>9. ~(CleanUp \/ Switch \/ Tick \/ \E q \in Requests : Logout(q))
  BY DEF CleanUp, Switch, Tick, Logout
<1>10. CASE \E q \in Requests : ReadForLogin(q) \/ ReadForReset(q) \/ ReadForChange(q)
  BY <1>6, <1>10 DEF ReadForLogin, ReadForReset, ReadForChange, At
<1>11. CASE \E q \in Requests : Fail(q)
  BY <1>8, <1>11 DEF Fail, At
<1> QED
  BY <1>5, <1>7, <1>9, <1>10, <1>11 DEF AccessNext, At

\* What the columns say of a lock is what was earned.
LEMMA LockIsThatOfTheLast ==
  ASSUME AccessInv
  PROVE  (lockedUntil # None /\ lockedUntil > now) <=> Locked
<1>1. CASE Len(missed) >= Threshold
  <2>1. /\ missed \in Seq(Requests) /\ Len(missed) \in Nat /\ Threshold \in Nat \ {0}
    BY AccessAssumption DEF AccessInv, MemberTypeOK
  <2>2. missed[Len(missed)] \in Requests
    BY <1>1, <2>1
  <2>3. /\ request[missed[Len(missed)]].since \in Time
        /\ request[missed[Len(missed)]].since <= MaxTime
    BY <2>2 DEF AccessInv, MemberTypeOK, AccessRequest, Visits
  <2>4. request[missed[Len(missed)]].since + LockTime \in Time
    BY <2>3, AccessAssumption DEF Time
  <2> QED
    BY <1>1, <2>4, AccessAssumption DEF AccessInv, LockFollows, Locked
<1>2. CASE ~(Len(missed) >= Threshold)
  BY <1>2 DEF AccessInv, LockFollows, Locked
<1> QED
  BY <1>1, <1>2

\* A login is turned away exactly while a lock lasts that Threshold wrong passwords
\* in a row earned, and a wrong password is told of a lock exactly from the
\* Threshold-th on, whichever requests are judging passwords together.
THEOREM LockCorrect == AccessSpec => LockIsEarned
<1> DEFINE Earned ==
      \A r \in Requests :
        /\ request[r].op = "password" /\ At(r, "read") /\ ~At(r, "read")'
             => (At(r, "locked")' <=> Locked)
        /\ At(r, "fail") /\ ~At(r, "fail")'
             => (At(r, "locked")' <=> Len(missed') >= Threshold)
<1>1. ASSUME AccessInv, AccessNext
      PROVE  Earned
  <2>1. request \in [Requests -> AccessRequest]
    BY <1>1 DEF AccessInv, MemberTypeOK
  <2>2. ASSUME NEW r \in Requests, NEW step, Go(r, step)
        PROVE  request'[r].at = step
    BY <2>1, <2>2 DEF Go, AccessRequest
  <2>3. ASSUME NEW r \in Requests, request[r].op = "password", At(r, "read"), ~At(r, "read")'
        PROVE  At(r, "locked")' <=> Locked
    <3>1. ReadForLogin(r)
      BY <1>1, <2>3, OwnStatement DEF At
    <3>2. ASSUME NEW c, Do(r, c)
          PROVE  request'[r] = c
      BY <2>1, <3>2 DEF Do
    <3>3. PICK c : c = [request[r] EXCEPT !.at = "verify", !.saw = record,
                                          !.wasActive = active, !.since = now]
      OBVIOUS
    <3>4. c.at = "verify"
      BY <2>1, <3>3 DEF AccessRequest
    <3>5. At(r, "locked")' <=> (lockedUntil # None /\ lockedUntil > now)
      BY <2>2, <3>1, <3>2, <3>3, <3>4 DEF ReadForLogin, At
    <3> QED
      BY <1>1, <3>5, LockIsThatOfTheLast
  <2>4. ASSUME NEW r \in Requests, At(r, "fail"), ~At(r, "fail")'
        PROVE  At(r, "locked")' <=> Len(missed') >= Threshold
    <3>1. Fail(r)
      BY <1>1, <2>4, OwnStatement DEF At
    <3>2. AccessInv'
      BY <1>1, <3>1, FailKeeps
    <3>3. At(r, "locked")' <=> lockedUntil' # None
      BY <2>2, <3>1 DEF Fail, At
    <3>4. lockedUntil' # None <=> Len(missed') >= Threshold
      <4>1. /\ missed \in Seq(Requests) /\ Len(missed) \in Nat /\ failures = Len(missed)
            /\ Len(missed') = Len(missed) + 1 /\ Threshold \in Nat \ {0}
        BY <1>1, <3>1, AccessAssumption DEF AccessInv, MemberTypeOK, LockFollows, Fail
      <4>2. request[r].since + LockTime \in Time
        BY <1>1, AccessAssumption DEF AccessInv, MemberTypeOK, AccessRequest, Visits, Time
      <4>3. Len(missed) < Threshold => lockedUntil = None
        BY <1>1, <4>1 DEF AccessInv, LockFollows
      <4> QED
        BY <3>1, <4>1, <4>2, <4>3, AccessAssumption DEF Fail, Locks
    <3> QED
      BY <3>3, <3>4
  <2> QED
    BY <2>3, <2>4
<1> HIDE DEF Earned
<1>2. AccessInv /\ [AccessNext]_accessVars => [Earned]_accessVars
  BY <1>1
<1> USE DEF Earned
<1> QED
  BY <1>2, AccessInvariance, PTL DEF AccessSpec, LockIsEarned

\* No session begins while its member is disabled: whatever the login saw, the
\* insert looks again.
THEOREM SessionsCorrect == AccessSpec => NoSessionForDisabled
<1> DEFINE Opens == \A r \in Requests : Answers(r, {"password", "provider"}, "ok") => active
<1>1. ASSUME AccessInv, [AccessNext]_accessVars
      PROVE  [Opens]_accessVars
  <2> SUFFICES ASSUME AccessNext, NEW r \in Requests,
                      Answers(r, {"password", "provider"}, "ok")
      PROVE  active
    BY <1>1
  <2>1. /\ request \in [Requests -> AccessRequest] /\ Visits(request[r])
        /\ request[r].op \in {"password", "provider"}
        /\ request[r].at # "ok" /\ request'[r].at = "ok"
    BY <1>1 DEF AccessInv, MemberTypeOK, Answers
  <2>2. ASSUME NEW q \in Requests, NEW step, Go(q, step)
        PROVE  q = r /\ step = "ok"
    BY <2>1, <2>2 DEF Go, AccessRequest
  <2>3. ASSUME NEW q \in Requests, NEW c, Do(q, c)
        PROVE  q = r /\ c.at = "ok"
    BY <2>1, <2>3 DEF Do
  <2>4. ASSUME NEW q \in Requests, Open(q)
        PROVE  active
    BY <2>2, <2>4 DEF Open, MayOpen
  <2>5. ASSUME NEW q \in Requests, NEW c, Start(q, c), c.at \in {"read", "stamp", "enter"}
        PROVE  FALSE
    BY <2>3, <2>5 DEF Start
  <2>6. ASSUME NEW q \in Requests, NEW p \in Passwords, Login(q, p) \/ Reset(q, p)
        PROVE  FALSE
    BY <2>5, <2>6 DEF Login, Reset, NoVisit
  <2>7. ASSUME NEW q \in Requests,
               \/ Provider(q)
               \/ \E t \in Cookies, p, new \in Passwords : Change(q, t, p, new)
        PROVE  FALSE
    BY <2>5, <2>7 DEF Provider, Change, NoVisit
  <2>8. ASSUME NEW q \in Requests,
               ReadForLogin(q) \/ Stamp(q) \/ ReadForReset(q) \/ ReadForChange(q)
        PROVE  FALSE
    <3>1. request[q] \in AccessRequest
      BY <2>1
    <3>2. \A step \in {"locked", "invalid"} : ~Go(q, step)
      BY <2>2
    <3>3. CASE ReadForLogin(q)
      <4>1. PICK c : /\ c = [request[q] EXCEPT !.at = "verify", !.saw = record,
                                              !.wasActive = active, !.since = now]
                     /\ Do(q, c)
        BY <3>2, <3>3 DEF ReadForLogin
      <4>2. c.at = "verify"
        BY <3>1, <4>1 DEF AccessRequest
      <4> QED
        BY <2>3, <4>1, <4>2
    <3>4. CASE Stamp(q)
      <4>1. PICK c : c = [request[q] EXCEPT !.at = "open", !.since = now] /\ Do(q, c)
        BY <3>4 DEF Stamp
      <4>2. c.at = "open"
        BY <3>1, <4>1 DEF AccessRequest
      <4> QED
        BY <2>3, <4>1, <4>2
    <3>5. CASE ReadForReset(q)
      <4>1. PICK c : c = [request[q] EXCEPT !.at = "store", !.saw = record] /\ Do(q, c)
        BY <3>2, <3>5 DEF ReadForReset
      <4>2. c.at = "store"
        BY <3>1, <4>1 DEF AccessRequest
      <4> QED
        BY <2>3, <4>1, <4>2
    <3>6. CASE ReadForChange(q)
      <4>1. PICK c : c = [request[q] EXCEPT !.at = "update", !.saw = record] /\ Do(q, c)
        BY <3>2, <3>6 DEF ReadForChange
      <4>2. c.at = "update"
        BY <3>1, <4>1 DEF AccessRequest
      <4> QED
        BY <2>3, <4>1, <4>2
    <3> QED
      BY <2>8, <3>3, <3>4, <3>5, <3>6
  <2>9. ASSUME NEW q \in Requests,
               Verify(q) \/ Fail(q) \/ Clear(q) \/ FindSession(q) \/ FindMember(q)
        PROVE  FALSE
    BY <2>2, <2>9 DEF Verify, Fail, Clear, FindSession, FindMember
  <2>10. ASSUME NEW q \in Requests, StoreReset(q) \/ UpdatePassword(q) \/ RevokeOthers(q)
         PROVE  FALSE
    <3>1. q = r
      BY <2>2, <2>10 DEF StoreReset, UpdatePassword, RevokeOthers
    <3> QED
      BY <2>1, <2>10, <3>1 DEF StoreReset, UpdatePassword, RevokeOthers, At, Visits
  <2>11. ~(CleanUp \/ Switch \/ Tick \/ \E q \in Requests : Logout(q))
    BY <2>1 DEF CleanUp, Switch, Tick, Logout
  <2> QED
    BY <1>1, <2>4, <2>6, <2>7, <2>8, <2>9, <2>10, <2>11 DEF AccessNext
<1> QED
  BY <1>1, AccessInvariance, PTL DEF AccessSpec, NoSessionForDisabled

-----------------------------------------------------------------------------
(* The sessions of a member, which create bounds in the batch that adds one. *)

\* A set of numbers that is not empty has a least one.
LEMMA Least ==
  ASSUME NEW T \in SUBSET Nat, T # {}
  PROVE  \E x \in T : \A y \in T : x <= y
<1>1. IsWellFoundedOn(OpToRel(<, Nat), Nat)
  BY NatLessThanWellFounded
<1>2. PICK x \in T : \A y \in T : <<y, x>> \notin OpToRel(<, Nat)
  BY <1>1, WFMin
<1>3. \A y \in T : ~(y < x)
  BY <1>2 DEF OpToRel
<1> QED
  BY <1>3

\* No two of the rows have one rowid.
OneRowEach(all) ==
  /\ all \subseteq SessionType /\ IsFiniteSet(all)
  /\ \A s, t \in all : s.nth = t.nth => s = t

SessionsInv ==
  /\ OneRowEach(sessions) /\ Cardinality(sessions) <= MaxSessions
  /\ switches \in 0..MaxSwitches

\* Of those that are kept, one is outlasted by all the others.
LEMMA FewAreKept ==
  ASSUME NEW all, OneRowEach(all)
  PROVE  OneRowEach(Kept(all)) /\ Cardinality(Kept(all)) <= MaxSessions
<1>1. PICK kept : kept = Kept(all)
  OBVIOUS
<1>2. /\ kept \subseteq all /\ IsFiniteSet(kept) /\ Cardinality(kept) \in Nat
      /\ \A s \in all : s.expires \in Nat /\ s.nth \in Nat
  <2>1. kept \subseteq all
    BY <1>1 DEF Kept
  <2>2. \A s \in all : s.expires \in Time /\ s.nth \in 1..Cardinality(Requests)
    BY DEF OneRowEach, SessionType
  <2>3. \A s \in all : s.expires \in Nat /\ s.nth \in Nat
    BY <2>2, AccessAssumption DEF Time
  <2> QED
    BY <2>1, <2>3, FS_Subset, FS_CardinalityType DEF OneRowEach
<1>3. OneRowEach(kept)
  BY <1>2 DEF OneRowEach
<1>4. CASE kept = {}
  BY <1>1, <1>3, <1>4, FS_EmptySet, AccessAssumption
<1>5. CASE kept # {}
  <2>1. PICK e \in {s.expires : s \in kept} : \A y \in {s.expires : s \in kept} : e <= y
    BY <1>2, <1>5, Least
  <2>2. PICK n \in {s.nth : s \in {u \in kept : u.expires = e}} :
          \A y \in {s.nth : s \in {u \in kept : u.expires = e}} : n <= y
    BY <1>2, <2>1, Least
  <2>3. PICK t \in kept : t.expires = e /\ t.nth = n
    BY <2>2
  <2>4. \A s \in kept \ {t} : Outlasts(s, t)
    <3> SUFFICES ASSUME NEW s \in kept \ {t} PROVE Outlasts(s, t)
      OBVIOUS
    <3>1. e <= s.expires /\ (s.expires = e => n <= s.nth)
      BY <2>1, <2>2
    <3>2. s.nth # n
      BY <1>3, <2>3 DEF OneRowEach
    <3> QED
      BY <1>2, <2>3, <3>1, <3>2 DEF Outlasts
  <2>5. PICK later : later = {s \in all : Outlasts(s, t)}
    OBVIOUS
  <2>6. /\ kept \ {t} \subseteq later /\ IsFiniteSet(later)
        /\ Cardinality(later) < MaxSessions
    <3>1. later \subseteq all /\ IsFiniteSet(all)
      BY <2>5 DEF OneRowEach
    <3> QED
      BY <1>1, <1>2, <2>3, <2>4, <2>5, <3>1, FS_Subset DEF Kept
  <2>7. Cardinality(kept \ {t}) = Cardinality(kept) - 1
    BY <1>2, <2>3, FS_RemoveElement
  <2>8. Cardinality(kept \ {t}) <= Cardinality(later) /\ Cardinality(later) \in Nat
    BY <2>6, FS_Subset, FS_CardinalityType
  <2> QED
    BY <1>1, <1>2, <1>3, <2>6, <2>7, <2>8, AccessAssumption
<1> QED
  BY <1>4, <1>5

\* Taking sessions away.
LEMMA SessionsGo ==
  ASSUME SessionsInv, sessions' \subseteq sessions, switches' \in 0..MaxSwitches
  PROVE  SessionsInv'
<1>1. OneRowEach(sessions')
  BY FS_Subset DEF SessionsInv, OneRowEach
<1>2. /\ Cardinality(sessions') <= Cardinality(sessions)
      /\ Cardinality(sessions') \in Nat /\ Cardinality(sessions) \in Nat
  BY <1>1, FS_Subset, FS_CardinalityType DEF SessionsInv, OneRowEach
<1> QED
  BY <1>1, <1>2, AccessAssumption DEF SessionsInv

LEMMA OpenKeeps ==
  ASSUME AccessInv, SessionsInv, NEW r \in Requests, Open(r)
  PROVE  SessionsInv'
<1>1. OneRowEach(sessions) /\ switches' \in 0..MaxSwitches
  BY DEF SessionsInv, Open
<1>2. request[r].since + SessionLife \in Time
  <2>1. request[r] \in AccessRequest /\ Visits(request[r])
    BY DEF AccessInv, MemberTypeOK
  <2>2. request[r].since \in Time /\ request[r].since <= MaxTime
    BY <2>1 DEF AccessRequest, Visits
  <2> QED
    BY <2>2, AccessAssumption DEF Time
<1>3. CASE ~MayOpen
  BY <1>1, <1>3, FewAreKept DEF Open, SessionsInv
<1>4. ASSUME NEW n \in 1..Cardinality(Requests), IsNext(n),
             sessions' = Kept(sessions \cup
               {[token |-> r, expires |-> request[r].since + SessionLife, nth |-> n]})
      PROVE  SessionsInv'
  <2>1. PICK s : s = [token |-> r, expires |-> request[r].since + SessionLife, nth |-> n]
    OBVIOUS
  <2>2. s \in SessionType /\ s.nth = n
    BY <1>2, <2>1 DEF SessionType
  <2>3. \A t \in sessions : t.nth # n
    <3>1. \A t \in sessions : t.nth \in 1..Cardinality(Requests)
      BY <1>1 DEF OneRowEach, SessionType
    <3>2. Cardinality(Requests) \in Nat
      BY AccessAssumption, FS_CardinalityType
    <3> QED
      BY <1>4, <3>1, <3>2 DEF IsNext
  <2>4. IsFiniteSet(sessions \cup {s})
    BY <1>1, FS_AddElement DEF OneRowEach
  <2>5. OneRowEach(sessions \cup {s})
    BY <1>1, <2>2, <2>3, <2>4 DEF OneRowEach
  <2> QED
    BY <1>1, <1>4, <2>1, <2>5, FewAreKept DEF SessionsInv
<1> QED
  BY <1>3, <1>4 DEF Open

LEMMA SessionsStep == AccessInv /\ SessionsInv /\ [AccessNext]_accessVars => SessionsInv'
<1> SUFFICES ASSUME AccessInv, SessionsInv, [AccessNext]_accessVars
    PROVE  SessionsInv'
  OBVIOUS
<1>1. ASSUME UNCHANGED sessions, UNCHANGED switches
      PROVE  SessionsInv'
  BY <1>1 DEF SessionsInv
<1>2. switches \in 0..MaxSwitches /\ MaxSwitches \in Nat
  BY AccessAssumption DEF SessionsInv
<1>3. CASE UNCHANGED accessVars
  BY <1>1, <1>3 DEF accessVars, access
<1>4. ASSUME NEW r \in Requests,
             \/ (\E p \in Passwords : Login(r, p) \/ Reset(r, p))
             \/ ReadForLogin(r) \/ Verify(r) \/ Provider(r) \/ Stamp(r) \/ ReadForReset(r)
             \/ (\E t \in Cookies, p, new \in Passwords : Change(r, t, p, new))
             \/ FindSession(r) \/ FindMember(r) \/ ReadForChange(r)
      PROVE  SessionsInv'
  BY <1>1, <1>4
     DEF Login, Reset, ReadForLogin, Verify, Provider, Stamp, ReadForReset, Change, FindSession,
         FindMember, ReadForChange, Start, access
<1>5. ASSUME NEW r \in Requests, Fail(r) \/ Clear(r) \/ UpdatePassword(r)
      PROVE  SessionsInv'
  BY <1>1, <1>5 DEF Fail, Clear, UpdatePassword
<1>6. ASSUME NEW r \in Requests, StoreReset(r) \/ RevokeOthers(r) \/ Logout(r)
      PROVE  SessionsInv'
  BY <1>2, <1>6, SessionsGo DEF StoreReset, RevokeOthers, Logout
<1>7. CASE CleanUp
  BY <1>2, <1>7, SessionsGo DEF CleanUp
<1>8. CASE Switch
  <2>1. switches' \in 0..MaxSwitches /\ UNCHANGED sessions
    BY <1>2, <1>8 DEF Switch
  <2> QED
    BY <2>1 DEF SessionsInv
<1>9. CASE Tick
  BY <1>1, <1>9 DEF Tick
<1> QED
  BY <1>3, <1>4, <1>5, <1>6, <1>7, <1>8, <1>9, OpenKeeps DEF AccessNext

LEMMA SessionsInitially == AccessInit => SessionsInv
  BY FS_EmptySet, AccessAssumption DEF AccessInit, SessionsInv, OneRowEach

\* The rows of a member's sessions, at most MaxSessions of them.
THEOREM SessionsInvariance == AccessSpec => []SessionsInv
<1> QED
  BY AccessInvariance, SessionsInitially, SessionsStep, PTL DEF AccessSpec

\* A member has at most MaxSessions sessions, whichever logins run together: each
\* adds a row and takes away the ones too many in one batch.
THEOREM FewSessions == AccessSpec => [](Cardinality(sessions) <= MaxSessions)
<1>1. SessionsInv => Cardinality(sessions) <= MaxSessions
  BY DEF SessionsInv
<1> QED
  BY <1>1, SessionsInvariance, PTL

\* Types: the rows of a member with a password and of its sessions.
THEOREM AccessTypes == AccessSpec => []AccessTypeOK
<1>1. AccessInv /\ SessionsInv => AccessTypeOK
  BY DEF AccessInv, SessionsInv, OneRowEach, AccessTypeOK
<1> QED
  BY <1>1, AccessInvariance, SessionsInvariance, PTL

-----------------------------------------------------------------------------
(* Members: one person is one member, and the audit tells the status. *)

\* The requests that may have counted as an attempt.
Tried == {r \in Requests : request[r].at \in {"ok", "invalid"}}

LoginSteps ==
  {"subject", "email", "admin", "insert", "recover", "again", "link", "linked", "relink",
   "current"}

\* What is so for a request that carries c: who it is for, and that the member it
\* found is one.
Carries(c) ==
  /\ c.at = "new" => c.op = "none"
  /\ c.at \in LoginSteps => c.op = "identity"
  /\ c.at \in {"count", "lookup", "create"} => c.op = "register" /\ c.email \in Emails /\ c.code \in Codes
  /\ c.at \in {"target", "reread", "write", "converge"} => c.op = "status" /\ c.member \in Members
  /\ c.at \in {"owned", "draw", "winner"} =>
       c.op = "invite" /\ c.member \in Members /\ c.tries < CodeAttempts
  /\ c.op = "identity" =>
       /\ c.who \in Identities /\ c.email \in Emails
       /\ c.at \in {"link", "linked", "relink", "current"} => c.member \in ByEmail(c.email)
       /\ c.at = "ok" => c.member \in Rows /\ Came(c.who, row[c.member].email)
       /\ c.at = "recover" => \E m \in Rows : Came(c.who, row[m].email)
  /\ c.at \in {"reread", "write", "converge"} => c.member \in Rows

\* Emails and subjects are unique, a row has the name of its member for a subject or
\* an identity that has come with its email, and it is that of a request that was
\* answered.
RowsAgree ==
  /\ \A m, q \in Rows : row[m].email = row[q].email => m = q
  /\ \A m, q \in Rows : row[m].sub = row[q].sub => m = q
  /\ \A m \in Rows : row[m].sub \in Members => row[m].sub = m
  /\ \A m \in Rows : row[m].sub \in Identities => Came(row[m].sub, row[m].email)
  /\ \A m \in Members : row[m] = None => trail[m] = <<>>
  /\ \A r \in Requests : row[r] # None => request[r].at = "ok"

MembershipInv ==
  /\ MembershipTypeOK /\ RowsAgree /\ TrailIsTrue
  /\ attempts <= Cardinality(Tried)
  /\ \A r \in Requests : Carries(request[r])

\* The emails of the members there are stay, and their members with them.
RowsStay ==
  /\ Rows \subseteq Rows'
  /\ \A m \in Rows : row'[m].email = row[m].email

\* What an identity has come with, it has come with ever after.
CameStays == \A i, e : Came(i, e) => Came(i, e)'

\* A request for an identity stays one for that identity, with the email it came with.
LoginGoesOn(r, c) ==
  request[r].op = "identity" =>
    c.op = "identity" /\ c.who = request[r].who /\ c.email = request[r].email

LEMMA CameIsKept ==
  ASSUME MembershipInv, NEW r \in Requests, NEW c, Do(r, c), LoginGoesOn(r, c)
  PROVE  CameStays
<1>1. request \in [Requests -> MembershipRequest]
  BY DEF MembershipInv, MembershipTypeOK
<1>2. request'[r] = c /\ \A q \in Requests : q # r => request'[q] = request[q]
  BY <1>1 DEF Do
<1>3. \A q \in Requests : request[q].op = "identity" =>
        /\ request'[q].op = "identity"
        /\ request'[q].who = request[q].who /\ request'[q].email = request[q].email
  BY <1>2 DEF LoginGoesOn
<1> QED
  BY <1>3 DEF CameStays, Came

LEMMA TriedIsFinite ==
  /\ IsFiniteSet(Tried) /\ Cardinality(Tried) \in Nat
  /\ Cardinality(Requests) \in Nat
  /\ Cardinality(Tried) <= Cardinality(Requests)
<1>1. IsFiniteSet(Requests) /\ Tried \subseteq Requests
  BY MembershipAssumption DEF Tried
<1> QED
  BY <1>1, FS_Subset, FS_CardinalityType

\* What was so for a request that is not concerned stays so.
LEMMA CarriesStays ==
  ASSUME RowsStay, CameStays, NEW c, Carries(c)
  PROVE  Carries(c)'
<1>1. \A e, m : m \in ByEmail(e) => m \in ByEmail(e)'
  BY DEF RowsStay, ByEmail
<1>2. ASSUME NEW i, NEW m \in Rows, Came(i, row[m].email)
      PROVE  m \in Rows' /\ Came(i, row[m].email)'
  <2>1. m \in Rows' /\ row'[m].email = row[m].email
    BY DEF RowsStay
  <2>2. \A e : Came(i, e) => Came(i, e)'
    BY DEF CameStays
  <2>3. PICK e : e = row[m].email
    OBVIOUS
  <2>4. Came(i, e)'
    BY <1>2, <2>2, <2>3
  <2> QED
    BY <2>1, <2>3, <2>4 DEF Came
<1>3. \A i, m : m \in Rows /\ Came(i, row[m].email) => m \in Rows' /\ Came(i, row[m].email)'
  BY <1>2
<1>4. \A m \in Rows : m \in Rows'
  BY DEF RowsStay
<1> QED
  BY <1>1, <1>3, <1>4 DEF Carries

\* A step of a request that was not answered yet, whatever it does to the rows.
LEMMA CallKeeps ==
  ASSUME MembershipInv, NEW r \in Requests, NEW c \in MembershipRequest,
         Do(r, c), r \notin Tried, RowsStay, CameStays, Carries(c)',
         RowsAgree', TrailIsTrue',
         row' \in [Members -> RowType \cup {None}],
         trail' \in [Members -> Seq(Statuses)],
         invitation' \in [Codes -> InvitationType \cup {None}],
         \/ UNCHANGED attempts
         \/ attempts' = attempts + 1 /\ c.at \in {"ok", "invalid"}
  PROVE  MembershipInv'
<1>1. /\ request \in [Requests -> MembershipRequest] /\ attempts \in Nat
      /\ attempts <= Cardinality(Tried)
  BY TriedIsFinite DEF MembershipInv, MembershipTypeOK
<1>2. /\ request'[r] = c /\ request' \in [Requests -> MembershipRequest]
      /\ \A q \in Requests : q # r => request'[q] = request[q]
  BY <1>1 DEF Do
<1>3. /\ Tried' = (IF c.at \in {"ok", "invalid"} THEN Tried \cup {r} ELSE Tried)
      /\ Tried' \subseteq Requests
  BY <1>2 DEF Tried
<1>4. /\ Cardinality(Tried \cup {r}) = Cardinality(Tried) + 1
      /\ Cardinality(Tried') <= Cardinality(Requests) /\ Cardinality(Tried') \in Nat
  BY <1>3, TriedIsFinite, MembershipAssumption, FS_AddElement, FS_Subset, FS_CardinalityType
<1>5. attempts' <= Cardinality(Tried') /\ attempts' \in 0..Cardinality(Requests)
  BY <1>1, <1>3, <1>4, TriedIsFinite
<1>6. MembershipTypeOK'
  BY <1>2, <1>5 DEF MembershipTypeOK
<1>7. ASSUME NEW q \in Requests
      PROVE  Carries(request[q])'
  <2>1. CASE q = r
    <3>1. PICK d : d = c
      OBVIOUS
    <3>2. Carries(d)' /\ d = request'[q]
      BY <1>2, <2>1, <3>1 DEF Carries
    <3> QED
      BY <3>2 DEF Carries
  <2>2. CASE q # r
    <3>1. PICK d : d = request[q]
      OBVIOUS
    <3>2. Carries(d)' /\ d = request'[q]
      BY <1>2, <2>2, <3>1, CarriesStays DEF MembershipInv
    <3> QED
      BY <3>2 DEF Carries
  <2> QED
    BY <2>1, <2>2
<1> QED
  BY <1>5, <1>6, <1>7 DEF MembershipInv

\* A row that keeps its subject and its email agrees with its identity still.
LEMMA CameOfRows ==
  ASSUME RowsAgree, CameStays, NEW m \in Rows,
         row'[m].sub = row[m].sub, row'[m].email = row[m].email,
         row'[m].sub \in Identities
  PROVE  Came(row[m].sub, row[m].email)'
<1>1. PICK i, e : i = row[m].sub /\ e = row[m].email
  OBVIOUS
<1>2. Came(i, e)'
  BY <1>1 DEF RowsAgree, CameStays
<1> QED
  BY <1>1, <1>2 DEF Came

\* ... which leaves the rows as they are.
LEMMA CallMoves ==
  ASSUME MembershipInv, NEW r \in Requests, NEW c \in MembershipRequest,
         Do(r, c), r \notin Tried, UNCHANGED <<row, trail>>, LoginGoesOn(r, c), Carries(c),
         invitation' \in [Codes -> InvitationType \cup {None}],
         \/ UNCHANGED attempts
         \/ attempts' = attempts + 1 /\ c.at \in {"ok", "invalid"}
  PROVE  MembershipInv'
<1>1. MembershipTypeOK /\ RowsAgree /\ TrailIsTrue
  BY DEF MembershipInv
<1>2. RowsStay /\ UNCHANGED Rows /\ CameStays
  BY CameIsKept DEF RowsStay, Rows
<1>3. row[r] = None /\ \A q \in Requests : q # r => request'[q] = request[q]
  BY <1>1 DEF RowsAgree, Tried, Do, MembershipTypeOK
<1>4. RowsAgree'
  <2>1. \A m \in Rows : row[m].sub \in Identities => Came(row[m].sub, row[m].email)'
    BY <1>1, <1>2, CameOfRows
  <2> QED
    BY <1>1, <1>2, <1>3, <2>1 DEF RowsAgree
<1>5. TrailIsTrue'
  BY <1>1, <1>2 DEF TrailIsTrue
<1>6. Carries(c)'
  BY <1>2, CarriesStays
<1> QED
  BY <1>1, <1>2, <1>4, <1>5, <1>6, CallKeeps DEF MembershipTypeOK

LEMMA CallGoes ==
  ASSUME MembershipInv, NEW r \in Requests, NEW step \in MembershipSteps \cup MembershipAnswers,
         Go(r, step), r \notin Tried, UNCHANGED <<row, trail>>,
         Carries([request[r] EXCEPT !.at = step]),
         invitation' \in [Codes -> InvitationType \cup {None}],
         \/ UNCHANGED attempts
         \/ attempts' = attempts + 1 /\ step \in {"ok", "invalid"}
  PROVE  MembershipInv'
<1>1. request \in [Requests -> MembershipRequest]
  BY DEF MembershipInv, MembershipTypeOK
<1>2. PICK c : c = [request[r] EXCEPT !.at = step]
  OBVIOUS
<1>3. c \in MembershipRequest /\ c.at = step /\ Carries(c)
  BY <1>1, <1>2 DEF MembershipRequest
<1>4. Do(r, c) /\ LoginGoesOn(r, c)
  BY <1>1, <1>2 DEF Do, Go, LoginGoesOn, MembershipRequest
<1> QED
  BY <1>3, <1>4, CallMoves

\* A request has come with its email, and its identity with that of the member it is
\* found as.
LEMMA OwnEmail ==
  ASSUME NEW r \in Requests, request[r].op = "identity"
  PROVE  /\ Came(request[r].who, request[r].email)
         /\ \A m \in ByEmail(request[r].email) : m \in Rows /\ Came(request[r].who, row[m].email)
<1>1. Came(request[r].who, request[r].email)
  BY DEF Came
<1> QED
  BY <1>1 DEF ByEmail

LEMMA SubjectHasEmail ==
  ASSUME MembershipInv, NEW r \in Requests, request[r].op = "identity",
         NEW m \in BySubject(request[r].who)
  PROVE  m \in Rows /\ Came(request[r].who, row[m].email)
BY DEF MembershipInv, RowsAgree, Carries, BySubject

LEMMA Admits ==
  ASSUME MembershipInv, NEW r \in Requests, r \notin Tried, request[r].op = "identity",
         NEW m \in Rows, Came(request[r].who, row[m].email), Admit(r, m), UNCHANGED stores
  PROVE  MembershipInv'
<1>1. /\ MembershipTypeOK /\ request[r] \in MembershipRequest /\ Carries(request[r])
      /\ m \in Members
  BY DEF MembershipInv, MembershipTypeOK, Rows
<1>2. PICK step \in {"ok", "disabled"} : Do(r, [request[r] EXCEPT !.at = step, !.member = m])
  BY DEF Admit
<1>3. PICK c : c = [request[r] EXCEPT !.at = step, !.member = m]
  OBVIOUS
<1>4. /\ c \in MembershipRequest /\ c.at = step /\ c.member = m
      /\ c.op = "identity" /\ c.who = request[r].who /\ c.email = request[r].email
  BY <1>1, <1>3 DEF MembershipRequest, MembershipAnswers
<1>5. Carries(c) /\ LoginGoesOn(r, c)
  BY <1>1, <1>4 DEF Carries, LoginSteps, LoginGoesOn
<1> QED
  BY <1>1, <1>2, <1>3, <1>4, <1>5, CallMoves DEF MembershipTypeOK, stores

LEMMA Starts ==
  ASSUME MembershipInv, NEW r \in Requests,
         \/ \E i \in Identities : \E e \in EmailsOf[i] : IdentityLogin(r, i, e)
         \/ \E e \in Emails, c \in Codes : Register(r, e, c)
         \/ \E m \in Members, to \in Statuses : SetStatus(r, m, to)
         \/ \E m \in Members : Invite(r, m)
  PROVE  MembershipInv'
<1>1. /\ NoCall \in MembershipRequest /\ NoCall.tries = 0 /\ 0 < CodeAttempts
      /\ invitation \in [Codes -> InvitationType \cup {None}]
      /\ EmailsOf \in [Identities -> SUBSET Emails]
  BY MembershipAssumption
     DEF NoCall, MembershipRequest, MembershipSteps, Statuses, MembershipInv, MembershipTypeOK
<1>2. ASSUME NEW c \in MembershipRequest, At(r, "new"), Do(r, c), Carries(c), UNCHANGED stores
      PROVE  MembershipInv'
  <2>1. LoginGoesOn(r, c)
    BY <1>2 DEF LoginGoesOn, MembershipInv, Carries, At
  <2> QED
    BY <1>1, <1>2, <2>1, CallMoves DEF At, Tried, stores
<1>3. ASSUME NEW i \in Identities, NEW e \in EmailsOf[i], IdentityLogin(r, i, e)
      PROVE  MembershipInv'
  <2>1. PICK c : c = [NoCall EXCEPT !.op = "identity", !.at = "subject", !.who = i,
                                    !.email = e]
    OBVIOUS
  <2> e \in Emails
    BY <1>1
  <2>2. c \in MembershipRequest
    BY <1>1, <2>1, ZenonT(60) DEF MembershipRequest, MembershipSteps
  <2>3. c.op = "identity" /\ c.at = "subject" /\ c.who = i /\ c.email = e
    BY <1>1, <2>1 DEF MembershipRequest
  <2>4. Carries(c)
    BY <2>3 DEF Carries
  <2> QED
    BY <1>2, <1>3, <2>1, <2>2, <2>4 DEF IdentityLogin
<1>4. ASSUME NEW e \in Emails, NEW k \in Codes, Register(r, e, k)
      PROVE  MembershipInv'
  <2>1. PICK c : c = [NoCall EXCEPT !.op = "register", !.at = "count", !.email = e, !.code = k]
    OBVIOUS
  <2>2. c \in MembershipRequest
    BY <1>1, <2>1, ZenonT(60) DEF MembershipRequest, MembershipSteps
  <2>3. c.op = "register" /\ c.at = "count" /\ c.email = e /\ c.code = k
    BY <1>1, <2>1 DEF MembershipRequest
  <2>4. Carries(c)
    BY <2>3 DEF Carries, LoginSteps
  <2> QED
    BY <1>2, <1>4, <2>1, <2>2, <2>4 DEF Register
<1>5. ASSUME NEW m \in Members, NEW to \in Statuses, SetStatus(r, m, to)
      PROVE  MembershipInv'
  <2>1. PICK c : c = [NoCall EXCEPT !.op = "status", !.at = "target", !.member = m, !.to = to]
    OBVIOUS
  <2>2. c \in MembershipRequest
    BY <1>1, <2>1, ZenonT(60) DEF MembershipRequest, MembershipSteps
  <2>3. c.op = "status" /\ c.at = "target" /\ c.member = m
    BY <1>1, <2>1 DEF MembershipRequest
  <2>4. Carries(c)
    BY <2>3 DEF Carries, LoginSteps
  <2> QED
    BY <1>2, <1>5, <2>1, <2>2, <2>4 DEF SetStatus
<1>6. ASSUME NEW m \in Members, Invite(r, m)
      PROVE  MembershipInv'
  <2>1. PICK c : c = [NoCall EXCEPT !.op = "invite", !.at = "owned", !.member = m]
    OBVIOUS
  <2>2. c \in MembershipRequest
    BY <1>1, <2>1 DEF MembershipRequest, MembershipSteps
  <2>3. c.op = "invite" /\ c.at = "owned" /\ c.member = m /\ c.tries = 0
    BY <1>1, <2>1 DEF MembershipRequest
  <2>4. Carries(c)
    BY <1>1, <2>3 DEF Carries, LoginSteps
  <2> QED
    BY <1>2, <1>6, <2>1, <2>2, <2>4 DEF Invite
<1> QED
  BY <1>3, <1>4, <1>5, <1>6

\* The reads of a login.
LEMMA LoginReads ==
  ASSUME MembershipInv, NEW r \in Requests,
         \/ FindSubject(r) \/ FindEmail(r) \/ ReadAdmin(r) \/ Recover(r) \/ Again(r)
         \/ ReadLinked(r) \/ Relink(r) \/ ReadCurrent(r)
  PROVE  MembershipInv'
<1>1. /\ MembershipTypeOK /\ request[r] \in MembershipRequest /\ Carries(request[r])
      /\ request[r].at \in LoginSteps /\ request[r].op = "identity" /\ r \notin Tried
      /\ invitation \in [Codes -> InvitationType \cup {None}]
      /\ UNCHANGED stores
  BY DEF MembershipInv, MembershipTypeOK, Carries, LoginSteps, Tried, At, FindSubject,
         FindEmail, ReadAdmin, Recover, Again, ReadLinked, Relink, ReadCurrent
<1>2. ASSUME NEW step \in MembershipSteps \cup MembershipAnswers, Go(r, step),
             step \in LoginSteps \/ step \in {"conflict", "disabled"},
             step \in {"link", "linked", "relink", "current"} =>
               request[r].member \in ByEmail(request[r].email),
             step # "recover"
      PROVE  MembershipInv'
  <2>1. PICK c : c = [request[r] EXCEPT !.at = step]
    OBVIOUS
  <2>2. /\ c.at = step /\ c.member = request[r].member /\ c.op = "identity"
        /\ c.who = request[r].who /\ c.email = request[r].email
    BY <1>1, <2>1 DEF MembershipRequest
  <2>3. Carries(c)
    BY <1>1, <1>2, <2>2 DEF Carries, LoginSteps
  <2> QED
    BY <1>1, <1>2, <2>1, <2>3, CallGoes DEF stores
<1>3. ASSUME NEW m \in BySubject(request[r].who), Admit(r, m)
      PROVE  MembershipInv'
  BY <1>1, <1>3, SubjectHasEmail, Admits
<1>4. {"email", "admin", "current"} \subseteq MembershipSteps \cap LoginSteps
      /\ {"conflict", "disabled"} \subseteq MembershipAnswers
  BY DEF MembershipSteps, LoginSteps, MembershipAnswers
<1>5. CASE FindSubject(r)
  BY <1>2, <1>3, <1>4, <1>5 DEF FindSubject
<1>6. CASE FindEmail(r)
  <2>1. ASSUME NEW m \in ByEmail(request[r].email),
               Do(r, [request[r] EXCEPT !.at = IF row[m].status = "active" THEN "link"
                                                                        ELSE "disabled",
                                        !.member = m, !.saw = row[m].sub])
        PROVE  MembershipInv'
    <3>1. PICK step \in {"link", "disabled"} :
            Do(r, [request[r] EXCEPT !.at = step, !.member = m, !.saw = row[m].sub])
      BY <2>1
    <3>2. PICK c : c = [request[r] EXCEPT !.at = step, !.member = m, !.saw = row[m].sub]
      OBVIOUS
    <3>3. m \in Members /\ row[m].sub \in Identities \cup Members
      BY <1>1 DEF ByEmail, Rows, MembershipTypeOK, RowType
    <3>4. c \in MembershipRequest
      BY <1>1, <3>2, <3>3 DEF MembershipRequest, MembershipSteps, MembershipAnswers
    <3>5. /\ c.at = step /\ c.member = m /\ c.op = "identity"
          /\ c.who = request[r].who /\ c.email = request[r].email
      BY <1>1, <3>2 DEF MembershipRequest
    <3>6. Carries(c) /\ LoginGoesOn(r, c)
      BY <1>1, <2>1, <3>5 DEF Carries, LoginSteps, LoginGoesOn
    <3> QED
      BY <1>1, <3>1, <3>2, <3>4, <3>6, CallMoves DEF stores
  <2> QED
    BY <1>2, <1>4, <1>6, <2>1 DEF FindEmail
<1>7. ASSUME NEW role \in {"admin", "contributor"},
             Do(r, [request[r] EXCEPT !.at = "insert", !.role = role])
      PROVE  MembershipInv'
  <2>1. PICK c : c = [request[r] EXCEPT !.at = "insert", !.role = role]
    OBVIOUS
  <2>2. c \in MembershipRequest
    BY <1>1, <2>1 DEF MembershipRequest, MembershipSteps
  <2>3. /\ c.at = "insert" /\ c.op = "identity"
        /\ c.who = request[r].who /\ c.email = request[r].email
    BY <1>1, <2>1 DEF MembershipRequest
  <2>4. Carries(c) /\ LoginGoesOn(r, c)
    BY <1>1, <2>3 DEF Carries, LoginSteps, LoginGoesOn
  <2> QED
    BY <1>1, <1>7, <2>1, <2>2, <2>4, CallMoves DEF stores
<1>8. CASE ReadAdmin(r)
  BY <1>7, <1>8 DEF ReadAdmin
<1>9. CASE Recover(r)
  BY <1>2, <1>3, <1>4, <1>9 DEF Recover
<1>10. CASE Again(r)
  BY <1>3, <1>7, <1>10 DEF Again
<1>11. CASE ReadLinked(r)
  BY <1>1, <1>11, OwnEmail, Admits DEF ReadLinked, Carries, At
<1>12. CASE Relink(r)
  BY <1>1, <1>2, <1>3, <1>4, <1>12 DEF Relink, Carries, At
<1>13. CASE ReadCurrent(r)
  BY <1>1, <1>2, <1>4, <1>13 DEF ReadCurrent, Carries, At
<1> QED
  BY <1>5, <1>6, <1>8, <1>9, <1>10, <1>11, <1>12, <1>13

\* What the audit s tells of a status.
Tells(s, status) ==
  LET told == <<"active">> \o s IN
  /\ \A k \in 1..Len(s) : told[k] # told[k + 1]
  /\ told[Len(told)] = status

LEMMA NothingIsTold == Tells(<<>>, "active")
<1>1. /\ Len(<<>>) = 0 /\ <<"active">> \o <<>> = <<"active">>
      /\ Len(<<"active">>) = 1 /\ <<"active">>[1] = "active"
  OBVIOUS
<1> QED
  BY <1>1 DEF Tells

\* A member is added: with an email and a subject no other has, and for an identity,
\* with an email it has come with.
LEMMA RowAdded ==
  ASSUME MembershipInv, NEW r \in Requests, row[r] = None, NEW n \in RowType,
         row' = [row EXCEPT ![r] = n], UNCHANGED trail,
         n.status = "active", EmailFree(n.email),
         BySubject(n.sub) = {}, n.sub \in Members => n.sub = r,
         n.sub \in Identities => Came(n.sub, n.email), CameStays,
         request'[r].at = "ok", \A q \in Requests : q # r => request'[q] = request[q]
  PROVE  /\ RowsStay /\ RowsAgree' /\ TrailIsTrue'
         /\ row' \in [Members -> RowType \cup {None}]
         /\ r \in Rows' /\ row'[r] = n
<1>1. /\ MembershipTypeOK /\ RowsAgree /\ TrailIsTrue /\ r \in Members
      /\ row \in [Members -> RowType \cup {None}] /\ n # None
  BY MembershipAssumption DEF MembershipInv, MembershipTypeOK, Members
<1>2. /\ row'[r] = n /\ \A m \in Members : m # r => row'[m] = row[m]
      /\ row' \in [Members -> RowType \cup {None}]
  BY <1>1
<1>3. Rows' = Rows \cup {r} /\ r \notin Rows
  BY <1>1, <1>2 DEF Rows
<1>4. RowsStay
  BY <1>1, <1>2, <1>3 DEF RowsStay, Rows
<1>5. \A m \in Rows : row[m].email # n.email
  BY DEF EmailFree, ByEmail
<1>6. RowsAgree'
  <2>1. \A m, q \in Rows' : row'[m].email = row'[q].email => m = q
    BY <1>1, <1>2, <1>3, <1>5 DEF RowsAgree, Rows
  <2>2. \A m \in Rows' : row'[m].sub \in Identities => Came(row[m].sub, row[m].email)'
    <3>1. \A m \in Rows : row'[m] = row[m] /\ m # r
      BY <1>1, <1>2, <1>3 DEF Rows
    <3>2. \A m \in Rows : row'[m].sub \in Identities => Came(row[m].sub, row[m].email)'
      BY <1>1, <3>1, CameOfRows
    <3>3. PICK i, e : i = n.sub /\ e = n.email
      OBVIOUS
    <3>4. n.sub \in Identities => Came(i, e)'
      BY <3>3 DEF CameStays
    <3> QED
      BY <1>2, <1>3, <3>2, <3>3, <3>4 DEF Came
  <2>5. \A m, q \in Rows' : row'[m].sub = row'[q].sub => m = q
    <3>1. \A m \in Rows : row[m].sub # n.sub
      BY DEF BySubject
    <3> QED
      BY <1>1, <1>2, <1>3, <3>1 DEF RowsAgree, Rows
  <2>6. \A m \in Rows' : row'[m].sub \in Members => row'[m].sub = m
    BY <1>1, <1>2, <1>3 DEF RowsAgree, Rows
  <2>3. \A m \in Members : row'[m] = None => trail'[m] = <<>>
    BY <1>1, <1>2 DEF RowsAgree
  <2>4. \A q \in Requests : row'[q] # None => request'[q].at = "ok"
    BY <1>1, <1>2 DEF RowsAgree, Members
  <2> QED
    BY <2>1, <2>2, <2>3, <2>4, <2>5, <2>6 DEF RowsAgree
<1>7. TrailIsTrue'
  <2>1. trail[r] = <<>>
    BY <1>1 DEF RowsAgree
  <2>2. \A m \in Rows : row'[m] = row[m]
    BY <1>1, <1>2, <1>3 DEF Rows
  <2>3. \A m \in Rows : Tells(trail[m], row[m].status)
    BY <1>1 DEF TrailIsTrue, Tells
  <2>4. \A m \in Rows' : Tells(trail[m], row'[m].status)
    BY <1>2, <1>3, <2>1, <2>2, <2>3, NothingIsTold
  <2> QED
    BY <2>4 DEF TrailIsTrue, Tells
<1> QED
  BY <1>2, <1>3, <1>4, <1>6, <1>7

LEMMA InsertKeeps ==
  ASSUME MembershipInv, NEW r \in Requests, InsertMember(r)
  PROVE  MembershipInv'
<1>1. /\ MembershipTypeOK /\ request[r] \in MembershipRequest /\ Carries(request[r])
      /\ request[r].at = "insert" /\ request[r].op = "identity" /\ r \notin Tried
      /\ request[r].who \in Identities /\ request[r].email \in Emails
      /\ invitation' \in [Codes -> InvitationType \cup {None}]
      /\ UNCHANGED <<trail, attempts>> /\ row[r] = None
  BY MembershipAssumption
     DEF MembershipInv, MembershipTypeOK, Carries, LoginSteps, Tried, At, InsertMember, RowsAgree
<1>2. ASSUME InsertConflicts(r) = {},
             row' = [row EXCEPT ![r] = NewRow(request[r].who, request[r].email, request[r].role)],
             Do(r, [request[r] EXCEPT !.at = "ok", !.member = r])
      PROVE  MembershipInv'
  <2>1. PICK n : n = NewRow(request[r].who, request[r].email, request[r].role)
    OBVIOUS
  <2>2. /\ n \in RowType /\ n.status = "active"
        /\ n.sub = request[r].who /\ n.email = request[r].email
    BY <1>1, <2>1 DEF NewRow, RowType, Statuses, MembershipRequest
  <2>3. /\ EmailFree(n.email) /\ BySubject(n.sub) = {} /\ n.sub \notin Members
        /\ Came(n.sub, n.email)
    BY <1>1, <1>2, <2>2, OwnEmail, MembershipAssumption DEF InsertConflicts
  <2>4. PICK c : c = [request[r] EXCEPT !.at = "ok", !.member = r]
    OBVIOUS
  <2>5. /\ c \in MembershipRequest /\ c.at = "ok" /\ c.member = r /\ c.op = "identity"
        /\ c.who = request[r].who /\ c.email = request[r].email
    BY <1>1, <2>4, ZenonT(60) DEF MembershipRequest, MembershipAnswers, Members
  <2>6. request' = [request EXCEPT ![r] = c] /\ request \in [Requests -> MembershipRequest]
    BY <1>1, <1>2, <2>4 DEF Do, MembershipTypeOK
  <2>7. /\ request'[r].at = "ok" /\ \A q \in Requests : q # r => request'[q] = request[q]
        /\ Do(r, c) /\ CameStays
    BY <2>5, <2>6, CameIsKept DEF Do, LoginGoesOn
  <2>8. /\ RowsStay /\ RowsAgree' /\ TrailIsTrue'
        /\ row' \in [Members -> RowType \cup {None}]
        /\ r \in Rows' /\ row'[r] = n
    BY <1>1, <1>2, <2>1, <2>2, <2>3, <2>7, RowAdded, ZenonT(60)
  <2>9. Carries(c)'
    <3>1. PICK i, e : i = c.who /\ e = c.email
      OBVIOUS
    <3>2. Came(i, e)'
      BY <2>2, <2>3, <2>5, <2>7, <3>1 DEF CameStays
    <3>3. r \in Rows' /\ Came(c.who, row[r].email)'
      BY <2>2, <2>5, <2>8, <3>1, <3>2 DEF Came
    <3> QED
      BY <1>1, <2>5, <3>3 DEF Carries, LoginSteps
  <2> QED
    BY <1>1, <2>5, <2>7, <2>8, <2>9, CallKeeps DEF MembershipTypeOK
<1>3. ASSUME NEW step \in InsertConflicts(r), Go(r, step), UNCHANGED row
      PROVE  MembershipInv'
  <2>1. step \in {"recover", "again"} /\ step \in MembershipSteps
    BY <1>3 DEF InsertConflicts, MembershipSteps
  <2>2. step = "recover" => \E m \in Rows : Came(request[r].who, row[m].email)
    BY <1>1, <1>3, SubjectHasEmail, OwnEmail DEF InsertConflicts, EmailFree
  <2>3. PICK c : c = [request[r] EXCEPT !.at = step]
    OBVIOUS
  <2>4. /\ c.at = step /\ c.op = "identity"
        /\ c.who = request[r].who /\ c.email = request[r].email
    BY <1>1, <2>3 DEF MembershipRequest
  <2>5. Carries(c)
    BY <1>1, <2>1, <2>2, <2>4 DEF Carries, LoginSteps
  <2> QED
    BY <1>1, <1>3, <2>1, <2>3, <2>5, CallGoes
<1> QED
  BY <1>2, <1>3 DEF InsertMember

LEMMA CreateKeeps ==
  ASSUME MembershipInv, NEW r \in Requests, CreateMember(r)
  PROVE  MembershipInv'
<1>1. /\ MembershipTypeOK /\ request[r] \in MembershipRequest /\ Carries(request[r])
      /\ request[r].at = "create" /\ request[r].op = "register" /\ r \notin Tried
      /\ request[r].email \in Emails /\ request[r].code \in Codes
      /\ UNCHANGED trail /\ row[r] = None /\ r \in Members /\ r \notin Identities
      /\ invitation \in [Codes -> InvitationType \cup {None}]
  BY MembershipAssumption
     DEF MembershipInv, MembershipTypeOK, Carries, Tried, At, CreateMember, RowsAgree, Members
<1>2. ASSUME NEW step \in {"ok", "invalid", "taken"},
             NEW c, c = [request[r] EXCEPT !.at = step]
      PROVE  c \in MembershipRequest /\ c.at = step /\ Carries(c) /\ Carries(c)'
  <2>1. c \in MembershipRequest /\ c.at = step /\ c.op = "register"
    BY <1>1, <1>2 DEF MembershipRequest, MembershipAnswers
  <2> QED
    BY <1>2, <2>1 DEF Carries, LoginSteps
<1>3. ASSUME NEW step \in {"invalid", "taken"}, Go(r, step), UNCHANGED <<row, invitation>>,
             \/ UNCHANGED attempts
             \/ attempts' = attempts + 1 /\ step = "invalid"
      PROVE  MembershipInv'
  <2>1. step \in MembershipAnswers /\ Carries([request[r] EXCEPT !.at = step])
    BY <1>2, <1>3 DEF MembershipAnswers
  <2> QED
    BY <1>1, <1>3, <2>1, CallGoes
<1>4. CASE /\ Unused(request[r].code) /\ EmailFree(request[r].email)
           /\ row' = [row EXCEPT ![r] = NewRow(r, request[r].email, "contributor")]
           /\ invitation' = [invitation EXCEPT ![request[r].code].bound = r]
           /\ attempts' = attempts + 1
           /\ Go(r, "ok")
  <2>1. PICK n : n = NewRow(r, request[r].email, "contributor")
    OBVIOUS
  <2>2. /\ n \in RowType /\ n.status = "active" /\ n.sub = r /\ n.email = request[r].email
    BY <1>1, <2>1 DEF NewRow, RowType, Statuses
  <2>3. PICK c : c = [request[r] EXCEPT !.at = "ok"]
    OBVIOUS
  <2>4. c \in MembershipRequest /\ c.at = "ok" /\ Carries(c)'
    BY <1>2, <2>3
  <2>5. request' = [request EXCEPT ![r] = c] /\ request \in [Requests -> MembershipRequest]
    BY <1>1, <1>4, <2>3 DEF Go, MembershipTypeOK
  <2>6. /\ request'[r].at = "ok" /\ \A q \in Requests : q # r => request'[q] = request[q]
        /\ Do(r, c) /\ CameStays
    BY <1>1, <2>4, <2>5, CameIsKept DEF Do, LoginGoesOn
  <2>9. BySubject(n.sub) = {}
    BY <1>1, <2>2 DEF BySubject, MembershipInv, RowsAgree, Rows
  <2>7. /\ RowsStay /\ RowsAgree' /\ TrailIsTrue'
        /\ row' \in [Members -> RowType \cup {None}]
    BY <1>1, <1>4, <2>1, <2>2, <2>6, <2>9, RowAdded
  <2>8. invitation' \in [Codes -> InvitationType \cup {None}]
    <3>1. invitation[request[r].code] \in InvitationType
      BY <1>1, <1>4 DEF Unused
    <3>2. [invitation[request[r].code] EXCEPT !.bound = r] \in InvitationType
      BY <1>1, <3>1 DEF InvitationType
    <3> QED
      BY <1>1, <1>4, <3>2
  <2> QED
    BY <1>1, <1>4, <2>4, <2>6, <2>7, <2>8, CallKeeps DEF MembershipTypeOK
<1> QED
  BY <1>3, <1>4 DEF CreateMember

\* A row is changed, whose email stays.
LEMMA LinkKeeps ==
  ASSUME MembershipInv, NEW r \in Requests, Link(r)
  PROVE  MembershipInv'
<1>1. PICK m : m = request[r].member
  OBVIOUS
<1>2. /\ MembershipTypeOK /\ request[r] \in MembershipRequest /\ Carries(request[r])
      /\ request[r].at = "link" /\ request[r].op = "identity" /\ r \notin Tried
      /\ request[r].who \in Identities /\ request[r].email \in Emails
      /\ m \in ByEmail(request[r].email) /\ m \in Members /\ row[m] \in RowType
      /\ invitation' \in [Codes -> InvitationType \cup {None}]
      /\ trail \in [Members -> Seq(Statuses)]
      /\ UNCHANGED <<trail, attempts>> /\ RowsAgree /\ TrailIsTrue
  BY <1>1 DEF MembershipInv, MembershipTypeOK, Carries, LoginSteps, Tried, At, Link, ByEmail, Rows
<1>3. ASSUME NEW step \in {"error", "linked", "relink"},
             NEW c, c = [request[r] EXCEPT !.at = step]
      PROVE  c \in MembershipRequest /\ c.at = step /\ c.op = "identity" /\ Carries(c)
  <2>1. /\ c \in MembershipRequest /\ c.at = step /\ c.member = m /\ c.op = "identity"
        /\ c.who = request[r].who /\ c.email = request[r].email
    BY <1>1, <1>2, <1>3 DEF MembershipRequest, MembershipSteps, MembershipAnswers
  <2> QED
    BY <1>2, <2>1 DEF Carries, LoginSteps
<1>4. ASSUME NEW step \in {"error", "relink"}, Go(r, step), UNCHANGED row
      PROVE  MembershipInv'
  <2>1. /\ step \in MembershipSteps \cup MembershipAnswers
        /\ Carries([request[r] EXCEPT !.at = step])
    BY <1>3, <1>4 DEF MembershipSteps, MembershipAnswers
  <2> QED
    BY <1>2, <1>4, <2>1, CallGoes
<1>5. CASE /\ BySubject(request[r].who) \subseteq {m}
           /\ row' = [row EXCEPT ![m].sub = request[r].who] /\ Go(r, "linked")
  <2>1. PICK n : n = [row[m] EXCEPT !.sub = request[r].who]
    OBVIOUS
  <2>2. /\ n \in RowType /\ n.status = row[m].status /\ n.sub = request[r].who
        /\ n.email = row[m].email /\ n # None
    BY <1>2, <2>1, MembershipAssumption DEF RowType
  <2>3. row \in [Members -> RowType \cup {None}] /\ row' = [row EXCEPT ![m] = n]
    BY <1>2, <1>5, <2>1 DEF MembershipTypeOK
  <2>4. /\ row'[m] = n /\ \A q \in Members : q # m => row'[q] = row[q]
        /\ row' \in [Members -> RowType \cup {None}]
        /\ \A q \in Rows : row'[q].email = row[q].email /\ row'[q].status = row[q].status
    BY <1>2, <2>2, <2>3 DEF Rows
  <2>5. UNCHANGED Rows
    BY <1>2, <2>2, <2>4, MembershipAssumption DEF Rows
  <2>6. PICK c : c = [request[r] EXCEPT !.at = "linked"]
    OBVIOUS
  <2>7. /\ c \in MembershipRequest /\ c.at = "linked" /\ Carries(c)
        /\ request' = [request EXCEPT ![r] = c] /\ request \in [Requests -> MembershipRequest]
    BY <1>2, <1>3, <1>5, <2>6 DEF Go, MembershipTypeOK
  <2>8. row[r] = None /\ \A q \in Requests : q # r => request'[q] = request[q]
    BY <1>2, <2>7 DEF RowsAgree
  <2>9. RowsStay /\ CameStays /\ Do(r, c)
    <3>1. c.op = "identity" /\ c.who = request[r].who /\ c.email = request[r].email
      BY <1>2, <2>6 DEF MembershipRequest
    <3> QED
      BY <2>4, <2>5, <2>7, <3>1, CameIsKept DEF RowsStay, LoginGoesOn, Do
  <2>10. RowsAgree'
    <3>1. \A q \in Rows : row'[q].sub \in Identities => Came(row[q].sub, row[q].email)'
      <4>1. \A q \in Rows : q # m /\ row'[q].sub \in Identities =>
              Came(row[q].sub, row[q].email)'
        BY <1>2, <2>4, <2>9, CameOfRows DEF Rows
      <4>2. PICK i, e : i = request[r].who /\ e = request[r].email
        OBVIOUS
      <4>3. Came(i, e)'
        BY <1>2, <2>9, <4>2, OwnEmail DEF CameStays
      <4>4. row'[m].sub = i /\ row'[m].email = e
        BY <1>2, <2>2, <2>4, <4>2 DEF ByEmail
      <4>5. Came(row[m].sub, row[m].email)'
        BY <4>3, <4>4 DEF Came
      <4> QED
        BY <4>1, <4>5
    <3>4. \A p, q \in Rows : row'[p].sub = row'[q].sub => p = q
      <4>1. \A q \in Rows : q # m => row[q].sub # request[r].who /\ row'[q] = row[q]
        BY <1>5, <2>4 DEF BySubject, Rows
      <4> QED
        BY <1>2, <2>2, <2>4, <4>1 DEF RowsAgree
    <3>5. \A q \in Rows : row'[q].sub \in Members => row'[q].sub = q
      BY <1>2, <2>2, <2>4, MembershipAssumption DEF RowsAgree, Rows
    <3>2. \A q \in Members : row'[q] = None => row[q] = None
      BY <1>2, <2>2, <2>4
    <3>3. \A q \in Requests : row'[q] # None => row[q] # None
      BY <1>2, <2>4, MembershipAssumption DEF Members
    <3> QED
      BY <1>2, <2>4, <2>5, <2>8, <3>1, <3>2, <3>3, <3>4, <3>5 DEF RowsAgree
  <2>11. TrailIsTrue'
    BY <1>2, <2>4, <2>5 DEF TrailIsTrue
  <2>12. Carries(c)'
    BY <2>7, <2>9, CarriesStays
  <2> QED
    BY <1>2, <2>4, <2>7, <2>9, <2>10, <2>11, <2>12, CallKeeps DEF Do
<1> QED
  BY <1>1, <1>4, <1>5 DEF Link

\* An entry that differs from the last one.
LEMMA TrailGrows ==
  ASSUME NEW s \in Seq(Statuses), NEW to \in Statuses, NEW last \in Statuses, last # to,
         Tells(s, last)
  PROVE  Tells(Append(s, to), to)
<1> DEFINE was == <<"active">> \o s
           is == <<"active">> \o Append(s, to)
<1>1. Append(s, to) \in Seq(Statuses) /\ Len(Append(s, to)) = Len(s) + 1 /\ Len(s) \in Nat
  OBVIOUS
<1>2. /\ Len(was) = Len(s) + 1 /\ Len(is) = Len(s) + 2
      /\ \A k \in 1..(Len(s) + 1) : is[k] = was[k]
      /\ is[Len(s) + 2] = to
  BY <1>1 DEF Statuses
<1>3. \A k \in 1..Len(s) : is[k] # is[k + 1]
  BY <1>1, <1>2 DEF Tells
<1>4. is[Len(s) + 1] # is[Len(s) + 2]
  BY <1>1, <1>2 DEF Tells
<1>5. \A k \in 1..(Len(s) + 1) : is[k] # is[k + 1]
  BY <1>1, <1>3, <1>4
<1> QED
  BY <1>1, <1>2, <1>5 DEF Tells

LEMMA WriteKeeps ==
  ASSUME MembershipInv, NEW r \in Requests, WriteStatus(r)
  PROVE  MembershipInv'
<1>1. PICK m : m = request[r].member
  OBVIOUS
<1>2. /\ MembershipTypeOK /\ request[r] \in MembershipRequest /\ Carries(request[r])
      /\ request[r].at = "write" /\ request[r].op = "status" /\ r \notin Tried
      /\ m \in Rows /\ m \in Members /\ row[m] \in RowType /\ request[r].to \in Statuses
      /\ invitation' \in [Codes -> InvitationType \cup {None}]
      /\ trail \in [Members -> Seq(Statuses)]
      /\ UNCHANGED attempts /\ RowsAgree /\ TrailIsTrue
  BY <1>1 DEF MembershipInv, MembershipTypeOK, Carries, Tried, At, WriteStatus, Rows,
              MembershipRequest
<1>3. ASSUME NEW step \in {"ok", "converge"}, NEW c, c = [request[r] EXCEPT !.at = step]
      PROVE  c \in MembershipRequest /\ c.at = step /\ Carries(c)
  <2>1. /\ c \in MembershipRequest /\ c.at = step /\ c.member = m /\ c.op = "status"
    BY <1>1, <1>2, <1>3 DEF MembershipRequest, MembershipSteps, MembershipAnswers
  <2> QED
    BY <1>2, <2>1 DEF Carries, LoginSteps
<1>4. CASE Go(r, "converge") /\ UNCHANGED <<row, trail>>
  <2>1. Carries([request[r] EXCEPT !.at = "converge"])
    BY <1>3
  <2> QED
    BY <1>2, <1>4, <2>1, CallGoes DEF MembershipSteps
<1>5. CASE /\ row[m].status # request[r].to
           /\ row' = [row EXCEPT ![m].status = request[r].to]
           /\ trail' = [trail EXCEPT ![m] = Append(@, request[r].to)]
           /\ Go(r, "ok")
  <2>1. PICK n : n = [row[m] EXCEPT !.status = request[r].to]
    OBVIOUS
  <2>2. /\ n \in RowType /\ n.status = request[r].to /\ n.sub = row[m].sub
        /\ n.email = row[m].email /\ n # None
    BY <1>2, <2>1, MembershipAssumption DEF RowType
  <2>3. row \in [Members -> RowType \cup {None}] /\ row' = [row EXCEPT ![m] = n]
    BY <1>2, <1>5, <2>1 DEF MembershipTypeOK
  <2>4. /\ row'[m] = n /\ \A q \in Members : q # m => row'[q] = row[q]
        /\ row' \in [Members -> RowType \cup {None}]
        /\ \A q \in Rows : row'[q].email = row[q].email /\ row'[q].sub = row[q].sub
    BY <1>2, <2>2, <2>3 DEF Rows
  <2>5. UNCHANGED Rows
    BY <1>2, <2>2, <2>4 DEF Rows
  <2>6. PICK c : c = [request[r] EXCEPT !.at = "ok"]
    OBVIOUS
  <2>7. /\ c \in MembershipRequest /\ c.at = "ok" /\ Carries(c)
        /\ request' = [request EXCEPT ![r] = c] /\ request \in [Requests -> MembershipRequest]
    BY <1>2, <1>3, <1>5, <2>6 DEF Go, MembershipTypeOK
  <2>8. row[r] = None /\ \A q \in Requests : q # r => request'[q] = request[q]
    BY <1>2, <2>7 DEF RowsAgree
  <2>9. RowsStay /\ CameStays /\ Do(r, c)
    BY <1>2, <2>4, <2>5, <2>7, CameIsKept DEF RowsStay, LoginGoesOn, Do
  <2>10. /\ trail' \in [Members -> Seq(Statuses)]
         /\ trail'[m] = Append(trail[m], request[r].to)
         /\ \A q \in Members : q # m => trail'[q] = trail[q]
    BY <1>2, <1>5
  <2>11. RowsAgree'
    <3>1. \A q \in Members : row'[q] = None => row[q] = None /\ q # m
      BY <1>2, <2>2, <2>4
    <3>2. \A q \in Requests : row'[q] # None => row[q] # None
      BY <1>2, <2>4 DEF Members, Rows
    <3>3. \A q \in Requests : row'[q] # None => request'[q].at = "ok"
      BY <1>2, <2>8, <3>2 DEF RowsAgree
    <3>4. \A q \in Members : row'[q] = None => trail'[q] = <<>>
      BY <1>2, <2>10, <3>1 DEF RowsAgree
    <3>5. \A p, q \in Rows : row'[p].email = row'[q].email => p = q
      BY <1>2, <2>4 DEF RowsAgree
    <3>6. \A q \in Rows : row'[q].sub \in Identities => Came(row[q].sub, row[q].email)'
      BY <1>2, <2>4, <2>9, CameOfRows
    <3>7. \A p, q \in Rows : row'[p].sub = row'[q].sub => p = q
      BY <1>2, <2>4 DEF RowsAgree
    <3>8. \A q \in Rows : row'[q].sub \in Members => row'[q].sub = q
      BY <1>2, <2>4 DEF RowsAgree
    <3> QED
      BY <2>5, <3>3, <3>4, <3>5, <3>6, <3>7, <3>8 DEF RowsAgree
  <2>12. TrailIsTrue'
    <3>1. \A q \in Rows : q # m => row'[q] = row[q] /\ trail'[q] = trail[q]
      BY <2>4, <2>10 DEF Rows
    <3>2. row[m].status \in Statuses
      BY <1>2 DEF RowType
    <3>3. Tells(trail[m], row[m].status) /\ \A q \in Rows : Tells(trail[q], row[q].status)
      BY <1>2 DEF TrailIsTrue, Tells
    <3>4. Tells(trail'[m], row'[m].status)
      BY <1>2, <1>5, <2>2, <2>4, <2>10, <3>2, <3>3, TrailGrows
    <3>5. \A q \in Rows : Tells(trail'[q], row'[q].status)
      BY <3>1, <3>3, <3>4
    <3> QED
      BY <2>5, <3>5 DEF TrailIsTrue, Tells
  <2>13. Carries(c)'
    BY <2>7, <2>9, CarriesStays
  <2> QED
    BY <1>2, <2>4, <2>7, <2>9, <2>10, <2>11, <2>12, <2>13, CallKeeps DEF Do
<1> QED
  BY <1>1, <1>2, <1>4, <1>5 DEF WriteStatus, StatusMatches

\* The other reads of a registration and of a change of status.
LEMMA OtherReads ==
  ASSUME MembershipInv, NEW r \in Requests,
         CountAttempts(r) \/ LookupEmail(r) \/ ReadTarget(r) \/ ReadAgain(r) \/ Converge(r)
  PROVE  MembershipInv'
<1>1. /\ MembershipTypeOK /\ request[r] \in MembershipRequest /\ Carries(request[r])
      /\ r \notin Tried /\ UNCHANGED stores
      /\ invitation \in [Codes -> InvitationType \cup {None}]
      /\ request[r].op \in {"register", "status"}
  BY DEF MembershipInv, MembershipTypeOK, Carries, Tried, At, CountAttempts, LookupEmail,
         ReadTarget, ReadAgain, Converge
<1>2. ASSUME NEW step \in {"limited", "lookup", "create", "taken", "missing", "protected", "ok",
                           "reread", "conflict", "write", "converge"},
             Go(r, step),
             step \in {"lookup", "create"} => request[r].at \in {"count", "lookup"},
             step \in {"reread", "write", "converge"} =>
               request[r].op = "status" /\ request[r].member \in Rows
      PROVE  MembershipInv'
  <2>1. PICK c : c = [request[r] EXCEPT !.at = step]
    OBVIOUS
  <2>2. /\ c.at = step /\ c.member = request[r].member /\ c.op = request[r].op
        /\ c.email = request[r].email /\ c.code = request[r].code
    BY <1>1, <2>1 DEF MembershipRequest
  <2>3. Carries(c)
    BY <1>1, <1>2, <2>2 DEF Carries, LoginSteps, Rows
  <2>4. step \in MembershipSteps \cup MembershipAnswers
    BY <1>2 DEF MembershipSteps, MembershipAnswers
  <2> QED
    BY <1>1, <1>2, <2>1, <2>3, <2>4, CallGoes DEF stores
<1>3. CASE CountAttempts(r) \/ LookupEmail(r)
  BY <1>2, <1>3 DEF CountAttempts, LookupEmail, At
<1>4. CASE ReadTarget(r)
  <2>1. request[r].op = "status" /\ request[r].member \in Members
    BY <1>1, <1>4 DEF ReadTarget, At, Carries
  <2> QED
    BY <1>2, <1>4, <2>1 DEF ReadTarget, Rows
<1>5. CASE ReadAgain(r) \/ Converge(r)
  <2>1. request[r].op = "status" /\ request[r].member \in Rows
    BY <1>1, <1>5 DEF ReadAgain, Converge, At, Carries
  <2> QED
    BY <1>2, <1>5, <2>1 DEF ReadAgain, Converge
<1> QED
  BY <1>3, <1>4, <1>5

LEMMA Invites ==
  ASSUME MembershipInv, NEW r \in Requests,
         FindOwned(r) \/ (\E c \in Codes : DrawCode(r, c)) \/ ReadWinner(r)
  PROVE  MembershipInv'
<1>1. /\ MembershipTypeOK /\ request[r] \in MembershipRequest /\ Carries(request[r])
      /\ request[r].op = "invite" /\ request[r].member \in Members
      /\ request[r].tries \in Nat /\ request[r].tries < CodeAttempts
      /\ r \notin Tried /\ UNCHANGED <<row, attempts, trail>>
      /\ invitation \in [Codes -> InvitationType \cup {None}]
      /\ CodeAttempts \in Nat
  BY MembershipAssumption
     DEF MembershipInv, MembershipTypeOK, Carries, Tried, At, MembershipRequest,
         FindOwned, DrawCode, ReadWinner, stores
<1>2. ASSUME NEW c \in Codes, AnswerCode(r, c),
             invitation' \in [Codes -> InvitationType \cup {None}]
      PROVE  MembershipInv'
  <2>1. PICK d : d = [request[r] EXCEPT !.at = "ok", !.code = c]
    OBVIOUS
  <2>2. d \in MembershipRequest /\ d.at = "ok" /\ d.op = "invite"
    BY <1>1, <2>1 DEF MembershipRequest, MembershipAnswers
  <2>3. Carries(d) /\ LoginGoesOn(r, d)
    BY <1>1, <2>2 DEF Carries, LoginSteps, LoginGoesOn
  <2> QED
    BY <1>1, <1>2, <2>1, <2>2, <2>3, CallMoves DEF AnswerCode
<1>3. ASSUME NEW step \in {"draw", "winner"}, Go(r, step), UNCHANGED invitation
      PROVE  MembershipInv'
  <2>1. PICK c : c = [request[r] EXCEPT !.at = step]
    OBVIOUS
  <2>2. /\ c.at = step /\ c.op = "invite" /\ c.member = request[r].member
        /\ c.tries = request[r].tries
    BY <1>1, <2>1 DEF MembershipRequest
  <2>3. Carries(c)
    BY <1>1, <1>3, <2>2 DEF Carries, LoginSteps
  <2> QED
    BY <1>1, <1>3, <2>1, <2>3, CallGoes DEF MembershipSteps
<1>4. ASSUME NextDraw(r), UNCHANGED invitation
      PROVE  MembershipInv'
  <2>1. PICK n, step : /\ n = request[r].tries + 1
                       /\ step = IF n = CodeAttempts THEN "error" ELSE "draw"
                       /\ Do(r, [request[r] EXCEPT !.tries = n, !.at = step])
    BY <1>1, <1>4 DEF NextDraw, MembershipRequest
  <2>2. PICK c : c = [request[r] EXCEPT !.tries = n, !.at = step]
    OBVIOUS
  <2>3. n \in 0..CodeAttempts /\ step \in {"error", "draw"}
    BY <1>1, <2>1
  <2>4. /\ c \in MembershipRequest /\ c.at = step /\ c.op = "invite" /\ c.tries = n
        /\ c.member = request[r].member
    BY <1>1, <2>2, <2>3 DEF MembershipRequest, MembershipSteps, MembershipAnswers
  <2>5. Carries(c) /\ LoginGoesOn(r, c)
    BY <1>1, <2>1, <2>3, <2>4 DEF Carries, LoginSteps, LoginGoesOn
  <2> QED
    BY <1>1, <1>4, <2>1, <2>2, <2>4, <2>5, CallMoves
<1>5. CASE FindOwned(r)
  BY <1>1, <1>2, <1>3, <1>5 DEF FindOwned, Owned, stores
<1>6. ASSUME NEW c \in Codes, DrawCode(r, c)
      PROVE  MembershipInv'
  <2>1. [owner |-> request[r].member, bound |-> None] \in InvitationType
    BY <1>1 DEF InvitationType
  <2>2. CASE /\ invitation' = [invitation EXCEPT
                                 ![c] = [owner |-> request[r].member, bound |-> None]]
             /\ AnswerCode(r, c)
    <3>1. invitation' \in [Codes -> InvitationType \cup {None}]
      BY <1>1, <2>1, <2>2
    <3> QED
      BY <1>2, <2>2, <3>1
  <2> QED
    BY <1>3, <1>4, <1>6, <2>2 DEF DrawCode
<1>7. CASE ReadWinner(r)
  BY <1>1, <1>2, <1>4, <1>7 DEF ReadWinner, Owned, stores
<1> QED
  BY <1>5, <1>6, <1>7

LEMMA MembershipInitially == MembershipInit => MembershipInv
<1> SUFFICES ASSUME MembershipInit
    PROVE  MembershipInv
  OBVIOUS
<1>1. /\ NoCall \in MembershipRequest /\ NoCall.at = "new" /\ NoCall.op = "none"
  BY MembershipAssumption
     DEF NoCall, MembershipRequest, MembershipSteps, Statuses
<1>2. request \in [Requests -> MembershipRequest] /\ \A r \in Requests : request[r] = NoCall
  BY <1>1 DEF MembershipInit
<1>3. PICK f \in {None} \cup {NewRow(Founder, e, "contributor") : e \in Emails} :
        row = [m \in Members |-> IF m = Founder THEN f ELSE None]
  BY DEF MembershipInit
<1>4. f # None => f \in RowType /\ f.sub = Founder /\ f.status = "active"
  BY <1>3 DEF NewRow, RowType, Statuses, Members
<1>5. row \in [Members -> RowType \cup {None}] /\ row[Founder] = f
  BY <1>3, <1>4 DEF Members
<1>6. Rows \subseteq {Founder} /\ \A r \in Requests : row[r] = None
  BY <1>3, MembershipAssumption DEF Rows, Members
<1>7. /\ trail \in [Members -> Seq(Statuses)] /\ \A m \in Members : trail[m] = <<>>
      /\ invitation \in [Codes -> InvitationType \cup {None}] /\ attempts = 0
  BY DEF MembershipInit
<1>8. MembershipTypeOK /\ attempts <= Cardinality(Tried)
  BY <1>2, <1>5, <1>7, TriedIsFinite DEF MembershipTypeOK
<1>9. RowsAgree
  BY <1>4, <1>5, <1>6, <1>7, MembershipAssumption DEF RowsAgree, Rows, Members
<1>10. TrailIsTrue
  <2>1. \A m \in Rows : Tells(trail[m], row[m].status)
    BY <1>4, <1>5, <1>6, <1>7, NothingIsTold DEF Rows
  <2> QED
    BY <2>1 DEF TrailIsTrue, Tells
<1>11. \A r \in Requests : Carries(request[r])
  BY <1>1, <1>2 DEF Carries, LoginSteps
<1> QED
  BY <1>8, <1>9, <1>10, <1>11 DEF MembershipInv

LEMMA MembershipStep == MembershipInv /\ [MembershipNext]_membershipVars => MembershipInv'
<1> SUFFICES ASSUME MembershipInv, [MembershipNext]_membershipVars
    PROVE  MembershipInv'
  OBVIOUS
<1>1. ASSUME UNCHANGED <<row, attempts, trail, request>>,
             invitation' \in [Codes -> InvitationType \cup {None}]
      PROVE  MembershipInv'
  <2>1. MembershipTypeOK' /\ UNCHANGED <<Rows, Tried>>
    BY <1>1 DEF MembershipInv, MembershipTypeOK, Rows, Tried
  <2>2. RowsAgree' /\ TrailIsTrue'
    BY <1>1, <2>1 DEF MembershipInv, RowsAgree, TrailIsTrue, Came
  <2>3. \A r \in Requests : Carries(request[r])'
    BY <1>1, <2>1 DEF MembershipInv, Carries, ByEmail, Came
  <2> QED
    BY <1>1, <2>1, <2>2, <2>3 DEF MembershipInv
<1>2. invitation \in [Codes -> InvitationType \cup {None}]
  BY DEF MembershipInv, MembershipTypeOK
<1>3. CASE UNCHANGED membershipVars
  BY <1>1, <1>2, <1>3 DEF membershipVars, stores
<1>4. ASSUME NEW c \in Codes, IssueCode(c)
      PROVE  MembershipInv'
  <2>1. [owner |-> None, bound |-> None] \in InvitationType
    BY DEF InvitationType
  <2>2. invitation' \in [Codes -> InvitationType \cup {None}]
    BY <1>2, <1>4, <2>1 DEF IssueCode
  <2> QED
    BY <1>1, <1>4, <2>2 DEF IssueCode
<1> QED
  BY <1>3, <1>4, Starts, LoginReads, InsertKeeps, LinkKeeps, CreateKeeps, OtherReads,
     WriteKeeps, Invites DEF MembershipNext

\* The members, their emails and audits, and what each request is at.
THEOREM MembershipInvariance == MembershipSpec => []MembershipInv
<1> QED
  BY MembershipInitially, MembershipStep, PTL DEF MembershipSpec

\* Whoever a login is admitted as has an email its identity has come with, and
\* identities that only ever came with one email are admitted as the one member that
\* has it, however first logins, links and registrations race.
THEOREM PersonsCorrect == MembershipSpec => []OnePersonOneMember
<1>1. MembershipInv => OnePersonOneMember
  <2> SUFFICES ASSUME MembershipInv PROVE OnePersonOneMember
    OBVIOUS
  <2>1. ASSUME NEW r \in Requests, Admitted(r)
        PROVE  /\ request[r].member \in Rows
               /\ Came(request[r].who, row[request[r].member].email)
               /\ row[request[r].member].email \in Emails
    BY <2>1 DEF MembershipInv, MembershipTypeOK, RowType, Carries, Admitted, At, Rows
  <2>2. ASSUME NEW r \in Requests, Admitted(r), NEW q \in Requests, Admitted(q),
               \A e \in Emails :
                 Came(request[r].who, e) \/ Came(request[q].who, e) => e = request[r].email
        PROVE  request[q].member = request[r].member
    <3>1. /\ row[request[r].member].email = request[r].email
          /\ row[request[q].member].email = request[r].email
      BY <2>1, <2>2
    <3> QED
      BY <2>1, <2>2, <3>1 DEF MembershipInv, RowsAgree
  <2> QED
    BY <2>1, <2>2 DEF OnePersonOneMember
<1> QED
  BY <1>1, MembershipInvariance, PTL

\* The audit of a member tells each change of its status, once and in order.
THEOREM TrailCorrect == MembershipSpec => []TrailIsTrue
<1>1. MembershipInv => TrailIsTrue
  BY DEF MembershipInv
<1> QED
  BY <1>1, MembershipInvariance, PTL

\* What the step of a login shows that ends in an identity conflict, or goes to the
\* look that confirms it.
LEMMA ConflictShows ==
  ASSUME MembershipInv, MembershipNext, NEW r \in Requests, request[r].op = "identity",
         request[r].at \notin {"current", "conflict"},
         request'[r].at \in {"current", "conflict"}
  PROVE  \E m \in Rows : row[m].sub # request[r].who /\ Came(request[r].who, row[m].email)
<1>1. /\ request \in [Requests -> MembershipRequest] /\ request[r] \in MembershipRequest
      /\ Carries(request[r])
  BY DEF MembershipInv, MembershipTypeOK
<1>2. ASSUME NEW q \in Requests, NEW step, Go(q, step)
      PROVE  q = r /\ step \in {"current", "conflict"}
  BY <1>1, <1>2 DEF Go, MembershipRequest
<1>3. ASSUME NEW q \in Requests, NEW c, Do(q, c)
      PROVE  q = r /\ c.at \in {"current", "conflict"}
  BY <1>1, <1>3 DEF Do
<1>4. ASSUME NEW q \in Requests, NEW m, Admit(q, m)
      PROVE  FALSE
  <2>1. PICK step \in {"ok", "disabled"} : Do(q, [request[q] EXCEPT !.at = step, !.member = m])
    BY <1>4 DEF Admit
  <2>2. PICK c : c = [request[q] EXCEPT !.at = step, !.member = m]
    OBVIOUS
  <2>3. c.at = step
    BY <1>1, <2>2 DEF MembershipRequest
  <2> QED
    BY <1>3, <2>1, <2>2, <2>3
<1>5. ASSUME NEW q \in Requests,
             \/ \E i \in Identities : \E e \in EmailsOf[i] : IdentityLogin(q, i, e)
             \/ \E e \in Emails, c \in Codes : Register(q, e, c)
             \/ \E m \in Members, to \in Statuses : SetStatus(q, m, to)
             \/ \E m \in Members : Invite(q, m)
      PROVE  FALSE
  <2>1. ASSUME NEW c, Do(q, c), c.at \in {"subject", "count", "target", "owned"}
        PROVE  FALSE
    BY <1>3, <2>1
  <2>2. ASSUME NEW i, NEW e, IdentityLogin(q, i, e)
        PROVE  FALSE
    BY <2>1, <2>2 DEF IdentityLogin, NoCall
  <2>3. ASSUME NEW e, NEW c, Register(q, e, c)
        PROVE  FALSE
    BY <2>1, <2>3 DEF Register, NoCall
  <2>4. ASSUME NEW m, NEW to, SetStatus(q, m, to)
        PROVE  FALSE
    BY <2>1, <2>4 DEF SetStatus, NoCall
  <2>5. ASSUME NEW m, Invite(q, m)
        PROVE  FALSE
    BY <2>1, <2>5 DEF Invite, NoCall
  <2> QED
    BY <1>5, <2>2, <2>3, <2>4, <2>5
<1>6. ASSUME NEW q \in Requests, request[q].op # "identity"
      PROVE  q # r
  BY <1>6
<1>7. ASSUME NEW q \in Requests,
             \/ CountAttempts(q) \/ LookupEmail(q) \/ CreateMember(q)
             \/ ReadTarget(q) \/ ReadAgain(q) \/ WriteStatus(q) \/ Converge(q)
             \/ FindOwned(q) \/ (\E c \in Codes : DrawCode(q, c)) \/ ReadWinner(q)
      PROVE  FALSE
  <2>1. request[q].op # "identity"
    BY <1>7 DEF MembershipInv, Carries, At, CountAttempts, LookupEmail, CreateMember,
                ReadTarget, ReadAgain, WriteStatus, Converge, FindOwned, DrawCode, ReadWinner
  <2>2. ASSUME NEW c, AnswerCode(q, c)
        PROVE  FALSE
    BY <1>3, <1>6, <2>1, <2>2 DEF AnswerCode
  <2>3. ~NextDraw(q)
    BY <1>3, <1>6, <2>1 DEF NextDraw
  <2> QED
    BY <1>2, <1>6, <1>7, <2>1, <2>2, <2>3
       DEF CountAttempts, LookupEmail, CreateMember, ReadTarget, ReadAgain, WriteStatus,
           Converge, FindOwned, DrawCode, ReadWinner
<1>8. ASSUME NEW q \in Requests, NEW role,
             Do(q, [request[q] EXCEPT !.at = "insert", !.role = role])
      PROVE  FALSE
  <2>1. PICK c : c = [request[q] EXCEPT !.at = "insert", !.role = role]
    OBVIOUS
  <2>2. c.at = "insert"
    BY <1>1, <2>1 DEF MembershipRequest
  <2> QED
    BY <1>3, <1>8, <2>1, <2>2
<1>9. ASSUME NEW q \in Requests, ReadAdmin(q) \/ Again(q)
      PROVE  FALSE
  BY <1>4, <1>8, <1>9 DEF ReadAdmin, Again
<1>10. ASSUME NEW q \in Requests, FindSubject(q) \/ ReadLinked(q) \/ Link(q)
       PROVE  FALSE
  BY <1>2, <1>4, <1>10 DEF FindSubject, ReadLinked, Link
<1>11. ASSUME NEW q \in Requests, FindEmail(q)
       PROVE  FALSE
  <2>1. ~Go(q, "admin")
    BY <1>2
  <2>2. PICK m \in ByEmail(request[q].email), step \in {"link", "disabled"} :
          Do(q, [request[q] EXCEPT !.at = step, !.member = m, !.saw = row[m].sub])
    <3>1. PICK m \in ByEmail(request[q].email) :
            Do(q, [request[q] EXCEPT !.at = IF row[m].status = "active" THEN "link"
                                                                       ELSE "disabled",
                                     !.member = m, !.saw = row[m].sub])
      BY <1>11, <2>1 DEF FindEmail
    <3> QED
      BY <3>1
  <2>3. PICK c : c = [request[q] EXCEPT !.at = step, !.member = m, !.saw = row[m].sub]
    OBVIOUS
  <2>4. c.at = step
    BY <1>1, <2>3 DEF MembershipRequest
  <2> QED
    BY <1>3, <2>2, <2>3, <2>4
<1>12. ASSUME NEW q \in Requests, InsertMember(q)
       PROVE  FALSE
  <2>1. \A step \in InsertConflicts(q) : ~Go(q, step)
    BY <1>2 DEF InsertConflicts
  <2>2. PICK c : c = [request[q] EXCEPT !.at = "ok", !.member = q]
    OBVIOUS
  <2>3. Do(q, c)
    BY <1>12, <2>1, <2>2 DEF InsertMember
  <2>4. c.at = "ok"
    BY <1>1, <2>2 DEF MembershipRequest
  <2> QED
    BY <1>3, <2>3, <2>4
<1>13. ASSUME NEW q \in Requests, ReadCurrent(q)
       PROVE  FALSE
  BY <1>2, <1>13 DEF ReadCurrent, At
<1>14. ASSUME NEW c \in Codes, IssueCode(c)
       PROVE  FALSE
  BY <1>14 DEF IssueCode
<1>15. ASSUME NEW q \in Requests, Recover(q)
       PROVE  \E m \in Rows : row[m].sub # request[r].who /\ Came(request[r].who, row[m].email)
  <2>1. q = r /\ request[r].at = "recover" /\ BySubject(request[r].who) = {}
    BY <1>2, <1>4, <1>15 DEF Recover, At
  <2>2. \E m \in Rows : Came(request[r].who, row[m].email)
    BY <1>1, <2>1 DEF Carries
  <2> QED
    BY <2>1, <2>2 DEF BySubject
<1>16. ASSUME NEW q \in Requests, Relink(q)
       PROVE  \E m \in Rows : row[m].sub # request[r].who /\ Came(request[r].who, row[m].email)
  <2>1. q = r /\ request[r].at = "relink"
    BY <1>2, <1>4, <1>16 DEF Relink, At
  <2>2. /\ request[r].member \in Rows
        /\ Came(request[r].who, row[request[r].member].email)
    BY <1>1, <2>1, OwnEmail DEF Carries
  <2>3. \/ BySubject(request[r].who) = {}
        \/ \E m \in BySubject(request[r].who) : m # request[r].member
    BY <1>4, <1>16, <2>1 DEF Relink
  <2>4. row[request[r].member].sub # request[r].who
    BY <2>2, <2>3 DEF MembershipInv, RowsAgree, BySubject
  <2> QED
    BY <2>2, <2>4
<1> QED
  BY <1>5, <1>7, <1>9, <1>10, <1>11, <1>12, <1>13, <1>14, <1>15, <1>16 DEF MembershipNext

\* A login is refused for a conflict of identity, or sent to look at the status of
\* the member it found, only when a member with an email of its identity has another
\* subject.
THEOREM ConflictsCorrect == MembershipSpec => ConflictIsExplained
<1> DEFINE Explained ==
      \A r \in Requests :
        /\ request[r].op = "identity"
        /\ request[r].at \notin {"current", "conflict"}
        /\ request'[r].at \in {"current", "conflict"}
        => \E m \in Rows :
             row[m].sub # request[r].who /\ Came(request[r].who, row[m].email)
<1>1. ASSUME MembershipInv, MembershipNext
      PROVE  Explained
  <2> SUFFICES ASSUME NEW r \in Requests, request[r].op = "identity",
                      request[r].at \notin {"current", "conflict"},
                      request'[r].at \in {"current", "conflict"}
      PROVE  \E m \in Rows :
               row[m].sub # request[r].who /\ Came(request[r].who, row[m].email)
    OBVIOUS
  <2> QED
    BY <1>1, ConflictShows
<1> HIDE DEF Explained
<1>2. MembershipInv /\ [MembershipNext]_membershipVars => [Explained]_membershipVars
  BY <1>1
<1> USE DEF Explained
<1> QED
  BY <1>2, MembershipInvariance, PTL DEF MembershipSpec, ConflictIsExplained

-----------------------------------------------------------------------------
(* The connector: a generation is one connection, whose lease is the last of *)
(* its tickets.                                                              *)

\* A receipt that a ticket can be of.
Ticket(o) == slip[o] # None /\ slip[o].kind \in {"connect", "renew"}

\* What is so for a request that carries c: the ticket it brings, or the receipt it
\* has read.
CallSays(c) ==
  /\ c.now <= MaxMoment
  /\ c.at = "owner" => c.op = "consume"
  /\ c.op = "consume" =>
       /\ c.operation \in Operations /\ c.consumer \in Consumers
       /\ Ticket(c.operation) /\ c.generation = slip[c.operation].made
  /\ c.op \in {"reserve", "connect", "renew", "revoke"} =>
       c.operation \in Operations /\ c.login \in Logins
  /\ c.at \in {"head", "receipt", "final"} => c.op \in {"connect", "renew"}
  /\ c.at = "final" => Ticket(c.operation)
  /\ c.at = "head" /\ c.op = "connect" => Ticket(c.operation)

\* A generation is connected once, and is of the past or of the reservation there is.
SlipsAgree ==
  /\ \A o, p \in Operations :
       /\ slip[o] # None /\ slip[o].kind = "connect"
       /\ slip[p] # None /\ slip[p].kind = "connect" /\ slip[p].made = slip[o].made
       => o = p
  /\ head # None => \A o \in Operations : slip[o] # None => slip[o].made <= head.generation
  /\ present /\ head = None => \A o \in Operations : slip[o] = None

\* What was handed out or consumed has a receipt, and the first ticket of a generation
\* that was consumed is its connection's.
UsesAgree ==
  /\ \A o \in Operations : o \in issued \/ used[o] # None => Ticket(o)
  /\ \A o \in Operations : used[o] # None =>
       \E p \in Operations :
         used[p] # None /\ slip[p].kind = "connect" /\ slip[p].made = slip[o].made

ConnectorsInv ==
  /\ ConnectorsTypeOK /\ moment <= MaxMoment
  /\ SlipsAgree /\ UsesAgree /\ OneConnection
  /\ \A r \in Requests : CallSays(request[r])

\* Receipts are kept, and so is what was consumed.
SlipsStay ==
  \A o \in Operations :
    /\ slip[o] # None => slip'[o] = slip[o]
    /\ used[o] # None => used'[o] = used[o]

LEMMA UsesAreFinite ==
  ASSUME NEW n
  PROVE  /\ IsFiniteSet(Uses(n)) /\ Cardinality(Uses(n)) \in Nat
         /\ Cardinality(Uses(n)) <= MaxOperations
<1>1. IsFiniteSet(Operations) /\ Cardinality(Operations) = MaxOperations
  BY ConnectorsAssumption, FS_Interval DEF Operations
<1>2. Uses(n) \subseteq Operations
  BY DEF Uses
<1> QED
  BY <1>1, <1>2, FS_Subset, FS_CardinalityType

\* What was so for a request that is not concerned stays so.
LEMMA CallStays ==
  ASSUME ConnectorsInv, SlipsStay, NEW c, CallSays(c)
  PROVE  CallSays(c)'
<1>1. \A o \in Operations : Ticket(o) => slip'[o] = slip[o] /\ Ticket(o)'
  BY DEF SlipsStay, Ticket
<1>2. c.at = "final" \/ (c.at = "head" /\ c.op = "connect") => c.operation \in Operations
  BY DEF CallSays
<1> QED
  BY <1>1, <1>2 DEF CallSays

\* The uses stay when nothing is consumed, and with them what they say of the lease.
LEMMA ConnectionStays ==
  ASSUME ConnectorsInv, SlipsStay, UNCHANGED used, lease' \in {lease, None}
  PROVE  OneConnection'
<1>1. UsesAgree /\ OneConnection
  BY DEF ConnectorsInv
<1>2. \A o \in Operations : used[o] # None => slip[o] # None /\ slip'[o] = slip[o]
  BY <1>1 DEF UsesAgree, Ticket, SlipsStay
<1>3. \A n : Uses(n)' = Uses(n)
  BY <1>2 DEF Uses
<1>4. Connected' = Connected
  BY <1>2 DEF Connected
<1>5. ASSUME NEW n \in Connected
      PROVE  /\ Cardinality({used'[o].consumer : o \in Uses(n)}) = 1
             /\ {used'[o].revision : o \in Uses(n)} = 1..Cardinality(Uses(n))
  BY <1>1, <1>5 DEF OneConnection
<1>6. ASSUME lease' # None
      PROVE  /\ lease'.revision = Cardinality(Uses(lease'.generation))
             /\ \A o \in Uses(lease'.generation) : used'[o].consumer = lease'.consumer
             /\ \A n \in Connected : n <= lease'.generation
  BY <1>1, <1>6 DEF OneConnection
<1> QED
  BY <1>3, <1>4, <1>5, <1>6 DEF OneConnection

\* A step of a request, whatever else it changes.
LEMMA ConnectorCallKeeps ==
  ASSUME ConnectorsInv, NEW r \in Requests, NEW c \in ConnectorRequest,
         Do(r, c), SlipsStay, CallSays(c)',
         SlipsAgree', UsesAgree', OneConnection',
         UNCHANGED <<moment, present, signedIn, granted>>,
         head' \in HeadType \cup {None},
         slip' \in [Operations -> SlipType \cup {None}],
         issued' \subseteq Operations,
         used' \in [Operations -> UseType \cup {None}],
         lease' \in LeaseType \cup {None}
  PROVE  ConnectorsInv'
<1>1. ConnectorsTypeOK /\ request \in [Requests -> ConnectorRequest] /\ moment <= MaxMoment
  BY DEF ConnectorsInv, ConnectorsTypeOK
<1>2. /\ request'[r] = c /\ request' \in [Requests -> ConnectorRequest]
      /\ \A q \in Requests : q # r => request'[q] = request[q]
  BY <1>1 DEF Do
<1>3. ConnectorsTypeOK' /\ moment' <= MaxMoment
  BY <1>1, <1>2 DEF ConnectorsTypeOK
<1>4. ASSUME NEW q \in Requests
      PROVE  CallSays(request[q])'
  <2>1. CASE q = r
    <3>1. PICK d : d = c
      OBVIOUS
    <3>2. CallSays(d)' /\ d = request'[q]
      BY <1>2, <2>1, <3>1 DEF CallSays
    <3> QED
      BY <3>2 DEF CallSays
  <2>2. CASE q # r
    <3>1. PICK d : d = request[q]
      OBVIOUS
    <3>2. CallSays(d)' /\ d = request'[q]
      BY <1>2, <2>2, <3>1, CallStays DEF ConnectorsInv
    <3> QED
      BY <3>2 DEF CallSays
  <2> QED
    BY <2>1, <2>2
<1> QED
  BY <1>3, <1>4 DEF ConnectorsInv

\* ... which leaves everything else as it is.
LEMMA ConnectorCallMoves ==
  ASSUME ConnectorsInv, NEW r \in Requests, NEW c \in ConnectorRequest,
         Do(r, c), CallSays(c), UNCHANGED authority
  PROVE  ConnectorsInv'
<1>1. ConnectorsTypeOK /\ SlipsAgree /\ UsesAgree /\ OneConnection
  BY DEF ConnectorsInv
<1>2. /\ UNCHANGED <<moment, present, signedIn, granted, head, slip, issued, used, lease>>
      /\ SlipsStay
  BY DEF authority, SlipsStay
<1>3. SlipsAgree' /\ UsesAgree'
  BY <1>1, <1>2 DEF SlipsAgree, UsesAgree, Ticket
<1>4. OneConnection'
  BY <1>2, ConnectionStays
<1>5. CallSays(c)'
  BY <1>2, CallStays
<1> QED
  BY <1>1, <1>2, <1>3, <1>4, <1>5, ConnectorCallKeeps DEF ConnectorsTypeOK

LEMMA NoConnectorSays ==
  /\ NoConnector \in ConnectorRequest
  /\ CallSays(NoConnector) /\ CallSays(NoConnector)'
<1>1. 0 \in Moments /\ 0 \in Generations /\ 0 <= MaxMoment
  BY ConnectorsAssumption DEF Moments, Generations
<1> QED
  BY <1>1 DEF NoConnector, ConnectorRequest, CallSteps, CallSays

LEMMA Releases ==
  ASSUME ConnectorsInv, NEW r \in Requests, Release(r), UNCHANGED authority
  PROVE  ConnectorsInv'
BY NoConnectorSays, ConnectorCallMoves DEF Release

\* A receipt for a request that has none.
LEMMA ReceiptKept ==
  ASSUME ConnectorsInv, NEW r \in Requests,
         request[r].op \in {"reserve", "connect", "renew", "revoke"}, Unanswered(r),
         NEW made \in Generations, NEW revision \in {0} \cup Revisions,
         Keep(r, made, revision), UNCHANGED used
  PROVE  /\ SlipsStay /\ request[r].operation \in Operations
         /\ slip' \in [Operations -> SlipType \cup {None}]
         /\ slip'[request[r].operation] # None
         /\ slip'[request[r].operation].kind = request[r].op
         /\ slip'[request[r].operation].made = made
         /\ \A o \in Operations : o # request[r].operation => slip'[o] = slip[o]
<1>1. /\ ConnectorsTypeOK /\ request[r] \in ConnectorRequest /\ CallSays(request[r])
      /\ request[r].operation \in Operations /\ request[r].login \in Logins
      /\ request[r].now \in Moments /\ request[r].now <= MaxMoment
      /\ slip \in [Operations -> SlipType \cup {None}]
  BY DEF ConnectorsInv, ConnectorsTypeOK, CallSays, ConnectorRequest
<1>2. Expiry(r) \in Moments
  <2>1. LoginEnd[request[r].login] \in Nat /\ request[r].now \in Nat
    BY <1>1, ConnectorsAssumption DEF Moments
  <2> QED
    BY <1>1, <2>1, ConnectorsAssumption DEF Moments, Expiry
<1>3. PICK s : s = Slip(r, made, revision)
  OBVIOUS
<1>4. s \in SlipType /\ s.kind = request[r].op /\ s.made = made /\ s # None
  BY <1>1, <1>2, <1>3, ConnectorsAssumption DEF Slip, SlipType, ConnectorRequest
<1>5. slip' = [slip EXCEPT ![request[r].operation] = s]
  BY <1>3 DEF Keep
<1>6. /\ slip' \in [Operations -> SlipType \cup {None}]
      /\ slip'[request[r].operation] = s
      /\ \A o \in Operations : o # request[r].operation => slip'[o] = slip[o]
  BY <1>1, <1>4, <1>5
<1>7. SlipsStay
  BY <1>6 DEF SlipsStay, Unanswered
<1> QED
  BY <1>1, <1>4, <1>6, <1>7

\* ... for a generation that is there already.
LEMMA ReceiptAgrees ==
  ASSUME ConnectorsInv, NEW r \in Requests,
         request[r].op \in {"reserve", "connect", "renew", "revoke"}, Unanswered(r),
         NEW made \in Generations, NEW revision \in {0} \cup Revisions,
         Keep(r, made, revision), UNCHANGED <<used, issued, lease, present>>,
         head' # None, made <= head'.generation,
         head = None \/ head.generation <= head'.generation,
         head \in HeadType \cup {None}, head' \in HeadType,
         head = None => present,
         request[r].op = "connect" => ~Ticketed(made)
  PROVE  SlipsAgree' /\ UsesAgree' /\ OneConnection'
<1>1. /\ ConnectorsTypeOK /\ SlipsAgree /\ UsesAgree
      /\ slip \in [Operations -> SlipType \cup {None}]
  BY DEF ConnectorsInv, ConnectorsTypeOK
<1>2. PICK p : p = request[r].operation
  OBVIOUS
<1>3. /\ SlipsStay /\ p \in Operations /\ slip[p] = None
      /\ slip'[p] # None /\ slip'[p].kind = request[r].op /\ slip'[p].made = made
      /\ \A o \in Operations : o # p => slip'[o] = slip[o]
  BY <1>2, ReceiptKept DEF Unanswered
<1>4. OneConnection'
  BY <1>3, ConnectionStays
<1>5. \A o \in Operations : Ticket(o) => slip'[o] = slip[o] /\ Ticket(o)' /\ slip[o] # None
  BY <1>3 DEF SlipsStay, Ticket
<1>6. UsesAgree'
  <2>1. \A o \in Operations : o \in issued' \/ used'[o] # None => Ticket(o)'
    BY <1>1, <1>5 DEF UsesAgree
  <2>2. ASSUME NEW o \in Operations, used'[o] # None
        PROVE  \E q \in Operations :
                 used'[q] # None /\ slip'[q].kind = "connect" /\ slip'[q].made = slip'[o].made
    <3>1. PICK q \in Operations :
            used[q] # None /\ slip[q].kind = "connect" /\ slip[q].made = slip[o].made
      BY <1>1, <2>2 DEF UsesAgree
    <3>2. Ticket(q) /\ Ticket(o)
      BY <1>1, <2>2, <3>1 DEF UsesAgree
    <3> QED
      BY <1>5, <3>1, <3>2
  <2> QED
    BY <2>1, <2>2 DEF UsesAgree
<1>7. SlipsAgree'
  <2>1. ASSUME NEW o \in Operations, NEW q \in Operations,
               slip'[o] # None, slip'[o].kind = "connect",
               slip'[q] # None, slip'[q].kind = "connect", slip'[q].made = slip'[o].made
        PROVE  o = q
    BY <1>1, <1>3, <2>1 DEF SlipsAgree, Ticketed
  <2>2. ASSUME NEW o \in Operations, slip'[o] # None
        PROVE  slip'[o].made <= head'.generation
    <3>1. CASE o = p
      BY <1>3, <3>1
    <3>2. CASE o # p
      <4>1. slip[o] # None /\ slip'[o].made = slip[o].made /\ slip[o] \in SlipType
        BY <1>1, <1>3, <2>2, <3>2
      <4>2. head # None /\ head \in HeadType /\ slip[o].made <= head.generation
        BY <1>1, <4>1 DEF SlipsAgree
      <4>3. slip[o].made \in Int /\ head.generation \in Int /\ head'.generation \in Int
        BY <4>1, <4>2, ConnectorsAssumption DEF SlipType, HeadType, Generations
      <4> QED
        BY <4>1, <4>2, <4>3
    <3> QED
      BY <3>1, <3>2
  <2> QED
    BY <2>1, <2>2 DEF SlipsAgree
<1> QED
  BY <1>4, <1>6, <1>7

\* A step that stores no receipt and goes on.
LEMMA ConnectorCallGoes ==
  ASSUME ConnectorsInv, NEW r \in Requests, NEW step \in CallSteps, Go(r, step),
         step # "owner",
         step \in {"head", "receipt", "final"} => request[r].op \in {"connect", "renew"},
         step = "final" \/ (step = "head" /\ request[r].op = "connect") =>
           Ticket(request[r].operation)
  PROVE  /\ \E c \in ConnectorRequest :
              Do(r, c) /\ (SlipsStay => CallSays(c)')
         /\ UNCHANGED authority => ConnectorsInv'
<1>1. /\ request \in [Requests -> ConnectorRequest] /\ request[r] \in ConnectorRequest
      /\ CallSays(request[r])
  BY DEF ConnectorsInv, ConnectorsTypeOK
<1>2. PICK c : c = [request[r] EXCEPT !.at = step]
  OBVIOUS
<1>3. /\ c \in ConnectorRequest /\ c.at = step /\ c.op = request[r].op /\ c.now = request[r].now
      /\ c.operation = request[r].operation /\ c.login = request[r].login
      /\ c.generation = request[r].generation /\ c.consumer = request[r].consumer
  BY <1>1, <1>2 DEF ConnectorRequest
<1>4. CallSays(c)
  BY <1>1, <1>3 DEF CallSays
<1>5. Do(r, c)
  BY <1>1, <1>2 DEF Do, Go
<1>6. SlipsStay => CallSays(c)'
  BY <1>4, CallStays
<1> QED
  BY <1>3, <1>4, <1>5, <1>6, ConnectorCallMoves

LEMMA ReserveKeeps ==
  ASSUME ConnectorsInv, NEW r \in Requests, Reserve(r)
  PROVE  ConnectorsInv'
<1>1. /\ ConnectorsTypeOK /\ request[r].op = "reserve" /\ Release(r)
      /\ UNCHANGED <<moment, present, signedIn, granted, issued, used, lease>>
      /\ request[r] \in ConnectorRequest /\ CallSays(request[r])
      /\ request[r].login \in Logins
  BY DEF ConnectorsInv, ConnectorsTypeOK, Reserve, CallSays
<1>2. CASE UNCHANGED <<slip, head>>
  BY <1>1, <1>2, Releases DEF authority
<1>3. CASE /\ Eligible(r, request[r].now) /\ Unanswered(r) /\ Generation < MaxGeneration
           /\ Keep(r, Generation + 1, 0)
           /\ head' = [generation |-> Generation + 1, login |-> request[r].login,
                       state |-> "active"]
  <2>1. Generation \in Nat /\ Generation + 1 \in Generations
    BY <1>1, <1>3, ConnectorsAssumption
       DEF ConnectorsTypeOK, Generation, HeadType, Generations
  <2>2. head' \in HeadType /\ head'.generation = Generation + 1 /\ head' # None
    BY <1>1, <1>3, <2>1, ConnectorsAssumption DEF HeadType
  <2>3. head = None \/ head.generation <= head'.generation
    BY <2>1, <2>2 DEF Generation
  <2>4. /\ head \in HeadType \cup {None} /\ present /\ 0 \in {0} \cup Revisions
        /\ Generation + 1 <= head'.generation
    BY <1>1, <1>3, <2>1, <2>2 DEF ConnectorsTypeOK, Eligible
  <2>5. SlipsAgree' /\ UsesAgree' /\ OneConnection'
    BY <1>1, <1>3, <2>1, <2>2, <2>3, <2>4, ReceiptAgrees
  <2>6. SlipsStay /\ slip' \in [Operations -> SlipType \cup {None}]
    BY <1>1, <1>3, <2>1, <2>4, ReceiptKept
  <2> QED
    BY <1>1, <2>2, <2>5, <2>6, NoConnectorSays, ConnectorCallKeeps
       DEF Release, ConnectorsTypeOK
<1> QED
  BY <1>2, <1>3 DEF Reserve

LEMMA RevokeKeeps ==
  ASSUME ConnectorsInv, NEW r \in Requests, Revoke(r)
  PROVE  ConnectorsInv'
<1>1. /\ ConnectorsTypeOK /\ request[r].op = "revoke" /\ Release(r)
      /\ UNCHANGED <<moment, present, signedIn, granted, issued, used, lease>>
      /\ request[r] \in ConnectorRequest /\ head \in HeadType \cup {None}
  BY DEF ConnectorsInv, ConnectorsTypeOK, Revoke
<1>2. CASE UNCHANGED <<slip, head>>
  BY <1>1, <1>2, Releases DEF authority
<1>3. CASE /\ Eligible(r, request[r].now) /\ Unanswered(r)
           /\ head # None /\ head.generation = request[r].generation
           /\ Keep(r, request[r].generation, 0)
           /\ head' = [head EXCEPT !.state = "revoked"]
  <2>1. request[r].generation \in Generations /\ 0 \in {0} \cup Revisions
    BY <1>1 DEF ConnectorRequest
  <2>2. head \in HeadType /\ head' \in HeadType /\ head'.generation = head.generation /\ head' # None
    BY <1>1, <1>3, ConnectorsAssumption DEF HeadType
  <2>3. head.generation \in Int
    BY <2>2, ConnectorsAssumption DEF HeadType, Generations
  <2>4. SlipsAgree' /\ UsesAgree' /\ OneConnection'
    BY <1>1, <1>3, <2>1, <2>2, <2>3, ReceiptAgrees
  <2>5. SlipsStay /\ slip' \in [Operations -> SlipType \cup {None}]
    BY <1>1, <1>3, <2>1, ReceiptKept
  <2> QED
    BY <1>1, <2>2, <2>4, <2>5, NoConnectorSays, ConnectorCallKeeps
       DEF Release, ConnectorsTypeOK
<1> QED
  BY <1>2, <1>3 DEF Revoke

\* A ticket for the reservation there is: its receipt is written first.
LEMMA TicketKeeps ==
  ASSUME ConnectorsInv, NEW r \in Requests, Connect(r) \/ Renew(r)
  PROVE  ConnectorsInv'
<1>1. /\ ConnectorsTypeOK /\ request[r].op \in {"connect", "renew"} /\ Go(r, "receipt")
      /\ UNCHANGED <<moment, present, signedIn, granted, head, issued, used, lease>>
      /\ request[r] \in ConnectorRequest /\ head \in HeadType \cup {None}
      /\ request[r].generation \in Generations /\ "receipt" \in CallSteps
  BY DEF ConnectorsInv, ConnectorsTypeOK, Connect, Renew, ConnectorRequest, CallSteps
<1>2. PICK c \in ConnectorRequest : Do(r, c) /\ (SlipsStay => CallSays(c)')
  BY <1>1, ConnectorCallGoes
<1>3. CASE UNCHANGED slip
  BY <1>1, <1>3, ConnectorCallGoes DEF authority
<1>4. ASSUME NEW revision \in {0} \cup Revisions, Keep(r, request[r].generation, revision),
             Live(r, request[r].now), Unanswered(r),
             request[r].op = "connect" => ~Ticketed(request[r].generation)
      PROVE  ConnectorsInv'
  <2>1. head # None /\ head \in HeadType /\ head.generation = request[r].generation
    BY <1>1, <1>4 DEF Live, Holds
  <2>2. head.generation \in Int
    BY <2>1, ConnectorsAssumption DEF HeadType, Generations
  <2>3. /\ head' # None /\ head' \in HeadType /\ head.generation <= head'.generation
        /\ request[r].generation <= head'.generation
        /\ request[r].op \in {"reserve", "connect", "renew", "revoke"}
    BY <1>1, <2>1, <2>2
  <2>4. SlipsAgree' /\ UsesAgree' /\ OneConnection'
    BY <1>1, <1>4, <2>1, <2>3, ReceiptAgrees
  <2>5. SlipsStay /\ slip' \in [Operations -> SlipType \cup {None}]
    BY <1>1, <1>4, <2>3, ReceiptKept
  <2> QED
    BY <1>1, <1>2, <2>4, <2>5, ConnectorCallKeeps DEF ConnectorsTypeOK
<1>5. CASE Connect(r)
  BY <1>3, <1>4, <1>5 DEF Connect
<1>6. CASE Renew(r)
  <2>1. LeaseLives(r) => lease.revision \in {0} \cup Revisions
    BY <1>1 DEF LeaseLives, ConnectorsTypeOK, LeaseType
  <2> QED
    BY <1>3, <1>4, <1>6, <2>1 DEF Renew
<1> QED
  BY <1>5, <1>6

LEMMA ConnectorReads ==
  ASSUME ConnectorsInv, NEW r \in Requests, ReadReceipt(r) \/ AssertCurrent(r) \/ Lose(r)
  PROVE  ConnectorsInv'
<1>1. CallSays(request[r]) /\ {"head", "write", "receipt", "final"} \subseteq CallSteps
  BY DEF ConnectorsInv, CallSteps
<1>2. CASE ReadReceipt(r)
  <2>1. request[r].op \in {"connect", "renew"}
    BY <1>1, <1>2 DEF ReadReceipt, At, CallSays
  <2>2. Readable(r) => Ticket(request[r].operation)
    BY <2>1 DEF Readable, Same, Ticket
  <2>3. ASSUME NEW step \in {"head", "final"}, Go(r, step), Readable(r)
        PROVE  ConnectorsInv'
    BY <1>1, <1>2, <2>1, <2>2, <2>3, ConnectorCallGoes DEF ReadReceipt
  <2> QED
    BY <1>2, <2>3, Releases DEF ReadReceipt
<1>3. CASE AssertCurrent(r)
  <2>1. request[r].op \in {"connect", "renew"}
        /\ (request[r].op = "connect" => Ticket(request[r].operation))
    BY <1>1, <1>3 DEF AssertCurrent, At, CallSays
  <2>2. CASE Go(r, "write")
    BY <1>1, <1>3, <2>2, ConnectorCallGoes DEF AssertCurrent
  <2>3. CASE Go(r, "final") /\ request[r].op # "renew"
    BY <1>1, <1>3, <2>1, <2>3, ConnectorCallGoes DEF AssertCurrent
  <2> QED
    BY <1>3, <2>2, <2>3, Releases DEF AssertCurrent
<1>4. CASE Lose(r)
  BY <1>4, Releases DEF Lose
<1> QED
  BY <1>2, <1>3, <1>4

\* A ticket is handed out: its receipt is there.
LEMMA FinishKeeps ==
  ASSUME ConnectorsInv, NEW r \in Requests, Finish(r)
  PROVE  ConnectorsInv'
<1>1. /\ ConnectorsTypeOK /\ SlipsAgree /\ UsesAgree /\ CallSays(request[r]) /\ Release(r)
      /\ UNCHANGED <<moment, present, signedIn, granted, head, slip, used, lease>>
      /\ request[r].at = "final"
  BY DEF ConnectorsInv, Finish, At
<1>2. Ticket(request[r].operation) /\ request[r].operation \in Operations
  BY <1>1 DEF CallSays
<1>3. issued' \subseteq issued \cup {request[r].operation} /\ issued' \subseteq Operations
  BY <1>1, <1>2 DEF Finish, ConnectorsTypeOK
<1>4. SlipsStay
  BY <1>1 DEF SlipsStay
<1>5. SlipsAgree'
  BY <1>1 DEF SlipsAgree
<1>6. UsesAgree'
  BY <1>1, <1>2, <1>3 DEF UsesAgree, Ticket
<1>7. OneConnection'
  BY <1>1, <1>4, ConnectionStays
<1> QED
  BY <1>1, <1>3, <1>4, <1>5, <1>6, <1>7, NoConnectorSays, ConnectorCallKeeps
     DEF Release, ConnectorsTypeOK

LEMMA CallBegins ==
  ASSUME ConnectorsInv, NEW r \in Requests,
         \/ \E op \in {"reserve", "connect", "renew", "revoke"}, o \in Operations, l \in Logins,
              n \in Generations : Call(r, op, o, l, n)
         \/ \E o \in Operations, c \in Consumers : Bring(r, o, c)
         \/ FindOwner(r)
  PROVE  ConnectorsInv'
<1>1. /\ ConnectorsTypeOK /\ UsesAgree /\ CallSays(request[r]) /\ moment \in Moments
      /\ moment <= MaxMoment /\ request[r] \in ConnectorRequest /\ UNCHANGED authority
  BY DEF ConnectorsInv, ConnectorsTypeOK, Call, Bring, FindOwner
<1>2. ASSUME NEW op \in {"reserve", "connect", "renew", "revoke"}, NEW o \in Operations,
             NEW l \in Logins, NEW n \in Generations, Call(r, op, o, l, n)
      PROVE  ConnectorsInv'
  <2>1. PICK step \in {"head", "write"} : step = IF op = "renew" THEN "head" ELSE "write"
    OBVIOUS
  <2>2. PICK c : c = [op |-> op, at |-> step, operation |-> o, login |-> l, generation |-> n,
                      consumer |-> None, now |-> moment]
    OBVIOUS
  <2>3. /\ c \in ConnectorRequest /\ c.at = step /\ c.op = op /\ c.operation = o /\ c.login = l
        /\ c.now = moment
    BY <1>1, <2>1, <2>2 DEF ConnectorRequest, CallSteps
  <2>4. CallSays(c)
    BY <1>1, <2>1, <2>3 DEF CallSays
  <2>5. Do(r, c)
    BY <1>2, <2>1, <2>2 DEF Call
  <2> QED
    BY <1>1, <2>3, <2>4, <2>5, ConnectorCallMoves
<1>3. ASSUME NEW o \in Operations, NEW k \in Consumers, Bring(r, o, k)
      PROVE  ConnectorsInv'
  <2>1. PICK c : c = [op |-> "consume", at |-> "owner", operation |-> o, login |-> None,
                      generation |-> slip[o].made, consumer |-> k, now |-> moment]
    OBVIOUS
  <2>2. Ticket(o) /\ slip[o].made \in Generations
    BY <1>1, <1>3 DEF Bring, UsesAgree, Ticket, ConnectorsTypeOK, SlipType
  <2>3. /\ c \in ConnectorRequest /\ c.at = "owner" /\ c.op = "consume" /\ c.operation = o
        /\ c.generation = slip[o].made /\ c.consumer = k /\ c.now = moment
    BY <1>1, <2>1, <2>2 DEF ConnectorRequest, CallSteps
  <2>4. CallSays(c)
    BY <1>1, <2>2, <2>3 DEF CallSays
  <2>5. Do(r, c)
    BY <1>3, <2>1 DEF Bring
  <2> QED
    BY <1>1, <2>3, <2>4, <2>5, ConnectorCallMoves
<1>4. ASSUME FindOwner(r), Do(r, [request[r] EXCEPT !.login = head.login, !.at = "write"]),
             head # None
      PROVE  ConnectorsInv'
  <2>1. PICK c : c = [request[r] EXCEPT !.login = head.login, !.at = "write"]
    OBVIOUS
  <2>2. head.login \in Logins /\ request[r].op = "consume"
    BY <1>1, <1>4 DEF ConnectorsTypeOK, HeadType, FindOwner, At, CallSays
  <2>3. /\ c \in ConnectorRequest /\ c.at = "write" /\ c.op = "consume"
        /\ c.operation = request[r].operation /\ c.generation = request[r].generation
        /\ c.consumer = request[r].consumer /\ c.now = request[r].now
    BY <1>1, <2>1, <2>2 DEF ConnectorRequest, CallSteps
  <2>4. CallSays(c)
    BY <1>1, <2>2, <2>3 DEF CallSays
  <2> QED
    BY <1>1, <1>4, <2>1, <2>3, <2>4, ConnectorCallMoves
<1>5. CASE FindOwner(r)
  BY <1>1, <1>4, <1>5, Releases DEF FindOwner
<1> QED
  BY <1>2, <1>3, <1>5

\* A ticket is consumed: the first of its generation, or the next after the last.
LEMMA ConsumeKeeps ==
  ASSUME ConnectorsInv, NEW r \in Requests, Consume(r)
  PROVE  ConnectorsInv'
<1>1. PICK o : o = request[r].operation
  OBVIOUS
<1>2. /\ ConnectorsTypeOK /\ SlipsAgree /\ UsesAgree /\ OneConnection /\ CallSays(request[r])
      /\ Release(r) /\ request[r] \in ConnectorRequest
      /\ UNCHANGED <<moment, present, signedIn, granted, head, slip, issued>>
      /\ o \in Operations /\ Ticket(o) /\ request[r].consumer \in Consumers
      /\ request[r].generation = slip[o].made
      /\ slip \in [Operations -> SlipType \cup {None}]
      /\ used \in [Operations -> UseType \cup {None}]
      /\ lease \in LeaseType \cup {None}
  BY <1>1 DEF ConnectorsInv, ConnectorsTypeOK, Consume, MarkUsed, CallSays
<1>3. CASE ~Worth(r)
  BY <1>2, <1>3, Releases DEF Consume, MarkUsed, authority
<1>4. CASE Worth(r)
  <2>1. PICK n, k, uses : n = slip[o].made /\ k = request[r].consumer /\ uses = Uses(n)
    OBVIOUS
  <2>2. PICK revision : revision = IF Renewing(r) THEN lease.revision + 1 ELSE 1
    OBVIOUS
  <2>3. PICK use : use = [consumer |-> k, revision |-> revision]
    OBVIOUS
  <2>4. /\ slip[o] \in SlipType /\ n \in Generations /\ n \in Int
        /\ head # None /\ head \in HeadType /\ head.generation = n
        /\ used[o] = None /\ used' = [used EXCEPT ![o] = use]
        /\ Renewing(r) <=> slip[o].kind = "renew"
        /\ Renewing(r) => /\ lease # None /\ lease.generation = n /\ lease.consumer = k
    BY <1>1, <1>2, <1>4, <2>1, <2>2, <2>3, ConnectorsAssumption
       DEF Consume, MarkUsed, Worth, Live, Holds, LeaseLives, Renewing, Ticket, ConnectorsTypeOK,
           SlipType, Generations
  <2>5. /\ IsFiniteSet(uses) /\ Cardinality(uses) \in Nat /\ uses \subseteq Operations
        /\ o \notin uses /\ \A q \in uses : used[q] # None /\ slip[q].made = n
    BY <2>1, <2>4, UsesAreFinite DEF Uses
  <2>6. /\ revision = Cardinality(uses) + 1
        /\ \A q \in uses : used[q].consumer = k
        /\ {used[q].revision : q \in uses} = 1..Cardinality(uses)
        /\ slip[o].kind = "connect" \/ uses # {}
    <3>1. CASE Renewing(r)
      <4>1. lease.revision = Cardinality(uses) /\ \A q \in uses : used[q].consumer = lease.consumer
        BY <1>2, <2>1, <2>4, <3>1 DEF OneConnection
      <4>2. lease.revision \in Revisions
        BY <1>2, <2>4, <3>1 DEF LeaseType
      <4>3. uses # {}
        BY <4>1, <4>2, FS_EmptySet DEF Revisions
      <4>4. n \in Connected
        BY <2>5, <4>3 DEF Connected
      <4>5. {used[q].revision : q \in uses} = 1..Cardinality(uses)
        BY <1>2, <2>1, <4>4 DEF OneConnection
      <4> QED
        BY <2>2, <2>4, <3>1, <4>1, <4>3, <4>5
    <3>2. CASE ~Renewing(r)
      <4>1. slip[o] # None /\ slip[o].kind = "connect"
        BY <1>2, <2>4, <3>2 DEF Ticket
      <4>2. ASSUME NEW q \in uses
            PROVE  FALSE
        <5>1. PICK p \in Operations :
                used[p] # None /\ slip[p].kind = "connect" /\ slip[p].made = n
          BY <1>2, <2>5, <4>2 DEF UsesAgree
        <5>2. slip[p] # None
          BY <1>2, <5>1 DEF UsesAgree, Ticket
        <5>3. p = o
          BY <1>2, <2>1, <4>1, <5>1, <5>2 DEF SlipsAgree
        <5> QED
          BY <2>4, <5>1, <5>3
      <4>3. uses = {} /\ Cardinality(uses) = 0
        BY <4>2, FS_EmptySet
      <4>4. {used[q].revision : q \in uses} = 1..Cardinality(uses)
        BY <4>3
      <4> QED
        BY <2>2, <3>2, <4>1, <4>3, <4>4
    <3> QED
      BY <3>1, <3>2
  <2>7. /\ Uses(n)' = uses \cup {o} /\ \A m : m # n => Uses(m)' = Uses(m)
        /\ Connected' = Connected \cup {n}
        /\ used'[o] = use /\ use # None /\ use.consumer = k /\ use.revision = revision
        /\ \A q \in Operations : q # o => used'[q] = used[q]
        /\ revision \in Revisions /\ used' \in [Operations -> UseType \cup {None}]
        /\ Cardinality(uses \cup {o}) = revision
    <3>1. /\ Cardinality(uses \cup {o}) = revision
          /\ uses \cup {o} \subseteq Operations /\ IsFiniteSet(Operations)
          /\ Cardinality(Operations) = MaxOperations
      <4>1. Cardinality(uses \cup {o}) = Cardinality(uses) + 1
        BY <2>5, FS_AddElement
      <4>2. IsFiniteSet(Operations) /\ Cardinality(Operations) = MaxOperations
        BY ConnectorsAssumption, FS_Interval DEF Operations
      <4> QED
        BY <1>2, <2>5, <2>6, <4>1, <4>2
    <3>2. revision <= MaxOperations /\ revision \in Revisions
      BY <2>5, <2>6, <3>1, ConnectorsAssumption, FS_Subset DEF Revisions
    <3>3. use \in UseType /\ use # None /\ use.consumer = k /\ use.revision = revision
      BY <1>2, <2>1, <2>3, <3>2, ConnectorsAssumption DEF UseType
    <3>4. /\ used'[o] = use /\ \A q \in Operations : q # o => used'[q] = used[q]
          /\ used' \in [Operations -> UseType \cup {None}]
      BY <1>2, <2>4, <3>3
    <3>5. Uses(n)' = uses \cup {o} /\ \A m : m # n => Uses(m)' = Uses(m)
      BY <1>2, <2>1, <2>4, <3>3, <3>4 DEF Uses
    <3>6. \A q \in Operations : used'[q] # None <=> used[q] # None \/ q = o
      BY <2>4, <3>3, <3>4
    <3>7. Connected' = Connected \cup {n}
      BY <1>2, <2>1, <3>6 DEF Connected
    <3> QED
      BY <3>1, <3>2, <3>3, <3>4, <3>5, <3>7
  <2>8. /\ lease' \in LeaseType /\ lease'.generation = n /\ lease'.consumer = k
        /\ lease'.revision = revision
    <3>1. PICK l : l = [generation |-> n, consumer |-> k, revision |-> revision,
                        expires |-> slip[o].expires, renewAfter |-> request[r].now + RenewAfter]
      OBVIOUS
    <3>2. lease' = l
      BY <1>1, <1>2, <1>4, <2>1, <2>2, <3>1 DEF Consume, MarkUsed
    <3>3. request[r].now + RenewAfter \in Moments
      BY <1>2, ConnectorsAssumption DEF Moments, CallSays, ConnectorRequest
    <3>4. slip[o].expires \in Moments
      BY <2>4 DEF SlipType
    <3>5. /\ l \in LeaseType /\ l.generation = n /\ l.consumer = k /\ l.revision = revision
      BY <1>2, <2>1, <2>4, <2>7, <3>1, <3>3, <3>4 DEF LeaseType
    <3> QED
      BY <3>2, <3>5
  <2>9. OneConnection'
    <3>1. ASSUME NEW m \in Connected', m # n
          PROVE  /\ Cardinality({used'[q].consumer : q \in Uses(m)'}) = 1
                 /\ {used'[q].revision : q \in Uses(m)'} = 1..Cardinality(Uses(m)')
      <4>1. m \in Connected /\ Uses(m)' = Uses(m) /\ Uses(m) \subseteq Operations /\ o \notin Uses(m)
        BY <2>1, <2>7, <3>1 DEF Uses
      <4>2. \A q \in Uses(m) : used'[q] = used[q]
        BY <2>7, <4>1
      <4>3. /\ {used'[q].consumer : q \in Uses(m)} = {used[q].consumer : q \in Uses(m)}
            /\ {used'[q].revision : q \in Uses(m)} = {used[q].revision : q \in Uses(m)}
        BY <4>2
      <4>4. /\ Cardinality({used[q].consumer : q \in Uses(m)}) = 1
            /\ {used[q].revision : q \in Uses(m)} = 1..Cardinality(Uses(m))
        BY <1>2, <4>1 DEF OneConnection
      <4> QED
        BY <4>1, <4>3, <4>4
    <3>2. \A q \in uses \cup {o} : used'[q].consumer = k
      BY <2>5, <2>6, <2>7
    <3>3. Cardinality({used'[q].consumer : q \in uses \cup {o}}) = 1
      <4>1. {used'[q].consumer : q \in uses \cup {o}} = {k}
        BY <3>2
      <4> QED
        BY <4>1, FS_Singleton
    <3>4. {used'[q].revision : q \in uses \cup {o}} = 1..revision
      <4>1. \A q \in uses : used'[q].revision = used[q].revision
        BY <2>5, <2>7
      <4>2. {used'[q].revision : q \in uses} = 1..Cardinality(uses)
        BY <2>6, <4>1
      <4>3. {used'[q].revision : q \in uses \cup {o}} = {used'[q].revision : q \in uses} \cup {revision}
        BY <2>7
      <4>4. 1..revision = 1..Cardinality(uses) \cup {revision}
        BY <2>5, <2>6
      <4> QED
        BY <4>2, <4>3, <4>4
    <3>5. \A m \in Connected' : m <= n
      BY <1>2, <2>4, <2>7 DEF Connected, SlipsAgree, UsesAgree, Ticket
    <3> QED
      BY <2>7, <2>8, <3>1, <3>2, <3>3, <3>4, <3>5 DEF OneConnection
  <2>10. UsesAgree'
    <3>1. \A q \in Operations : q \in issued' \/ used'[q] # None => Ticket(q)'
      BY <1>2, <2>7 DEF UsesAgree, Ticket
    <3>2. ASSUME NEW q \in Operations, used'[q] # None
          PROVE  \E p \in Operations :
                   used'[p] # None /\ slip'[p].kind = "connect" /\ slip'[p].made = slip'[q].made
      <4>1. CASE q # o \/ uses # {}
        <5>1. PICK t \in Operations : used[t] # None /\ slip[t].made = slip[q].made
          BY <2>1, <2>5, <2>7, <3>2, <4>1
        <5>2. PICK p \in Operations :
                used[p] # None /\ slip[p].kind = "connect" /\ slip[p].made = slip[q].made
          BY <1>2, <5>1 DEF UsesAgree
        <5> QED
          BY <1>2, <2>4, <2>7, <5>2
      <4>2. CASE q = o /\ uses = {}
        BY <1>2, <2>6, <2>7, <4>2
      <4> QED
        BY <4>1, <4>2
    <3> QED
      BY <3>1, <3>2 DEF UsesAgree
  <2>11. SlipsStay /\ SlipsAgree'
    BY <1>2, <2>4, <2>7 DEF SlipsStay, SlipsAgree
  <2> QED
    BY <1>2, <2>7, <2>8, <2>9, <2>10, <2>11, NoConnectorSays, ConnectorCallKeeps
       DEF Release, ConnectorsTypeOK
<1> QED
  BY <1>3, <1>4

\* What happens to the environment and the member.
LEMMA ConnectorTroubles ==
  ASSUME ConnectorsInv, UNCHANGED <<slip, issued, used, request>>,
         moment' \in 0..MaxMoment, present' \in BOOLEAN, signedIn' \subseteq Logins,
         granted' \in BOOLEAN,
         \/ UNCHANGED <<head, lease, present>>
         \/ head' = None /\ lease' = None /\ present' = FALSE
  PROVE  ConnectorsInv'
<1>1. ConnectorsTypeOK /\ SlipsAgree /\ UsesAgree /\ OneConnection
  BY DEF ConnectorsInv
<1>2. moment' \in Moments /\ moment' <= MaxMoment
  BY ConnectorsAssumption DEF Moments
<1>3. ConnectorsTypeOK'
  BY <1>1, <1>2 DEF ConnectorsTypeOK
<1>4. SlipsAgree' /\ UsesAgree'
  BY <1>1 DEF SlipsAgree, UsesAgree, Ticket
<1>5. SlipsStay
  BY DEF SlipsStay
<1>6. OneConnection'
  BY <1>5, ConnectionStays
<1>7. \A r \in Requests : CallSays(request[r])'
  BY DEF ConnectorsInv, CallSays, Ticket
<1> QED
  BY <1>2, <1>3, <1>4, <1>6, <1>7 DEF ConnectorsInv

LEMMA ConnectorsInitially == ConnectorsInit => ConnectorsInv
<1> SUFFICES ASSUME ConnectorsInit
    PROVE  ConnectorsInv
  OBVIOUS
<1>1. request \in [Requests -> ConnectorRequest] /\ \A r \in Requests : request[r] = NoConnector
  BY NoConnectorSays DEF ConnectorsInit
<1>2. /\ slip \in [Operations -> SlipType \cup {None}] /\ \A o \in Operations : slip[o] = None
      /\ used \in [Operations -> UseType \cup {None}] /\ \A o \in Operations : used[o] = None
      /\ head = None /\ lease = None /\ issued = {} /\ moment = 0
      /\ 0 \in Moments /\ 0 <= MaxMoment
  BY ConnectorsAssumption DEF ConnectorsInit, Moments
<1>3. ConnectorsTypeOK
  BY <1>1, <1>2 DEF ConnectorsInit, ConnectorsTypeOK
<1>4. SlipsAgree /\ UsesAgree
  BY <1>2 DEF SlipsAgree, UsesAgree
<1>5. OneConnection
  BY <1>2 DEF OneConnection, Connected
<1>6. \A r \in Requests : CallSays(request[r])
  BY <1>1, NoConnectorSays DEF CallSays
<1> QED
  BY <1>2, <1>3, <1>4, <1>5, <1>6 DEF ConnectorsInv

LEMMA ConnectorsStep == ConnectorsInv /\ [ConnectorsNext]_connectorVars => ConnectorsInv'
<1> SUFFICES ASSUME ConnectorsInv, [ConnectorsNext]_connectorVars
    PROVE  ConnectorsInv'
  OBVIOUS
<1>1. /\ moment \in 0..MaxMoment /\ moment \in Nat /\ MaxMoment \in Nat /\ present \in BOOLEAN
      /\ signedIn \subseteq Logins /\ granted \in BOOLEAN
  BY ConnectorsAssumption DEF ConnectorsInv, ConnectorsTypeOK, Moments
<1>2. CASE UNCHANGED connectorVars
  BY <1>1, <1>2, ConnectorTroubles DEF connectorVars, authority
<1>3. ASSUME NEW l \in Logins, SignOut(l)
      PROVE  ConnectorsInv'
  BY <1>1, <1>3, ConnectorTroubles DEF SignOut
<1>4. CASE ChangeGrant
  BY <1>1, <1>4, ConnectorTroubles DEF ChangeGrant
<1>5. CASE DeleteEnvironment
  BY <1>1, <1>5, ConnectorTroubles DEF DeleteEnvironment
<1>6. CASE Pass
  <2>1. moment' \in 0..MaxMoment
    BY <1>1, <1>6 DEF Pass
  <2> QED
    BY <1>1, <1>6, <2>1, ConnectorTroubles DEF Pass
<1> QED
  BY <1>2, <1>3, <1>4, <1>5, <1>6, CallBegins, ReserveKeeps, TicketKeeps, RevokeKeeps,
     ConnectorReads, FinishKeeps, ConsumeKeeps DEF ConnectorsNext

\* The reservation, the receipts, what was consumed, the lease, and what requests
\* hold of them.
THEOREM ConnectorsInvariance == ConnectorsSpec => []ConnectorsInv
<1> QED
  BY ConnectorsInitially, ConnectorsStep, PTL DEF ConnectorsSpec

\* The tickets of a generation are consumed by one connection, one revision after the
\* other, and the lease is the last of them.
THEOREM ConnectionCorrect == ConnectorsSpec => []OneConnection
<1>1. ConnectorsInv => OneConnection
  BY DEF ConnectorsInv
<1> QED
  BY <1>1, ConnectorsInvariance, PTL
=============================================================================
