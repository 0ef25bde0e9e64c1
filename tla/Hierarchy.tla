----------------------------- MODULE Hierarchy -----------------------------
(***************************************************************************)
(* Rows that name a parent row of their own table, as the menus and the    *)
(* collections do.  A table is a function to rows with a field parent, and *)
(* None where there is no row.                                             *)
(***************************************************************************)
EXTENDS Naturals, FiniteSets, Requests

Nodes(table) == {i \in DOMAIN table : table[i] # None}

ClosedBelow(table, S) == \A j \in Nodes(table) : table[j].parent \in S => j \in S

\* The rows below i: what every set that has i and the rows under its members has.
Below(table, i) ==
  {j \in Nodes(table) \ {i} :
     \A S \in SUBSET DOMAIN table : i \in S /\ ClosedBelow(table, S) => j \in S}

\* No row is above itself: each set of rows has one whose parent is not of the set.
Grounded(table) ==
  \A S \in (SUBSET Nodes(table)) \ {{}} : \E i \in S : table[i].parent \notin S

ParentsExist(table) ==
  \A i \in Nodes(table) : table[i].parent \in Nodes(table) \cup {None}
=============================================================================
