------------------------------- MODULE Routes -------------------------------
(***************************************************************************)
(* Routes: the IPv4 and the IPv6 routing table of the host.  Reports are   *)
(* collected and applied in flushChanges, at the end of a batch, deletions *)
(* first.  A table is a list that may hold an entry more than once; its    *)
(* order is of no use to anybody, so it is a count per entry here.         *)
(***************************************************************************)
EXTENDS Integers, FiniteSets

CONSTANTS Routes4, Routes6   \* entries of either family

ASSUME RoutesAssumption == Routes4 \cap Routes6 = {}

Routes == Routes4 \cup Routes6

VARIABLES
    table,                     \* _table4 and _table6
    addedRoutes,               \* _added4 and _added6
    deletedRoutes,             \* _deleted4 and _deleted6
    toldRoutes                 \* what a user knows who asks at every signal

routesVars == <<table, addedRoutes, deletedRoutes, toldRoutes>>

None == [r \in Routes |-> 0]

RoutesTypeOK ==
    /\ table \in [Routes -> Nat] /\ toldRoutes \in [Routes -> Nat]
    /\ addedRoutes \in [Routes -> Nat] /\ deletedRoutes \in [Routes -> Nat]

RoutesInit == table = None /\ addedRoutes = None /\ deletedRoutes = None /\ toldRoutes = None

AddRoute(r) ==
    /\ addedRoutes' = [addedRoutes EXCEPT ![r] = @ + 1]
    /\ UNCHANGED <<table, deletedRoutes, toldRoutes>>

DelRoute(r) ==
    /\ deletedRoutes' = [deletedRoutes EXCEPT ![r] = @ + 1]
    /\ UNCHANGED <<table, addedRoutes, toldRoutes>>

\* doDelete takes out one entry for each deletion, if there is one.
Left(r) == IF table[r] > deletedRoutes[r] THEN table[r] - deletedRoutes[r] ELSE 0

\* route4Changed, route6Changed: something was added, or a deletion found its
\* entry.
SomeAdded(family) == \E r \in family : addedRoutes[r] > 0
SomeDeleted(family) == \E r \in family : Left(r) # table[r]
FamilyOf(r) == IF r \in Routes4 THEN Routes4 ELSE Routes6

Signals(family) == SomeAdded(family) \/ SomeDeleted(family)

\* Faulty variant of FlushRoutes: additions first, so that a deletion may take
\* out what came after it.
FlushAddedFirst ==
    /\ table' = [r \in Routes |-> IF table[r] + addedRoutes[r] > deletedRoutes[r]
                                  THEN table[r] + addedRoutes[r] - deletedRoutes[r] ELSE 0]
    /\ toldRoutes' = [r \in Routes |-> IF Signals(FamilyOf(r)) THEN table'[r]
                                       ELSE toldRoutes[r]]
    /\ addedRoutes' = None /\ deletedRoutes' = None

FlushRoutes ==
    /\ table' = [r \in Routes |-> Left(r) + addedRoutes[r]]
    /\ toldRoutes' = [r \in Routes |-> IF Signals(FamilyOf(r)) THEN table'[r]
                                       ELSE toldRoutes[r]]
    /\ addedRoutes' = None /\ deletedRoutes' = None
=============================================================================
