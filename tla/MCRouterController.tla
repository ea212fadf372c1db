------------------------- MODULE MCRouterController -------------------------
(* One CellRouter with an explicit route and placements, or a pair of      *)
(* CellRouters whose routes have the same name.                            *)
EXTENDS RouterController

View(state, ready, service) == [state |-> state, ready |-> ready, service |-> service]
MCCellViews ==
  [c \in Cells |-> IF c = "c" THEN {View("Active", TRUE, "s"), View("Disabled", TRUE, "s")}
                   ELSE {NoObject}]
MCOneView == [c \in Cells |-> {View("Active", TRUE, "s")}]

\* Hashes that do not collide.
MCGrantHash == [g \in GrantKeys |-> IF g[1] = "web" THEN 1 ELSE 2]

RouteTo(name, cell) == [name |-> name, cells |-> {cell}, fallback |-> NoObject]
RouterWith(gateway, route) == [gateway |-> gateway, routes |-> <<route>>]
MCDirect == [r \in Routers |-> {NoObject, RouterWith("gw", RouteTo("web", "c"))}]
\* A route to a Cell that is not there, or one that takes the placement's name.
MCEdited ==
  [r \in Routers |-> {NoObject, RouterWith("gw", RouteTo("web", "d")), RouterWith("gw", RouteTo("p", "d"))}]
\* The Gateway moves to another namespace.
MCMoved == [r \in Routers |-> {RouterWith(n, RouteTo("web", "c")) : n \in GatewayNamespaces}]
\* Two routers, a Gateway for each, with explicit routes of one name.
MCTwins ==
  [r \in Routers |-> {RouterWith(IF r = "r" THEN "gw" ELSE "hw", RouteTo("web", "c"))}]

PlacementWith(router, partition, valid) ==
  [router |-> router, partition |-> partition, valid |-> valid, cells |-> {"c"}]
MCPlacementSpecs ==
  [p \in Placements |-> {NoObject, PlacementWith("r", 1, TRUE), PlacementWith("r", 1, FALSE)}]
=============================================================================
