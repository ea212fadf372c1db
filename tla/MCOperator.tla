----------------------------- MODULE MCOperator ------------------------------
(* A Cell "c" is drained or deleted or loses its endpoints.                 *)
EXTENDS Operator

CellWith(namespace, service, tearDown) ==
  [namespace |-> namespace, serviceName |-> service, state |-> "Active",
   tearDownOnDelete |-> tearDown, policies |-> {}]

Scenario(c, d, target, fallback) ==
  [cells |-> [x \in Cells |-> IF x = "c" THEN c ELSE d],
   routers |-> [r \in Routers |->
     [gateway |-> "gw",
      routes |-> <<[name |-> "shop", cells |-> {target}, fallback |-> fallback]>>]]]

\* A route to "c" with "d" to fall back to, or without but with a namespace that goes
\* with the Cell.
MCScenarios ==
  {Scenario(CellWith("", "web", FALSE), CellWith("", "web", FALSE), "c", "d"),
   Scenario(CellWith("", "web", TRUE), CellWith("", "web", TRUE), "c", NoObject)}

\* A route to "d" beside a "c" that takes its namespace along, or in the same one.
MCContainedScenarios ==
  {Scenario(CellWith("", "web", TRUE), CellWith("", "web", FALSE), "d", NoObject),
   Scenario(CellWith("", "web", FALSE), CellWith("c", "api", FALSE), "d", NoObject)}

MCGrantHash ==
  [g \in RouteNames \X (Namespaces \X ServiceNames) |-> IF g[2][1] = "c" THEN 1 ELSE 2]
=============================================================================
