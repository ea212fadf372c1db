------------------------- MODULE MCSharedNamespace --------------------------
(* Two Cells that name the same namespace, and the same Service or not.    *)
EXTENDS CellController

SharedSpec(service, policies) ==
  [namespace |-> "a", serviceName |-> service, state |-> "",
   tearDownOnDelete |-> TRUE, policies |-> policies]

MCSpecs == {SharedSpec("web", {})}
MCTouchedKeys == {<<"a", "web">>}
=============================================================================
