-------------------------- MODULE MCCellController --------------------------
(* One Cell whose lifecycle state and policies are edited.                 *)
EXTENDS CellController

Spec1(state, service, policies) ==
  [namespace |-> "", serviceName |-> service, state |-> state,
   tearDownOnDelete |-> TRUE, policies |-> policies]

MCSpecs == {Spec1("", "web", {}), Spec1("Draining", "web", {"LimitRange"})}
MCTouchedKeys == {<<"cell", "web">>, <<"cell", "LimitRange">>}
=============================================================================
