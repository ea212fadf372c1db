------------------------------ MODULE Ownership ------------------------------
(***************************************************************************)
(* What either reconciler promises about the objects of a cluster, whatever *)
(* its caches, its queue and its steps are: a resource owns nothing until   *)
(* it is under the operator's finalizer, an owned object changes hands only *)
(* by being deleted, what a finished resource leaves behind is collected or *)
(* taken over by its next incarnation, and a deletion comes to its end.     *)
(***************************************************************************)
CONSTANTS
  Names,    \* resources that own objects
  Things,   \* objects that may be owned
  Nobody    \* the holder of an object that does not exist or has no owner

VARIABLES
  phase,    \* of the current incarnation of each resource
  holder,   \* the resource that an object's owner reference names
  orphans   \* objects whose reference is to an earlier incarnation

vars == <<phase, holder, orphans>>

Phases == {"absent", "new", "managed", "deleting"}

TypeOK ==
  /\ phase \in [Names -> Phases]
  /\ holder \in [Things -> Names \cup {Nobody}]
  /\ orphans \subseteq Things

Init ==
  /\ phase \in [Names -> {"absent", "new"}]
  /\ holder = [t \in Things |-> Nobody]
  /\ orphans = {}

Becomes(n, next) == phase' = [phase EXCEPT ![n] = next]

\* Users create resources; one that is not managed yet disappears when deleted.
Create(n) == phase[n] = "absent" /\ Becomes(n, "new") /\ UNCHANGED <<holder, orphans>>
Vanish(n) == phase[n] = "new" /\ Becomes(n, "absent") /\ UNCHANGED <<holder, orphans>>
Manage(n) == phase[n] = "new" /\ Becomes(n, "managed") /\ UNCHANGED <<holder, orphans>>
Delete(n) == phase[n] = "managed" /\ Becomes(n, "deleting") /\ UNCHANGED <<holder, orphans>>

\* An object is created or adopted for a resource under management.
Acquire(n, t) ==
  /\ phase[n] \in {"managed", "deleting"}
  /\ holder[t] = Nobody \/ (holder[t] = n /\ t \in orphans)
  /\ holder' = [holder EXCEPT ![t] = n]
  /\ orphans' = orphans \ {t}
  /\ UNCHANGED phase

\* Objects are deleted, by whomever.
Release(gone) ==
  /\ holder' = [t \in Things |-> IF t \in gone THEN Nobody ELSE holder[t]]
  /\ orphans' = orphans \ gone
  /\ UNCHANGED phase

\* The finalizer goes, and the resource with it; what it still owns is left.
Finalize(n) ==
  /\ phase[n] = "deleting" /\ Becomes(n, "absent")
  /\ orphans' = orphans \cup {t \in Things : holder[t] = n}
  /\ UNCHANGED holder

Next ==
  \/ \E n \in Names : Create(n) \/ Vanish(n) \/ Manage(n) \/ Delete(n) \/ Finalize(n)
  \/ \E n \in Names, t \in Things : Acquire(n, t)
  \/ \E gone \in SUBSET Things : Release(gone)

\* Nothing is under way for a resource: it is absent or managed, and no object of
\* an earlier incarnation is left.
AtRest(n) ==
  phase[n] \notin {"new", "deleting"} /\ \A t \in orphans : holder[t] # n

\* A resource does not stay new, its deletion ends (by Finalize, which alone ends
\* it) and its orphans do not last.
Progress == \A n \in Names : []<>AtRest(n)

\* The safety part is what the proofs show, for any constants.
Safety == Init /\ [][Next]_vars

Spec == Safety /\ Progress
=============================================================================
