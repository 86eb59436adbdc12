----------------------------- MODULE BindingStore -----------------------------
(***************************************************************************)
(* What a ProviderBindingRegistry promises (provider_binding_registry.py): *)
(* it behaves like one atomic register.  The binding in it is replaced by  *)
(* newer versions only, and a call returns the one that is current then.   *)
(***************************************************************************)
EXTENDS Naturals

CONSTANTS Callers, NoBinding

VARIABLES
  current,   \* the current binding, a record with a version, or NoBinding
  returned   \* what each caller's last call returned, or NoBinding

vars == <<current, returned>>

Init == current = NoBinding /\ returned = [c \in Callers |-> NoBinding]

\* A call returns the current binding.
Reuse(c) ==
  /\ current # NoBinding
  /\ returned' = [returned EXCEPT ![c] = current]
  /\ UNCHANGED current

\* A call replaces a missing or older binding by b and returns b.
Provision(c, b) ==
  /\ b # NoBinding /\ (current = NoBinding \/ current.version < b.version)
  /\ current' = b
  /\ returned' = [returned EXCEPT ![c] = b]

Next == \E c \in Callers : Reuse(c) \/ Provision(c, current')

Spec == Init /\ [][Next]_vars
=============================================================================
