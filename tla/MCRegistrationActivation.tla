----------------------- MODULE MCRegistrationActivation -----------------------
(* RegistrationActivation for TLC: two candidates with contracts of their  *)
(* own; a host without a session has the contract of the first.            *)
EXTENDS RegistrationActivation, TLC

CONSTANTS Built, External

MCContract == (Built :> "serialized") @@ (External :> "reentrant") @@ (NoSession :> "serialized")

Symmetry == Permutations(Transactions)
=============================================================================
