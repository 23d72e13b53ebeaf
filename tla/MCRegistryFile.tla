--------------------------- MODULE MCRegistryFile ---------------------------
(***************************************************************************)
(* RegistryFile for TLC.  Nothing in it tells two savers or two accounts   *)
(* apart.                                                                  *)
(***************************************************************************)
EXTENDS RegistryFile, TLC

Symmetry == Permutations(Account) \cup Permutations(Saver)

=============================================================================
