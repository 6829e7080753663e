----------------------------- MODULE MCAccounts -----------------------------
(***************************************************************************)
(* Small instances of Accounts.                                            *)
(***************************************************************************)
EXTENDS Accounts, TLC

\* Users and updates are interchangeable.
Symmetry == Permutations(Users) \cup Permutations(Updates)

=============================================================================
