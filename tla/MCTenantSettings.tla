-------------------------- MODULE MCTenantSettings --------------------------
(***************************************************************************)
(* A small instance of TenantSettings.                                     *)
(***************************************************************************)
EXTENDS TenantSettings, TLC

\* Two of them make a range that is none: from 3 to 2.
MCRanges == {[min |-> 1, max |-> 4], [min |-> 1, max |-> 2], [min |-> 3, max |-> 4]}

Symmetry == Permutations(Calls)

=============================================================================
