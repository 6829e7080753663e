---------------------------- MODULE MCSuspension ----------------------------
(***************************************************************************)
(* Small instances of Suspension.                                          *)
(***************************************************************************)
EXTENDS Suspension, TLC

\* Updates, readers and users are interchangeable.
Symmetry ==
    Permutations(Updates) \cup Permutations(Readers) \cup Permutations(Users)

=============================================================================
