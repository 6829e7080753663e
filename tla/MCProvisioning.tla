--------------------------- MODULE MCProvisioning ---------------------------
(***************************************************************************)
(* Small instances of Provisioning.                                        *)
(***************************************************************************)
EXTENDS Provisioning, TLC

\* Requests that arrive the same way are interchangeable, and so are
\* processes, gateways, validations and other handlers.
Symmetry ==
    Permutations(NatsRequests) \cup Permutations(Procs) \cup Permutations(HttpCalls)
        \cup Permutations(Gateways) \cup Permutations(Validations)
        \cup Permutations(Editors)

=============================================================================
