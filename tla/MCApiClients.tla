---------------------------- MODULE MCApiClients ----------------------------
(***************************************************************************)
(* A small instance of ApiClients.                                         *)
(***************************************************************************)
EXTENDS ApiClients

\* The clientId of a name is not the name.
MCClientIdOf == [n \in Names |-> "my-client"]

=============================================================================
