------------------------------ MODULE MCGateway -------------------------------
(***************************************************************************)
(* Small instances of Gateway.                                             *)
(***************************************************************************)
EXTENDS Gateway, TLC

\* Gateways are alike, and so are requests.
Symmetry == Permutations(Gateways) \cup Permutations(Requests)
===============================================================================
