--------------------------- MODULE MCServerClients --------------------------
(***************************************************************************)
(* Clients are alike: no action and no property tells them apart.          *)
(***************************************************************************)
EXTENDS ServerClients, TLC

Symmetry == Permutations(Clients)
=============================================================================
