------------------------------ MODULE MCPeers ------------------------------
(***************************************************************************)
(* Peers and documents for Peers.                                          *)
(***************************************************************************)
EXTENDS Peers, TLC

CONSTANTS p, q, i1, i2, i3

(* One registry with three records; i3 was left behind by an earlier fetch   *)
(* and nobody asks for it.                                                  *)
OneBaseOf == i1 :> p @@ i2 :> p @@ i3 :> p
OneAlso == i1 :> {i2, i3} @@ i2 :> {} @@ i3 :> {}
(* One registry and one record of it.                                       *)
LoneBaseOf == i1 :> p
LoneAlso == i1 :> {}
=============================================================================
