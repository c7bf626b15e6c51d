---------------------------- MODULE MCFedSearch ----------------------------
(***************************************************************************)
(* Peer graph and settings for FedSearch.                                  *)
(***************************************************************************)
EXTENDS FedSearch, TLC

CONSTANTS a, b, c

Mesh == [r \in Registry |-> Registry \ {r}]
MixedHops == [r \in Registry |-> IF r = b THEN 0 ELSE 2]
OwnMixed == [r \in Registry |-> IF r = b THEN 2 ELSE 4]
=============================================================================
