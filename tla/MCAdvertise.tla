----------------------------- MODULE MCAdvertise -----------------------------
(***************************************************************************)
(* Instances of Advertise small enough for TLC.  The bodies cover: a second *)
(* step of one CI attempt with another status, a repeat, a step without a   *)
(* run key and one with an empty key, explicit keys, references, parents,   *)
(* the adapter with a symlink, and two Instances using one key.             *)
(***************************************************************************)
EXTENDS Advertise, TLC

CONSTANTS i1, i2, k1, nk, d1, d2, local, foreign, cached, running, success

NewArt(role, key, desc) ==
    [role |-> role, iri |-> None, key |-> key, desc |-> desc, parents |-> {}]
Ref(role, iri) == [role |-> role, iri |-> iri, key |-> None, desc |-> d1, parents |-> {}]
Body(instance, key, status, items) ==
    [via |-> "advertise", instance |-> instance, key |-> key, status |-> status, items |-> items]

Started == Body(i1, k1, running, <<NewArt("produced", None, d1), Ref("produced", foreign)>>)
Finished == Body(i1, k1, success, <<NewArt("produced", None, d1)>>)
Consuming == Body(i1, k1, None, <<NewArt("consumed", nk, d1), Ref("consumed", local)>>)
Child == Body(i1, k1, None, <<[NewArt("produced", None, d2) EXCEPT !.parents = {foreign, cached}]>>)
Keyless == Body(i1, None, success, <<NewArt("produced", None, d1)>>)
EmptyKeyed == Body(i1, EmptyKey, running, <<NewArt("produced", None, d1)>>)
Elsewhere == Body(i2, k1, success, <<NewArt("produced", None, d1)>>)
Lineage == [via |-> "openlineage", instance |-> i1, key |-> k1, status |-> success,
            items |-> <<[Ref("produced", foreign) EXCEPT !.key = nk],
                       [Ref("consumed", cached) EXCEPT !.key = nk]>>]

AllBodies == {Started, Finished, Consuming, Child, Keyless, EmptyKeyed, Lineage, Elsewhere}
RaceBodies == {Started, Finished, Consuming, Lineage, Elsewhere}

Symmetry == Permutations(Request)
==============================================================================
