------------------------------- MODULE MCProcess -------------------------------
(***************************************************************************)
(* Credentials, limits and starting points for Process.                       *)
(***************************************************************************)
EXTENDS Process, TLC

CONSTANTS b1, b2, minted, shipped, v1, v2, l1, l2,
          a1, none, root, bad, own, narrow, person, moved, guest, expired, alien, c1, c2, ui,
          i1, k1, k2, k3, home, partner, elsewhere

TheRights ==
    own :> [acts |-> i1, scopes |-> {"advertise:produce"}]
    @@ narrow :> [acts |-> i1, scopes |-> {"subscribe:artifacts"}]

Claim(issuer, kid, client, roles, scopes) ==
    [issuer |-> issuer, kid |-> kid, client |-> client, sound |-> TRUE,
     roles |-> roles, scopes |-> scopes]
TheClaims ==
    person :> Claim(home, k1, ui, {"curator"}, {"advertise:produce"})
    @@ moved :> Claim(home, k2, c1, {}, {})
    @@ guest :> Claim(partner, k3, c2, {"admin"}, {"register:instance"})
    @@ expired :> [Claim(home, k1, ui, {}, {}) EXCEPT !.sound = FALSE]
    @@ alien :> Claim(elsewhere, k1, c1, {}, {})
TheBinding == {[client |-> c1, issuer |-> home, acts |-> i1, scopes |-> {}],
               [client |-> ui, issuer |-> home, acts |-> i1, scopes |-> {}]}

TheLimits ==
    [c \in {"read", "write", "mcp", "federated"} |->
        IF c = "read" THEN [anon |-> [burst |-> 1, period |-> 2],
                            authed |-> [burst |-> 2, period |-> 2]]
        ELSE [anon |-> Off, authed |-> [burst |-> 1, period |-> 2]]]
TheAuthFail == [burst |-> 1, period |-> 2]

(* Wrong credentials from one address; a token that is revoked, and a caller      *)
(* without one; keys that rotate; every tool by every kind of caller.          *)
Uncounted == Direct(To("none", "open"))
From(credential, request, many, until) ==
    [caller |-> {a1}, credential |-> credential, request |-> request,
     keys |-> {k1}, rotating |-> {}, requests |-> many, until |-> until]
Guessing == From({bad}, {Uncounted}, 5, 4)
Revoking == From({bad, own, none}, {Direct(Read)}, 3, 2)
Retiring == [From({person}, {Uncounted}, 3, 3) EXCEPT !.rotating = {k1}]
Publishing == [From({moved}, {Uncounted}, 3, 2) EXCEPT !.rotating = {k2}]
Calling ==
    [From({none, root, bad, own, narrow, person, moved, guest,
           expired, alien},
          {CallOf(tool) : tool \in DOMAIN catalogue \cup {"unknown"}}
          \cup {Asking("tools/list"), Garbled(CallOf("registry_info")),
                Notification(CallOf("registry_info")), Direct(To("write", "admin"))}, 1, 0)
     EXCEPT !.keys = {k1, k2}]
Advertising ==
    From({own}, {CallOf("advertise_produced"), CallOf("registry_info"),
                 Direct(To("write", "produced"))}, 2, 2)
NothingAsked == [From({}, {}, 0, 0) EXCEPT !.caller = {}]

(* An upgrade that finds the retired graph, with and without its terms in the     *)
(* local one, where none has a class yet: one of them is in a bundle of the second  *)
(* build only.  A registry that moves.                                       *)
TheContent == <<(b1 :> {v1} @@ b2 :> {v2}), (b1 :> {v1} @@ b2 :> {shipped})>>
Terms(m, s) == minted :> m @@ shipped :> s
Begin(l, old, boots, moves, ads) ==
    [local |-> l, legacy |-> old, boots |-> boots, moves |-> moves, ads |-> ads]
Upgrades == {Begin(Terms(l, l), Terms({l1}, {l1}), 3, 2, 1) : l \in {{}, {l2}}}
Moves == {Begin(Terms({l1}, {}), Terms({}, {}), 5, 1, 2)}
Steady == {Begin(Terms({}, {}), Terms({}, {}), n, 0, 0) : n \in {1, 2}}

Quietly == {NothingAsked}
Busily == {Guessing, Revoking, Retiring, Publishing, Calling, Advertising}
Setups == Busily \cup Quietly
Starts == Steady \cup Upgrades \cup Moves
(* Requests are studied between starts that have no work, and the reverse; those   *)
(* of a restarted process are by the token that may be revoked meanwhile.         *)
Restarted == {Guessing, Revoking, Retiring}
Apart ==
    /\ setup \in Busily <=> left.ads = 0
    /\ setup \in Busily => (left.boots = 2 <=> setup \in Restarted)
Init == ProcessInit /\ Apart
Spec == Init /\ [][ProcessNext]_processVars
Alike == Permutations(Task)
=============================================================================
