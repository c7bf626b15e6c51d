-------------------------- MODULE MCSubscriptions --------------------------
(***************************************************************************)
(* Values for the constants of Subscriptions.                              *)
(***************************************************************************)
EXTENDS Subscriptions, TLC

CONSTANTS s1, s2, s3, i1, e1, e2, n1, n2, c1, c2, u1, u2

(* Requests of one kind are alike.                                          *)
TaskSymmetry == Permutations({n1, n2}) \cup Permutations({c1, c2})
PullSymmetry ==
    TaskSymmetry \cup Permutations({s1, s2, s3}) \cup Permutations({u1, u2})
        \cup Permutations({e1, e2})

MatchAll == {{e1, e2}}
MatchSome == {{e1}, {e1, e2}}
Webhook(f) == [instance |-> i1, filter |-> f, hook |-> TRUE]
PullOnly(f) == [instance |-> i1, filter |-> f, hook |-> FALSE]
OneWebhook == s1 :> Webhook({e1, e2})
TwoWebhooks == s1 :> Webhook({e1}) @@ s2 :> Webhook({e1})
OnePullOnly == s1 :> PullOnly({e1, e2})
NoSubs == << >>

Keep == [filter |-> None, hook |-> "keep", rotate |-> FALSE, enabled |-> "keep", resume |-> FALSE]
Resume == [Keep EXCEPT !.resume = TRUE]
Pause == [Keep EXCEPT !.enabled = "off"]
AddHook == [Keep EXCEPT !.hook = "set"]
DropHook == [Keep EXCEPT !.hook = "clear"]
Narrow == [Keep EXCEPT !.filter = {e1}]

NoPatches == {}
QueuePatches == {Resume, Pause, DropHook, Narrow}
HookPatches == {AddHook}
NoCursors == {}
OneCursor == {1}
=============================================================================
