------------------------------ MODULE Delivery ------------------------------
(***************************************************************************)
(* What the delivery queue promises, without batches, statements, backoff   *)
(* or pull: the life of each match of a subscription.  A match is queued    *)
(* once while its subscription is there; it is POSTed only while it is      *)
(* queued; it counts as delivered only if the receiver got it, and is then  *)
(* left alone until its subscription goes, which takes it along.            *)
(***************************************************************************)
EXTENDS Naturals

CONSTANTS Sub, Event

VARIABLES
    live,       \* subscriptions there are
    rows        \* the matches in the queue

vars == <<live, rows>>

NewRow(m) == [match |-> m, status |-> "queued", posts |-> 0, got |-> FALSE]
Becomes(r, s) == rows' = (rows \ {r}) \cup {s}

Init == live \subseteq Sub /\ rows = {}

Create(s) ==
    /\ s \notin live
    /\ live' = live \cup {s}
    /\ UNCHANGED rows

Queue(m) ==
    /\ m[1] \in live
    /\ \A r \in rows : r.match # m
    /\ rows' = rows \cup {NewRow(m)}
    /\ UNCHANGED live

Post(r) ==
    /\ r.status = "queued"
    /\ \E got \in {r.got, TRUE} : Becomes(r, [r EXCEPT !.posts = @ + 1, !.got = got])
    /\ UNCHANGED live

Deliver(r) ==
    /\ r.status = "queued" /\ r.got
    /\ Becomes(r, [r EXCEPT !.status = "delivered"])
    /\ UNCHANGED live

Bury(r) ==
    /\ r.status = "queued"
    /\ Becomes(r, [r EXCEPT !.status = "dead"])
    /\ UNCHANGED live

(* A resume puts back what failed, for good or for now.                      *)
Rearm(s) ==
    /\ \E again \in SUBSET {r \in rows : r.match[1] = s /\ r.status # "delivered"} :
         rows' = (rows \ again) \cup {[r EXCEPT !.status = "queued", !.posts = 0] : r \in again}
    /\ UNCHANGED live

Forget(s) ==
    /\ rows' = {r \in rows : r.match[1] # s}
    /\ live' \in {live, live \ {s}}

Next ==
    \/ \E r \in rows : Post(r) \/ Deliver(r) \/ Bury(r)
    \/ \E m \in Sub \X Event : Queue(m)
    \/ \E s \in Sub : Create(s) \/ Rearm(s) \/ Forget(s)

Spec == Init /\ [][Next]_vars
=============================================================================
