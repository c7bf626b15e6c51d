----------------------------- MODULE FedSearch -----------------------------
(***************************************************************************)
(* One federated search walking a graph of registries: the claim on its     *)
(* query id, the hop budget, the time budget and the path check.            *)
(*                                                                         *)
(* Every request of the walk is a leg, named by its route: the registries   *)
(* from the origin to the one it asks.  Legs are HTTP requests and run      *)
(* concurrently.  A caller waits for all its legs at once, and gives up on   *)
(* those that are late; the handler of a leg given up on may run on, or be   *)
(* cancelled, as the connection goes.                                      *)
(*                                                                         *)
(* Time is counted in ticks.  A leg of a responsive registry spends at most  *)
(* Lag of them outside its own fan-out (both transits, claim, local search); *)
(* an unresponsive registry takes as long as it likes, or fails.            *)
(***************************************************************************)
EXTENDS Integers, Sequences, FiniteSets, SequencesExt

CONSTANTS
    Registry,
    Origin,         \* where the user's search starts
    Peers,          \* the active peers of each registry
    MaxHops,        \* TAR_FEDERATED_SEARCH_MAX_HOPS of each registry
    Own,            \* each registry's own timeout for a fan-out
    Margin,         \* hop_margin
    MinUseful,      \* MIN_USEFUL_HOP_BUDGET
    MaxPeers,       \* peers asked in one fan-out
    Unresponsive,   \* registries that are slow, down or failing
    Lag,            \* bound: the ticks a responsive registry may spend
    Sweeps          \* whether other queries may sweep this id's row

ASSUME FedAssumption ==
    /\ Origin \in Registry
    /\ Peers \in [Registry -> SUBSET Registry]
    /\ MaxHops \in [Registry -> Nat]
    /\ Own \in [Registry -> Nat \ {0}]
    /\ {Margin, MinUseful, MaxPeers, Lag} \subseteq Nat
    /\ Unresponsive \subseteq Registry
    /\ Sweeps \in BOOLEAN

VARIABLES
    legs,       \* the legs there are, by route
    seen,       \* registries with a row for the query id (federated_queries)
    handled,    \* history: how often each registry took the query on
    swept       \* history: registries whose row was swept

vars == <<legs, seen, handled, swept>>

(* state  : what the handler is doing                                       *)
(* heard  : what the caller knows: pending, done (answered), gone (given up) *)
(* hops, budget, path : as sent                                             *)
(* left   : ticks until the handler gives up on its own legs                *)
(* slack  : ticks a responsive registry may still spend                     *)
(* covers : registries whose records the answer holds                       *)
Leg(hops, budget, path) ==
    [state |-> "sent", heard |-> "pending", hops |-> hops, budget |-> budget,
     path |-> path, left |-> 0, slack |-> Lag, covers |-> {}, partial |-> FALSE]

At(l) == Last(l)
Root == <<Origin>>
Legs == DOMAIN legs
Children(l) == {c \in Legs : Len(c) = Len(l) + 1 /\ Front(c) = l}
PendingChildren(l) == {c \in Children(l) : legs[c].heard = "pending"}
Is(l, state) == l \in Legs /\ legs[l].state = state
Lesser(a, b) == IF a <= b THEN a ELSE b
Minus(a, b) == IF a <= b THEN 0 ELSE a - b

Init ==
    /\ legs = [l \in {Root} |-> Leg(MaxHops[Origin], Own[Origin], <<>>)]
    /\ seen = {}
    /\ handled = [r \in Registry |-> 0]
    /\ swept = {}

(* Legs whose caller is not waiting any more.                               *)
GiveUpOn(f, gone) == [l \in DOMAIN f |-> IF l \in gone THEN [f[l] EXCEPT !.heard = "gone"] ELSE f[l]]

(***************************************************************************)
(* claim_query.  INSERT OR IGNORE decides; a leg that lost it reads the row *)
(* back, and goes ahead after all if the row was swept in between.          *)
(***************************************************************************)
TakeOn(l) ==
    /\ legs' = [legs EXCEPT ![l].state = "search"]
    /\ handled' = [handled EXCEPT ![At(l)] = @ + 1]

(* Fault: INSERT OR REPLACE, which every leg wins.                           *)
ClaimReplacing(l) ==
    /\ Is(l, "sent")
    /\ TakeOn(l)
    /\ seen' = seen \cup {At(l)}
    /\ UNCHANGED swept

Claim(l) ==
    /\ Is(l, "sent")
    /\ IF At(l) \notin seen
       THEN TakeOn(l) /\ seen' = seen \cup {At(l)}
       ELSE legs' = [legs EXCEPT ![l].state = "repeat"] /\ UNCHANGED <<seen, handled>>
    /\ UNCHANGED swept

(* The already_handled answer: no hits, and not partial.                     *)
Recheck(l) ==
    /\ Is(l, "repeat")
    /\ IF At(l) \in seen
       THEN legs' = [legs EXCEPT ![l].state = "answer"] /\ UNCHANGED handled
       ELSE TakeOn(l)
    /\ UNCHANGED <<seen, swept>>

(* Another query's claim sweeps expired rows, or those over the row cap.     *)
Sweep(r) ==
    /\ Sweeps
    /\ r \in seen
    /\ seen' = seen \ {r}
    /\ swept' = swept \cup {r}
    /\ UNCHANGED <<legs, handled>>

(***************************************************************************)
(* Local answer and fan-out.                                               *)
(***************************************************************************)
(* Fault: the hop count of the request is believed.                          *)
HopsGrantedAsAsked(l) == legs[l].hops

HopsGranted(l) == Lesser(legs[l].hops, MaxHops[At(l)])
TimeBudget(l) == Lesser(Own[At(l)], legs[l].budget)
(* Fault: the next registry is given all the time this one has.              *)
ForwardBudgetWhole(l) == TimeBudget(l)

ForwardBudget(l) == Minus(TimeBudget(l), Margin)
HopsForwarded(l) ==
    IF HopsGranted(l) > 0 /\ ForwardBudget(l) >= MinUseful THEN HopsGranted(l) - 1 ELSE 0

(* parse_path keeps the first max_hops + 2 entries; this registry is added.  *)
IncomingPath(l) == SubSeq(legs[l].path, 1, Lesser(Len(legs[l].path), MaxHops[At(l)] + 2))
OutgoingPath(l) ==
    IF At(l) \in ToSet(IncomingPath(l)) THEN IncomingPath(l)
                                        ELSE Append(IncomingPath(l), At(l))

Askable(l) == Peers[At(l)] \ ({At(l), Origin} \cup ToSet(OutgoingPath(l)))

(* The peers asked: all of them, or max_peers.                               *)
Fanouts(l) ==
    {asked \in SUBSET Askable(l) : Cardinality(asked) = Lesser(Cardinality(Askable(l)), MaxPeers)}

FanOut(l) ==
    /\ Is(l, "search")
    /\ \E asked \in Fanouts(l) :
         LET capped == asked # Askable(l)
             waits == HopsGranted(l) > 0 /\ asked # {}
             mine == [legs[l] EXCEPT !.state = IF waits THEN "wait" ELSE "answer",
                                     !.left = IF waits THEN TimeBudget(l) ELSE 0,
                                     !.covers = {At(l)}, !.partial = capped]
             sent == IF waits THEN {Append(l, p) : p \in asked} ELSE {}
         IN legs' = [k \in Legs \cup sent |->
                       IF k = l THEN mine
                       ELSE IF k \in Legs THEN legs[k]
                       ELSE Leg(HopsForwarded(l), ForwardBudget(l), OutgoingPath(l))]
    /\ UNCHANGED <<seen, handled, swept>>

(***************************************************************************)
(* Answers.                                                                *)
(***************************************************************************)

(* Fault: a peer's own partial is dropped with its statuses.                 *)
DeliverHitsOnly(l) ==
    /\ Is(l, "answer")
    /\ legs[l].heard = "pending"
    /\ legs' = IF l = Root
               THEN [legs EXCEPT ![l].heard = "done"]
               ELSE [legs EXCEPT ![l].heard = "done",
                                 ![Front(l)].covers = @ \cup legs[l].covers]
    /\ UNCHANGED <<seen, handled, swept>>

(* A peer's answer: its hits are taken and its partial passed on.  A refusal *)
(* of a repeat brings neither.                                              *)
Deliver(l) ==
    /\ Is(l, "answer")
    /\ legs[l].heard = "pending"
    /\ legs' = IF l = Root
               THEN [legs EXCEPT ![l].heard = "done"]
               ELSE [legs EXCEPT ![l].heard = "done",
                                 ![Front(l)].covers = @ \cup legs[l].covers,
                                 ![Front(l)].partial = @ \/ legs[l].partial]
    /\ UNCHANGED <<seen, handled, swept>>

(* Connection refused, an error status, a body that is too large or unread.  *)
Fail(l) ==
    /\ l \in Legs \ {Root}
    /\ At(l) \in Unresponsive
    /\ legs[l].heard = "pending"
    /\ legs' = [GiveUpOn(legs, {l}) EXCEPT ![Front(l)].partial = TRUE]
    /\ UNCHANGED <<seen, handled, swept>>

(* Fault: the timeout covers the sending and not the reading of the body.    *)
TimeOutSendOnly(l) ==
    /\ Is(l, "wait")
    /\ legs[l].left = 0
    /\ \E c \in PendingChildren(l) : legs[c].state = "sent"
    /\ legs' = [GiveUpOn(legs, PendingChildren(l)) EXCEPT ![l].partial = TRUE]
    /\ UNCHANGED <<seen, handled, swept>>

(* The timeout each leg of a fan-out runs under.                             *)
TimeOut(l) ==
    /\ Is(l, "wait")
    /\ legs[l].left = 0
    /\ PendingChildren(l) # {}
    /\ legs' = [GiveUpOn(legs, PendingChildren(l)) EXCEPT ![l].partial = TRUE]
    /\ UNCHANGED <<seen, handled, swept>>

(* join_all returns.                                                        *)
Join(l) ==
    /\ Is(l, "wait")
    /\ PendingChildren(l) = {}
    /\ legs' = [legs EXCEPT ![l].state = "answer"]
    /\ UNCHANGED <<seen, handled, swept>>

(* The server notices that the caller hung up and drops the handler, and     *)
(* with it the requests the handler was waiting for.                        *)
Cancel(l) ==
    /\ l \in Legs
    /\ legs[l].heard = "gone"
    /\ legs[l].state # "cancelled"
    /\ legs' = [GiveUpOn(legs, PendingChildren(l)) EXCEPT ![l].state = "cancelled"]
    /\ UNCHANGED <<seen, handled, swept>>

(***************************************************************************)
(* Time passes only when no responsive registry has to act now.             *)
(***************************************************************************)
Busy(l) == legs[l].heard = "pending" /\ legs[l].state # "wait"
Waiting(l) == legs[l].state = "wait"
MustAct(l) ==
    \/ Busy(l) /\ At(l) \notin Unresponsive /\ legs[l].slack = 0
    \/ Waiting(l) /\ (legs[l].left = 0 \/ PendingChildren(l) = {})

Tick ==
    /\ legs[Root].heard = "pending"
    /\ \A l \in Legs : ~MustAct(l)
    /\ legs' = [l \in Legs |->
         IF Busy(l) THEN [legs[l] EXCEPT !.slack = Minus(@, 1)]
         ELSE IF Waiting(l) THEN [legs[l] EXCEPT !.left = @ - 1]
         ELSE legs[l]]
    /\ UNCHANGED <<seen, handled, swept>>

LegStep(l) ==
    Claim(l) \/ Recheck(l) \/ FanOut(l) \/ Deliver(l) \/ TimeOut(l) \/ Join(l)

Next ==
    \/ \E l \in Legs : LegStep(l) \/ Fail(l) \/ Cancel(l)
    \/ \E r \in Registry : Sweep(r)
    \/ Tick

Spec == Init /\ [][Next]_vars

(* Responsive registries make progress; time goes on.                        *)
Progress == \E l \in Legs : (At(l) \notin Unresponsive \/ Waiting(l)) /\ LegStep(l)
FairSpec == Spec /\ WF_vars(Progress) /\ WF_vars(Tick)

-----------------------------------------------------------------------------
(***************************************************************************)
(* Properties.                                                             *)
(***************************************************************************)
LegRecord ==
    [state : {"sent", "repeat", "search", "wait", "answer", "cancelled"},
     heard : {"pending", "done", "gone"}, hops : Nat, budget : Nat,
     path : Seq(Registry), left : Nat, slack : Nat,
     covers : SUBSET Registry, partial : BOOLEAN]

(* Every leg has a caller, and its record has its type.                      *)
TypeOK ==
    /\ Legs \subseteq Seq(Registry) \ {<<>>}
    /\ Root \in Legs
    /\ \A l \in Legs : legs[l] \in LegRecord /\ (l # Root => Front(l) \in Legs)
    /\ seen \subseteq Registry
    /\ handled \in [Registry -> Nat]
    /\ swept \subseteq Registry

(* "Each registry handles a given query id exactly once": however many legs   *)
(* reach it at the same time, a registry takes the query on at most once, as  *)
(* long as nothing sweeps its row.                                           *)
HandledOnce == \A r \in Registry \ swept : handled[r] <= 1

(* Whatever it was granted, no registry lets a query travel more hops beyond  *)
(* itself than its own maximum.                                              *)
HopsRespected ==
    \A l \in Legs : \A i \in 1..Len(l) : Len(l) - i <= MaxHops[l[i]]

(* "a callee always answers before its caller gives up on it": when a         *)
(* responsive registry's own overhead stays under the margin, the least       *)
(* useful budget and the timeouts, its caller never times out on it because   *)
(* of peers further on.                                                      *)
ResponsiveNotTimedOut ==
    \A l \in Legs \ {Root} :
        legs[l].heard = "gone" /\ At(l) \notin Unresponsive
            => legs[Front(l)].heard = "gone"

(* "you already have these, on the path that reached me first": the records   *)
(* of every registry that took the query on are in the answer at the origin,  *)
(* or the answer says it is partial -- although all but one of the legs to a  *)
(* registry are refused, and the one that was not may be given up on.        *)
RefusedElsewhereCovered ==
    legs[Root].heard = "done" /\ ~legs[Root].partial
        => \A r \in Registry : handled[r] > 0 => r \in legs[Root].covers

(* The walk ends: the user gets an answer, whatever the peer graph looks like *)
(* and whoever does not answer.                                             *)
OriginAnswers == <>(legs[Root].heard = "done")
=============================================================================
