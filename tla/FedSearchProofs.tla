--------------------------- MODULE FedSearchProofs ---------------------------
(***************************************************************************)
(* Theorems about the federated search walk, for every peer graph, every    *)
(* setting of every registry and every schedule of its legs.                *)
(***************************************************************************)
EXTENDS FedSearch, TLAPS

-----------------------------------------------------------------------------
(* Routes.                                                                   *)

Route == Seq(Registry) \ {<<>>}

(* A route ends at a registry.                                               *)
LEMMA RouteEnds ==
    ASSUME NEW l \in Route
    PROVE  At(l) \in Registry /\ Len(l) \in Nat \ {0}
<1>1. l \in Seq(Registry) /\ Len(l) \in Nat /\ Len(l) # 0
  BY DEF Route
<1>2. l[Len(l)] \in Registry
  BY <1>1
<1> QED BY <1>1, <1>2 DEF At, Last

(* A leg's route is its caller's and one registry more.                      *)
LEMMA RouteExtends ==
    ASSUME NEW l \in Route, NEW p \in Registry
    PROVE  /\ Append(l, p) \in Route
           /\ Len(Append(l, p)) = Len(l) + 1
           /\ \A i \in 1..Len(l) : Append(l, p)[i] = l[i]
           /\ At(Append(l, p)) = p
           /\ Front(Append(l, p)) = l
           /\ Append(l, p) # Root
<1>1. l \in Seq(Registry) /\ l # <<>> /\ Len(l) \in Nat /\ Len(l) # 0
  BY DEF Route
<1> DEFINE k == Append(l, p)
<1>2. /\ k \in Seq(Registry) /\ Len(k) = Len(l) + 1
      /\ \A i \in 1..Len(l) : k[i] = l[i]
      /\ k[Len(l) + 1] = p
  BY <1>1
<1>3. k # <<>>
  BY <1>1, <1>2
<1>4. Front(k) = l
  <2>1. Front(k) = SubSeq(k, 1, Len(l))
    BY <1>1, <1>2 DEF Front
  <2>2. SubSeq(k, 1, Len(l)) = l
    BY <1>1, <1>2
  <2> QED BY <2>1, <2>2
<1>5. k # Root
  <2>1. Len(Root) = 1
    BY DEF Root
  <2> QED BY <1>1, <1>2, <2>1
<1> QED BY <1>2, <1>3, <1>4, <1>5 DEF At, Last, Route

(* The first route.                                                          *)
LEMMA RootRoute == Root \in Route /\ At(Root) = Origin
BY FedAssumption DEF Root, Route, At, Last

-----------------------------------------------------------------------------
(* Type correctness.  legs is a function besides.                            *)

LegsTyped == TypeOK /\ legs \in [Legs -> LegRecord]

(* What is known of one leg.                                                 *)
LEMMA LegType ==
    ASSUME LegsTyped, NEW l \in Legs
    PROVE  /\ l \in Route /\ At(l) \in Registry
           /\ legs[l] \in LegRecord
           /\ legs[l].hops \in Nat /\ legs[l].budget \in Nat
           /\ legs[l].path \in Seq(Registry)
           /\ legs[l].covers \in SUBSET Registry /\ legs[l].partial \in BOOLEAN
           /\ legs[l].left \in Nat /\ legs[l].slack \in Nat
           /\ (l # Root => Front(l) \in Legs)
<1>1. l \in Route /\ legs[l] \in LegRecord /\ (l # Root => Front(l) \in Legs)
  BY DEF LegsTyped, TypeOK, Route
<1> QED BY <1>1, RouteEnds DEF LegRecord

(* What a registry grants and passes on is a number or a path.               *)
LEMMA BudgetType ==
    ASSUME LegsTyped, NEW l \in Legs
    PROVE  /\ HopsGranted(l) \in Nat
           /\ HopsGranted(l) <= legs[l].hops /\ HopsGranted(l) <= MaxHops[At(l)]
           /\ TimeBudget(l) \in Nat /\ ForwardBudget(l) \in Nat
           /\ HopsForwarded(l) \in Nat
           /\ HopsGranted(l) > 0 => HopsForwarded(l) + 1 <= HopsGranted(l)
           /\ OutgoingPath(l) \in Seq(Registry)
<1>1. /\ legs[l].hops \in Nat /\ legs[l].budget \in Nat /\ At(l) \in Registry
      /\ legs[l].path \in Seq(Registry)
  BY LegType
<1>2. MaxHops[At(l)] \in Nat /\ Own[At(l)] \in Nat /\ Margin \in Nat
  BY <1>1, FedAssumption
<1>3. /\ HopsGranted(l) \in Nat
      /\ HopsGranted(l) <= legs[l].hops /\ HopsGranted(l) <= MaxHops[At(l)]
  BY <1>1, <1>2 DEF HopsGranted, Lesser
<1>4. TimeBudget(l) \in Nat
  BY <1>1, <1>2 DEF TimeBudget, Lesser
<1>5. ForwardBudget(l) \in Nat
  BY <1>2, <1>4 DEF ForwardBudget, Minus
<1>6. HopsForwarded(l) \in Nat /\ (HopsGranted(l) > 0 => HopsForwarded(l) + 1 <= HopsGranted(l))
  BY <1>3 DEF HopsForwarded
<1>7. IncomingPath(l) \in Seq(Registry)
  <2>1. /\ Len(legs[l].path) \in Nat
        /\ Lesser(Len(legs[l].path), MaxHops[At(l)] + 2) \in 0..Len(legs[l].path)
    BY <1>1, <1>2 DEF Lesser
  <2> QED BY <1>1, <2>1 DEF IncomingPath
<1>8. OutgoingPath(l) \in Seq(Registry)
  BY <1>1, <1>7 DEF OutgoingPath
<1> QED BY <1>3, <1>4, <1>5, <1>6, <1>8

(* A new leg has its type.                                                   *)
LEMMA NewLegType ==
    ASSUME NEW h \in Nat, NEW b \in Nat, NEW s \in Seq(Registry)
    PROVE  Leg(h, b, s) \in LegRecord
BY FedAssumption DEF Leg, LegRecord

(* Giving up changes what a caller knows and nothing else.                   *)
LEMMA GiveUpType ==
    ASSUME LegsTyped, NEW gone
    PROVE  /\ GiveUpOn(legs, gone) \in [Legs -> LegRecord]
           /\ \A l \in Legs : /\ GiveUpOn(legs, gone)[l].hops = legs[l].hops
                              /\ GiveUpOn(legs, gone)[l].state = legs[l].state
BY DEF GiveUpOn, LegsTyped, LegRecord

(* Every step but a fan-out keeps the legs there are and the hops they were   *)
(* sent with.                                                               *)
KeepsLegs == Legs' = Legs /\ \A l \in Legs : legs'[l].hops = legs[l].hops

(* The initial state is well typed.                                          *)
LEMMA TypeInit == Init => LegsTyped
<1> SUFFICES ASSUME Init PROVE LegsTyped
  OBVIOUS
<1>1. MaxHops[Origin] \in Nat /\ Own[Origin] \in Nat /\ Origin \in Registry
  BY FedAssumption
<1>2. <<>> \in Seq(Registry)
  OBVIOUS
<1>3. Leg(MaxHops[Origin], Own[Origin], <<>>) \in LegRecord
  BY <1>1, <1>2, NewLegType
<1>4. Legs = {Root} /\ legs[Root] \in LegRecord /\ legs \in [Legs -> LegRecord]
  BY <1>3 DEF Init, Legs
<1>5. Root \in Seq(Registry) \ {<<>>}
  BY RootRoute DEF Route
<1> QED BY <1>4, <1>5 DEF Init, LegsTyped, TypeOK

(* A step that keeps the legs keeps the types, if the records keep theirs.   *)
LEMMA TypeKept ==
    ASSUME LegsTyped, Legs' = Legs, legs' \in [Legs -> LegRecord],
           seen' \subseteq Registry, handled' \in [Registry -> Nat], swept' \subseteq Registry
    PROVE  LegsTyped'
<1>1. legs' \in [Legs' -> LegRecord]
  OBVIOUS
<1>2. \A l \in Legs : legs'[l] \in LegRecord
  OBVIOUS
<1> QED BY <1>1, <1>2 DEF LegsTyped, TypeOK

(* Taking a query on.                                                        *)
LEMMA TakeOnType ==
    ASSUME LegsTyped, NEW l \in Legs, TakeOn(l)
    PROVE  /\ legs' \in [Legs -> LegRecord] /\ handled' \in [Registry -> Nat] /\ KeepsLegs
<1>1. At(l) \in Registry /\ handled \in [Registry -> Nat] /\ handled[At(l)] \in Nat
  BY LegType DEF LegsTyped, TypeOK
<1>2. legs \in [Legs -> LegRecord]
  BY DEF LegsTyped
<1>3. legs' = [legs EXCEPT ![l].state = "search"]
      /\ handled' = [handled EXCEPT ![At(l)] = @ + 1]
  BY DEF TakeOn
<1>4. legs' \in [Legs -> LegRecord] /\ KeepsLegs
  BY <1>2, <1>3 DEF LegRecord, KeepsLegs, Legs
<1>5. handled' \in [Registry -> Nat]
  BY <1>1, <1>3
<1> QED BY <1>4, <1>5

(* The claim, won or lost.                                                   *)
LEMMA ClaimType ==
    ASSUME LegsTyped, NEW l \in Legs, Claim(l) \/ Recheck(l)
    PROVE  LegsTyped' /\ KeepsLegs
<1>1. /\ At(l) \in Registry /\ legs \in [Legs -> LegRecord]
      /\ seen \subseteq Registry /\ swept \subseteq Registry /\ handled \in [Registry -> Nat]
  BY LegType DEF LegsTyped, TypeOK
<1>2. /\ legs' \in [Legs -> LegRecord] /\ handled' \in [Registry -> Nat] /\ KeepsLegs
      /\ seen' \subseteq Registry /\ swept' \subseteq Registry
  <2>1. CASE TakeOn(l)
    BY <1>1, <2>1, TakeOnType DEF Claim, Recheck
  <2>2. CASE ~TakeOn(l)
    <3>1. /\ UNCHANGED handled /\ seen' \subseteq Registry /\ swept' \subseteq Registry
          /\ \E st \in {"repeat", "answer"} : legs' = [legs EXCEPT ![l].state = st]
      BY <1>1, <2>2 DEF Claim, Recheck
    <3>2. legs' \in [Legs -> LegRecord] /\ KeepsLegs
      <4>1. PICK st \in {"repeat", "answer"} : legs' = [legs EXCEPT ![l].state = st]
        BY <3>1
      <4>2. legs' \in [Legs -> LegRecord] /\ \A k \in Legs : legs'[k].hops = legs[k].hops
        BY <1>1, <4>1 DEF LegRecord
      <4>3. Legs' = Legs
        BY <4>2 DEF Legs
      <4> QED BY <4>2, <4>3 DEF KeepsLegs
    <3> QED BY <1>1, <3>1, <3>2
  <2> QED BY <2>1, <2>2
<1>3. Legs' = Legs
  BY <1>2 DEF KeepsLegs
<1> QED BY <1>2, <1>3, TypeKept

(* Answers, failures, timeouts and cancellations.                            *)
LEMMA AnswerType ==
    ASSUME LegsTyped, NEW l \in Legs,
           Deliver(l) \/ Fail(l) \/ TimeOut(l) \/ Join(l) \/ Cancel(l)
    PROVE  LegsTyped' /\ KeepsLegs
<1>1. /\ legs \in [Legs -> LegRecord] /\ (l # Root => Front(l) \in Legs)
      /\ seen \subseteq Registry /\ swept \subseteq Registry /\ handled \in [Registry -> Nat]
  BY LegType DEF LegsTyped, TypeOK
<1>2. UNCHANGED <<seen, handled, swept>>
  BY DEF Deliver, Fail, TimeOut, Join, Cancel
<1>3. legs' \in [Legs -> LegRecord] /\ KeepsLegs
  <2>1. CASE Deliver(l)
    <3>1. CASE l = Root
      <4>1. legs' = [legs EXCEPT ![l].heard = "done"]
        BY <2>1, <3>1 DEF Deliver
      <4>2. legs' \in [Legs -> LegRecord]
        BY <1>1, <4>1 DEF LegRecord
      <4>3. \A k \in Legs : legs'[k].hops = legs[k].hops
        BY <1>1, <4>1 DEF LegRecord
      <4>4. Legs' = Legs
        BY <4>2 DEF Legs
      <4> QED BY <4>2, <4>3, <4>4 DEF KeepsLegs
    <3>2. CASE l # Root
      <4>1. Front(l) \in Legs /\ legs[Front(l)] \in LegRecord /\ legs[l] \in LegRecord
        BY <1>1, <3>2
      <4> DEFINE u == Front(l)
                 mid == [legs EXCEPT ![l].heard = "done"]
                 next == [mid EXCEPT ![u].covers = @ \cup legs[l].covers]
      <4>2. legs' = [next EXCEPT ![u].partial = @ \/ legs[l].partial]
        BY <2>1, <3>2 DEF Deliver
      <4>3. mid \in [Legs -> LegRecord] /\ \A k \in Legs : mid[k].hops = legs[k].hops
        BY <1>1 DEF LegRecord
      <4>4. legs[l].covers \in SUBSET Registry /\ legs[l].partial \in BOOLEAN
        BY LegType
      <4> HIDE DEF mid
      <4>5. next \in [Legs -> LegRecord] /\ \A k \in Legs : next[k].hops = mid[k].hops
        BY <4>1, <4>3, <4>4 DEF LegRecord
      <4> HIDE DEF next
      <4>6. next[u].partial \in BOOLEAN
        BY <4>1, <4>5 DEF LegRecord
      <4>7. (next[u].partial \/ legs[l].partial) \in BOOLEAN
        OBVIOUS
      <4>8. PICK b \in BOOLEAN : b = (next[u].partial \/ legs[l].partial)
        BY <4>7
      <4>9. legs' = [next EXCEPT ![u].partial = b]
        BY <4>2, <4>8
      <4>10. legs' \in [Legs -> LegRecord] /\ \A k \in Legs : legs'[k].hops = next[k].hops
        BY <4>1, <4>5, <4>9 DEF LegRecord
      <4>11. Legs' = Legs
        BY <4>10 DEF Legs
      <4> QED BY <4>3, <4>5, <4>10, <4>11 DEF KeepsLegs
    <3> QED BY <3>1, <3>2
  <2>2. CASE Fail(l) \/ TimeOut(l) \/ Cancel(l)
    <3>1. \E gone : \E u \in Legs :
             \/ legs' = [GiveUpOn(legs, gone) EXCEPT ![u].partial = TRUE]
             \/ legs' = [GiveUpOn(legs, gone) EXCEPT ![u].state = "cancelled"]
      <4>1. CASE Fail(l)
        BY <1>1, <4>1 DEF Fail
      <4>2. CASE TimeOut(l)
        BY <4>2 DEF TimeOut
      <4>3. CASE Cancel(l)
        BY <4>3 DEF Cancel
      <4> QED BY <2>2, <4>1, <4>2, <4>3
    <3>2. PICK gone : \E u \in Legs :
             \/ legs' = [GiveUpOn(legs, gone) EXCEPT ![u].partial = TRUE]
             \/ legs' = [GiveUpOn(legs, gone) EXCEPT ![u].state = "cancelled"]
      BY <3>1
    <3> DEFINE given == GiveUpOn(legs, gone)
    <3>3. given \in [Legs -> LegRecord] /\ \A k \in Legs : given[k].hops = legs[k].hops
      BY GiveUpType
    <3>4. PICK u \in Legs : \/ legs' = [given EXCEPT ![u].partial = TRUE]
                            \/ legs' = [given EXCEPT ![u].state = "cancelled"]
      BY <3>2
    <3> HIDE DEF given
    <3>5. CASE legs' = [given EXCEPT ![u].partial = TRUE]
      <4>1. legs' \in [Legs -> LegRecord] /\ \A k \in Legs : legs'[k].hops = given[k].hops
        BY <3>3, <3>5 DEF LegRecord
      <4>2. Legs' = Legs
        BY <4>1 DEF Legs
      <4> QED BY <3>3, <4>1, <4>2 DEF KeepsLegs
    <3>6. CASE legs' = [given EXCEPT ![u].state = "cancelled"]
      <4>1. legs' \in [Legs -> LegRecord] /\ \A k \in Legs : legs'[k].hops = given[k].hops
        BY <3>3, <3>6 DEF LegRecord
      <4>2. Legs' = Legs
        BY <4>1 DEF Legs
      <4> QED BY <3>3, <4>1, <4>2 DEF KeepsLegs
    <3> QED BY <3>4, <3>5, <3>6
  <2>3. CASE Join(l)
    BY <1>1, <2>3 DEF Join, LegRecord, KeepsLegs, Legs
  <2> QED BY <2>1, <2>2, <2>3
<1>4. Legs' = Legs
  BY <1>3 DEF KeepsLegs
<1> QED BY <1>1, <1>2, <1>3, <1>4, TypeKept

(* Sweeps, and time.                                                         *)
LEMMA TickType ==
    ASSUME LegsTyped, Tick \/ \E r \in Registry : Sweep(r)
    PROVE  LegsTyped' /\ KeepsLegs
<1>1. /\ legs \in [Legs -> LegRecord] /\ Legs = DOMAIN legs
      /\ seen \subseteq Registry /\ swept \subseteq Registry /\ handled \in [Registry -> Nat]
  BY DEF LegsTyped, TypeOK, Legs
<1>2. /\ UNCHANGED handled /\ seen' \subseteq Registry /\ swept' \subseteq Registry
  BY <1>1 DEF Tick, Sweep
<1>3. legs' \in [Legs -> LegRecord] /\ \A l \in Legs : legs'[l].hops = legs[l].hops
  <2>1. CASE \E r \in Registry : Sweep(r)
    BY <1>1, <2>1 DEF Sweep
  <2>2. CASE Tick
    <3> DEFINE next(l) == IF Busy(l) THEN [legs[l] EXCEPT !.slack = Minus(@, 1)]
                          ELSE IF Waiting(l) THEN [legs[l] EXCEPT !.left = @ - 1]
                          ELSE legs[l]
    <3>1. \A l \in Legs : next(l) \in LegRecord /\ next(l).hops = legs[l].hops
      <4> SUFFICES ASSUME NEW l \in Legs
                   PROVE  next(l) \in LegRecord /\ next(l).hops = legs[l].hops
        OBVIOUS
      <4>1. legs[l].left \in Nat /\ legs[l].slack \in Nat /\ legs[l] \in LegRecord
        BY LegType
      <4>2. CASE Busy(l)
        <5>1. Minus(legs[l].slack, 1) \in Nat
          BY <4>1 DEF Minus
        <5> QED BY <4>1, <4>2, <5>1 DEF LegRecord
      <4>3. CASE ~Busy(l) /\ Waiting(l)
        <5>1. legs[l].left # 0
          BY <2>2, <4>3 DEF Tick, MustAct
        <5>2. legs[l].left - 1 \in Nat
          BY <4>1, <5>1
        <5> QED BY <4>1, <4>3, <5>2 DEF LegRecord
      <4>4. CASE ~Busy(l) /\ ~Waiting(l)
        BY <4>1, <4>4
      <4> QED BY <4>2, <4>3, <4>4
    <3>2. legs' = [l \in Legs |-> next(l)]
      BY <2>2 DEF Tick
    <3> HIDE DEF next
    <3> QED BY <3>1, <3>2
  <2> QED BY <2>1, <2>2
<1>4. Legs' = Legs
  BY <1>3 DEF Legs
<1> QED BY <1>1, <1>2, <1>3, <1>4, TypeKept DEF KeepsLegs

(* The legs after a fan-out: those there were, and one for each peer asked.   *)
Fanned(l, asked, mine, new) ==
    /\ asked = {} \/ HopsGranted(l) > 0
    /\ new.hops = HopsForwarded(l) /\ new.state = "sent" /\ new.heard = "pending"
    /\ new.covers = {} /\ ~new.partial
    /\ mine.hops = legs[l].hops /\ mine.state \in {"wait", "answer"}
    /\ asked # {} => mine.state = "wait"
    /\ mine.heard = legs[l].heard /\ mine.covers = {At(l)}
    /\ new.budget = ForwardBudget(l) /\ new.slack = Lag
    /\ mine.budget = legs[l].budget /\ mine.slack = legs[l].slack
    /\ mine.state = "wait" => HopsGranted(l) > 0 /\ mine.left = TimeBudget(l)
    /\ legs' = [k \in Legs \cup {Append(l, p) : p \in asked} |->
                  IF k = l THEN mine ELSE IF k \in Legs THEN legs[k] ELSE new]

LEMMA FanOutLegs ==
    ASSUME LegsTyped, NEW l \in Legs, FanOut(l)
    PROVE  \E asked \in SUBSET Registry, mine \in LegRecord, new \in LegRecord :
              Fanned(l, asked, mine, new)
<1>1. PICK a \in Fanouts(l) :
         LET capped == a # Askable(l)
             waits == HopsGranted(l) > 0 /\ a # {}
             mine == [legs[l] EXCEPT !.state = IF waits THEN "wait" ELSE "answer",
                                     !.left = IF waits THEN TimeBudget(l) ELSE 0,
                                     !.covers = {At(l)}, !.partial = capped]
             sent == IF waits THEN {Append(l, p) : p \in a} ELSE {}
         IN legs' = [k \in Legs \cup sent |->
                       IF k = l THEN mine
                       ELSE IF k \in Legs THEN legs[k]
                       ELSE Leg(HopsForwarded(l), ForwardBudget(l), OutgoingPath(l))]
  BY DEF FanOut
<1> DEFINE waits == HopsGranted(l) > 0 /\ a # {}
           asked == IF waits THEN a ELSE {}
           st == IF waits THEN "wait" ELSE "answer"
           lf == IF waits THEN TimeBudget(l) ELSE 0
           mine == [legs[l] EXCEPT !.state = st, !.left = lf,
                                   !.covers = {At(l)}, !.partial = (a # Askable(l))]
           new == Leg(HopsForwarded(l), ForwardBudget(l), OutgoingPath(l))
<1>2. asked \in SUBSET Registry
  <2>1. a \subseteq Peers[At(l)]
    BY DEF Fanouts, Askable
  <2> QED BY <2>1, LegType, FedAssumption
<1>3. /\ mine \in LegRecord /\ mine.hops = legs[l].hops /\ mine.state = st
      /\ mine.heard = legs[l].heard /\ mine.covers = {At(l)}
      /\ mine.budget = legs[l].budget /\ mine.slack = legs[l].slack /\ mine.left = lf
  <2>1. TimeBudget(l) \in Nat /\ At(l) \in Registry /\ legs[l] \in LegRecord
    BY LegType, BudgetType
  <2>2. lf \in Nat /\ st \in {"wait", "answer"} /\ {At(l)} \in SUBSET Registry
    BY <2>1
  <2>3. (a # Askable(l)) \in BOOLEAN
    OBVIOUS
  <2>4. PICK b \in BOOLEAN : b = (a # Askable(l))
    BY <2>3
  <2>5. mine = [legs[l] EXCEPT !.state = st, !.left = lf, !.covers = {At(l)}, !.partial = b]
    BY <2>4
  <2> HIDE DEF st, lf
  <2> QED BY <2>1, <2>2, <2>5 DEF LegRecord
<1>4. /\ new \in LegRecord /\ new.hops = HopsForwarded(l) /\ new.state = "sent"
      /\ new.heard = "pending" /\ new.covers = {} /\ ~new.partial
      /\ new.budget = ForwardBudget(l) /\ new.slack = Lag
  BY BudgetType, NewLegType DEF Leg
<1>5. /\ asked = {} \/ HopsGranted(l) > 0
      /\ st \in {"wait", "answer"} /\ (asked # {} => st = "wait")
      /\ st = "wait" => HopsGranted(l) > 0 /\ lf = TimeBudget(l)
  OBVIOUS
<1>6. legs' = [k \in Legs \cup {Append(l, p) : p \in asked} |->
                 IF k = l THEN mine ELSE IF k \in Legs THEN legs[k] ELSE new]
  <2>1. CASE waits
    BY <1>1, <2>1
  <2>2. CASE ~waits
    <3>1. {Append(l, p) : p \in asked} = {}
      BY <2>2
    <3> QED BY <1>1, <2>2, <3>1
  <2> QED BY <2>1, <2>2
<1> HIDE DEF mine, new, asked, st, lf
<1>7. Fanned(l, asked, mine, new)
  BY <1>3, <1>4, <1>5, <1>6 DEF Fanned
<1> QED BY <1>2, <1>3, <1>4, <1>7

(* The fan-out.                                                              *)
LEMMA FanOutType ==
    ASSUME LegsTyped, NEW l \in Legs, FanOut(l)
    PROVE  LegsTyped'
<1>0. PICK asked \in SUBSET Registry, mine \in LegRecord, new \in LegRecord :
          Fanned(l, asked, mine, new)
  BY FanOutLegs
<1>1. legs' = [k \in Legs \cup {Append(l, p) : p \in asked} |->
                 IF k = l THEN mine ELSE IF k \in Legs THEN legs[k] ELSE new]
  BY <1>0 DEF Fanned
<1>2. Legs' = Legs \cup {Append(l, p) : p \in asked}
  BY <1>1 DEF Legs
<1>3. \A k \in Legs' : legs'[k] \in LegRecord
  BY <1>1, <1>2, LegType
<1>4. legs' \in [Legs' -> LegRecord]
  BY <1>1, <1>2, <1>3
<1>5. \A k \in Legs' : k \in Route /\ (k # Root => Front(k) \in Legs')
  <2> SUFFICES ASSUME NEW k \in Legs' PROVE k \in Route /\ (k # Root => Front(k) \in Legs')
    OBVIOUS
  <2>1. CASE k \in Legs
    BY <1>2, <2>1, LegType
  <2>2. CASE k \notin Legs
    <3>1. PICK p \in asked : k = Append(l, p)
      BY <1>2, <2>2
    <3>2. l \in Route /\ p \in Registry
      BY LegType
    <3>3. k \in Route /\ Front(k) = l
      BY <3>1, <3>2, RouteExtends
    <3> QED BY <1>2, <3>3
  <2> QED BY <2>1, <2>2
<1>6. Root \in Legs' /\ UNCHANGED <<seen, handled, swept>>
  BY <1>2 DEF FanOut, LegsTyped, TypeOK
<1> QED BY <1>3, <1>4, <1>5, <1>6 DEF LegsTyped, TypeOK, Route

(* Every step keeps the types.                                               *)
LEMMA TypeStep == LegsTyped /\ [Next]_vars => LegsTyped'
<1> SUFFICES ASSUME LegsTyped, [Next]_vars PROVE LegsTyped'
  OBVIOUS
<1>1. CASE \E l \in Legs : Claim(l) \/ Recheck(l)
  BY <1>1, ClaimType
<1>2. CASE \E l \in Legs : FanOut(l)
  BY <1>2, FanOutType
<1>3. CASE \E l \in Legs : Deliver(l) \/ Fail(l) \/ TimeOut(l) \/ Join(l) \/ Cancel(l)
  BY <1>3, AnswerType
<1>4. CASE Tick \/ \E r \in Registry : Sweep(r)
  BY <1>4, TickType
<1>5. CASE UNCHANGED vars
  BY <1>5 DEF LegsTyped, TypeOK, vars, Legs
<1> QED BY <1>1, <1>2, <1>3, <1>4, <1>5 DEF Next, LegStep

(* Every leg of the walk has a caller, and the records of the legs, the rows  *)
(* of the query id and the counts keep their types: no budget or hop count    *)
(* the handlers compute falls below zero.                                    *)
THEOREM TypeCorrect == Spec => []TypeOK
<1>1. LegsTyped => TypeOK
  BY DEF LegsTyped
<1> QED BY <1>1, TypeInit, TypeStep, PTL DEF Spec

-----------------------------------------------------------------------------
(* Hops.                                                                     *)

(* Beyond each registry of a route, the hops made and the hops still granted  *)
(* stay within that registry's own maximum.                                  *)
HopsBounded ==
    \A l \in Legs : \A i \in 1..Len(l) :
        i < Len(l) => (Len(l) - i) + legs[l].hops <= MaxHops[l[i]]

(* Initially the route has one registry.                                     *)
LEMMA HopsInit == Init => HopsBounded
<1> SUFFICES ASSUME Init PROVE HopsBounded
  OBVIOUS
<1>1. Legs = {Root} /\ Len(Root) = 1
  BY DEF Init, Legs, Root
<1>2. \A i \in 1..Len(Root) : ~(i < Len(Root))
  BY <1>1
<1> QED BY <1>1, <1>2 DEF HopsBounded

(* A fan-out grants each new leg one hop less than it was granted itself, and *)
(* never more than its own maximum less one.                                 *)
LEMMA HopsFanOut ==
    ASSUME LegsTyped, HopsBounded, NEW l \in Legs, FanOut(l)
    PROVE  HopsBounded'
<1>1. PICK asked \in SUBSET Registry, mine \in LegRecord, new \in LegRecord :
          Fanned(l, asked, mine, new)
  BY FanOutLegs
<1>2. /\ legs' = [k \in Legs \cup {Append(l, p) : p \in asked} |->
                    IF k = l THEN mine ELSE IF k \in Legs THEN legs[k] ELSE new]
      /\ asked = {} \/ HopsGranted(l) > 0
      /\ new.hops = HopsForwarded(l) /\ mine.hops = legs[l].hops
  BY <1>1 DEF Fanned
<1>3. Legs' = Legs \cup {Append(l, p) : p \in asked}
  BY <1>2 DEF Legs
<1> SUFFICES ASSUME NEW k \in Legs', NEW i \in 1..Len(k), i < Len(k)
             PROVE  (Len(k) - i) + legs'[k].hops <= MaxHops[k[i]]
  BY DEF HopsBounded
<1>4. CASE k \in Legs
  <2>1. legs'[k].hops = legs[k].hops
    BY <1>2, <1>4
  <2> QED BY <1>4, <2>1 DEF HopsBounded
<1>5. CASE k \notin Legs
  <2>1. PICK p \in asked : k = Append(l, p)
    BY <1>3, <1>5
  <2>2. l \in Route /\ p \in Registry /\ At(l) \in Registry /\ legs[l].hops \in Nat
    BY LegType
  <2>3. /\ Len(k) = Len(l) + 1 /\ \A j \in 1..Len(l) : k[j] = l[j]
        /\ Len(l) \in Nat \ {0}
    BY <2>1, <2>2, RouteExtends, RouteEnds
  <2>4. /\ HopsForwarded(l) \in Nat /\ HopsGranted(l) \in Nat
        /\ HopsForwarded(l) + 1 <= HopsGranted(l)
        /\ HopsGranted(l) <= legs[l].hops /\ HopsGranted(l) <= MaxHops[At(l)]
    BY <1>2, <2>1, BudgetType
  <2>5. legs'[k].hops = HopsForwarded(l)
    BY <1>2, <1>3, <1>5
  <2>6. i \in 1..Len(l) /\ k[i] = l[i]
    BY <2>3
  <2>7. CASE i = Len(l)
    <3>1. k[i] = At(l) /\ MaxHops[At(l)] \in Nat
      BY <2>2, <2>6, <2>7, FedAssumption DEF At, Last
    <3> QED BY <2>3, <2>4, <2>5, <2>7, <3>1
  <2>8. CASE i < Len(l)
    <3>1. (Len(l) - i) + legs[l].hops <= MaxHops[l[i]]
      BY <2>6, <2>8 DEF HopsBounded
    <3>2. l[i] \in Registry /\ MaxHops[l[i]] \in Nat
      <4>1. l \in Seq(Registry) /\ i \in 1..Len(l)
        BY <2>2, <2>6 DEF Route
      <4>2. l[i] \in Registry
        BY <4>1
      <4> QED BY <4>2, FedAssumption
    <3> QED BY <2>2, <2>3, <2>4, <2>5, <2>6, <3>1, <3>2
  <2> QED BY <2>3, <2>6, <2>7, <2>8
<1> QED BY <1>4, <1>5

(* Every step keeps the bound.                                               *)
LEMMA HopsStep == LegsTyped /\ HopsBounded /\ [Next]_vars => HopsBounded'
<1> SUFFICES ASSUME LegsTyped, HopsBounded, [Next]_vars PROVE HopsBounded'
  OBVIOUS
<1>1. ASSUME KeepsLegs PROVE HopsBounded'
  BY <1>1 DEF KeepsLegs, HopsBounded
<1>2. CASE \E l \in Legs : FanOut(l)
  BY <1>2, HopsFanOut
<1>3. CASE \E l \in Legs : Claim(l) \/ Recheck(l)
  BY <1>1, <1>3, ClaimType
<1>4. CASE \E l \in Legs : Deliver(l) \/ Fail(l) \/ TimeOut(l) \/ Join(l) \/ Cancel(l)
  BY <1>1, <1>4, AnswerType
<1>5. CASE Tick \/ \E r \in Registry : Sweep(r)
  BY <1>1, <1>5, TickType
<1>6. CASE UNCHANGED vars
  BY <1>6 DEF vars, HopsBounded, Legs
<1> QED BY <1>2, <1>3, <1>4, <1>5, <1>6 DEF Next, LegStep

(* The bound on the hops made is part of the bound on hops made and granted.  *)
LEMMA HopsBoundedRespected == LegsTyped /\ HopsBounded => HopsRespected
<1> SUFFICES ASSUME LegsTyped, HopsBounded, NEW l \in Legs, NEW i \in 1..Len(l)
             PROVE  Len(l) - i <= MaxHops[l[i]]
  BY DEF HopsRespected
<1>1. l \in Route /\ Len(l) \in Nat \ {0} /\ legs[l].hops \in Nat
  BY LegType, RouteEnds
<1>2. l[i] \in Registry /\ MaxHops[l[i]] \in Nat
  BY <1>1, FedAssumption DEF Route
<1>3. CASE i = Len(l)
  BY <1>1, <1>2, <1>3
<1>4. CASE i < Len(l)
  <2>1. (Len(l) - i) + legs[l].hops <= MaxHops[l[i]]
    BY <1>4 DEF HopsBounded
  <2> QED BY <1>1, <1>2, <2>1
<1> QED BY <1>1, <1>3, <1>4

(* Whatever hop counts the other registries ask for, a query travels no more   *)
(* hops beyond a registry than that registry's own maximum.                   *)
THEOREM HopsWithinMaximum == Spec => []HopsRespected
BY TypeInit, TypeStep, HopsInit, HopsStep, HopsBoundedRespected, PTL DEF Spec

-----------------------------------------------------------------------------
(* The claim.                                                                *)

(* As long as no row was swept, a registry has a row exactly if it took the    *)
(* query on, once; and a leg that lost the claim lost it to a row, which is   *)
(* still there when it is read back or was swept.                            *)
ClaimsCounted ==
    /\ \A r \in Registry \ swept : handled[r] = IF r \in seen THEN 1 ELSE 0
    /\ \A l \in Legs : legs[l].state = "repeat" => At(l) \in seen \cup swept

(* Initially nobody took the query on.                                       *)
LEMMA ClaimsInit == Init => ClaimsCounted
BY FedAssumption DEF Init, ClaimsCounted, Legs, Leg

(* A step that claims nothing and loses no claim keeps the count.            *)
LEMMA ClaimsKept ==
    ASSUME LegsTyped, ClaimsCounted, UNCHANGED <<seen, handled, swept>>,
           \A l \in Legs' : legs'[l].state = "repeat" =>
               l \in Legs /\ legs[l].state = "repeat"
    PROVE  ClaimsCounted'
BY DEF ClaimsCounted

(* The claim and its second look.                                            *)
LEMMA ClaimsClaim ==
    ASSUME LegsTyped, ClaimsCounted, NEW l \in Legs, Claim(l) \/ Recheck(l)
    PROVE  ClaimsCounted'
<1>1. /\ At(l) \in Registry /\ legs \in [Legs -> LegRecord] /\ Legs' = Legs
      /\ handled \in [Registry -> Nat] /\ UNCHANGED swept
  BY LegType, ClaimType DEF LegsTyped, TypeOK, KeepsLegs, Claim, Recheck
<1>2. CASE Claim(l) /\ At(l) \notin seen
  <2>1. /\ legs' = [legs EXCEPT ![l].state = "search"]
        /\ handled' = [handled EXCEPT ![At(l)] = @ + 1] /\ seen' = seen \cup {At(l)}
    BY <1>2 DEF Claim, TakeOn
  <2>2. \A k \in Legs : legs'[k].state = "repeat" => legs[k].state = "repeat"
    BY <1>1, <2>1 DEF LegRecord
  <2>3. \A r \in Registry \ swept : handled'[r] = IF r \in seen' THEN 1 ELSE 0
    BY <1>1, <1>2, <2>1 DEF ClaimsCounted
  <2> QED BY <1>1, <2>1, <2>2, <2>3 DEF ClaimsCounted
<1>3. CASE Claim(l) /\ At(l) \in seen
  <2>1. legs' = [legs EXCEPT ![l].state = "repeat"] /\ UNCHANGED <<seen, handled>>
    BY <1>3 DEF Claim
  <2>2. \A k \in Legs : legs'[k].state = "repeat" => k = l \/ legs[k].state = "repeat"
    BY <1>1, <2>1 DEF LegRecord
  <2> QED BY <1>1, <1>3, <2>1, <2>2 DEF ClaimsCounted
<1>4. CASE Recheck(l) /\ At(l) \in seen
  <2>1. legs' = [legs EXCEPT ![l].state = "answer"] /\ UNCHANGED <<seen, handled>>
    BY <1>4 DEF Recheck
  <2>2. \A k \in Legs : legs'[k].state = "repeat" => legs[k].state = "repeat"
    BY <1>1, <2>1 DEF LegRecord
  <2> QED BY <1>1, <2>1, <2>2 DEF ClaimsCounted
<1>5. CASE Recheck(l) /\ At(l) \notin seen
  <2>1. /\ legs' = [legs EXCEPT ![l].state = "search"] /\ UNCHANGED seen
        /\ handled' = [handled EXCEPT ![At(l)] = @ + 1] /\ legs[l].state = "repeat"
    BY <1>5 DEF Recheck, TakeOn, Is
  <2>2. At(l) \in swept
    BY <1>5, <2>1 DEF ClaimsCounted
  <2>3. \A k \in Legs : legs'[k].state = "repeat" => legs[k].state = "repeat"
    BY <1>1, <2>1 DEF LegRecord
  <2>4. \A r \in Registry \ swept : handled'[r] = handled[r]
    BY <1>1, <2>1, <2>2
  <2> QED BY <1>1, <2>1, <2>3, <2>4 DEF ClaimsCounted
<1> QED BY <1>2, <1>3, <1>4, <1>5

(* Answers, failures, timeouts and cancellations lose no claim.              *)
LEMMA ClaimsAnswer ==
    ASSUME LegsTyped, ClaimsCounted, NEW l \in Legs,
           Deliver(l) \/ Fail(l) \/ TimeOut(l) \/ Join(l) \/ Cancel(l)
    PROVE  ClaimsCounted'
<1>1. /\ legs \in [Legs -> LegRecord] /\ (l # Root => Front(l) \in Legs) /\ Legs' = Legs
      /\ UNCHANGED <<seen, handled, swept>>
  BY LegType, AnswerType DEF LegsTyped, KeepsLegs, Deliver, Fail, TimeOut, Join, Cancel
<1>2. \A k \in Legs : legs'[k].state = "repeat" => legs[k].state = "repeat"
  <2>1. CASE Deliver(l) /\ l = Root
    <3>1. legs' = [legs EXCEPT ![l].heard = "done"]
      BY <2>1 DEF Deliver
    <3> QED BY <1>1, <3>1 DEF LegRecord
  <2>2. CASE Deliver(l) /\ l # Root
    <3> DEFINE mid == [legs EXCEPT ![l].heard = "done"]
               next == [mid EXCEPT ![Front(l)].covers = @ \cup legs[l].covers]
               last == [next EXCEPT ![Front(l)].partial = @ \/ legs[l].partial]
    <3>1. legs' = last
      BY <2>2 DEF Deliver
    <3>2. /\ Front(l) \in Legs
          /\ legs[l].covers \in SUBSET Registry /\ legs[l].partial \in BOOLEAN
      BY <1>1, <2>2, LegType
    <3>3. mid \in [Legs -> LegRecord] /\ \A k \in Legs : mid[k].state = legs[k].state
      BY <1>1 DEF LegRecord
    <3> HIDE DEF mid
    <3>4. next \in [Legs -> LegRecord] /\ \A k \in Legs : next[k].state = mid[k].state
      BY <3>2, <3>3 DEF LegRecord
    <3> HIDE DEF next
    <3>5. \A k \in Legs : last[k].state = next[k].state
      BY <3>2, <3>4 DEF LegRecord
    <3> HIDE DEF last
    <3> QED BY <3>1, <3>3, <3>4, <3>5
  <2>3. CASE Fail(l) \/ TimeOut(l) \/ Cancel(l)
    <3>1. \E gone : \E u \in Legs :
             \/ legs' = [GiveUpOn(legs, gone) EXCEPT ![u].partial = TRUE]
             \/ legs' = [GiveUpOn(legs, gone) EXCEPT ![u].state = "cancelled"]
      <4>1. CASE Fail(l)
        BY <1>1, <4>1 DEF Fail
      <4>2. CASE TimeOut(l)
        BY <4>2 DEF TimeOut
      <4>3. CASE Cancel(l)
        BY <4>3 DEF Cancel
      <4> QED BY <2>3, <4>1, <4>2, <4>3
    <3>2. PICK gone : \E u \in Legs :
             \/ legs' = [GiveUpOn(legs, gone) EXCEPT ![u].partial = TRUE]
             \/ legs' = [GiveUpOn(legs, gone) EXCEPT ![u].state = "cancelled"]
      BY <3>1
    <3> DEFINE given == GiveUpOn(legs, gone)
    <3>3. given \in [Legs -> LegRecord] /\ \A k \in Legs : given[k].state = legs[k].state
      BY GiveUpType
    <3>4. PICK u \in Legs : \/ legs' = [given EXCEPT ![u].partial = TRUE]
                            \/ legs' = [given EXCEPT ![u].state = "cancelled"]
      BY <3>2
    <3> HIDE DEF given
    <3>5. CASE legs' = [given EXCEPT ![u].partial = TRUE]
      BY <3>3, <3>5 DEF LegRecord
    <3>6. CASE legs' = [given EXCEPT ![u].state = "cancelled"]
      BY <3>3, <3>6 DEF LegRecord
    <3> QED BY <3>4, <3>5, <3>6
  <2>4. CASE Join(l)
    BY <1>1, <2>4 DEF Join, LegRecord
  <2> QED BY <2>1, <2>2, <2>3, <2>4
<1> QED BY <1>1, <1>2, ClaimsKept

(* A fan-out and the passing of time lose no claim either.                   *)
LEMMA ClaimsFanOut ==
    ASSUME LegsTyped, ClaimsCounted, (\E l \in Legs : FanOut(l)) \/ Tick
    PROVE  ClaimsCounted'
<1>1. UNCHANGED <<seen, handled, swept>>
  BY DEF FanOut, Tick
<1>2. \A k \in Legs' : legs'[k].state = "repeat" => k \in Legs /\ legs[k].state = "repeat"
  <2>1. CASE \E l \in Legs : FanOut(l)
    <3>1. PICK l \in Legs : FanOut(l)
      BY <2>1
    <3>2. PICK asked \in SUBSET Registry, mine \in LegRecord, new \in LegRecord :
              Fanned(l, asked, mine, new)
      BY <3>1, FanOutLegs
    <3>3. /\ legs' = [k \in Legs \cup {Append(l, p) : p \in asked} |->
                        IF k = l THEN mine ELSE IF k \in Legs THEN legs[k] ELSE new]
          /\ mine.state # "repeat" /\ new.state # "repeat"
      BY <3>2 DEF Fanned
    <3> QED BY <3>3 DEF Legs
  <2>2. CASE Tick
    <3>1. legs \in [Legs -> LegRecord]
      BY DEF LegsTyped
    <3>2. Legs' = Legs
      BY <2>2, TickType DEF KeepsLegs
    <3> SUFFICES ASSUME NEW k \in Legs PROVE legs'[k].state = legs[k].state
      BY <3>2
    <3>3. CASE Busy(k)
      BY <2>2, <3>1, <3>3 DEF Tick, LegRecord
    <3>4. CASE ~Busy(k)
      BY <2>2, <3>1, <3>4 DEF Tick, LegRecord
    <3> QED BY <3>3, <3>4
  <2> QED BY <2>1, <2>2
<1> QED BY <1>1, <1>2, ClaimsKept

(* Every step keeps the count.                                               *)
LEMMA ClaimsStep == LegsTyped /\ ClaimsCounted /\ [Next]_vars => ClaimsCounted'
<1> SUFFICES ASSUME LegsTyped, ClaimsCounted, [Next]_vars PROVE ClaimsCounted'
  OBVIOUS
<1>1. CASE \E l \in Legs : Claim(l) \/ Recheck(l)
  BY <1>1, ClaimsClaim
<1>2. CASE (\E l \in Legs : FanOut(l)) \/ Tick
  BY <1>2, ClaimsFanOut
<1>3. CASE \E l \in Legs : Deliver(l) \/ Fail(l) \/ TimeOut(l) \/ Join(l) \/ Cancel(l)
  BY <1>3, ClaimsAnswer
<1>4. CASE \E r \in Registry : Sweep(r)
  BY <1>4 DEF Sweep, ClaimsCounted, Legs
<1>5. CASE UNCHANGED vars
  BY <1>5 DEF ClaimsCounted, vars, Legs
<1> QED BY <1>1, <1>2, <1>3, <1>4, <1>5 DEF Next, LegStep

(* However many legs of one query reach a registry at once, it takes the      *)
(* query on at most once, as long as nothing sweeps its row.                 *)
THEOREM HandledAtMostOnce == Spec => []HandledOnce
<1>1. LegsTyped /\ ClaimsCounted => HandledOnce
  BY DEF ClaimsCounted, HandledOnce
<1> QED BY <1>1, TypeInit, TypeStep, ClaimsInit, ClaimsStep, PTL DEF Spec

-----------------------------------------------------------------------------
(* What a refusal leaves out is in the answer on another path.               *)

(* Every leg starts at the origin.                                           *)
FromOrigin == \A l \in Legs : l[1] = Origin

(* A leg whose answer can still reach the origin: it and every leg before it   *)
(* but the first is waited for.                                              *)
Prefix(l, i) == SubSeq(l, 1, i)
Live(l) == \A i \in 2..Len(l) : Prefix(l, i) \in Legs /\ legs[Prefix(l, i)].heard = "pending"

(* Only a handler that waits is waited on; one that has not asked anybody has  *)
(* no hits and nothing missing; the origin answers last.                      *)
WaitInv ==
    /\ \A l \in Legs \ {Root} : legs[l].heard = "pending" => legs[Front(l)].state = "wait"
    /\ \A l \in Legs : legs[l].state \in {"sent", "repeat", "search"} =>
                          legs[l].covers = {} /\ ~legs[l].partial
    /\ legs[Root].heard # "gone"
    /\ legs[Root].heard = "done" => legs[Root].state = "answer"

(* An answer that will say that it is partial is on its way to the origin.     *)
SomePartial == \E l \in Legs : Live(l) /\ legs[l].partial

(* ... and so are the records of r.                                          *)
SomeCover(r) ==
    \E l \in Legs : Live(l) /\ (r \in legs[l].covers \/ (At(l) = r /\ legs[l].state = "search"))

(* Either what a registry has is on its way to the origin, or the word that    *)
(* something is missing; and that for every leg that may still take on.        *)
CoverInv ==
    /\ \A r \in Registry : handled[r] > 0 => SomePartial \/ SomeCover(r)
    /\ \A l \in Legs : legs[l].state \in {"sent", "repeat", "search"} => Live(l) \/ SomePartial

(* A prefix of a route is a route, and prefixes of it are prefixes of the route. *)
LEMMA PrefixRoute ==
    ASSUME NEW l \in Route, NEW i \in 1..Len(l)
    PROVE  /\ Prefix(l, i) \in Route /\ Len(Prefix(l, i)) = i
           /\ \A j \in 1..i : Prefix(l, i)[j] = l[j] /\ Prefix(Prefix(l, i), j) = Prefix(l, j)
<1>1. l \in Seq(Registry) /\ Len(l) \in Nat /\ i \in Nat /\ 1 <= i /\ i <= Len(l)
  BY DEF Route
<1>2. /\ Prefix(l, i) \in Seq(Registry) /\ Len(Prefix(l, i)) = i
      /\ \A j \in 1..i : Prefix(l, i)[j] = l[j]
  BY <1>1 DEF Prefix
<1>3. Prefix(l, i) # <<>>
  BY <1>1, <1>2
<1>4. ASSUME NEW j \in 1..i PROVE Prefix(Prefix(l, i), j) = Prefix(l, j)
  <2> DEFINE p == Prefix(l, i)
  <2> HIDE DEF p
  <2>1. /\ p \in Seq(Registry) /\ Len(p) = i /\ j \in Nat /\ 1 <= j /\ j <= i
        /\ \A n \in 1..i : p[n] = l[n]
    BY <1>1, <1>2 DEF p
  <2>2. /\ SubSeq(p, 1, j) \in Seq(Registry) /\ SubSeq(l, 1, j) \in Seq(Registry)
        /\ Len(SubSeq(p, 1, j)) = j /\ Len(SubSeq(l, 1, j)) = j
        /\ \A n \in 1..j : SubSeq(p, 1, j)[n] = SubSeq(l, 1, j)[n]
    BY <1>1, <2>1
  <2>3. SubSeq(p, 1, j) = SubSeq(l, 1, j)
    BY <2>1, <2>2
  <2> QED BY <2>3 DEF p, Prefix
<1> QED BY <1>2, <1>3, <1>4 DEF Route

(* The longest prefix of a route is the route.                               *)
LEMMA PrefixWhole ==
    ASSUME NEW l \in Route
    PROVE  Len(l) \in 1..Len(l) /\ Prefix(l, Len(l)) = l
BY DEF Route, Prefix

(* The caller of a prefix is the prefix before it.                           *)
LEMMA PrefixFront ==
    ASSUME NEW l \in Route, NEW i \in 2..Len(l)
    PROVE  /\ i \in 1..Len(l) /\ i - 1 \in 1..Len(l)
           /\ Front(Prefix(l, i)) = Prefix(l, i - 1)
<1>1. l \in Seq(Registry) /\ Len(l) \in Nat /\ i \in 1..Len(l) /\ i - 1 \in 1..i
  BY DEF Route
<1>2. Len(Prefix(l, i)) = i /\ Prefix(Prefix(l, i), i - 1) = Prefix(l, i - 1)
  BY <1>1, PrefixRoute
<1>3. Front(Prefix(l, i)) = SubSeq(Prefix(l, i), 1, i - 1)
  BY <1>2 DEF Front
<1> QED BY <1>1, <1>2, <1>3 DEF Prefix

(* The prefixes of an extended route.                                        *)
LEMMA PrefixExtends ==
    ASSUME NEW l \in Route, NEW p \in Registry, NEW i \in 1..(Len(l) + 1)
    PROVE  IF i = Len(l) + 1 THEN Prefix(Append(l, p), i) = Append(l, p)
                             ELSE i \in 1..Len(l) /\ Prefix(Append(l, p), i) = Prefix(l, i)
<1> DEFINE k == Append(l, p)
<1>1. k \in Route /\ Len(k) = Len(l) + 1 /\ \A j \in 1..Len(l) : k[j] = l[j]
  BY RouteExtends
<1>2. l \in Seq(Registry) /\ Len(l) \in Nat /\ k \in Seq(Registry)
  BY <1>1 DEF Route
<1> HIDE DEF k
<1>3. CASE i = Len(l) + 1
  BY <1>1, <1>3, PrefixWhole DEF k
<1>4. CASE i # Len(l) + 1
  <2>1. i \in 1..Len(l) /\ i \in 1..Len(k)
    BY <1>1, <1>2, <1>4
  <2>2. /\ SubSeq(k, 1, i) \in Seq(Registry) /\ SubSeq(l, 1, i) \in Seq(Registry)
        /\ Len(SubSeq(k, 1, i)) = i /\ Len(SubSeq(l, 1, i)) = i
        /\ \A n \in 1..i : SubSeq(k, 1, i)[n] = SubSeq(l, 1, i)[n]
    BY <1>1, <1>2, <2>1
  <2>3. SubSeq(k, 1, i) = SubSeq(l, 1, i)
    BY <2>1, <2>2
  <2> QED BY <1>4, <2>1, <2>3 DEF Prefix, k
<1> QED BY <1>3, <1>4

(* A leg other than the first has a caller one registry nearer.              *)
LEMMA Nearer ==
    ASSUME LegsTyped, FromOrigin, NEW l \in Legs, l # Root
    PROVE  /\ Len(l) \in Nat /\ Len(l) >= 2 /\ Front(l) \in Legs
           /\ Len(l) = Len(Front(l)) + 1 /\ Front(l) = Prefix(l, Len(l) - 1)
           /\ l \in Children(Front(l))
<1>1. l \in Route /\ l \in Seq(Registry) /\ Len(l) \in Nat \ {0} /\ l[1] = Origin
      /\ Front(l) \in Legs
  BY LegType, RouteEnds DEF FromOrigin, Route
<1>2. Len(l) # 1
  <2> SUFFICES ASSUME Len(l) = 1 PROVE FALSE
    OBVIOUS
  <2>1. l = <<Origin>>
    BY <1>1, FedAssumption
  <2> QED BY <2>1 DEF Root
<1>3. Len(l) >= 2 /\ Len(l) \in 2..Len(l) /\ Len(l) - 1 \in 1..Len(l)
  <2> DEFINE n == Len(l)
  <2>1. n \in Nat /\ n # 0 /\ n # 1
    BY <1>1, <1>2
  <2> HIDE DEF n
  <2>2. n >= 2 /\ n \in 2..n /\ n - 1 \in 1..n
    BY <2>1
  <2> QED BY <2>2 DEF n
<1>4. Front(l) = Prefix(l, Len(l) - 1) /\ Len(Front(l)) = Len(l) - 1
  BY <1>1, <1>3, PrefixFront, PrefixWhole, PrefixRoute
<1> QED BY <1>1, <1>3, <1>4 DEF Children

(* The first leg's answer always reaches the origin's user.                  *)
LEMMA LiveRoot == Live(Root)
<1>1. Len(Root) = 1
  BY DEF Root
<1> QED BY <1>1 DEF Live

(* What is before a live leg is live.                                        *)
LEMMA LiveUp ==
    ASSUME LegsTyped, NEW l \in Legs, Live(l), NEW i \in 1..Len(l)
    PROVE  Live(Prefix(l, i))
<1>1. l \in Route /\ Len(l) \in Nat /\ i \in Nat /\ i <= Len(l)
  BY LegType, RouteEnds
<1>2. Len(Prefix(l, i)) = i
  BY <1>1, PrefixRoute
<1> SUFFICES ASSUME NEW j \in 2..i
             PROVE  Prefix(Prefix(l, i), j) \in Legs /\ legs[Prefix(Prefix(l, i), j)].heard = "pending"
  BY <1>2 DEF Live
<1>3. j \in 1..i /\ j \in 2..Len(l)
  BY <1>1
<1>4. Prefix(Prefix(l, i), j) = Prefix(l, j)
  BY <1>1, <1>3, PrefixRoute
<1> QED BY <1>3, <1>4 DEF Live

(* A live leg other than the first is waited for.                            *)
LEMMA LivePending ==
    ASSUME LegsTyped, FromOrigin, NEW l \in Legs, l # Root, Live(l)
    PROVE  legs[l].heard = "pending" /\ Live(Front(l))
<1>1. /\ Len(l) \in Nat /\ Len(l) >= 2 /\ Front(l) = Prefix(l, Len(l) - 1) /\ l \in Route
  BY Nearer, LegType
<1>2. Len(l) \in 2..Len(l) /\ Len(l) - 1 \in 1..Len(l) /\ Prefix(l, Len(l)) = l
  BY <1>1, PrefixWhole
<1>3. legs[l].heard = "pending"
  BY <1>2 DEF Live
<1> QED BY <1>1, <1>2, <1>3, LiveUp

(* A step that leaves the prefixes of a live leg waited for leaves it live.  *)
LEMMA LiveKept ==
    ASSUME NEW l, Live(l),
           \A i \in 2..Len(l) : /\ Prefix(l, i) \in Legs'
                                /\ legs'[Prefix(l, i)].heard = "pending"
    PROVE  Live(l)'
BY DEF Live, Prefix

(***************************************************************************)
(* What each step changes of what a leg carries.                           *)
(***************************************************************************)
(* The handlers that have not put an answer together yet.                    *)
Open == {"sent", "repeat", "search"}

(* The legs were sent with the same terms and have the same time left.         *)
SameTimes(f, g) ==
    \A k \in DOMAIN f : /\ g[k].hops = f[k].hops /\ g[k].budget = f[k].budget
                        /\ g[k].slack = f[k].slack /\ g[k].left = f[k].left

(* A step on which nobody hears anything: at most a handler moves on.         *)
CalmLeg(k) ==
    /\ legs'[k].heard = legs[k].heard
    /\ legs'[k].covers = legs[k].covers /\ legs'[k].partial = legs[k].partial
    /\ legs'[k].state \in Open => legs[k].state \in Open
    /\ legs[k].state = "search" => legs'[k].state = "search"
    /\ legs[k].state = "answer" => legs'[k].state = "answer"
    /\ legs'[k].state = "wait" => legs[k].state = "wait"
    /\ legs[k].state = "wait" => legs'[k].state = "wait" \/ PendingChildren(k) = {}

Calm ==
    /\ Legs' = Legs
    /\ \A k \in Legs : CalmLeg(k)
    /\ \A r \in Registry : handled'[r] > 0 =>
          \/ handled[r] > 0
          \/ \E k \in Legs : At(k) = r /\ legs[k].state \in Open /\ legs'[k].state = "search"

(* Moving one handler on.                                                    *)
LEMMA MovedOn ==
    ASSUME LegsTyped, NEW l \in Legs, NEW st \in {"repeat", "search", "answer"},
           legs' = [legs EXCEPT ![l].state = st]
    PROVE  /\ Legs' = Legs /\ SameTimes(legs, legs')
           /\ \A k \in Legs :
                /\ legs'[k].heard = legs[k].heard
                /\ legs'[k].covers = legs[k].covers /\ legs'[k].partial = legs[k].partial
                /\ legs'[k].state = IF k = l THEN st ELSE legs[k].state
<1>1. legs \in [Legs -> LegRecord]
  BY DEF LegsTyped
<1>2. \A k \in Legs :
         /\ legs'[k].heard = legs[k].heard
         /\ legs'[k].covers = legs[k].covers /\ legs'[k].partial = legs[k].partial
         /\ legs'[k].state = IF k = l THEN st ELSE legs[k].state
  BY <1>1 DEF LegRecord
<1>3. Legs' = Legs
  BY <1>1 DEF Legs
<1>4. SameTimes(legs, legs')
  BY <1>1 DEF LegRecord, SameTimes
<1> QED BY <1>2, <1>3, <1>4

(* The claim and its second look.                                            *)
LEMMA CalmClaim ==
    ASSUME LegsTyped, NEW l \in Legs, Claim(l) \/ Recheck(l)
    PROVE  Calm
<1>1. At(l) \in Registry /\ handled \in [Registry -> Nat]
  BY LegType DEF LegsTyped, TypeOK
<1>2. PICK st \in {"repeat", "search", "answer"} :
         /\ legs' = [legs EXCEPT ![l].state = st]
         /\ legs[l].state \in {"sent", "repeat"}
         /\ \/ UNCHANGED handled
            \/ st = "search" /\ handled' = [handled EXCEPT ![At(l)] = @ + 1]
  BY DEF Claim, Recheck, TakeOn, Is
<1>3. /\ Legs' = Legs
      /\ \A k \in Legs :
           /\ legs'[k].heard = legs[k].heard
           /\ legs'[k].covers = legs[k].covers /\ legs'[k].partial = legs[k].partial
           /\ legs'[k].state = IF k = l THEN st ELSE legs[k].state
  <2>1. legs' = [legs EXCEPT ![l].state = st]
    BY <1>2
  <2> QED BY <2>1, MovedOn
<1>5. \A k \in Legs : CalmLeg(k)
  BY <1>2, <1>3 DEF CalmLeg, Open
<1>4. ASSUME NEW r \in Registry, handled'[r] > 0, ~(handled[r] > 0)
      PROVE  \E k \in Legs : At(k) = r /\ legs[k].state \in Open /\ legs'[k].state = "search"
  <2>1. st = "search" /\ handled' = [handled EXCEPT ![At(l)] = @ + 1]
    BY <1>2, <1>4
  <2>2. r = At(l)
    BY <1>1, <1>4, <2>1
  <2>3. legs'[l].state = "search" /\ legs[l].state \in Open
    BY <1>2, <1>3, <2>1 DEF Open
  <2> QED BY <2>2, <2>3
<1> QED BY <1>3, <1>4, <1>5 DEF Calm

(* The other calm steps.                                                     *)
LEMMA CalmOther ==
    ASSUME LegsTyped,
           \/ \E l \in Legs : Join(l)
           \/ \E r \in Registry : Sweep(r)
           \/ Tick
           \/ UNCHANGED vars
    PROVE  Calm
<1>1. UNCHANGED handled
  BY DEF Join, Sweep, Tick, vars
<1>2. Legs' = Legs /\ \A k \in Legs : CalmLeg(k)
  <2>1. CASE \E l \in Legs : Join(l)
    <3>1. PICK l \in Legs : Join(l)
      BY <2>1
    <3>2. /\ legs' = [legs EXCEPT ![l].state = "answer"]
          /\ legs[l].state = "wait" /\ PendingChildren(l) = {}
      BY <3>1 DEF Join, Is
    <3>3. /\ Legs' = Legs
          /\ \A k \in Legs :
               /\ legs'[k].heard = legs[k].heard
               /\ legs'[k].covers = legs[k].covers /\ legs'[k].partial = legs[k].partial
               /\ legs'[k].state = IF k = l THEN "answer" ELSE legs[k].state
      BY <3>2, MovedOn
    <3> QED BY <3>2, <3>3 DEF CalmLeg, Open
  <2>2. CASE (\E r \in Registry : Sweep(r)) \/ UNCHANGED vars
    <3>1. UNCHANGED legs
      BY <2>2 DEF Sweep, vars
    <3> QED BY <3>1 DEF CalmLeg, Legs
  <2>3. CASE Tick
    <3>1. legs \in [Legs -> LegRecord] /\ Legs' = Legs
      BY <2>3, TickType DEF LegsTyped, KeepsLegs
    <3>2. ASSUME NEW k \in Legs
          PROVE  /\ legs'[k].heard = legs[k].heard /\ legs'[k].state = legs[k].state
                 /\ legs'[k].covers = legs[k].covers /\ legs'[k].partial = legs[k].partial
      <4>1. CASE Busy(k)
        BY <2>3, <3>1, <3>2, <4>1 DEF Tick, LegRecord
      <4>2. CASE ~Busy(k)
        BY <2>3, <3>1, <3>2, <4>2 DEF Tick, LegRecord
      <4> QED BY <4>1, <4>2
    <3> QED BY <3>1, <3>2 DEF CalmLeg
  <2> QED BY <2>1, <2>2, <2>3
<1> QED BY <1>1, <1>2 DEF Calm

(* A calm step keeps a live leg live, and what it carries.                    *)
LEMMA CalmLive ==
    ASSUME LegsTyped, Calm, NEW l \in Legs, Live(l)
    PROVE  Live(l)'
<1>1. \A i \in 2..Len(l) : Prefix(l, i) \in Legs' /\ legs'[Prefix(l, i)].heard = "pending"
  BY DEF Calm, CalmLeg, Live
<1> QED BY <1>1, LiveKept

(* Those who wait go on waiting for as long as somebody is waited for.         *)
LEMMA CalmWait ==
    ASSUME LegsTyped, FromOrigin, WaitInv, Calm
    PROVE  WaitInv'
<1>1. Legs' = Legs /\ \A k \in Legs : CalmLeg(k)
  BY DEF Calm
<1>2. ASSUME NEW l \in Legs' \ {Root}, legs'[l].heard = "pending"
      PROVE  legs'[Front(l)].state = "wait"
  <2>1. l \in Legs /\ Front(l) \in Legs /\ l \in Children(Front(l)) /\ legs[l].heard = "pending"
    BY <1>1, <1>2, Nearer DEF CalmLeg
  <2>2. legs[Front(l)].state = "wait" /\ l \in PendingChildren(Front(l))
    BY <1>2, <2>1 DEF WaitInv, PendingChildren
  <2> QED BY <1>1, <2>1, <2>2 DEF CalmLeg
<1>3. ASSUME NEW l \in Legs', legs'[l].state \in {"sent", "repeat", "search"}
      PROVE  legs'[l].covers = {} /\ ~legs'[l].partial
  <2>1. l \in Legs /\ legs[l].state \in {"sent", "repeat", "search"}
    BY <1>1, <1>3 DEF CalmLeg, Open
  <2>2. legs[l].covers = {} /\ ~legs[l].partial
    BY <2>1 DEF WaitInv
  <2> QED BY <1>1, <2>1, <2>2 DEF CalmLeg
<1>4. legs'[Root].heard # "gone" /\ (legs'[Root].heard = "done" => legs'[Root].state = "answer")
  BY <1>1 DEF WaitInv, CalmLeg, LegsTyped, TypeOK
<1>5. Root' = Root
  BY DEF Root
<1> QED BY <1>2, <1>3, <1>4, <1>5 DEF WaitInv

(* A calm step loses nothing that is on its way.                             *)
LEMMA CalmCover ==
    ASSUME LegsTyped, Calm, CoverInv
    PROVE  CoverInv'
<1>1. Legs' = Legs /\ \A k \in Legs : CalmLeg(k)
  BY DEF Calm
<1>2. SomePartial => SomePartial'
  <2> SUFFICES ASSUME SomePartial PROVE SomePartial'
    OBVIOUS
  <2>1. PICK l \in Legs : Live(l) /\ legs[l].partial
    BY DEF SomePartial
  <2>2. Live(l)' /\ legs'[l].partial /\ l \in Legs'
    BY <1>1, <2>1, CalmLive DEF CalmLeg
  <2> QED BY <2>2 DEF SomePartial
<1>3. ASSUME NEW r \in Registry, SomeCover(r) PROVE SomeCover(r)'
  <2>1. PICK l \in Legs : Live(l) /\ (r \in legs[l].covers \/ (At(l) = r /\ legs[l].state = "search"))
    BY <1>3 DEF SomeCover
  <2>2. Live(l)' /\ l \in Legs' /\ (r \in legs'[l].covers \/ (At(l) = r /\ legs'[l].state = "search"))
    BY <1>1, <2>1, CalmLive DEF CalmLeg
  <2> QED BY <2>2 DEF SomeCover, At
<1>4. ASSUME NEW l \in Legs', legs'[l].state \in Open PROVE Live(l)' \/ SomePartial'
  <2>1. l \in Legs /\ legs[l].state \in {"sent", "repeat", "search"}
    BY <1>1, <1>4 DEF CalmLeg, Open
  <2>2. Live(l) \/ SomePartial
    BY <2>1 DEF CoverInv
  <2> QED BY <1>2, <2>1, <2>2, CalmLive
<1>5. ASSUME NEW r \in Registry, handled'[r] > 0 PROVE SomePartial' \/ SomeCover(r)'
  <2>1. CASE handled[r] > 0
    BY <1>2, <1>3, <2>1 DEF CoverInv
  <2>2. CASE \E k \in Legs : At(k) = r /\ legs[k].state \in Open /\ legs'[k].state = "search"
    <3>1. PICK k \in Legs : At(k) = r /\ legs[k].state \in Open /\ legs'[k].state = "search"
      BY <2>2
    <3>2. Live(k)' \/ SomePartial'
      BY <1>1, <1>4, <3>1 DEF Open
    <3> QED BY <1>1, <3>1, <3>2 DEF SomeCover, At
  <2> QED BY <1>5, <2>1, <2>2 DEF Calm
<1> QED BY <1>4, <1>5 DEF CoverInv, Open

(***************************************************************************)
(* A fan-out.                                                              *)
(***************************************************************************)
(* The searching handler has its own hits now, and waits for the peers it     *)
(* asked; the others are left alone.                                         *)
Asks(l, asked) ==
    /\ legs[l].state = "search"
    /\ Legs' = Legs \cup {Append(l, p) : p \in asked}
    /\ \A k \in Legs \ {l} : legs'[k] = legs[k]
    /\ legs'[l].heard = legs[l].heard /\ legs'[l].covers = {At(l)}
    /\ legs'[l].state \in {"wait", "answer"}
    /\ asked # {} => legs'[l].state = "wait"
    /\ \A k \in Legs' \ Legs : /\ legs'[k].state = "sent" /\ legs'[k].heard = "pending"
                               /\ legs'[k].covers = {} /\ ~legs'[k].partial
    /\ UNCHANGED handled

LEMMA FanOutAsks ==
    ASSUME LegsTyped, NEW l \in Legs, FanOut(l)
    PROVE  \E asked \in SUBSET Registry : Asks(l, asked)
<1>1. PICK asked \in SUBSET Registry, mine \in LegRecord, new \in LegRecord :
          Fanned(l, asked, mine, new)
  BY FanOutLegs
<1>2. /\ legs' = [k \in Legs \cup {Append(l, p) : p \in asked} |->
                    IF k = l THEN mine ELSE IF k \in Legs THEN legs[k] ELSE new]
      /\ new.state = "sent" /\ new.heard = "pending" /\ new.covers = {} /\ ~new.partial
      /\ mine.state \in {"wait", "answer"} /\ (asked # {} => mine.state = "wait")
      /\ mine.heard = legs[l].heard /\ mine.covers = {At(l)}
  BY <1>1 DEF Fanned
<1>3. Legs' = Legs \cup {Append(l, p) : p \in asked}
  BY <1>2 DEF Legs
<1>4. legs'[l] = mine /\ (\A k \in Legs \ {l} : legs'[k] = legs[k])
      /\ \A k \in Legs' \ Legs : legs'[k] = new
  BY <1>2, <1>3
<1>5. legs[l].state = "search" /\ UNCHANGED handled
  BY DEF FanOut, Is
<1>6. Asks(l, asked)
  BY <1>2, <1>3, <1>4, <1>5 DEF Asks
<1> QED BY <1>6

(* The new legs are those of the peers asked.                                *)
LEMMA AsksNew ==
    ASSUME LegsTyped, NEW l \in Legs, NEW asked \in SUBSET Registry, Asks(l, asked),
           NEW k \in Legs', k \notin Legs
    PROVE  /\ \E p \in asked : k = Append(l, p)
           /\ k \in Route /\ Front(k) = l /\ k # Root /\ k[1] = l[1]
           /\ legs'[l].state = "wait"
<1>1. PICK p \in asked : k = Append(l, p)
  BY DEF Asks
<1>2. l \in Route /\ p \in Registry /\ 1 \in 1..Len(l)
  BY LegType, RouteEnds
<1>3. k \in Route /\ Front(k) = l /\ k # Root /\ k[1] = l[1]
  BY <1>1, <1>2, RouteExtends
<1>4. legs'[l].state = "wait"
  BY <1>1 DEF Asks
<1> QED BY <1>1, <1>3, <1>4

(* A live leg stays live, and the legs it sends are live.                    *)
LEMMA AsksLive ==
    ASSUME LegsTyped, NEW l \in Legs, NEW asked \in SUBSET Registry, Asks(l, asked)
    PROVE  /\ \A k \in Legs : Live(k) => Live(k)'
           /\ \A k \in Legs' \ Legs : Live(l) => Live(k)'
<1>1. Legs \subseteq Legs' /\ \A k \in Legs : legs'[k].heard = legs[k].heard
  BY DEF Asks
<1>2. ASSUME NEW k \in Legs, Live(k) PROVE Live(k)'
  <2>1. \A i \in 2..Len(k) : Prefix(k, i) \in Legs' /\ legs'[Prefix(k, i)].heard = "pending"
    BY <1>1, <1>2 DEF Live
  <2> QED BY <1>2, <2>1, LiveKept
<1>3. ASSUME NEW k \in Legs', k \notin Legs, Live(l) PROVE Live(k)'
  <2>1. PICK p \in asked : k = Append(l, p)
    BY <1>3, AsksNew
  <2>2. l \in Route /\ Len(l) \in Nat /\ p \in Registry /\ Len(k) = Len(l) + 1
    BY <2>1, LegType, RouteEnds, RouteExtends
  <2>3. ASSUME NEW i \in 2..Len(k)
        PROVE  Prefix(k, i) \in Legs' /\ legs'[Prefix(k, i)].heard = "pending"
    <3>1. i \in 1..(Len(l) + 1) /\ (i # Len(l) + 1 => i \in 2..Len(l))
      BY <2>2, <2>3
    <3>2. CASE i = Len(l) + 1
      <4>1. Prefix(k, i) = k
        BY <2>1, <2>2, <3>1, <3>2, PrefixExtends
      <4> QED BY <1>3, <4>1 DEF Asks
    <3>3. CASE i # Len(l) + 1
      <4>1. Prefix(k, i) = Prefix(l, i) /\ i \in 2..Len(l)
        BY <2>1, <2>2, <3>1, <3>3, PrefixExtends
      <4>2. Prefix(l, i) \in Legs /\ legs[Prefix(l, i)].heard = "pending"
        BY <1>3, <4>1 DEF Live
      <4> QED BY <1>1, <4>1, <4>2
    <3> QED BY <3>2, <3>3
  <2> QED BY <2>3 DEF Live, Prefix
<1> QED BY <1>2, <1>3

(* A fan-out keeps who waits for whom.                                       *)
LEMMA AsksWait ==
    ASSUME LegsTyped, FromOrigin, WaitInv,
           NEW l \in Legs, NEW asked \in SUBSET Registry, Asks(l, asked)
    PROVE  FromOrigin' /\ WaitInv'
<1>1. Legs \subseteq Legs' /\ legs[l].state = "search" /\ \A k \in Legs \ {l} : legs'[k] = legs[k]
  BY DEF Asks
<1>2. \A k \in Legs' : k[1] = Origin
  BY AsksNew DEF FromOrigin
<1>3. ASSUME NEW k \in Legs' \ {Root}, legs'[k].heard = "pending"
      PROVE  legs'[Front(k)].state = "wait"
  <2>1. CASE k \in Legs
    <3>1. legs[k].heard = "pending" /\ Front(k) \in Legs
      BY <1>3, <2>1, LegType DEF Asks
    <3>2. legs[Front(k)].state = "wait"
      BY <1>3, <2>1, <3>1 DEF WaitInv
    <3> QED BY <1>1, <3>1, <3>2
  <2>2. CASE k \notin Legs
    BY <2>2, AsksNew
  <2> QED BY <2>1, <2>2
<1>4. ASSUME NEW k \in Legs', legs'[k].state \in {"sent", "repeat", "search"}
      PROVE  legs'[k].covers = {} /\ ~legs'[k].partial
  <2>1. CASE k \in Legs
    <3>1. k # l
      BY <1>4 DEF Asks
    <3> QED BY <1>1, <1>4, <2>1, <3>1 DEF WaitInv
  <2>2. CASE k \notin Legs
    BY <2>2 DEF Asks
  <2> QED BY <2>1, <2>2
<1>5. legs'[Root].heard # "gone" /\ (legs'[Root].heard = "done" => legs'[Root].state = "answer")
  <2>1. Root \in Legs /\ legs'[Root].heard = legs[Root].heard
    BY DEF LegsTyped, TypeOK, Asks
  <2> QED BY <1>1, <2>1 DEF WaitInv
<1>6. Root' = Root
  BY DEF Root
<1> QED BY <1>2, <1>3, <1>4, <1>5, <1>6 DEF WaitInv, FromOrigin

(* ... and what is on its way.                                               *)
LEMMA AsksCover ==
    ASSUME LegsTyped, WaitInv, CoverInv,
           NEW l \in Legs, NEW asked \in SUBSET Registry, Asks(l, asked)
    PROVE  CoverInv'
<1>1. Legs \subseteq Legs' /\ legs[l].state = "search" /\ \A k \in Legs \ {l} : legs'[k] = legs[k]
  BY DEF Asks
<1>2. legs[l].covers = {} /\ ~legs[l].partial
  BY <1>1 DEF WaitInv
<1>3. SomePartial => SomePartial'
  <2> SUFFICES ASSUME SomePartial PROVE SomePartial'
    OBVIOUS
  <2>1. PICK k \in Legs : Live(k) /\ legs[k].partial
    BY DEF SomePartial
  <2>2. Live(k)' /\ legs'[k].partial /\ k \in Legs'
    BY <1>1, <1>2, <2>1, AsksLive
  <2> QED BY <2>2 DEF SomePartial
<1>4. ASSUME NEW r \in Registry, SomeCover(r) PROVE SomeCover(r)'
  <2>1. PICK k \in Legs : Live(k) /\ (r \in legs[k].covers \/ (At(k) = r /\ legs[k].state = "search"))
    BY <1>4 DEF SomeCover
  <2>2. Live(k)' /\ k \in Legs'
    BY <1>1, <2>1, AsksLive
  <2>3. r \in legs'[k].covers \/ (At(k) = r /\ legs'[k].state = "search")
    BY <1>1, <1>2, <2>1 DEF Asks
  <2> QED BY <2>2, <2>3 DEF SomeCover, At
<1>5. ASSUME NEW k \in Legs', legs'[k].state \in {"sent", "repeat", "search"}
      PROVE  Live(k)' \/ SomePartial'
  <2>1. CASE k \in Legs
    <3>1. k # l
      BY <1>5 DEF Asks
    <3>2. Live(k) \/ SomePartial
      BY <1>1, <1>5, <2>1, <3>1 DEF CoverInv
    <3> QED BY <1>3, <2>1, <3>2, AsksLive
  <2>2. CASE k \notin Legs
    <3>1. Live(l) \/ SomePartial
      BY <1>1 DEF CoverInv
    <3> QED BY <1>3, <2>2, <3>1, AsksLive
  <2> QED BY <2>1, <2>2
<1>6. ASSUME NEW r \in Registry, handled'[r] > 0 PROVE SomePartial' \/ SomeCover(r)'
  <2>1. handled[r] > 0
    BY <1>6 DEF Asks
  <2> QED BY <1>3, <1>4, <2>1 DEF CoverInv
<1> QED BY <1>5, <1>6 DEF CoverInv

(***************************************************************************)
(* Callers that hear something, or stop waiting.                           *)
(***************************************************************************)
(* The answer of l: its caller adds its hits and its partial to its own.      *)
Hears(l) ==
    /\ Legs' = Legs /\ UNCHANGED handled /\ SameTimes(legs, legs')
    /\ legs[l].state = "answer" /\ legs[l].heard = "pending"
    /\ \A k \in Legs : /\ legs'[k].state = legs[k].state
                       /\ legs'[k].heard = IF k = l THEN "done" ELSE legs[k].heard
                       /\ legs[k].covers \subseteq legs'[k].covers
                       /\ legs[k].partial => legs'[k].partial
                       /\ \/ l # Root /\ k = Front(l)
                          \/ legs'[k].covers = legs[k].covers /\ legs'[k].partial = legs[k].partial
    /\ l # Root => /\ legs[l].covers \subseteq legs'[Front(l)].covers
                   /\ legs[l].partial => legs'[Front(l)].partial

(* Setting what one leg covers.                                              *)
LEMMA CoversSet ==
    ASSUME NEW D, NEW f \in [D -> LegRecord], NEW u \in D, NEW both \in SUBSET Registry
    PROVE  /\ [f EXCEPT ![u].covers = both] \in [D -> LegRecord]
           /\ \A k \in D :
                /\ [f EXCEPT ![u].covers = both][k].state = f[k].state
                /\ [f EXCEPT ![u].covers = both][k].heard = f[k].heard
                /\ [f EXCEPT ![u].covers = both][k].partial = f[k].partial
                /\ [f EXCEPT ![u].covers = both][k].covers = IF k = u THEN both ELSE f[k].covers
BY DEF LegRecord

LEMMA DeliverHears ==
    ASSUME LegsTyped, NEW l \in Legs, Deliver(l)
    PROVE  Hears(l)
<1>1. /\ legs \in [Legs -> LegRecord] /\ (l # Root => Front(l) \in Legs)
      /\ legs[l].state = "answer" /\ legs[l].heard = "pending" /\ UNCHANGED handled
  BY LegType DEF LegsTyped, Deliver, Is
<1>2. Legs' = Legs
  BY AnswerType DEF KeepsLegs
<1> DEFINE mid == [legs EXCEPT ![l].heard = "done"]
<1>3. /\ mid \in [Legs -> LegRecord]
      /\ \A k \in Legs : /\ mid[k].state = legs[k].state /\ mid[k].covers = legs[k].covers
                         /\ mid[k].partial = legs[k].partial
                         /\ mid[k].heard = IF k = l THEN "done" ELSE legs[k].heard
  BY <1>1 DEF LegRecord
<1>6. SameTimes(legs, mid)
  BY <1>1 DEF LegRecord, SameTimes
<1>4. CASE l = Root
  <2>1. legs' = mid
    BY <1>4 DEF Deliver
  <2> HIDE DEF mid
  <2> QED BY <1>1, <1>2, <1>3, <1>4, <1>6, <2>1 DEF Hears
<1>5. CASE l # Root
  <2> DEFINE u == Front(l)
             next == [mid EXCEPT ![u].covers = @ \cup legs[l].covers]
             last == [next EXCEPT ![u].partial = @ \/ legs[l].partial]
  <2>1. legs' = last
    BY <1>5 DEF Deliver
  <2>2. u \in Legs /\ legs[l].covers \in SUBSET Registry /\ legs[l].partial \in BOOLEAN
    BY <1>1, <1>5, LegType
  <2> HIDE DEF mid
  <2> DEFINE both == mid[u].covers \cup legs[l].covers
  <2>2a. /\ both \in SUBSET Registry /\ next = [mid EXCEPT ![u].covers = both]
         /\ mid[u].covers \subseteq both /\ legs[l].covers \subseteq both
    BY <1>3, <2>2 DEF LegRecord
  <2> HIDE DEF both, next
  <2>3. /\ next \in [Legs -> LegRecord]
        /\ \A k \in Legs : /\ next[k].state = mid[k].state /\ next[k].heard = mid[k].heard
                           /\ next[k].partial = mid[k].partial
                           /\ mid[k].covers \subseteq next[k].covers
                           /\ k = u \/ next[k].covers = mid[k].covers
        /\ legs[l].covers \subseteq next[u].covers /\ SameTimes(mid, next)
    <3>1. mid \in [Legs -> LegRecord] /\ u \in Legs /\ both \in SUBSET Registry
          /\ next = [mid EXCEPT ![u].covers = both]
      BY <1>3, <2>2, <2>2a
    <3>2. /\ next \in [Legs -> LegRecord]
          /\ \A k \in Legs :
               /\ next[k].state = mid[k].state /\ next[k].heard = mid[k].heard
               /\ next[k].partial = mid[k].partial
               /\ next[k].covers = IF k = u THEN both ELSE mid[k].covers
      BY <3>1, CoversSet
    <3> HIDE DEF u
    <3>3. SameTimes(mid, next)
      BY <3>1 DEF LegRecord, SameTimes
    <3> QED BY <2>2, <2>2a, <3>1, <3>2, <3>3
  <2>4. next[u].partial \in BOOLEAN
    BY <2>2, <2>3 DEF LegRecord
  <2>5. PICK b \in BOOLEAN : b = (next[u].partial \/ legs[l].partial)
    OBVIOUS
  <2>6. last = [next EXCEPT ![u].partial = b]
    BY <2>5
  <2>7. /\ \A k \in Legs : /\ last[k].state = next[k].state /\ last[k].heard = next[k].heard
                           /\ last[k].covers = next[k].covers
                           /\ k = u \/ last[k].partial = next[k].partial
        /\ last[u].partial = b
    BY <2>2, <2>3, <2>6 DEF LegRecord
  <2>12. SameTimes(next, last)
    BY <2>2, <2>3, <2>6 DEF LegRecord, SameTimes
  <2>8. (next[u].partial => last[u].partial) /\ (legs[l].partial => last[u].partial)
    BY <2>5, <2>7
  <2> HIDE DEF last
  <2>9. \A k \in Legs : /\ legs'[k].state = legs[k].state
                        /\ legs'[k].heard = IF k = l THEN "done" ELSE legs[k].heard
                        /\ legs[k].covers \subseteq legs'[k].covers
                        /\ k = u \/ (legs'[k].covers = legs[k].covers
                                     /\ legs'[k].partial = legs[k].partial)
    BY <1>3, <2>1, <2>3, <2>7
  <2>10. \A k \in Legs : legs[k].partial => legs'[k].partial
    BY <1>3, <2>1, <2>2, <2>3, <2>7, <2>8
  <2>11. legs[l].covers \subseteq legs'[u].covers /\ (legs[l].partial => legs'[u].partial)
    BY <2>1, <2>2, <2>3, <2>7, <2>8
  <2>13. SameTimes(legs, legs')
    BY <1>1, <1>3, <1>6, <2>1, <2>3, <2>12 DEF SameTimes
  <2> QED BY <1>1, <1>2, <1>5, <2>9, <2>10, <2>11, <2>13 DEF Hears
<1> QED BY <1>4, <1>5

(* u waits no more for the legs in gone, and says that something is missing.  *)
Abandons(u, gone) ==
    /\ Legs' = Legs /\ UNCHANGED handled /\ SameTimes(legs, legs')
    /\ gone \subseteq PendingChildren(u) /\ legs[u].state = "wait"
    /\ legs[u].left = 0 \/ \A k \in gone : At(k) \in Unresponsive
    /\ \A k \in Legs : /\ legs'[k].state = legs[k].state /\ legs'[k].covers = legs[k].covers
                       /\ legs'[k].heard = IF k \in gone THEN "gone" ELSE legs[k].heard
                       /\ legs'[k].partial = IF k = u THEN TRUE ELSE legs[k].partial

(* What giving up on legs leaves.                                            *)
LEMMA GivenUp ==
    ASSUME LegsTyped, NEW gone
    PROVE  /\ SameTimes(legs, GiveUpOn(legs, gone))
           /\ \A k \in Legs :
              /\ GiveUpOn(legs, gone)[k].state = legs[k].state
              /\ GiveUpOn(legs, gone)[k].covers = legs[k].covers
              /\ GiveUpOn(legs, gone)[k].partial = legs[k].partial
              /\ GiveUpOn(legs, gone)[k].heard = IF k \in gone THEN "gone" ELSE legs[k].heard
<1>1. legs \in [Legs -> LegRecord] /\ DOMAIN legs = Legs
  BY DEF LegsTyped, Legs
<1>2. ASSUME NEW k \in Legs
      PROVE  /\ GiveUpOn(legs, gone)[k].state = legs[k].state
             /\ GiveUpOn(legs, gone)[k].covers = legs[k].covers
             /\ GiveUpOn(legs, gone)[k].partial = legs[k].partial
             /\ GiveUpOn(legs, gone)[k].heard = IF k \in gone THEN "gone" ELSE legs[k].heard
             /\ GiveUpOn(legs, gone)[k].hops = legs[k].hops
             /\ GiveUpOn(legs, gone)[k].budget = legs[k].budget
             /\ GiveUpOn(legs, gone)[k].slack = legs[k].slack
             /\ GiveUpOn(legs, gone)[k].left = legs[k].left
  <2>1. legs[k] \in LegRecord
    BY <1>1
  <2>2. GiveUpOn(legs, gone)[k] = IF k \in gone THEN [legs[k] EXCEPT !.heard = "gone"] ELSE legs[k]
    BY <1>1 DEF GiveUpOn
  <2> QED BY <2>1, <2>2 DEF LegRecord
<1> QED BY <1>1, <1>2 DEF SameTimes

LEMMA TimeOutAbandons ==
    ASSUME LegsTyped, FromOrigin, WaitInv, NEW l \in Legs, Fail(l) \/ TimeOut(l)
    PROVE  \E u \in Legs : \E gone \in SUBSET Legs : Abandons(u, gone)
<1>1. PICK u \in Legs, gone \in SUBSET Legs :
         /\ legs' = [GiveUpOn(legs, gone) EXCEPT ![u].partial = TRUE]
         /\ gone \subseteq PendingChildren(u) /\ legs[u].state = "wait"
         /\ legs[u].left = 0 \/ \A k \in gone : At(k) \in Unresponsive
  <2>1. CASE Fail(l)
    <3>1. /\ l # Root /\ legs[l].heard = "pending" /\ At(l) \in Unresponsive
          /\ legs' = [GiveUpOn(legs, {l}) EXCEPT ![Front(l)].partial = TRUE]
      BY <2>1 DEF Fail
    <3>2. Front(l) \in Legs /\ l \in Children(Front(l))
      BY <3>1, Nearer
    <3>3. {l} \subseteq PendingChildren(Front(l)) /\ legs[Front(l)].state = "wait"
      BY <3>1, <3>2 DEF PendingChildren, WaitInv
    <3>4. {l} \in SUBSET Legs
      OBVIOUS
    <3>5. \E gone \in SUBSET Legs :
             /\ legs' = [GiveUpOn(legs, gone) EXCEPT ![Front(l)].partial = TRUE]
             /\ gone \subseteq PendingChildren(Front(l)) /\ legs[Front(l)].state = "wait"
             /\ \A k \in gone : At(k) \in Unresponsive
      BY <3>1, <3>3, <3>4
    <3> QED BY <3>2, <3>5
  <2>2. CASE TimeOut(l)
    BY <2>2 DEF TimeOut, Is, PendingChildren, Children
  <2> QED BY <2>1, <2>2
<1> DEFINE given == GiveUpOn(legs, gone)
<1>2. given \in [Legs -> LegRecord]
  BY GiveUpType
<1>3. \A k \in Legs : /\ given[k].state = legs[k].state /\ given[k].covers = legs[k].covers
                      /\ given[k].partial = legs[k].partial
                      /\ given[k].heard = IF k \in gone THEN "gone" ELSE legs[k].heard
  BY GivenUp
<1>8. SameTimes(legs, given)
  BY GivenUp
<1>4. legs' = [given EXCEPT ![u].partial = TRUE]
  BY <1>1
<1> HIDE DEF given
<1>5. \A k \in Legs : /\ legs'[k].state = given[k].state /\ legs'[k].covers = given[k].covers
                      /\ legs'[k].heard = given[k].heard
                      /\ legs'[k].partial = IF k = u THEN TRUE ELSE given[k].partial
  BY <1>2, <1>4 DEF LegRecord
<1>9. SameTimes(given, legs')
  BY <1>2, <1>4 DEF LegRecord, SameTimes
<1>10. SameTimes(legs, legs')
  BY <1>2, <1>8, <1>9 DEF SameTimes, Legs
<1>6. Legs' = Legs /\ UNCHANGED handled
  BY AnswerType DEF KeepsLegs, Fail, TimeOut
<1>7. Abandons(u, gone)
  BY <1>1, <1>3, <1>5, <1>6, <1>10 DEF Abandons
<1> QED BY <1>7

(* The handler of u is dropped, and nobody waits for the legs it had sent.    *)
Drops(u) ==
    /\ Legs' = Legs /\ UNCHANGED handled /\ SameTimes(legs, legs')
    /\ legs[u].heard = "gone"
    /\ \A k \in Legs : /\ legs'[k].covers = legs[k].covers /\ legs'[k].partial = legs[k].partial
                       /\ legs'[k].state = IF k = u THEN "cancelled" ELSE legs[k].state
                       /\ legs'[k].heard = IF k \in PendingChildren(u) THEN "gone" ELSE legs[k].heard

LEMMA CancelDrops ==
    ASSUME LegsTyped, NEW l \in Legs, Cancel(l)
    PROVE  Drops(l)
<1> DEFINE gone == PendingChildren(l)
           given == GiveUpOn(legs, gone)
<1>1. legs' = [given EXCEPT ![l].state = "cancelled"] /\ legs[l].heard = "gone"
  BY DEF Cancel
<1>2. given \in [Legs -> LegRecord]
  BY GiveUpType
<1>3. \A k \in Legs : /\ given[k].state = legs[k].state /\ given[k].covers = legs[k].covers
                      /\ given[k].partial = legs[k].partial
                      /\ given[k].heard = IF k \in gone THEN "gone" ELSE legs[k].heard
  BY GivenUp
<1>6. SameTimes(legs, given)
  BY GivenUp
<1> HIDE DEF given
<1>7. SameTimes(given, legs')
  BY <1>1, <1>2 DEF LegRecord, SameTimes
<1>8. SameTimes(legs, legs')
  BY <1>2, <1>6, <1>7 DEF SameTimes, Legs
<1>4. \A k \in Legs : /\ legs'[k].covers = given[k].covers /\ legs'[k].partial = given[k].partial
                      /\ legs'[k].heard = given[k].heard
                      /\ legs'[k].state = IF k = l THEN "cancelled" ELSE given[k].state
  BY <1>1, <1>2 DEF LegRecord
<1>5. Legs' = Legs /\ UNCHANGED handled
  BY AnswerType DEF KeepsLegs, Cancel
<1> QED BY <1>1, <1>3, <1>4, <1>5, <1>8 DEF Drops

(***************************************************************************)
(* What those steps keep.                                                  *)
(***************************************************************************)
(* The first route has one registry, and is nobody's child.                  *)
LEMMA RootFirst ==
    ASSUME LegsTyped, NEW u \in Legs
    PROVE  Root \notin Children(u) /\ Root \in Legs /\ Len(Root) = 1
<1>1. Len(u) \in Nat \ {0} /\ Root \in Legs
  BY LegType, RouteEnds DEF LegsTyped, TypeOK
<1>2. Len(Root) = 1
  BY DEF Root
<1> QED BY <1>1, <1>2 DEF Children

(* The first leg's answer reaches the user after a step as well.              *)
LEMMA LiveRootNext == Live(Root)'
<1>1. Len(Root) = 1
  BY DEF Root
<1> QED BY <1>1 DEF Live, Root

(* The leg that answered had nobody to wait for, so only it is not live now.  *)
LEMMA HearsLive ==
    ASSUME LegsTyped, WaitInv, NEW l \in Legs, Hears(l), NEW k \in Legs, k # l, Live(k)
    PROVE  Live(k)'
<1>1. k \in Route /\ Len(k) \in Nat /\ Prefix(k, Len(k)) = k
  BY LegType, RouteEnds, PrefixWhole
<1>2. ASSUME NEW i \in 2..Len(k)
      PROVE  Prefix(k, i) \in Legs' /\ legs'[Prefix(k, i)].heard = "pending"
  <2>1. Prefix(k, i) \in Legs /\ legs[Prefix(k, i)].heard = "pending"
    BY <1>2 DEF Live
  <2>2. ASSUME Prefix(k, i) = l PROVE FALSE
    <3>1. i # Len(k)
      BY <1>1, <2>2
    <3>2. i + 1 \in 2..Len(k) /\ i + 1 \in 1..Len(k) /\ (i + 1) - 1 = i /\ i + 1 # 1
      BY <1>1, <1>2, <3>1
    <3> DEFINE c == Prefix(k, i + 1)
    <3>3. c \in Legs /\ legs[c].heard = "pending"
      BY <3>2 DEF Live
    <3>4. Front(c) = l /\ Len(c) = i + 1
      BY <1>1, <2>2, <3>2, PrefixFront, PrefixRoute
    <3>5. c # Root
      BY <3>2, <3>4, RootFirst
    <3>6. legs[l].state = "wait"
      BY <3>3, <3>4, <3>5 DEF WaitInv
    <3> QED BY <3>6 DEF Hears
  <2> QED BY <2>1, <2>2 DEF Hears
<1> QED BY <1>2, LiveKept

LEMMA HearsWait ==
    ASSUME LegsTyped, FromOrigin, WaitInv, NEW l \in Legs, Hears(l)
    PROVE  WaitInv'
<1>1. /\ Legs' = Legs /\ legs[l].state = "answer" /\ legs[l].heard = "pending"
      /\ \A k \in Legs : /\ legs'[k].state = legs[k].state
                         /\ legs'[k].heard = IF k = l THEN "done" ELSE legs[k].heard
                         /\ \/ l # Root /\ k = Front(l)
                            \/ legs'[k].covers = legs[k].covers /\ legs'[k].partial = legs[k].partial
  BY DEF Hears
<1>2. ASSUME NEW k \in Legs' \ {Root}, legs'[k].heard = "pending"
      PROVE  legs'[Front(k)].state = "wait"
  <2>1. k \in Legs /\ Front(k) \in Legs /\ legs[k].heard = "pending"
    BY <1>1, <1>2, LegType
  <2> QED BY <1>1, <1>2, <2>1 DEF WaitInv
<1>3. ASSUME NEW k \in Legs', legs'[k].state \in {"sent", "repeat", "search"}
      PROVE  legs'[k].covers = {} /\ ~legs'[k].partial
  <2>1. k \in Legs /\ legs[k].state \in {"sent", "repeat", "search"}
    BY <1>1, <1>3
  <2>2. ~(l # Root /\ k = Front(l))
    BY <1>1, <2>1 DEF WaitInv
  <2> QED BY <1>1, <2>1, <2>2 DEF WaitInv
<1>4. legs'[Root].heard # "gone" /\ (legs'[Root].heard = "done" => legs'[Root].state = "answer")
  BY <1>1, RootFirst DEF WaitInv
<1>5. Root' = Root
  BY DEF Root
<1> QED BY <1>2, <1>3, <1>4, <1>5 DEF WaitInv

(* What the answer carried is at its caller now.                             *)
LEMMA HearsCover ==
    ASSUME LegsTyped, FromOrigin, WaitInv, CoverInv, NEW l \in Legs, Hears(l)
    PROVE  CoverInv'
<1>1. /\ Legs' = Legs /\ UNCHANGED handled /\ legs[l].state = "answer"
      /\ \A k \in Legs : /\ legs'[k].state = legs[k].state
                         /\ legs[k].covers \subseteq legs'[k].covers
                         /\ legs[k].partial => legs'[k].partial
  BY DEF Hears
<1>2. ASSUME NEW k \in Legs, Live(k)
      PROVE  \E u \in Legs : /\ Live(u)' /\ legs[k].covers \subseteq legs'[u].covers
                             /\ legs[k].partial => legs'[u].partial
                             /\ legs[k].state = "search" => u = k
  <2>1. CASE k # l
    BY <1>1, <1>2, <2>1, HearsLive
  <2>2. CASE k = l /\ l = Root
    BY <1>1, <2>2, LiveRootNext
  <2>3. CASE k = l /\ l # Root
    <3>1. Front(l) \in Legs /\ Front(l) # l /\ Live(Front(l))
      <4>1. /\ Len(l) \in Nat /\ Len(l) >= 2 /\ Front(l) \in Legs
            /\ Len(l) = Len(Front(l)) + 1 /\ Live(Front(l))
        BY <1>2, <2>3, Nearer, LivePending
      <4>2. Len(Front(l)) \in Nat
        BY <4>1, LegType, RouteEnds
      <4> QED BY <4>1, <4>2
    <3>2. Live(Front(l))'
      BY <3>1, HearsLive
    <3> QED BY <1>1, <2>3, <3>1, <3>2 DEF Hears
  <2> QED BY <2>1, <2>2, <2>3
<1>3. SomePartial => SomePartial'
  <2> SUFFICES ASSUME SomePartial PROVE SomePartial'
    OBVIOUS
  <2>1. PICK k \in Legs : Live(k) /\ legs[k].partial
    BY DEF SomePartial
  <2>2. PICK u \in Legs : Live(u)' /\ legs'[u].partial
    BY <1>2, <2>1
  <2> QED BY <1>1, <2>2 DEF SomePartial
<1>4. ASSUME NEW r \in Registry, SomeCover(r) PROVE SomeCover(r)'
  <2>1. PICK k \in Legs : Live(k) /\ (r \in legs[k].covers \/ (At(k) = r /\ legs[k].state = "search"))
    BY <1>4 DEF SomeCover
  <2>2. PICK u \in Legs : /\ Live(u)' /\ legs[k].covers \subseteq legs'[u].covers
                          /\ legs[k].state = "search" => u = k
    BY <1>2, <2>1
  <2>3. r \in legs'[u].covers \/ (At(u) = r /\ legs'[u].state = "search")
    BY <1>1, <2>1, <2>2
  <2> QED BY <1>1, <2>2, <2>3 DEF SomeCover, At
<1>5. ASSUME NEW k \in Legs', legs'[k].state \in {"sent", "repeat", "search"}
      PROVE  Live(k)' \/ SomePartial'
  <2>1. k \in Legs /\ k # l /\ legs[k].state \in {"sent", "repeat", "search"}
    BY <1>1, <1>5
  <2>2. Live(k) \/ SomePartial
    BY <2>1 DEF CoverInv
  <2> QED BY <1>3, <2>1, <2>2, HearsLive
<1>6. ASSUME NEW r \in Registry, handled'[r] > 0 PROVE SomePartial' \/ SomeCover(r)'
  BY <1>1, <1>3, <1>4, <1>6 DEF CoverInv
<1> QED BY <1>5, <1>6 DEF CoverInv

(* A leg that is given up on leaves word of it at its caller.                 *)
LEMMA AbandonsLive ==
    ASSUME LegsTyped, FromOrigin, NEW u \in Legs, NEW gone \in SUBSET Legs, Abandons(u, gone),
           NEW k \in Legs, Live(k)
    PROVE  Live(k)' \/ SomePartial'
<1>1. /\ Legs' = Legs /\ gone \subseteq PendingChildren(u)
      /\ \A j \in Legs \ gone : legs'[j].heard = legs[j].heard
  BY DEF Abandons
<1>2. k \in Route /\ Len(k) \in Nat
  BY LegType, RouteEnds
<1>3. CASE \E i \in 2..Len(k) : Prefix(k, i) \in gone
  <2>1. PICK i \in 2..Len(k) : Prefix(k, i) \in gone
    BY <1>3
  <2>2. Front(Prefix(k, i)) = u
    BY <1>1, <2>1 DEF PendingChildren, Children
  <2>3. i - 1 \in 1..Len(k) /\ Prefix(k, i - 1) = u
    BY <1>2, <2>2, PrefixFront
  <2>4. Live(u) /\ Len(u) \in Nat /\ u \in Route
    BY <2>3, LiveUp, LegType, RouteEnds
  <2>5. ASSUME NEW j \in 2..Len(u)
        PROVE  Prefix(u, j) \in Legs' /\ legs'[Prefix(u, j)].heard = "pending"
    <3>1. Prefix(u, j) \in Legs /\ legs[Prefix(u, j)].heard = "pending"
      BY <2>4, <2>5 DEF Live
    <3>2. j \in 1..Len(u)
      BY <2>4
    <3>3. Len(Prefix(u, j)) = j /\ j # Len(u) + 1
      BY <2>4, <3>2, PrefixRoute
    <3>4. Prefix(u, j) \notin gone
      BY <1>1, <3>3 DEF PendingChildren, Children
    <3> QED BY <1>1, <3>1, <3>4
  <2>6. Live(u)'
    BY <2>4, <2>5, LiveKept
  <2>7. legs'[u].partial
    BY DEF Abandons
  <2> QED BY <1>1, <2>6, <2>7 DEF SomePartial
<1>4. CASE \A i \in 2..Len(k) : Prefix(k, i) \notin gone
  <2>1. \A i \in 2..Len(k) : Prefix(k, i) \in Legs' /\ legs'[Prefix(k, i)].heard = "pending"
    BY <1>1, <1>4 DEF Live
  <2> QED BY <2>1, LiveKept
<1> QED BY <1>3, <1>4

LEMMA AbandonsWait ==
    ASSUME LegsTyped, FromOrigin, WaitInv,
           NEW u \in Legs, NEW gone \in SUBSET Legs, Abandons(u, gone)
    PROVE  WaitInv'
<1>1. /\ Legs' = Legs /\ gone \subseteq PendingChildren(u) /\ legs[u].state = "wait"
      /\ \A k \in Legs : /\ legs'[k].state = legs[k].state /\ legs'[k].covers = legs[k].covers
                         /\ legs'[k].heard = IF k \in gone THEN "gone" ELSE legs[k].heard
                         /\ legs'[k].partial = IF k = u THEN TRUE ELSE legs[k].partial
  BY DEF Abandons
<1>2. ASSUME NEW k \in Legs' \ {Root}, legs'[k].heard = "pending"
      PROVE  legs'[Front(k)].state = "wait"
  <2>1. k \in Legs /\ Front(k) \in Legs /\ legs[k].heard = "pending"
    BY <1>1, <1>2, LegType
  <2> QED BY <1>1, <1>2, <2>1 DEF WaitInv
<1>3. ASSUME NEW k \in Legs', legs'[k].state \in {"sent", "repeat", "search"}
      PROVE  legs'[k].covers = {} /\ ~legs'[k].partial
  <2>1. k \in Legs /\ k # u /\ legs[k].state \in {"sent", "repeat", "search"}
    BY <1>1, <1>3
  <2> QED BY <1>1, <2>1 DEF WaitInv
<1>4. legs'[Root].heard # "gone" /\ (legs'[Root].heard = "done" => legs'[Root].state = "answer")
  <2>1. Root \notin gone /\ Root \in Legs
    BY <1>1, RootFirst DEF PendingChildren
  <2> QED BY <1>1, <2>1 DEF WaitInv
<1>5. Root' = Root
  BY DEF Root
<1> QED BY <1>2, <1>3, <1>4, <1>5 DEF WaitInv

LEMMA AbandonsCover ==
    ASSUME LegsTyped, FromOrigin, CoverInv,
           NEW u \in Legs, NEW gone \in SUBSET Legs, Abandons(u, gone)
    PROVE  CoverInv'
<1>1. /\ Legs' = Legs /\ UNCHANGED handled
      /\ \A k \in Legs : /\ legs'[k].state = legs[k].state /\ legs'[k].covers = legs[k].covers
                         /\ legs[k].partial => legs'[k].partial
  BY DEF Abandons
<1>2. SomePartial => SomePartial'
  <2> SUFFICES ASSUME SomePartial PROVE SomePartial'
    OBVIOUS
  <2>1. PICK k \in Legs : Live(k) /\ legs[k].partial
    BY DEF SomePartial
  <2>2. Live(k)' \/ SomePartial'
    BY <2>1, AbandonsLive
  <2> QED BY <1>1, <2>1, <2>2 DEF SomePartial
<1>3. ASSUME NEW r \in Registry, SomeCover(r) PROVE SomeCover(r)' \/ SomePartial'
  <2>1. PICK k \in Legs : Live(k) /\ (r \in legs[k].covers \/ (At(k) = r /\ legs[k].state = "search"))
    BY <1>3 DEF SomeCover
  <2>2. Live(k)' \/ SomePartial'
    BY <2>1, AbandonsLive
  <2> QED BY <1>1, <2>1, <2>2 DEF SomeCover, At
<1>4. ASSUME NEW k \in Legs', legs'[k].state \in {"sent", "repeat", "search"}
      PROVE  Live(k)' \/ SomePartial'
  <2>1. k \in Legs /\ (Live(k) \/ SomePartial)
    BY <1>1, <1>4 DEF CoverInv
  <2> QED BY <1>2, <2>1, AbandonsLive
<1>5. ASSUME NEW r \in Registry, handled'[r] > 0 PROVE SomePartial' \/ SomeCover(r)'
  BY <1>1, <1>2, <1>3, <1>5 DEF CoverInv
<1> QED BY <1>4, <1>5 DEF CoverInv

(* A handler that is dropped was not live, and neither was what it waited for. *)
LEMMA DropsLive ==
    ASSUME LegsTyped, FromOrigin, WaitInv, NEW u \in Legs, Drops(u), NEW k \in Legs, Live(k)
    PROVE  k # u /\ Live(k)'
<1>1. /\ Legs' = Legs /\ legs[u].heard = "gone"
      /\ \A j \in Legs : legs'[j].heard = IF j \in PendingChildren(u) THEN "gone" ELSE legs[j].heard
  BY DEF Drops
<1>2. k \in Route /\ Len(k) \in Nat
  BY LegType, RouteEnds
<1>3. ~Live(u)
  <2>1. u # Root
    BY <1>1 DEF WaitInv
  <2> QED BY <1>1, <2>1, LivePending
<1>4. ASSUME NEW i \in 2..Len(k)
      PROVE  Prefix(k, i) \in Legs' /\ legs'[Prefix(k, i)].heard = "pending"
  <2>1. Prefix(k, i) \in Legs /\ legs[Prefix(k, i)].heard = "pending"
    BY <1>4 DEF Live
  <2>2. ASSUME Prefix(k, i) \in PendingChildren(u) PROVE FALSE
    <3>1. Front(Prefix(k, i)) = u
      BY <2>2 DEF PendingChildren, Children
    <3>2. i - 1 \in 1..Len(k) /\ Prefix(k, i - 1) = u
      BY <1>2, <1>4, <3>1, PrefixFront
    <3> QED BY <1>3, <3>2, LiveUp
  <2> QED BY <1>1, <2>1, <2>2
<1> QED BY <1>3, <1>4, LiveKept

LEMMA DropsWait ==
    ASSUME LegsTyped, FromOrigin, WaitInv, NEW u \in Legs, Drops(u)
    PROVE  WaitInv'
<1>1. /\ Legs' = Legs /\ legs[u].heard = "gone"
      /\ \A k \in Legs : /\ legs'[k].covers = legs[k].covers /\ legs'[k].partial = legs[k].partial
                         /\ legs'[k].state = IF k = u THEN "cancelled" ELSE legs[k].state
                         /\ legs'[k].heard = IF k \in PendingChildren(u) THEN "gone" ELSE legs[k].heard
  BY DEF Drops
<1>2. ASSUME NEW k \in Legs' \ {Root}, legs'[k].heard = "pending"
      PROVE  legs'[Front(k)].state = "wait"
  <2>1. /\ k \in Legs /\ Front(k) \in Legs /\ k \in Children(Front(k))
        /\ k \notin PendingChildren(u) /\ legs[k].heard = "pending"
    BY <1>1, <1>2, Nearer
  <2>2. Front(k) # u
    BY <2>1 DEF PendingChildren
  <2> QED BY <1>1, <1>2, <2>1, <2>2 DEF WaitInv
<1>3. ASSUME NEW k \in Legs', legs'[k].state \in {"sent", "repeat", "search"}
      PROVE  legs'[k].covers = {} /\ ~legs'[k].partial
  <2>1. k \in Legs /\ legs[k].state \in {"sent", "repeat", "search"}
    BY <1>1, <1>3
  <2> QED BY <1>1, <2>1 DEF WaitInv
<1>4. legs'[Root].heard # "gone" /\ (legs'[Root].heard = "done" => legs'[Root].state = "answer")
  <2>1. Root \notin PendingChildren(u) /\ Root \in Legs /\ Root # u
    BY <1>1, RootFirst DEF PendingChildren, WaitInv
  <2> QED BY <1>1, <2>1 DEF WaitInv
<1>5. Root' = Root
  BY DEF Root
<1> QED BY <1>2, <1>3, <1>4, <1>5 DEF WaitInv

LEMMA DropsCover ==
    ASSUME LegsTyped, FromOrigin, WaitInv, CoverInv, NEW u \in Legs, Drops(u)
    PROVE  CoverInv'
<1>1. /\ Legs' = Legs /\ UNCHANGED handled
      /\ \A k \in Legs : /\ legs'[k].covers = legs[k].covers /\ legs'[k].partial = legs[k].partial
                         /\ legs'[k].state = IF k = u THEN "cancelled" ELSE legs[k].state
  BY DEF Drops
<1>2. SomePartial => SomePartial'
  <2> SUFFICES ASSUME SomePartial PROVE SomePartial'
    OBVIOUS
  <2>1. PICK k \in Legs : Live(k) /\ legs[k].partial
    BY DEF SomePartial
  <2> QED BY <1>1, <2>1, DropsLive DEF SomePartial
<1>3. ASSUME NEW r \in Registry, SomeCover(r) PROVE SomeCover(r)'
  <2>1. PICK k \in Legs : Live(k) /\ (r \in legs[k].covers \/ (At(k) = r /\ legs[k].state = "search"))
    BY <1>3 DEF SomeCover
  <2>2. k # u /\ Live(k)'
    BY <2>1, DropsLive
  <2> QED BY <1>1, <2>1, <2>2 DEF SomeCover, At
<1>4. ASSUME NEW k \in Legs', legs'[k].state \in {"sent", "repeat", "search"}
      PROVE  Live(k)' \/ SomePartial'
  <2>1. k \in Legs /\ (Live(k) \/ SomePartial)
    BY <1>1, <1>4 DEF CoverInv
  <2> QED BY <1>2, <2>1, DropsLive
<1>5. ASSUME NEW r \in Registry, handled'[r] > 0 PROVE SomePartial' \/ SomeCover(r)'
  BY <1>1, <1>2, <1>3, <1>5 DEF CoverInv
<1> QED BY <1>4, <1>5 DEF CoverInv

(***************************************************************************)
(* The theorem.                                                            *)
(***************************************************************************)
CarryInv == FromOrigin /\ WaitInv /\ CoverInv

(* Initially the origin has not begun.                                       *)
LEMMA CarryInit == Init => CarryInv
<1> SUFFICES ASSUME Init PROVE CarryInv
  OBVIOUS
<1>1. /\ Legs = {Root} /\ handled = [r \in Registry |-> 0]
      /\ legs[Root] = Leg(MaxHops[Origin], Own[Origin], <<>>)
  BY DEF Init, Legs
<1>2. /\ legs[Root].state = "sent" /\ legs[Root].heard = "pending"
      /\ legs[Root].covers = {} /\ ~legs[Root].partial
  BY <1>1 DEF Leg
<1>3. FromOrigin
  BY <1>1 DEF FromOrigin, Root
<1>4. WaitInv
  BY <1>1, <1>2 DEF WaitInv
<1>5. CoverInv
  <2>1. \A r \in Registry : ~(handled[r] > 0)
    BY <1>1
  <2> QED BY <1>1, <2>1, LiveRoot DEF CoverInv
<1> QED BY <1>3, <1>4, <1>5 DEF CarryInv

(* No step loses what it carries.                                            *)
LEMMA CarryStep == LegsTyped /\ CarryInv /\ [Next]_vars => CarryInv'
<1> SUFFICES ASSUME LegsTyped, FromOrigin, WaitInv, CoverInv, [Next]_vars
             PROVE  FromOrigin' /\ WaitInv' /\ CoverInv'
  BY DEF CarryInv
<1>1. ASSUME Legs' = Legs PROVE FromOrigin'
  BY <1>1 DEF FromOrigin
<1>2. ASSUME Calm PROVE FromOrigin' /\ WaitInv' /\ CoverInv'
  <2>1. FromOrigin'
    BY <1>1, <1>2 DEF Calm
  <2>2. WaitInv' /\ CoverInv'
    BY <1>2, CalmWait, CalmCover
  <2> QED BY <2>1, <2>2
<1>3. CASE \E l \in Legs : Claim(l) \/ Recheck(l)
  BY <1>2, <1>3, CalmClaim
<1>4. CASE \/ \E l \in Legs : Join(l)
           \/ \E r \in Registry : Sweep(r)
           \/ Tick
           \/ UNCHANGED vars
  BY <1>2, <1>4, CalmOther
<1>5. CASE \E l \in Legs : FanOut(l)
  <2>1. PICK l \in Legs : FanOut(l)
    BY <1>5
  <2>2. PICK asked \in SUBSET Registry : Asks(l, asked)
    BY <2>1, FanOutAsks
  <2> QED BY <2>2, AsksWait, AsksCover
<1>6. CASE \E l \in Legs : Deliver(l)
  <2>1. PICK l \in Legs : Hears(l)
    BY <1>6, DeliverHears
  <2>2. FromOrigin'
    BY <1>1, <2>1 DEF Hears
  <2> QED BY <2>1, <2>2, HearsWait, HearsCover
<1>7. CASE \E l \in Legs : Fail(l) \/ TimeOut(l)
  <2>1. PICK u \in Legs, gone \in SUBSET Legs : Abandons(u, gone)
    BY <1>7, TimeOutAbandons
  <2>2. FromOrigin'
    BY <1>1, <2>1 DEF Abandons
  <2> QED BY <2>1, <2>2, AbandonsWait, AbandonsCover
<1>8. CASE \E l \in Legs : Cancel(l)
  <2>1. PICK l \in Legs : Drops(l)
    BY <1>8, CancelDrops
  <2>2. FromOrigin'
    BY <1>1, <2>1 DEF Drops
  <2> QED BY <2>1, <2>2, DropsWait, DropsCover
<1> QED BY <1>3, <1>4, <1>5, <1>6, <1>7, <1>8 DEF Next, LegStep

(* Once the origin answered nobody is waited for, so what is on its way is     *)
(* what the answer holds.                                                    *)
LEMMA CarryCovered == LegsTyped /\ CarryInv => RefusedElsewhereCovered
<1> SUFFICES ASSUME LegsTyped, FromOrigin, WaitInv, CoverInv,
                    legs[Root].heard = "done", ~legs[Root].partial,
                    NEW r \in Registry, handled[r] > 0
             PROVE  r \in legs[Root].covers
  BY DEF CarryInv, RefusedElsewhereCovered
<1>1. legs[Root].state = "answer"
  BY DEF WaitInv
<1>2. ASSUME NEW l \in Legs, Live(l), l # Root PROVE FALSE
  <2>1. l \in Route /\ Len(l) \in Nat /\ Len(l) >= 2
    BY <1>2, Nearer, LegType
  <2>2. 2 \in 2..Len(l) /\ 2 \in 1..Len(l) /\ 1 \in 1..Len(l) /\ 2 - 1 = 1
    BY <2>1
  <2> DEFINE c == Prefix(l, 2)
  <2>3. c \in Legs /\ legs[c].heard = "pending"
    BY <1>2, <2>2 DEF Live
  <2>4. Len(c) = 2 /\ Front(c) = Prefix(l, 1) /\ Len(Prefix(l, 1)) = 1
    BY <2>1, <2>2, PrefixRoute, PrefixFront
  <2>5. c # Root
    BY <2>4 DEF Root
  <2>6. Front(c) \in Legs /\ Front(c) = Root
    <3>1. Front(c) \in Legs
      BY <2>3, <2>5, Nearer
    <3> DEFINE n == Len(Front(c))
    <3>2. n = 1
      BY <2>4
    <3>3. Front(c) # Root => n >= 2
      BY <3>1, Nearer
    <3> HIDE DEF n
    <3> QED BY <3>1, <3>2, <3>3
  <2>7. legs[Root].state = "wait"
    BY <2>3, <2>5, <2>6 DEF WaitInv
  <2> QED BY <1>1, <2>7
<1>3. ~SomePartial
  BY <1>2 DEF SomePartial
<1>4. SomeCover(r)
  BY <1>3 DEF CoverInv
<1> QED BY <1>1, <1>2, <1>4 DEF SomeCover

(* "you already have these, on the path that reached me first": whatever is    *)
(* refused, late, cancelled or failing, an answer at the origin that does not *)
(* say it is partial holds the records of every registry that took the query  *)
(* on.                                                                      *)
THEOREM RefusedAlwaysCovered == Spec => []RefusedElsewhereCovered
BY TypeInit, TypeStep, CarryInit, CarryStep, CarryCovered, PTL DEF Spec

-----------------------------------------------------------------------------
(* Time budgets.                                                             *)

(* What the settings must leave a responsive registry: more than its own       *)
(* overhead, in the margin, in the least budget forwarded and in any timeout.  *)
EnoughTime ==
    /\ Lag < Margin /\ Lag < MinUseful
    /\ \A r \in Registry : Lag < Own[r]

(* A leg that may ask others has the time for one overhead.                   *)
BudgetInv == \A l \in Legs : legs[l].hops > 0 => legs[l].budget > Lag

(* How long a leg may still wait for its own legs.                            *)
Needs(l) ==
    IF legs[l].state = "wait" THEN legs[l].left
    ELSE IF legs[l].state \in Open /\ HopsGranted(l) > 0 THEN TimeBudget(l)
    ELSE 0

(* A caller waits for longer than a responsive peer still needs.              *)
PatienceInv ==
    \A l \in Legs \ {Root} :
        legs[l].heard = "pending" /\ At(l) \notin Unresponsive
            => legs[Front(l)].left > legs[l].slack + Needs(l)

(* Every number a leg is sent with or has left is one.                       *)
LEMMA NeedsType ==
    ASSUME LegsTyped, NEW l \in Legs
    PROVE  /\ Needs(l) \in Nat /\ legs[l].slack \in Nat /\ legs[l].left \in Nat
           /\ Lag \in Nat
BY LegType, BudgetType, FedAssumption DEF Needs

(* What a leg may still need depends on where its handler is and what it was   *)
(* sent with.                                                               *)
LEMMA NeedsNext ==
    ASSUME LegsTyped, NEW l \in Legs, legs'[l].hops = legs[l].hops, legs'[l].budget = legs[l].budget
    PROVE  Needs(l)' = IF legs'[l].state = "wait" THEN legs'[l].left
                       ELSE IF legs'[l].state \in Open /\ HopsGranted(l) > 0 THEN TimeBudget(l)
                       ELSE 0
BY DEF Needs, HopsGranted, TimeBudget, Open, At

(* Initially the origin has its own timeout.                                 *)
LEMMA TimeInit == EnoughTime /\ Init => BudgetInv /\ PatienceInv /\ ResponsiveNotTimedOut
<1> SUFFICES ASSUME EnoughTime, Init PROVE BudgetInv /\ PatienceInv /\ ResponsiveNotTimedOut
  OBVIOUS
<1>1. Legs = {Root} /\ legs[Root] = Leg(MaxHops[Origin], Own[Origin], <<>>)
  BY DEF Init, Legs
<1>2. legs[Root].budget = Own[Origin] /\ Own[Origin] > Lag
  <2>1. legs[Root].budget = Own[Origin]
    BY <1>1 DEF Leg
  <2>2. Lag < Own[Origin] /\ Lag \in Nat /\ Own[Origin] \in Nat
    BY FedAssumption DEF EnoughTime
  <2> QED BY <2>1, <2>2
<1> QED BY <1>1, <1>2 DEF BudgetInv, PatienceInv, ResponsiveNotTimedOut

(* While no time passes and nobody asks anybody, nobody needs more of it.      *)
LEMMA TimeKept ==
    ASSUME LegsTyped, BudgetInv, PatienceInv, Legs' = Legs, SameTimes(legs, legs'),
           \A k \in Legs : /\ legs'[k].heard = "pending" => legs[k].heard = "pending"
                           /\ legs'[k].state = "wait" => legs[k].state = "wait"
                           /\ legs'[k].state \in Open => legs[k].state \in Open
    PROVE  BudgetInv' /\ PatienceInv'
<1>1. \A k \in Legs : /\ legs'[k].hops = legs[k].hops /\ legs'[k].budget = legs[k].budget
                      /\ legs'[k].slack = legs[k].slack /\ legs'[k].left = legs[k].left
  BY DEF SameTimes, Legs
<1>2. BudgetInv'
  BY <1>1 DEF BudgetInv
<1>3. ASSUME NEW k \in Legs, k # Root, legs'[k].heard = "pending", At(k) \notin Unresponsive
      PROVE  legs'[Front(k)].left > legs'[k].slack + Needs(k)'
  <2>1. Front(k) \in Legs /\ legs[k].heard = "pending"
    BY <1>3, LegType
  <2>2. legs[Front(k)].left > legs[k].slack + Needs(k)
    BY <1>3, <2>1 DEF PatienceInv
  <2>3. /\ Needs(k) \in Nat /\ legs[k].slack \in Nat /\ legs[k].left \in Nat
        /\ legs[Front(k)].left \in Nat /\ TimeBudget(k) \in Nat
    BY <2>1, NeedsType, BudgetType
  <2>4. Needs(k)' \in {Needs(k), 0}
    <3>1. Needs(k)' = IF legs'[k].state = "wait" THEN legs'[k].left
                      ELSE IF legs'[k].state \in Open /\ HopsGranted(k) > 0 THEN TimeBudget(k)
                      ELSE 0
      BY <1>1, NeedsNext
    <3>2. "wait" \notin Open
      BY DEF Open
    <3> QED BY <1>1, <3>1, <3>2 DEF Needs
  <2> QED BY <1>1, <2>1, <2>2, <2>3, <2>4
<1>4. PatienceInv'
  BY <1>3 DEF PatienceInv, Root, At
<1> QED BY <1>2, <1>4

(* A tick of the clock.                                                      *)
LEMMA TickTimes ==
    ASSUME LegsTyped, Tick
    PROVE  /\ Legs' = Legs
           /\ \A k \in Legs :
                /\ ~MustAct(k)
                /\ legs'[k].hops = legs[k].hops /\ legs'[k].budget = legs[k].budget
                /\ legs'[k].heard = legs[k].heard /\ legs'[k].state = legs[k].state
                /\ legs'[k].slack = IF Busy(k) THEN Minus(legs[k].slack, 1) ELSE legs[k].slack
                /\ legs'[k].left = IF Waiting(k) THEN legs[k].left - 1 ELSE legs[k].left
<1>1. Legs' = Legs /\ legs \in [Legs -> LegRecord]
  BY TickType DEF KeepsLegs, LegsTyped
<1> SUFFICES ASSUME NEW k \in Legs
             PROVE  /\ ~MustAct(k)
                    /\ legs'[k].hops = legs[k].hops /\ legs'[k].budget = legs[k].budget
                    /\ legs'[k].heard = legs[k].heard /\ legs'[k].state = legs[k].state
                    /\ legs'[k].slack = IF Busy(k) THEN Minus(legs[k].slack, 1) ELSE legs[k].slack
                    /\ legs'[k].left = IF Waiting(k) THEN legs[k].left - 1 ELSE legs[k].left
  BY <1>1
<1>2. ~MustAct(k)
  BY DEF Tick
<1>3. legs'[k] = IF Busy(k) THEN [legs[k] EXCEPT !.slack = Minus(@, 1)]
                 ELSE IF Waiting(k) THEN [legs[k] EXCEPT !.left = @ - 1]
                 ELSE legs[k]
  BY DEF Tick
<1>4. legs[k] \in LegRecord /\ (Busy(k) => ~Waiting(k))
  BY <1>1 DEF Busy, Waiting
<1>5. CASE Busy(k)
  BY <1>2, <1>3, <1>4, <1>5 DEF LegRecord
<1>6. CASE ~Busy(k) /\ Waiting(k)
  BY <1>2, <1>3, <1>4, <1>6 DEF LegRecord
<1>7. CASE ~Busy(k) /\ ~Waiting(k)
  BY <1>2, <1>3, <1>7
<1> QED BY <1>5, <1>6, <1>7

(* Time passes for a caller and for whom it waits for alike.                 *)
LEMMA TimePasses ==
    ASSUME LegsTyped, WaitInv, BudgetInv, PatienceInv, Tick
    PROVE  BudgetInv' /\ PatienceInv'
<1>1. /\ Legs' = Legs
      /\ \A k \in Legs :
           /\ ~MustAct(k)
           /\ legs'[k].hops = legs[k].hops /\ legs'[k].budget = legs[k].budget
           /\ legs'[k].heard = legs[k].heard /\ legs'[k].state = legs[k].state
           /\ legs'[k].slack = IF Busy(k) THEN Minus(legs[k].slack, 1) ELSE legs[k].slack
           /\ legs'[k].left = IF Waiting(k) THEN legs[k].left - 1 ELSE legs[k].left
  BY TickTimes
<1>2. BudgetInv'
  BY <1>1 DEF BudgetInv
<1>3. ASSUME NEW k \in Legs, k # Root, legs'[k].heard = "pending", At(k) \notin Unresponsive
      PROVE  legs'[Front(k)].left > legs'[k].slack + Needs(k)'
  <2>1. Front(k) \in Legs /\ legs[k].heard = "pending" /\ legs[Front(k)].state = "wait"
    BY <1>1, <1>3, LegType DEF WaitInv
  <2>2. legs[Front(k)].left > legs[k].slack + Needs(k)
    BY <1>3, <2>1 DEF PatienceInv
  <2>3. /\ Needs(k) \in Nat /\ legs[k].slack \in Nat /\ legs[k].left \in Nat
        /\ legs[Front(k)].left \in Nat
    BY <2>1, NeedsType
  <2>4. legs'[Front(k)].left = legs[Front(k)].left - 1
    BY <1>1, <2>1 DEF Waiting
  <2>5. Needs(k)' = IF legs[k].state = "wait" THEN legs'[k].left ELSE Needs(k)
    <3>1. Needs(k)' = IF legs'[k].state = "wait" THEN legs'[k].left
                      ELSE IF legs'[k].state \in Open /\ HopsGranted(k) > 0 THEN TimeBudget(k)
                      ELSE 0
      BY <1>1, NeedsNext
    <3> QED BY <1>1, <3>1 DEF Needs
  <2>6. CASE legs[k].state = "wait"
    <3>1. legs'[k].left = legs[k].left - 1 /\ legs'[k].slack = legs[k].slack
      BY <1>1, <2>6 DEF Waiting, Busy
    <3>2. Needs(k) = legs[k].left
      BY <2>6 DEF Needs
    <3> QED BY <2>2, <2>3, <2>4, <2>5, <2>6, <3>1, <3>2
  <2>7. CASE legs[k].state # "wait"
    <3>1. Busy(k)
      BY <2>1, <2>7 DEF Busy
    <3>2. legs[k].slack # 0
      BY <1>1, <1>3, <3>1 DEF MustAct
    <3>3. legs'[k].slack = legs[k].slack - 1
      BY <1>1, <2>3, <3>1, <3>2 DEF Minus
    <3> QED BY <2>2, <2>3, <2>4, <2>5, <2>7, <3>3
  <2> QED BY <2>6, <2>7
<1>4. PatienceInv'
  BY <1>1, <1>3 DEF PatienceInv, Root, At
<1> QED BY <1>2, <1>4

(* A peer asked is sent with a margin less than its caller waits, or with no    *)
(* hops to wait for.                                                        *)
LEMMA TimeFanOut ==
    ASSUME EnoughTime, LegsTyped, WaitInv, BudgetInv, PatienceInv, NEW l \in Legs, FanOut(l)
    PROVE  BudgetInv' /\ PatienceInv'
<1>1. PICK asked \in SUBSET Registry, mine \in LegRecord, new \in LegRecord :
          Fanned(l, asked, mine, new)
  BY FanOutLegs
<1>2. /\ legs' = [k \in Legs \cup {Append(l, p) : p \in asked} |->
                    IF k = l THEN mine ELSE IF k \in Legs THEN legs[k] ELSE new]
      /\ asked = {} \/ HopsGranted(l) > 0
      /\ asked # {} => mine.state = "wait"
      /\ new.hops = HopsForwarded(l) /\ new.state = "sent" /\ new.budget = ForwardBudget(l)
      /\ new.slack = Lag
      /\ mine.hops = legs[l].hops /\ mine.budget = legs[l].budget
      /\ mine.slack = legs[l].slack /\ mine.heard = legs[l].heard
      /\ mine.state \in {"wait", "answer"}
      /\ mine.state = "wait" => HopsGranted(l) > 0 /\ mine.left = TimeBudget(l)
  BY <1>1 DEF Fanned
<1>3. /\ Legs' = Legs \cup {Append(l, p) : p \in asked}
      /\ legs'[l] = mine /\ \A k \in Legs \ {l} : legs'[k] = legs[k]
      /\ \A k \in Legs' \ Legs : legs'[k] = new
  BY <1>2 DEF Legs
<1>4. legs[l].state = "search"
  BY DEF FanOut, Is
<1>5. /\ HopsGranted(l) \in Nat /\ HopsGranted(l) <= legs[l].hops /\ TimeBudget(l) \in Nat
      /\ ForwardBudget(l) \in Nat /\ HopsForwarded(l) \in Nat
      /\ legs[l].hops \in Nat /\ legs[l].budget \in Nat /\ At(l) \in Registry
  BY LegType, BudgetType
<1>6. /\ Lag \in Nat /\ Margin \in Nat /\ MinUseful \in Nat /\ Lag < Margin /\ Lag < MinUseful
      /\ Own[At(l)] \in Nat /\ Lag < Own[At(l)]
  BY <1>5, FedAssumption DEF EnoughTime
<1>7. HopsForwarded(l) > 0 => /\ ForwardBudget(l) > Lag
                              /\ ForwardBudget(l) + Margin = TimeBudget(l)
  <2>1. HopsForwarded(l) > 0 => ForwardBudget(l) >= MinUseful
    BY <1>5 DEF HopsForwarded
  <2>2. ForwardBudget(l) > 0 => ForwardBudget(l) + Margin = TimeBudget(l)
    BY <1>5, <1>6 DEF ForwardBudget, Minus
  <2> QED BY <1>5, <1>6, <2>1, <2>2
<1>8. HopsGranted(l) > 0 => TimeBudget(l) > Lag
  <2>1. HopsGranted(l) > 0 => legs[l].budget > Lag
    BY <1>5 DEF BudgetInv
  <2> QED BY <1>5, <1>6, <2>1 DEF TimeBudget, Lesser
<1>9. BudgetInv'
  <2>1. ASSUME NEW k \in Legs', legs'[k].hops > 0 PROVE legs'[k].budget > Lag
    <3>1. CASE k \in Legs
      <4>1. legs'[k].hops = legs[k].hops /\ legs'[k].budget = legs[k].budget
        BY <1>2, <1>3, <3>1
      <4> QED BY <2>1, <3>1, <4>1 DEF BudgetInv
    <3>2. CASE k \notin Legs
      <4>1. legs'[k].hops = HopsForwarded(l) /\ legs'[k].budget = ForwardBudget(l)
        BY <1>2, <1>3, <3>2
      <4> QED BY <1>7, <2>1, <4>1
    <3> QED BY <3>1, <3>2
  <2> QED BY <2>1 DEF BudgetInv
<1>10. ASSUME NEW k \in Legs', k # Root, legs'[k].heard = "pending", At(k) \notin Unresponsive
       PROVE  legs'[Front(k)].left > legs'[k].slack + Needs(k)'
  <2>1. CASE k \in Legs
    <3>1. legs[k].heard = "pending" /\ Front(k) \in Legs
      BY <1>2, <1>3, <1>10, <2>1, LegType
    <3>2. Front(k) # l
      BY <1>4, <1>10, <2>1, <3>1 DEF WaitInv
    <3>3. legs'[Front(k)] = legs[Front(k)]
      BY <1>3, <3>1, <3>2
    <3>4. legs[Front(k)].left > legs[k].slack + Needs(k)
      BY <1>10, <2>1, <3>1 DEF PatienceInv
    <3>5. legs'[k].hops = legs[k].hops /\ legs'[k].budget = legs[k].budget
          /\ legs'[k].slack = legs[k].slack
      BY <1>2, <1>3, <2>1
    <3>6. Needs(k)' = IF legs'[k].state = "wait" THEN legs'[k].left
                      ELSE IF legs'[k].state \in Open /\ HopsGranted(k) > 0 THEN TimeBudget(k)
                      ELSE 0
      BY <2>1, <3>5, NeedsNext
    <3>7. CASE k # l
      <4>1. Needs(k)' = Needs(k)
        BY <1>3, <2>1, <3>6, <3>7 DEF Needs
      <4> QED BY <3>3, <3>4, <3>5, <4>1
    <3>8. CASE k = l
      <4>1. /\ Needs(k) = IF HopsGranted(l) > 0 THEN TimeBudget(l) ELSE 0
            /\ Needs(k)' = IF mine.state = "wait" THEN TimeBudget(l) ELSE 0
        BY <1>2, <1>3, <1>4, <3>6, <3>8 DEF Needs, Open
      <4>2. legs[k].slack \in Nat /\ legs[Front(k)].left \in Nat
        BY <2>1, <3>1, NeedsType
      <4>3. mine.state = "wait" => HopsGranted(l) > 0
        BY <1>2
      <4>4. Needs(k) \in Nat /\ Needs(k)' \in Nat /\ Needs(k)' <= Needs(k)
        <5>1. TimeBudget(l) \in Nat
          BY <1>5
        <5> QED BY <4>1, <4>3, <5>1
      <4>5. /\ legs'[k].slack = legs[k].slack
            /\ legs'[Front(k)].left = legs[Front(k)].left
        BY <3>3, <3>5
      <4> QED BY <3>4, <4>2, <4>4, <4>5
    <3> QED BY <3>7, <3>8
  <2>2. CASE k \notin Legs
    <3>1. PICK p \in asked : k = Append(l, p)
      BY <1>3, <2>2
    <3>2. Front(k) = l /\ At(k) \in Registry
      BY <3>1, LegType, RouteExtends
    <3>3. legs'[Front(k)].left = TimeBudget(l) /\ HopsGranted(l) > 0
      BY <1>2, <1>3, <3>1, <3>2
    <3>4. /\ legs'[k].state = "sent" /\ legs'[k].slack = Lag
          /\ legs'[k].hops = HopsForwarded(l) /\ legs'[k].budget = ForwardBudget(l)
      BY <1>2, <1>3, <2>2
    <3>5. Needs(k)' = IF Lesser(HopsForwarded(l), MaxHops[At(k)]) > 0
                      THEN Lesser(Own[At(k)], ForwardBudget(l)) ELSE 0
      BY <3>4 DEF Needs, Open, HopsGranted, TimeBudget, At
    <3>6. MaxHops[At(k)] \in Nat /\ Own[At(k)] \in Nat
      BY <3>2, FedAssumption
    <3>7. CASE HopsForwarded(l) > 0
      <4>1. Needs(k)' \in Nat /\ Needs(k)' <= ForwardBudget(l)
        BY <1>5, <3>5, <3>6 DEF Lesser
      <4> QED BY <1>5, <1>6, <1>7, <3>3, <3>4, <3>7, <4>1
    <3>8. CASE ~(HopsForwarded(l) > 0)
      <4>1. Needs(k)' = 0
        BY <1>5, <3>5, <3>6, <3>8 DEF Lesser
      <4> QED BY <1>5, <1>6, <1>8, <3>3, <3>4, <4>1
    <3> QED BY <3>7, <3>8
  <2> QED BY <2>1, <2>2
<1>11. PatienceInv'
  BY <1>10 DEF PatienceInv, Root, At
<1> QED BY <1>9, <1>11

(* A caller that gives up in time has only unresponsive peers to give up on.   *)
LEMMA AbandonsSlow ==
    ASSUME LegsTyped, PatienceInv, NEW u \in Legs, NEW gone \in SUBSET Legs, Abandons(u, gone)
    PROVE  \A k \in gone : At(k) \in Unresponsive
<1> SUFFICES ASSUME NEW k \in gone, At(k) \notin Unresponsive PROVE FALSE
  OBVIOUS
<1>1. /\ legs[u].left = 0 /\ k \in Legs /\ k \in Children(u) /\ Front(k) = u
      /\ legs[k].heard = "pending"
  BY DEF Abandons, PendingChildren, Children
<1>2. k # Root
  BY <1>1, RootFirst
<1>3. legs[u].left > legs[k].slack + Needs(k)
  BY <1>1, <1>2 DEF PatienceInv
<1>4. legs[k].slack \in Nat /\ Needs(k) \in Nat
  BY <1>1, NeedsType
<1> QED BY <1>1, <1>3, <1>4

(* A step that gives up on no responsive leg but those of one already given up *)
(* on.                                                                      *)
LEMMA GoneKept ==
    ASSUME LegsTyped, ResponsiveNotTimedOut,
           \A k \in Legs : legs[k].heard = "gone" => legs'[k].heard = "gone",
           \A k \in Legs' : (legs'[k].heard = "gone" /\ At(k) \notin Unresponsive /\ k # Root)
              => /\ k \in Legs
                 /\ legs[k].heard = "gone" \/ legs[Front(k)].heard = "gone"
    PROVE  ResponsiveNotTimedOut'
<1> SUFFICES ASSUME NEW k \in Legs', k # Root, legs'[k].heard = "gone", At(k) \notin Unresponsive
             PROVE  legs'[Front(k)].heard = "gone"
  BY DEF ResponsiveNotTimedOut, Root, At
<1>1. k \in Legs /\ Front(k) \in Legs /\ (legs[k].heard = "gone" \/ legs[Front(k)].heard = "gone")
  BY LegType
<1>2. legs[Front(k)].heard = "gone"
  BY <1>1 DEF ResponsiveNotTimedOut
<1> QED BY <1>1, <1>2

(* Every step leaves a caller the time its responsive peers need.             *)
LEMMA TimeStep ==
    ASSUME EnoughTime
    PROVE  LegsTyped /\ CarryInv /\ BudgetInv /\ PatienceInv /\ ResponsiveNotTimedOut /\ [Next]_vars
              => BudgetInv' /\ PatienceInv' /\ ResponsiveNotTimedOut'
<1> SUFFICES ASSUME LegsTyped, FromOrigin, WaitInv, BudgetInv, PatienceInv,
                    ResponsiveNotTimedOut, [Next]_vars
             PROVE  BudgetInv' /\ PatienceInv' /\ ResponsiveNotTimedOut'
  BY DEF CarryInv
<1>1. ASSUME Calm PROVE ResponsiveNotTimedOut'
  BY <1>1, GoneKept DEF Calm, CalmLeg
<1>2. ASSUME Calm, SameTimes(legs, legs') PROVE BudgetInv' /\ PatienceInv'
  BY <1>2, TimeKept DEF Calm, CalmLeg
<1>3. CASE \E l \in Legs : Claim(l) \/ Recheck(l) \/ Join(l)
  <2>1. PICK l \in Legs : Claim(l) \/ Recheck(l) \/ Join(l)
    BY <1>3
  <2>2. PICK st \in {"repeat", "search", "answer"} : legs' = [legs EXCEPT ![l].state = st]
    BY <2>1 DEF Claim, Recheck, TakeOn, Join
  <2>3. SameTimes(legs, legs')
    BY <2>2, MovedOn
  <2>4. Calm
    BY <2>1, CalmClaim, CalmOther
  <2> QED BY <1>1, <1>2, <2>3, <2>4
<1>4. CASE Tick
  BY <1>1, <1>4, CalmOther, TimePasses
<1>5. CASE (\E r \in Registry : Sweep(r)) \/ UNCHANGED vars
  <2>1. UNCHANGED legs
    BY <1>5 DEF Sweep, vars
  <2>2. SameTimes(legs, legs')
    BY <2>1 DEF SameTimes
  <2>3. Calm
    BY <1>5, CalmOther
  <2> QED BY <1>1, <1>2, <2>2, <2>3
<1>6. CASE \E l \in Legs : FanOut(l)
  <2>1. PICK l \in Legs : FanOut(l)
    BY <1>6
  <2>2. PICK asked \in SUBSET Registry : Asks(l, asked)
    BY <2>1, FanOutAsks
  <2>3. ResponsiveNotTimedOut'
    BY <2>2, GoneKept DEF Asks
  <2> QED BY <2>1, <2>3, TimeFanOut
<1>7. CASE \E l \in Legs : Deliver(l)
  <2>1. PICK l \in Legs : Hears(l)
    BY <1>7, DeliverHears
  <2>2. BudgetInv' /\ PatienceInv'
    BY <2>1, TimeKept DEF Hears
  <2>3. ResponsiveNotTimedOut'
    BY <2>1, GoneKept DEF Hears
  <2> QED BY <2>2, <2>3
<1>8. CASE \E l \in Legs : Fail(l) \/ TimeOut(l)
  <2>1. PICK u \in Legs, gone \in SUBSET Legs : Abandons(u, gone)
    BY <1>8, TimeOutAbandons
  <2>2. BudgetInv' /\ PatienceInv'
    BY <2>1, TimeKept DEF Abandons
  <2>3. ResponsiveNotTimedOut'
    BY <2>1, AbandonsSlow, GoneKept DEF Abandons
  <2> QED BY <2>2, <2>3
<1>9. CASE \E l \in Legs : Cancel(l)
  <2>1. PICK l \in Legs : Drops(l)
    BY <1>9, CancelDrops
  <2>2. BudgetInv' /\ PatienceInv'
    <3>1. "cancelled" \notin Open
      BY DEF Open
    <3> QED BY <2>1, <3>1, TimeKept DEF Drops
  <2>3. \A k \in PendingChildren(l) : Front(k) = l
    BY DEF PendingChildren, Children
  <2>4. ResponsiveNotTimedOut'
    BY <2>1, <2>3, GoneKept DEF Drops
  <2> QED BY <2>2, <2>4
<1> QED BY <1>3, <1>4, <1>5, <1>6, <1>7, <1>8, <1>9 DEF Next, LegStep

(* "a callee always answers before its caller gives up on it": however late    *)
(* or silent the others are, nobody gives up on a responsive registry but     *)
(* whoever was given up on -- if the overhead of a responsive registry is     *)
(* less than the margin, than the least budget that lets a query go on, and   *)
(* than every timeout.                                                      *)
THEOREM ResponsiveNeverTimedOut ==
    ASSUME EnoughTime
    PROVE  Spec => []ResponsiveNotTimedOut
<1>1. Init => BudgetInv /\ PatienceInv /\ ResponsiveNotTimedOut
  BY TimeInit
<1>2. LegsTyped /\ CarryInv /\ BudgetInv /\ PatienceInv /\ ResponsiveNotTimedOut /\ [Next]_vars
         => BudgetInv' /\ PatienceInv' /\ ResponsiveNotTimedOut'
  BY TimeStep
<1> QED BY <1>1, <1>2, TypeInit, TypeStep, CarryInit, CarryStep, PTL DEF Spec

=============================================================================
