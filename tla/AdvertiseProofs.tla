--------------------------- MODULE AdvertiseProofs ---------------------------
(***************************************************************************)
(* Theorems about the advertisement path, for every set of requests,        *)
(* Instances, keys and bodies and every bound on the requests in flight.    *)
(***************************************************************************)
EXTENDS Advertise, TLAPS

-----------------------------------------------------------------------------
(* What a task knows of its body.                                            *)

(* A task that has arrived carries a body with the fields of Payload.        *)
LEMMA BodyType ==
    ASSUME TypeOK, NEW r \in Request, pc[r] # "idle"
    PROVE  /\ input[r] \in Payload
           /\ input[r].via \in Via
           /\ input[r].instance \in Instance
           /\ input[r].key \in RunKey \cup {EmptyKey, None}
           /\ input[r].status \in Status \cup {None}
           /\ input[r].items \in Seq(Item)
BY PayloadAssumption DEF TypeOK

(* The item a task works on, and the key it is remembered by.                *)
LEMMA ItemType ==
    ASSUME TypeOK, NEW r \in Request, pc[r] # "idle", idx[r] \in 1..Len(input[r].items)
    PROVE  /\ ItemOf(r) \in Item
           /\ ArtifactKey(input[r], ItemOf(r)) \in Key \cup {None}
<1>1. input[r].items \in Seq(Item) /\ input[r].key \in RunKey \cup {EmptyKey, None}
  BY BodyType
<1>2. ItemOf(r) \in Item
  BY <1>1 DEF ItemOf
<1>3. ArtifactKey(input[r], ItemOf(r)) \in Key \cup {None}
  BY <1>1, <1>2 DEF ArtifactKey, Key, Item
<1> QED BY <1>2, <1>3

(* A run lookup answers with a Run or nothing.                               *)
LEMMA RunForKeyType ==
    ASSUME TypeOK, NEW r \in Request, pc[r] # "idle"
    PROVE  RunForKey(input[r]) \in RunIri \cup {None}
<1>1. input[r].key \in RunKey \cup {EmptyKey, None} /\ input[r].instance \in Instance
  BY BodyType
<1>2. CASE HasRunKey(input[r])
  <2>1. <<input[r].key, input[r].instance>> \in RunKey \X Instance
    BY <1>1, <1>2 DEF HasRunKey
  <2> QED BY <1>2, <2>1 DEF RunForKey, TypeOK
<1>3. CASE ~HasRunKey(input[r])
  BY <1>3 DEF RunForKey
<1> QED BY <1>2, <1>3

(* An artifact lookup answers with an artifact or nothing.                   *)
LEMMA ArtifactForKeyType ==
    ASSUME TypeOK, NEW r \in Request, Pending(r)
    PROVE  /\ idx[r] \in 1..Len(input[r].items)
           /\ ItemOf(r) \in Item
           /\ ArtifactForKey(r) \in ArtIri \cup {None}
<1>1. pc[r] # "idle" /\ idx[r] \in Nat \ {0} /\ idx[r] <= Len(input[r].items)
  BY DEF Pending, At, TypeOK
<1>2. Len(input[r].items) \in Nat
  BY <1>1, BodyType
<1>3. idx[r] \in 1..Len(input[r].items)
  BY <1>1, <1>2
<1>4. ItemOf(r) \in Item /\ ArtifactKey(input[r], ItemOf(r)) \in Key \cup {None}
  BY <1>1, <1>3, ItemType
<1>5. artifactKeys \in [Key -> ArtIri \cup {None}]
  BY DEF TypeOK
<1> QED BY <1>3, <1>4, <1>5 DEF ArtifactForKey

(* A transaction stays one when its sets grow.                               *)
LEMMA TxGrows ==
    ASSUME NEW t \in TxType, NEW R \in SUBSET RunIri, NEW L \in SUBSET Link,
           NEW S \in SUBSET (RunIri \X Status)
    PROVE  /\ [t EXCEPT !.runs = @ \cup R, !.status = @ \cup S] \in TxType
           /\ [t EXCEPT !.replace = @ \cup R, !.status = @ \cup S] \in TxType
           /\ [t EXCEPT !.links = @ \cup L] \in TxType
<1> DEFINE T == SUBSET (RunIri \X Status)
<1>1. \A a, b \in T : a \cup b \in T
  OBVIOUS
<1>2. TxType = [runs : SUBSET RunIri, arts : SUBSET ArtIri, links : SUBSET Link,
                status : T, replace : SUBSET RunIri]
  BY DEF TxType
<1>3. S \in T
  OBVIOUS
<1> HIDE DEF T
<1> QED BY <1>1, <1>2, <1>3

(* A link names an artifact.                                                 *)
LEMMA LinkParts == \A l \in Link : l[1] \in RunIri /\ l[2] \in ArtIri /\ l[3] \in Role
BY DEF Link

-----------------------------------------------------------------------------
(* Type correctness.                                                         *)

(* The initial state is well typed.                                          *)
LEMMA TypeInit == Init => TypeOK
BY PayloadAssumption, BoundAssumption
   DEF Init, TypeOK, PcType, Ended, TxType, EmptyTx, HasRunKey

(* Arrival, validation and the end of a task.                                *)
LEMMA TypeControl ==
    ASSUME TypeOK, NEW r \in Request,
           Arrive(r) \/ Refuse(r) \/ Accept(r) \/ Abort(r)
    PROVE  TypeOK'
<1>1. CASE Arrive(r)
  BY <1>1, PayloadAssumption
     DEF Arrive, At, Goto, TypeOK, PcType, Ended, taskVars, sqlVars, histVars, ItemOf
<1>2. CASE Refuse(r)
  BY <1>2 DEF Refuse, At, Goto, TypeOK, PcType, Ended, sqlVars, histVars, ItemOf
<1>3. CASE Accept(r)
  BY <1>3 DEF Accept, At, Goto, TypeOK, PcType, Ended, sqlVars, histVars, ItemOf
<1>4. CASE Abort(r)
  BY <1>4, BoundAssumption
     DEF Abort, InFlight, Goto, TypeOK, PcType, Ended, sqlVars, histVars, ItemOf
<1> QED BY <1>1, <1>2, <1>3, <1>4

(* Resolving the Run.                                                        *)
LEMMA TypeRun ==
    ASSUME TypeOK, NEW r \in Request,
           AttachRun(r) \/ MintRun(r) \/ RememberRun(r)
    PROVE  TypeOK'
<1>1. pc[r] # "idle"
  BY DEF AttachRun, MintRun, RememberRun, At
<1>2. /\ input[r].key \in RunKey \cup {EmptyKey, None}
      /\ input[r].instance \in Instance
      /\ input[r].status \in Status \cup {None}
      /\ RunForKey(input[r]) \in RunIri \cup {None}
  BY <1>1, BodyType, RunForKeyType
<1>3. tx[r] \in TxType
  BY DEF TypeOK
<1>4. ASSUME AttachRun(r) PROVE TypeOK'
  <2>1. RunForKey(input[r]) \in RunIri
    BY <1>2, <1>4 DEF AttachRun
  <2>2. UpdateRunOutcome(tx[r], RunForKey(input[r]), input[r]) \in TxType
    <3>1. CASE input[r].status = None
      BY <1>3, <3>1 DEF UpdateRunOutcome
    <3>2. CASE input[r].status # None
      <4>1. {<<RunForKey(input[r]), input[r].status>>} \in SUBSET (RunIri \X Status)
        BY <1>2, <2>1, <3>2
      <4> QED BY <1>3, <2>1, <3>2, <4>1, TxGrows DEF UpdateRunOutcome
    <3> QED BY <3>1, <3>2
  <2> QED
    BY <1>4, <2>1, <2>2, PayloadAssumption
       DEF AttachRun, At, Goto, TypeOK, PcType, Ended, sqlVars, histVars, ItemOf
<1>5. ASSUME MintRun(r) PROVE TypeOK'
  <2>1. <<"run", r>> \in RunIri
    BY DEF RunIri
  <2>2. RunQuads(tx[r], <<"run", r>>, input[r]) \in TxType
    <3> DEFINE st == IF input[r].status = None THEN DefaultStatus ELSE input[r].status
    <3>1. st \in Status
      BY <1>2, PayloadAssumption
    <3> DEFINE R == {<<"run", r>>}
               S == {<<<<"run", r>>, st>>}
    <3>2. R \in SUBSET RunIri /\ S \in SUBSET (RunIri \X Status)
      BY <2>1, <3>1
    <3>3. RunQuads(tx[r], <<"run", r>>, input[r])
            = [tx[r] EXCEPT !.runs = @ \cup R, !.status = @ \cup S]
      BY DEF RunQuads
    <3> HIDE DEF R, S
    <3>4. [tx[r] EXCEPT !.runs = @ \cup R, !.status = @ \cup S] \in TxType
      BY <1>3, <3>2, TxGrows
    <3> QED BY <3>3, <3>4
  <2>3. <<"run", r>> # None
    BY <2>1, PayloadAssumption
  <2>4. PICK next \in {"rememberRun", "items"} :
            /\ pc' = [pc EXCEPT ![r] = next]
            /\ next = "rememberRun" => HasRunKey(input[r])
    BY <1>5 DEF MintRun, Goto
  <2>5. /\ run' = [run EXCEPT ![r] = <<"run", r>>]
        /\ tx' = [tx EXCEPT ![r] = RunQuads(@, <<"run", r>>, input[r])]
        /\ pc[r] = "lookup"
    BY <1>5 DEF MintRun, At
  <2>6. tx' \in [Request -> TxType] /\ run' \in [Request -> RunIri \cup {None}] /\ run'[r] # None
    BY <2>1, <2>2, <2>3, <2>5 DEF TypeOK
  <2> QED
    BY <1>5, <2>4, <2>5, <2>6
       DEF MintRun, TypeOK, PcType, Ended, sqlVars, histVars, ItemOf
<1>6. ASSUME RememberRun(r) PROVE TypeOK'
  <2>1. HasRunKey(input[r])
    BY <1>6 DEF RememberRun, At, TypeOK
  <2>2. <<input[r].key, input[r].instance>> \in RunKey \X Instance
    BY <1>2, <2>1 DEF HasRunKey
  <2>3. runKeys' \in [RunKey \X Instance -> RunIri \cup {None}]
    BY <1>6, <2>2 DEF RememberRun, TypeOK
  <2> QED
    BY <1>6, <2>3 DEF RememberRun, At, Goto, TypeOK, PcType, Ended, histVars, ItemOf
<1> QED BY <1>4, <1>5, <1>6

(* Resolving one artifact.                                                   *)
LEMMA TypeArtifact ==
    ASSUME TypeOK, NEW r \in Request,
           UseReference(r) \/ ReuseArtifact(r) \/ MintArtifact(r)
    PROVE  TypeOK'
<1>1. Pending(r)
  BY DEF UseReference, ReuseArtifact, MintArtifact
<1>2. /\ idx[r] \in 1..Len(input[r].items)
      /\ ItemOf(r) \in Item
      /\ ArtifactForKey(r) \in ArtIri \cup {None}
  BY <1>1, ArtifactForKeyType
<1>3. pc[r] = "items" /\ run[r] \in RunIri /\ tx[r] \in TxType
  BY <1>1 DEF Pending, At, TypeOK
<1>4. ASSUME UseReference(r) PROVE TypeOK'
  <2>1. ItemOf(r).iri \in LocalIri \cup ForeignIri
    BY <1>2, <1>4 DEF UseReference, IsReference, Item
  <2>2. ItemOf(r).iri \in ArtIri /\ ItemOf(r).iri # None
    BY <2>1, PayloadAssumption DEF ArtIri
  <2>3. resolveQueue' \in SUBSET ForeignIri
    BY <1>4 DEF UseReference, Unknown, TypeOK
  <2> QED
    BY <1>2, <1>3, <1>4, <2>2, <2>3
       DEF UseReference, Goto, TypeOK, PcType, Ended, histVars, ItemOf
<1>5. ASSUME ReuseArtifact(r) PROVE TypeOK'
  <2>1. ArtifactForKey(r) \in ArtIri /\ ArtifactForKey(r) # None
    BY <1>2, <1>5 DEF ReuseArtifact
  <2> QED
    BY <1>2, <1>3, <1>5, <2>1
       DEF ReuseArtifact, Goto, TypeOK, PcType, Ended, sqlVars, histVars, ItemOf
<1>6. ASSUME MintArtifact(r) PROVE TypeOK'
  <2> DEFINE iri == <<"art", r, idx[r]>>
  <2>1. iri \in ArtIri /\ iri # None
    BY PayloadAssumption DEF TypeOK, ArtIri, MintedArt
  <2>2. <<run[r], iri, ItemOf(r).role>> \in Link
    BY <1>2, <1>3, <2>1 DEF Link, Item
  <2>3. PICK g \in SUBSET Link :
            tx' = [tx EXCEPT ![r].arts = @ \cup {iri}, ![r].links = @ \cup g]
    <3>1. CASE input[r].via = "advertise" /\ ItemOf(r).role = "produced"
      BY <1>6, <2>2, <3>1 DEF MintArtifact
    <3>2. CASE ~(input[r].via = "advertise" /\ ItemOf(r).role = "produced")
      BY <1>6, <3>2 DEF MintArtifact
    <3> QED BY <3>1, <3>2
  <2>4. tx' \in [Request -> TxType]
    BY <1>3, <2>1, <2>3 DEF TypeOK, TxType
  <2>5. resolveQueue' \in SUBSET ForeignIri
    BY <1>6 DEF MintArtifact, Unknown, TypeOK
  <2> HIDE DEF iri
  <2>6. art' = [art EXCEPT ![r] = iri]
    BY <1>6 DEF MintArtifact, iri
  <2>7. PICK next \in {"claim", "rememberArtifact"} :
            /\ pc' = [pc EXCEPT ![r] = next]
            /\ next = "rememberArtifact" => ArtifactKey(input[r], ItemOf(r)) # None
    BY <1>6 DEF MintArtifact, Goto
  <2>8. /\ created' = [created EXCEPT ![r] = TRUE]
        /\ UNCHANGED <<input, idx, run, done, runKeys, artifactKeys, claims, graph, histVars>>
    BY <1>6 DEF MintArtifact
  <2>9. art' \in [Request -> ArtIri \cup {None}] /\ art'[r] # None
    BY <2>1, <2>6 DEF TypeOK
  <2> QED
    BY <1>2, <1>3, <2>4, <2>5, <2>6, <2>7, <2>8, <2>9
       DEF TypeOK, PcType, Ended, histVars, ItemOf
<1> QED BY <1>4, <1>5, <1>6

(* Remembering an artifact, claiming its link.                               *)
LEMMA TypeClaim ==
    ASSUME TypeOK, NEW r \in Request,
           RememberArtifact(r) \/ ClaimAdvertisement(r)
    PROVE  TypeOK'
<1>1. /\ pc[r] \in {"rememberArtifact", "claim"} /\ run[r] \in RunIri
      /\ art[r] \in ArtIri /\ idx[r] \in 1..Len(input[r].items)
  BY DEF RememberArtifact, ClaimAdvertisement, At, TypeOK
<1>2. ItemOf(r) \in Item /\ ArtifactKey(input[r], ItemOf(r)) \in Key \cup {None}
  BY <1>1, ItemType
<1>3. ASSUME RememberArtifact(r) PROVE TypeOK'
  <2>1. ArtifactKey(input[r], ItemOf(r)) \in Key
    BY <1>2, <1>3 DEF RememberArtifact, At, TypeOK
  <2>2. artifactKeys' \in [Key -> ArtIri \cup {None}]
    BY <1>1, <1>3, <2>1 DEF RememberArtifact, TypeOK
  <2> QED
    BY <1>1, <1>3, <2>2 DEF RememberArtifact, At, Goto, TypeOK, PcType, Ended, histVars, ItemOf
<1>4. ASSUME ClaimAdvertisement(r) PROVE TypeOK'
  <2> DEFINE l == <<run[r], art[r], ItemOf(r).role>>
  <2>1. l \in Link
    BY <1>1, <1>2 DEF Link, Item
  <2>2. PICK g \in SUBSET Link : tx' = [tx EXCEPT ![r].links = @ \cup g]
    <3>1. CASE Fresh(l)
      BY <1>4, <2>1, <3>1 DEF ClaimAdvertisement
    <3>2. CASE ~Fresh(l)
      <4>1. tx' = [tx EXCEPT ![r].links = @ \cup {}]
        BY <1>4, <3>2 DEF ClaimAdvertisement
      <4> QED BY <4>1
    <3> QED BY <3>1, <3>2
  <2>3. tx' \in [Request -> TxType]
    <3>1. tx \in [Request -> TxType] /\ tx[r] \in TxType
      BY DEF TypeOK
    <3>2. [tx[r] EXCEPT !.links = @ \cup g] \in TxType
      BY <3>1, TxGrows
    <3> QED BY <2>2, <3>1, <3>2
  <2> HIDE DEF l
  <2>4. /\ claims' = claims \cup {l}
        /\ done' = [done EXCEPT ![r] = @ \cup {l}]
        /\ pc[r] = "claim" /\ pc' = [pc EXCEPT ![r] = "items"]
        /\ idx' = [idx EXCEPT ![r] = @ + 1]
        /\ UNCHANGED <<input, run, art, runKeys, artifactKeys, resolveQueue, graph, histVars>>
    BY <1>4 DEF ClaimAdvertisement, At, Goto, l
  <2>5. created' \in [Request -> BOOLEAN]
    BY <1>4 DEF ClaimAdvertisement, TypeOK, Fresh
  <2>6. done' \in [Request -> SUBSET Link] /\ claims' \in SUBSET Link
    BY <2>1, <2>4 DEF TypeOK
  <2>7. idx' \in [Request -> Nat \ {0}]
    BY <2>4 DEF TypeOK
  <2>8. run[r] # None
    BY <1>1, PayloadAssumption
  <2> QED
    BY <2>3, <2>4, <2>5, <2>6, <2>7, <2>8 DEF TypeOK, PcType, Ended, histVars, ItemOf
<1> QED BY <1>3, <1>4

(* Commit, notification, answer.                                             *)
LEMMA TypeEnd ==
    ASSUME TypeOK, NEW r \in Request,
           Commit(r) \/ Notify(r) \/ Answer(r)
    PROVE  TypeOK'
<1>1. ASSUME Commit(r) PROVE TypeOK'
  <2>1. tx[r] \in TxType
    BY DEF TypeOK
  <2>2. graph' \in [runs : SUBSET RunIri, arts : SUBSET ArtIri, links : SUBSET Link,
                    status : SUBSET (RunIri \X Status)]
    BY <1>1, <2>1 DEF Commit, ApplyTx, TxType, TypeOK
  <2>3. PICK next \in {"notify", "answer"} : pc' = [pc EXCEPT ![r] = next]
    BY <1>1 DEF Commit, Goto
  <2>4. /\ pc[r] = "items"
        /\ UNCHANGED <<input, idx, run, art, done, created, tx, sqlVars, histVars>>
    BY <1>1 DEF Commit, At
  <2> QED
    BY <2>2, <2>3, <2>4 DEF TypeOK, PcType, Ended, sqlVars, histVars, ItemOf
<1>2. ASSUME Notify(r) PROVE TypeOK'
  <2>1. notified' \in SUBSET ArtIri
    <3>1. done[r] \in SUBSET Link /\ notified \in SUBSET ArtIri
      BY DEF TypeOK
    <3> QED BY <1>2, <3>1, LinkParts DEF Notify
  <2> QED
    BY <1>2, <2>1 DEF Notify, At, Goto, TypeOK, PcType, Ended, sqlVars, ItemOf
<1>3. ASSUME Answer(r) PROVE TypeOK'
  <2>1. acked' \in SUBSET [by : Request, run : RunIri, links : SUBSET Link, created : BOOLEAN]
    BY <1>3 DEF Answer, At, TypeOK
  <2> QED
    BY <1>3, <2>1 DEF Answer, At, Goto, TypeOK, PcType, Ended, sqlVars, ItemOf
<1> QED BY <1>1, <1>2, <1>3

(* A step that changes nothing keeps the types.                              *)
LEMMA TypeStutter == TypeOK /\ UNCHANGED vars => TypeOK'
BY DEF TypeOK, vars, taskVars, sqlVars, histVars, ItemOf

(* Every variable keeps its type, whatever requests interleave or die.       *)
THEOREM TypeCorrect == Spec => []TypeOK
<1>1. TypeOK /\ [Next]_vars => TypeOK'
  <2>1. ASSUME TypeOK, NEW r \in Request,
               Arrive(r) \/ Refuse(r) \/ Step(r) \/ Abort(r)
        PROVE  TypeOK'
    BY <2>1, TypeControl, TypeRun, TypeArtifact, TypeClaim, TypeEnd DEF Step
  <2> QED BY <2>1, TypeStutter DEF Next
<1> QED BY TypeInit, <1>1, PTL DEF Spec

-----------------------------------------------------------------------------
(* What was promised is never dropped.                                       *)

(* Before the Run is resolved a transaction is empty; once committed, all of  *)
(* it is in the graph.                                                       *)
TxInv ==
    \A r \in Request :
        /\ pc[r] \in {"idle", "check", "refused", "lookup"} => tx[r] = EmptyTx
        /\ pc[r] \in {"notify", "answer", "answered"} =>
              /\ tx[r].runs \subseteq graph.runs
              /\ tx[r].arts \subseteq graph.arts
              /\ tx[r].links \subseteq graph.links

(* A claimed link is accounted for, and only claimed links are reported.     *)
ClaimInv ==
    /\ \A l \in claims : l \in HeldLinks
    /\ \A r \in Request : done[r] \subseteq claims
    /\ \A a \in acked : a.links \subseteq claims

(* Every IRI a table, a task or a link names has its record accounted for.   *)
RecordInv ==
    /\ \A k \in RunKey \X Instance : runKeys[k] # None => runKeys[k] \in HeldRuns
    /\ \A k \in Key : artifactKeys[k] # None => artifactKeys[k] \in HeldArts
    /\ \A r \in Request :
          /\ run[r] # None => run[r] \in HeldRuns
          /\ art[r] # None => art[r] \in HeldArts
          /\ \A l \in tx[r].links : l[1] \in HeldRuns /\ l[2] \in HeldArts
    /\ \A l \in graph.links : l[1] \in HeldRuns /\ l[2] \in HeldArts

(* The graph and every transaction only grow, and a task stops carrying its   *)
(* transaction only by being refused, when it is empty, or answered, when it  *)
(* is committed.                                                             *)
Grows ==
    /\ graph.runs \subseteq graph'.runs
    /\ graph.arts \subseteq graph'.arts
    /\ graph.links \subseteq graph'.links
    /\ \A q \in Request :
          /\ tx[q].runs \subseteq tx'[q].runs
          /\ tx[q].arts \subseteq tx'[q].arts
          /\ tx[q].links \subseteq tx'[q].links
          /\ q \in Carriers => q \in Carriers' \/ pc[q] \in {"check", "answer"}
(* The effect of every step on the graph and the transactions.               *)
LEMMA StepGrows ==
    ASSUME TypeOK, NEW r \in Request,
           Arrive(r) \/ Refuse(r) \/ Step(r) \/ Abort(r)
    PROVE  Grows
<1>1. tx \in [Request -> TxType] /\ pc \in [Request -> PcType] /\ tx[r] \in TxType
  BY DEF TypeOK
<1>2. CASE Arrive(r) \/ Refuse(r) \/ Accept(r) \/ Abort(r)
  BY <1>1, <1>2 DEF Arrive, Refuse, Accept, Abort, InFlight, Ended, At, Goto, Grows, Carriers
<1>3. CASE RememberRun(r) \/ UseReference(r) \/ ReuseArtifact(r) \/ RememberArtifact(r)
  BY <1>1, <1>3 DEF RememberRun, UseReference, ReuseArtifact, RememberArtifact, Pending,
                    At, Goto, Grows, Carriers
<1>4. CASE Notify(r) \/ Answer(r)
  BY <1>1, <1>4 DEF Notify, Answer, At, Goto, Grows, Carriers
<1>5. CASE Commit(r)
  <2>1. \A q \in Request : q \in Carriers => q \in Carriers'
    BY <1>1, <1>5 DEF Commit, At, Goto, Carriers
  <2>2. UNCHANGED tx /\ graph' = ApplyTx(graph, tx[r])
    BY <1>5 DEF Commit
  <2> QED BY <2>1, <2>2 DEF ApplyTx, Grows
<1>6. CASE AttachRun(r) \/ MintRun(r)
  <2>1. \A q \in Request : q \in Carriers => q \in Carriers'
    BY <1>1, <1>6 DEF AttachRun, MintRun, At, Goto, Carriers
  <2>2. UNCHANGED graph
    BY <1>6 DEF AttachRun, MintRun
  <2>3. PICK t : /\ tx' = [tx EXCEPT ![r] = t]
                 /\ t \in {RunQuads(tx[r], <<"run", r>>, input[r]),
                          UpdateRunOutcome(tx[r], RunForKey(input[r]), input[r])}
    BY <1>6 DEF AttachRun, MintRun
  <2>4. tx[r].runs \subseteq t.runs /\ tx[r].arts \subseteq t.arts /\ tx[r].links \subseteq t.links
    BY <1>1, <2>3 DEF RunQuads, UpdateRunOutcome, TxType
  <2>5. \A q \in Request : /\ tx[q].runs \subseteq tx'[q].runs
                          /\ tx[q].arts \subseteq tx'[q].arts
                          /\ tx[q].links \subseteq tx'[q].links
    BY <1>1, <2>3, <2>4
  <2> QED BY <2>1, <2>2, <2>5 DEF Grows
<1>7. CASE MintArtifact(r) \/ ClaimAdvertisement(r)
  <2>1. \A q \in Request : q \in Carriers => q \in Carriers'
    BY <1>1, <1>7 DEF MintArtifact, ClaimAdvertisement, Pending, At, Goto, Carriers
  <2>2. UNCHANGED graph
    BY <1>7 DEF MintArtifact, ClaimAdvertisement
  <2>3. PICK A, L : tx' = [tx EXCEPT ![r].arts = @ \cup A, ![r].links = @ \cup L]
    <3>1. CASE MintArtifact(r)
      BY <3>1 DEF MintArtifact
    <3>2. CASE ClaimAdvertisement(r)
      <4> DEFINE l == <<run[r], art[r], ItemOf(r).role>>
      <4>1. tx' = [tx EXCEPT ![r].links = IF Fresh(l) THEN @ \cup {l} ELSE @]
        BY <3>2 DEF ClaimAdvertisement
      <4> HIDE DEF l
      <4>2. tx' = [tx EXCEPT ![r].arts = @ \cup {}, ![r].links = @ \cup IF Fresh(l) THEN {l} ELSE {}]
        BY <1>1, <4>1 DEF TxType
      <4> QED BY <4>2
    <3> QED BY <1>7, <3>1, <3>2
  <2>4. \A q \in Request : /\ tx[q].runs \subseteq tx'[q].runs
                          /\ tx[q].arts \subseteq tx'[q].arts
                          /\ tx[q].links \subseteq tx'[q].links
    BY <1>1, <2>3 DEF TxType
  <2> QED BY <2>1, <2>2, <2>4 DEF Grows
<1> QED BY <1>2, <1>3, <1>4, <1>5, <1>6, <1>7 DEF Step

(* What is accounted for stays so: a task that stops carrying its transaction *)
(* had nothing in it or has committed all of it.                             *)
LEMMA Kept ==
    ASSUME TxInv, Grows
    PROVE  /\ HeldLinks \subseteq HeldLinks'
           /\ HeldRuns \subseteq HeldRuns'
           /\ HeldArts \subseteq HeldArts'
<1>1. \A q \in Request : pc[q] = "check" =>
        tx[q].runs = {} /\ tx[q].arts = {} /\ tx[q].links = {}
  BY DEF TxInv, EmptyTx
<1>2. \A q \in Request : pc[q] = "answer" =>
        /\ tx[q].runs \subseteq graph.runs
        /\ tx[q].arts \subseteq graph.arts
        /\ tx[q].links \subseteq graph.links
  BY DEF TxInv
<1>3. ASSUME NEW l, l \in HeldLinks PROVE l \in HeldLinks'
  BY <1>1, <1>2, <1>3 DEF Grows, HeldLinks, Carriers
<1>4. ASSUME NEW i, i \in HeldRuns PROVE i \in HeldRuns'
  BY <1>1, <1>2, <1>4 DEF Grows, HeldRuns, Carriers
<1>5. ASSUME NEW i, i \in HeldArts PROVE i \in HeldArts'
  BY <1>1, <1>2, <1>5 DEF Grows, HeldArts, Carriers
<1> QED BY <1>3, <1>4, <1>5

(* A transaction is empty before it is built and landed once committed.      *)
LEMMA TxInvStep ==
    ASSUME TypeOK, TxInv, NEW r \in Request,
           Arrive(r) \/ Refuse(r) \/ Step(r) \/ Abort(r)
    PROVE  TxInv'
<1>1. tx \in [Request -> TxType] /\ pc \in [Request -> PcType]
  BY DEF TypeOK
<1>2. Grows
  BY StepGrows
<1>3. ASSUME NEW q \in Request, q # r
      PROVE  tx'[q] = tx[q] /\ pc'[q] = pc[q]
  BY <1>1, <1>3 DEF Step, Arrive, Refuse, Abort, Accept, AttachRun, MintRun, RememberRun,
     UseReference, ReuseArtifact, MintArtifact, RememberArtifact, ClaimAdvertisement,
     Commit, Notify, Answer, Goto
<1>4. pc'[r] \in {"idle", "check", "refused", "lookup"} => tx'[r] = EmptyTx
  BY <1>1 DEF TxInv, Step, Arrive, Refuse, Abort, Accept, AttachRun, MintRun, RememberRun,
     UseReference, ReuseArtifact, MintArtifact, RememberArtifact, ClaimAdvertisement,
     Commit, Notify, Answer, At, Goto
<1>5. ASSUME pc'[r] \in {"notify", "answer", "answered"}
      PROVE  /\ tx'[r].runs \subseteq graph'.runs
             /\ tx'[r].arts \subseteq graph'.arts
             /\ tx'[r].links \subseteq graph'.links
  <2>1. Commit(r) \/ Notify(r) \/ Answer(r)
    BY <1>1, <1>5 DEF Step, Arrive, Refuse, Abort, Accept, AttachRun, MintRun, RememberRun,
       UseReference, ReuseArtifact, MintArtifact, RememberArtifact, ClaimAdvertisement, Goto
  <2>2. CASE Commit(r)
    BY <2>2 DEF Commit, ApplyTx
  <2>3. CASE Notify(r) \/ Answer(r)
    BY <2>3 DEF Notify, Answer, At, TxInv
  <2> QED BY <2>1, <2>2, <2>3
<1> QED BY <1>2, <1>3, <1>4, <1>5 DEF TxInv, Grows
(* Every row of the claim table stands for a link that is accounted for.     *)
LEMMA ClaimInvStep ==
    ASSUME TypeOK, TxInv, ClaimInv, NEW r \in Request,
           Arrive(r) \/ Refuse(r) \/ Step(r) \/ Abort(r)
    PROVE  ClaimInv'
<1>1. Grows /\ HeldLinks \subseteq HeldLinks'
  BY StepGrows, Kept
<1>2. CASE ClaimAdvertisement(r)
  <2> DEFINE l == <<run[r], art[r], ItemOf(r).role>>
  <2>1. /\ claims' = claims \cup {l}
        /\ done' = [done EXCEPT ![r] = @ \cup {l}]
        /\ UNCHANGED acked
    BY <1>2 DEF ClaimAdvertisement, histVars
  <2>2. l \in HeldLinks'
    <3>1. CASE Fresh(l)
      <4>1. l \in tx'[r].links
        BY <1>2, <3>1 DEF ClaimAdvertisement, TypeOK, TxType
      <4>2. r \in Carriers'
        BY <1>2 DEF ClaimAdvertisement, Goto, TypeOK, Carriers
      <4> QED BY <4>1, <4>2 DEF HeldLinks, Carriers
    <3>2. CASE ~Fresh(l)
      BY <1>1, <3>2 DEF ClaimInv, Fresh
    <3> QED BY <3>1, <3>2
  <2> HIDE DEF l
  <2>3. \A q \in Request : done'[q] \subseteq claims'
    BY <2>1 DEF ClaimInv, TypeOK
  <2>4. \A k \in claims' : k \in HeldLinks'
    BY <1>1, <2>1, <2>2 DEF ClaimInv
  <2>5. \A a \in acked' : a.links \subseteq claims'
    BY <2>1 DEF ClaimInv
  <2> QED BY <2>3, <2>4, <2>5 DEF ClaimInv
<1>3. CASE Answer(r)
  <2>1. /\ UNCHANGED <<claims, done>>
        /\ acked' = acked \cup {[by |-> r, run |-> run[r], links |-> done[r], created |-> created[r]]}
    BY <1>3 DEF Answer, sqlVars
  <2>2. \A a \in acked' : a.links \subseteq claims'
    BY <2>1 DEF ClaimInv
  <2> QED BY <1>1, <2>1, <2>2 DEF ClaimInv
<1>4. CASE UNCHANGED <<claims, done, acked>>
  BY <1>1, <1>4 DEF ClaimInv
<1>5. ClaimAdvertisement(r) \/ Answer(r) \/ UNCHANGED <<claims, done, acked>>
  BY DEF Step, Arrive, Refuse, Abort, Accept, AttachRun, MintRun, RememberRun, UseReference,
     ReuseArtifact, MintArtifact, RememberArtifact, Commit, Notify, sqlVars, histVars
<1> QED BY <1>2, <1>3, <1>4, <1>5

(* A step that changes nothing keeps the claim invariant.                    *)
LEMMA ClaimStutter ==
    TypeOK /\ TxInv /\ ClaimInv /\ UNCHANGED vars => TxInv' /\ ClaimInv'
BY DEF TxInv, ClaimInv, HeldLinks, Carriers, vars, taskVars, sqlVars, histVars

(* No claim, no transaction, no answer at the start.                         *)
LEMMA ClaimInit == Init => TxInv /\ ClaimInv
BY DEF Init, TxInv, ClaimInv, EmptyTx, HeldLinks, Carriers

(* The inductive invariant of the claim table.                               *)
LEMMA ClaimsKept == Spec => [](TxInv /\ ClaimInv)
<1>1. TypeOK /\ TxInv /\ ClaimInv /\ [Next]_vars => TxInv' /\ ClaimInv'
  <2>1. ASSUME TypeOK, TxInv, ClaimInv, NEW r \in Request,
               Arrive(r) \/ Refuse(r) \/ Step(r) \/ Abort(r)
        PROVE  TxInv' /\ ClaimInv'
    BY <2>1, TxInvStep, ClaimInvStep
  <2> QED BY <2>1, ClaimStutter DEF Next
<1> QED BY <1>1, ClaimInit, TypeCorrect, PTL DEF Spec

(* A link a request was answered for is in the graph or carried by the one    *)
(* request that won its claim, in whatever order requests interleave and die: *)
(* the idempotency table never makes a retry drop what nobody else writes.    *)
THEOREM AcknowledgedLinksAccounted == Spec => []AckedLinksAccounted
<1>1. ClaimInv => AckedLinksAccounted
  BY DEF ClaimInv, AckedLinksAccounted
<1> QED BY <1>1, ClaimsKept, PTL

-----------------------------------------------------------------------------
(* Endpoints of links.                                                       *)

(* Every IRI a step stores or links has its record accounted for.            *)
LEMMA RecordInvStep ==
    ASSUME TypeOK, TxInv, RecordInv, NEW r \in Request,
           Arrive(r) \/ Refuse(r) \/ Step(r) \/ Abort(r)
    PROVE  RecordInv'
<1>1. /\ Grows
      /\ HeldRuns \subseteq HeldRuns'
      /\ HeldArts \subseteq HeldArts'
  BY StepGrows, Kept
<1>2. CASE AttachRun(r)
  <2>1. RunForKey(input[r]) \in HeldRuns
    <3>1. HasRunKey(input[r]) /\ pc[r] # "idle"
      BY <1>2 DEF AttachRun, RunForKey, At
    <3>2. <<input[r].key, input[r].instance>> \in RunKey \X Instance
      BY <3>1, BodyType DEF HasRunKey
    <3> QED BY <1>2, <3>1, <3>2 DEF AttachRun, RunForKey, RecordInv
  <2>2. /\ run' = [run EXCEPT ![r] = RunForKey(input[r])]
        /\ UNCHANGED <<art, runKeys, artifactKeys, graph>>
    BY <1>2 DEF AttachRun, sqlVars
  <2>3. \A q \in Request : tx'[q].links = tx[q].links
    BY <1>2 DEF AttachRun, UpdateRunOutcome, TypeOK, TxType
  <2>4. \A q \in Request : run'[q] # None => run'[q] \in HeldRuns'
    BY <1>1, <2>1, <2>2 DEF RecordInv, TypeOK
  <2> QED BY <1>1, <2>2, <2>3, <2>4 DEF RecordInv
<1>3. CASE MintRun(r)
  <2> DEFINE iri == <<"run", r>>
  <2>1. iri \in HeldRuns'
    <3>1. iri \in tx'[r].runs
      BY <1>3 DEF MintRun, RunQuads, TypeOK, TxType
    <3>2. r \in Carriers'
      BY <1>3 DEF MintRun, Goto, TypeOK, Carriers
    <3> QED BY <3>1, <3>2 DEF HeldRuns, Carriers
  <2>2. run' = [run EXCEPT ![r] = iri] /\ UNCHANGED <<art, runKeys, artifactKeys, graph>>
    BY <1>3 DEF MintRun, sqlVars
  <2>3. \A q \in Request : tx'[q].links = tx[q].links
    BY <1>3 DEF MintRun, RunQuads, TypeOK, TxType
  <2> HIDE DEF iri
  <2>4. \A q \in Request : run'[q] # None => run'[q] \in HeldRuns'
    BY <1>1, <2>1, <2>2 DEF RecordInv, TypeOK
  <2> QED BY <1>1, <2>2, <2>3, <2>4 DEF RecordInv
<1>4. CASE RememberRun(r)
  <2>1. run[r] # None /\ run[r] \in HeldRuns
    BY <1>4 DEF RememberRun, At, TypeOK, RecordInv
  <2>2. /\ runKeys' = [runKeys EXCEPT ![<<input[r].key, input[r].instance>>]
                                     = IF @ = None THEN run[r] ELSE @]
        /\ UNCHANGED <<run, art, tx, artifactKeys, graph>>
    BY <1>4 DEF RememberRun
  <2>3. \A k \in RunKey \X Instance : runKeys'[k] # None => runKeys'[k] \in HeldRuns'
    BY <1>1, <2>1, <2>2 DEF RecordInv, TypeOK
  <2> QED BY <1>1, <2>2, <2>3 DEF RecordInv
<1>5. CASE UseReference(r)
  <2>1. ItemOf(r).iri \in LocalIri \cup ForeignIri
    BY <1>5, ArtifactForKeyType DEF UseReference, IsReference, Item
  <2>2. art' = [art EXCEPT ![r] = ItemOf(r).iri] /\ UNCHANGED <<run, tx, runKeys, artifactKeys, graph>>
    BY <1>5 DEF UseReference
  <2>3. \A q \in Request : art'[q] # None => art'[q] \in HeldArts'
    BY <1>1, <2>1, <2>2 DEF RecordInv, TypeOK, HeldArts, Carriers
  <2> QED BY <1>1, <2>2, <2>3 DEF RecordInv
<1>6. CASE ReuseArtifact(r)
  <2>1. ArtifactForKey(r) \in HeldArts
    <3>1. Pending(r) /\ ArtifactForKey(r) # None
      BY <1>6 DEF ReuseArtifact
    <3>2. ArtifactKey(input[r], ItemOf(r)) \in Key
      BY <3>1, ArtifactForKeyType, ItemType DEF ArtifactForKey, Pending, At
    <3> QED BY <3>1, <3>2 DEF ArtifactForKey, RecordInv
  <2>2. art' = [art EXCEPT ![r] = ArtifactForKey(r)] /\ UNCHANGED <<run, tx, runKeys, artifactKeys, graph>>
    BY <1>6 DEF ReuseArtifact, sqlVars
  <2>3. \A q \in Request : art'[q] # None => art'[q] \in HeldArts'
    BY <1>1, <2>1, <2>2 DEF RecordInv, TypeOK
  <2> QED BY <1>1, <2>2, <2>3 DEF RecordInv
<1>7. CASE MintArtifact(r)
  <2> DEFINE iri == <<"art", r, idx[r]>>
  <2>1. iri \in HeldArts'
    <3>1. iri \in tx'[r].arts
      BY <1>7 DEF MintArtifact, TypeOK, TxType
    <3>2. r \in Carriers'
      BY <1>7 DEF MintArtifact, Goto, TypeOK, Carriers
    <3> QED BY <3>1, <3>2 DEF HeldArts, Carriers
  <2>2. art' = [art EXCEPT ![r] = iri] /\ UNCHANGED <<run, runKeys, artifactKeys, graph>>
    BY <1>7 DEF MintArtifact
  <2>3. \A q \in Request : \A l \in tx'[q].links :
           l \in tx[q].links \/ (q = r /\ l = <<run[r], iri, ItemOf(r).role>>)
    BY <1>7 DEF MintArtifact, TypeOK, TxType
  <2>4. run[r] # None
    BY <1>7 DEF MintArtifact, Pending, At, TypeOK
  <2> HIDE DEF iri
  <2>5. \A q \in Request : \A l \in tx'[q].links : l[1] \in HeldRuns' /\ l[2] \in HeldArts'
    BY <1>1, <2>1, <2>3, <2>4 DEF RecordInv
  <2>6. \A q \in Request : art'[q] # None => art'[q] \in HeldArts'
    BY <1>1, <2>1, <2>2 DEF RecordInv, TypeOK
  <2> QED BY <1>1, <2>2, <2>5, <2>6 DEF RecordInv
<1>8. CASE RememberArtifact(r)
  <2>1. art[r] # None /\ art[r] \in HeldArts
    BY <1>8 DEF RememberArtifact, At, TypeOK, RecordInv
  <2>2. /\ artifactKeys' = [artifactKeys EXCEPT ![ArtifactKey(input[r], ItemOf(r))]
                                     = IF @ = None THEN art[r] ELSE @]
        /\ UNCHANGED <<run, art, tx, runKeys, graph>>
    BY <1>8 DEF RememberArtifact
  <2>3. \A k \in Key : artifactKeys'[k] # None => artifactKeys'[k] \in HeldArts'
    BY <1>1, <2>1, <2>2 DEF RecordInv, TypeOK
  <2> QED BY <1>1, <2>2, <2>3 DEF RecordInv
<1>9. CASE ClaimAdvertisement(r)
  <2>1. UNCHANGED <<run, art, runKeys, artifactKeys, graph>>
    BY <1>9 DEF ClaimAdvertisement
  <2>2. \A q \in Request : \A l \in tx'[q].links :
           l \in tx[q].links \/ (q = r /\ l = <<run[r], art[r], ItemOf(r).role>>)
    BY <1>9 DEF ClaimAdvertisement, TypeOK, TxType
  <2>3. run[r] # None /\ art[r] # None
    BY <1>9 DEF ClaimAdvertisement, At, TypeOK
  <2>4. \A q \in Request : \A l \in tx'[q].links : l[1] \in HeldRuns' /\ l[2] \in HeldArts'
    BY <1>1, <2>2, <2>3 DEF RecordInv
  <2> QED BY <1>1, <2>1, <2>4 DEF RecordInv
<1>10. CASE Commit(r)
  <2>1. UNCHANGED <<run, art, tx, runKeys, artifactKeys>> /\ graph' = ApplyTx(graph, tx[r])
    BY <1>10 DEF Commit, sqlVars
  <2>2. \A l \in graph'.links : l[1] \in HeldRuns' /\ l[2] \in HeldArts'
    BY <1>1, <2>1 DEF RecordInv, ApplyTx
  <2> QED BY <1>1, <2>1, <2>2 DEF RecordInv
<1>11. CASE UNCHANGED <<run, art, tx, runKeys, artifactKeys, graph>>
  BY <1>1, <1>11 DEF RecordInv
<1>12. \/ AttachRun(r) \/ MintRun(r) \/ RememberRun(r) \/ UseReference(r) \/ ReuseArtifact(r)
       \/ MintArtifact(r) \/ RememberArtifact(r) \/ ClaimAdvertisement(r) \/ Commit(r)
       \/ UNCHANGED <<run, art, tx, runKeys, artifactKeys, graph>>
  BY DEF Step, Arrive, Refuse, Abort, Accept, Notify, Answer, sqlVars
<1> QED BY <1>2, <1>3, <1>4, <1>5, <1>6, <1>7, <1>8, <1>9, <1>10, <1>11, <1>12

(* What a request has done, and what subscribers were told of, is accounted   *)
(* for.                                                                      *)
NoticeInv ==
    /\ \A r \in Request : \A l \in done[r] : l[2] \in HeldArts
    /\ notified \subseteq HeldArts

(* A notification names what its request has claimed.                        *)
LEMMA NoticeInvStep ==
    ASSUME TypeOK, TxInv, RecordInv, NoticeInv, NEW r \in Request,
           Arrive(r) \/ Refuse(r) \/ Step(r) \/ Abort(r)
    PROVE  NoticeInv'
<1>1. HeldArts \subseteq HeldArts'
  BY StepGrows, Kept
<1>2. CASE ClaimAdvertisement(r)
  <2> DEFINE l == <<run[r], art[r], ItemOf(r).role>>
  <2>1. done' = [done EXCEPT ![r] = @ \cup {l}] /\ UNCHANGED notified
    BY <1>2 DEF ClaimAdvertisement, histVars
  <2>2. l[2] \in HeldArts
    BY <1>2 DEF ClaimAdvertisement, At, TypeOK, RecordInv
  <2> HIDE DEF l
  <2>3. \A q \in Request : \A k \in done'[q] : k \in done[q] \/ k = l
    BY <2>1 DEF TypeOK
  <2> QED BY <1>1, <2>1, <2>2, <2>3 DEF NoticeInv
<1>3. CASE Notify(r)
  BY <1>1, <1>3 DEF Notify, NoticeInv
<1>4. CASE UNCHANGED <<done, notified>>
  BY <1>1, <1>4 DEF NoticeInv
<1>5. ClaimAdvertisement(r) \/ Notify(r) \/ UNCHANGED <<done, notified>>
  BY DEF Step, Arrive, Refuse, Abort, Accept, AttachRun, MintRun, RememberRun, UseReference,
     ReuseArtifact, MintArtifact, RememberArtifact, Commit, Answer, histVars
<1> QED BY <1>2, <1>3, <1>4, <1>5

(* A committed link, and a notification, never point at a Run or artifact     *)
(* whose record nobody holds: it has landed, or the request that minted it    *)
(* still carries it or died with it.                                         *)
THEOREM EndpointsAccounted == Spec => []RecordsAccounted
<1>1. Init => RecordInv /\ NoticeInv
  BY DEF Init, RecordInv, NoticeInv, EmptyTx
<1>2. TypeOK /\ TxInv /\ RecordInv /\ NoticeInv /\ [Next]_vars => RecordInv' /\ NoticeInv'
  <2>1. TypeOK /\ TxInv /\ RecordInv /\ NoticeInv /\ UNCHANGED vars => RecordInv' /\ NoticeInv'
    BY DEF RecordInv, NoticeInv, HeldRuns, HeldArts, Carriers, vars, taskVars, sqlVars, histVars
  <2> QED BY <2>1, RecordInvStep, NoticeInvStep DEF Next
<1>3. RecordInv /\ NoticeInv => RecordsAccounted
  BY DEF RecordInv, NoticeInv, RecordsAccounted
<1> QED BY <1>1, <1>2, <1>3, TypeCorrect, ClaimsKept, PTL DEF Spec

-----------------------------------------------------------------------------
(* Whose Run it is.                                                          *)

(* A Run is remembered under the key of the request that minted it, and used   *)
(* by requests of that Instance only.                                        *)
OwnerInv ==
    /\ \A k \in RunKey \X Instance, m \in Request :
          runKeys[k] = <<"run", m>> => pc[m] # "idle" /\ RunKeyOf(m) = k
    /\ \A r, m \in Request :
          run[r] = <<"run", m>> => /\ pc[m] # "idle" /\ pc[r] # "idle"
                                   /\ input[m].instance = input[r].instance
    /\ \A r \in Request : pc[r] = "rememberRun" => run[r] = <<"run", r>>
    /\ \A a \in acked : pc[a.by] = "answered" /\ a.run = run[a.by]

(* A body is set on arrival and stays; an answered task is at rest.          *)
LEMMA BodyStays ==
    ASSUME TypeOK, NEW r \in Request, Arrive(r) \/ Refuse(r) \/ Step(r) \/ Abort(r)
    PROVE  \A q \in Request :
             /\ pc[q] # "idle" => pc'[q] # "idle" /\ input'[q] = input[q]
             /\ pc[q] = "answered" => pc'[q] = "answered" /\ run'[q] = run[q]
<1>1. /\ pc \in [Request -> PcType] /\ input \in [Request -> Payload \cup {None}]
      /\ run \in [Request -> RunIri \cup {None}]
  BY DEF TypeOK
<1> QED BY <1>1 DEF Step, Arrive, Refuse, Abort, Accept, AttachRun, MintRun, RememberRun,
     UseReference, ReuseArtifact, MintArtifact, RememberArtifact, ClaimAdvertisement,
     Commit, Notify, Answer, Pending, At, Goto, InFlight, Ended

(* A row of run_keys is written by the request that minted the Run.          *)
LEMMA RememberedByMinter ==
    ASSUME TypeOK, OwnerInv, NEW r \in Request, Arrive(r) \/ Refuse(r) \/ Step(r) \/ Abort(r),
           NEW k \in RunKey \X Instance, NEW m \in Request, runKeys'[k] = <<"run", m>>
    PROVE  pc'[m] # "idle" /\ RunKeyOf(m)' = k
<1>1. pc[m] # "idle" => pc'[m] # "idle" /\ RunKeyOf(m)' = RunKeyOf(m)
  BY BodyStays DEF RunKeyOf
<1>2. CASE RememberRun(r)
  <2>1. /\ runKeys' = [runKeys EXCEPT ![RunKeyOf(r)] = IF @ = None THEN run[r] ELSE @]
        /\ pc[r] = "rememberRun"
    BY <1>2 DEF RememberRun, RunKeyOf, At
  <2>2. run[r] = <<"run", r>>
    BY <2>1 DEF OwnerInv
  <2>3. runKeys[k] = <<"run", m>> \/ (k = RunKeyOf(r) /\ m = r)
    BY <2>1, <2>2 DEF TypeOK
  <2> QED BY <1>1, <2>1, <2>3 DEF OwnerInv
<1>3. CASE UNCHANGED runKeys
  BY <1>1, <1>3 DEF OwnerInv
<1>4. RememberRun(r) \/ UNCHANGED runKeys
  BY DEF Step, Arrive, Refuse, Abort, Accept, AttachRun, MintRun, UseReference,
     ReuseArtifact, MintArtifact, RememberArtifact, ClaimAdvertisement, Commit, Notify,
     Answer, sqlVars
<1> QED BY <1>2, <1>3, <1>4

(* A Run is used by the Instance it was minted for.                          *)
LEMMA UsedByOwner ==
    ASSUME TypeOK, OwnerInv, NEW r \in Request, Arrive(r) \/ Refuse(r) \/ Step(r) \/ Abort(r),
           NEW q \in Request, NEW m \in Request, run'[q] = <<"run", m>>
    PROVE  pc'[m] # "idle" /\ pc'[q] # "idle" /\ input'[m].instance = input'[q].instance
<1>1. \A p \in Request : pc[p] # "idle" => pc'[p] # "idle" /\ input'[p] = input[p]
  BY BodyStays
<1>2. CASE AttachRun(r)
  <2>1. /\ run' = [run EXCEPT ![r] = RunForKey(input[r])]
        /\ RunForKey(input[r]) # None /\ pc[r] # "idle"
    BY <1>2 DEF AttachRun, At
  <2>2. HasRunKey(input[r]) /\ RunForKey(input[r]) = runKeys[<<input[r].key, input[r].instance>>]
    BY <2>1 DEF RunForKey
  <2>3. <<input[r].key, input[r].instance>> \in RunKey \X Instance
    BY <2>1, <2>2, BodyType DEF HasRunKey
  <2>4. CASE q = r
    <3>1. runKeys[<<input[r].key, input[r].instance>>] = <<"run", m>>
      BY <2>1, <2>2, <2>4 DEF TypeOK
    <3>2. pc[m] # "idle" /\ input[m].instance = input[r].instance
      BY <2>3, <3>1 DEF OwnerInv, RunKeyOf
    <3> QED BY <1>1, <2>1, <2>4, <3>2
  <2>5. CASE q # r
    BY <1>1, <2>1, <2>5 DEF OwnerInv, TypeOK
  <2> QED BY <2>4, <2>5
<1>3. CASE MintRun(r)
  <2>1. run' = [run EXCEPT ![r] = <<"run", r>>] /\ pc[r] # "idle"
    BY <1>3 DEF MintRun, At
  <2>2. CASE q = r
    BY <1>1, <2>1, <2>2 DEF TypeOK
  <2>3. CASE q # r
    BY <1>1, <2>1, <2>3 DEF OwnerInv, TypeOK
  <2> QED BY <2>2, <2>3
<1>4. CASE UNCHANGED run
  BY <1>1, <1>4 DEF OwnerInv
<1>5. AttachRun(r) \/ MintRun(r) \/ UNCHANGED run
  BY DEF Step, Arrive, Refuse, Abort, Accept, RememberRun, UseReference,
     ReuseArtifact, MintArtifact, RememberArtifact, ClaimAdvertisement, Commit, Notify,
     Answer
<1> QED BY <1>2, <1>3, <1>4, <1>5

(* A step keeps the owners of Runs.                                          *)
LEMMA OwnerInvStep ==
    ASSUME TypeOK, OwnerInv, NEW r \in Request, Arrive(r) \/ Refuse(r) \/ Step(r) \/ Abort(r)
    PROVE  OwnerInv'
<1>1. \A k \in RunKey \X Instance, m \in Request :
         runKeys'[k] = <<"run", m>> => pc'[m] # "idle" /\ RunKeyOf(m)' = k
  BY RememberedByMinter
<1>2. \A q, m \in Request :
         run'[q] = <<"run", m>> => /\ pc'[m] # "idle" /\ pc'[q] # "idle"
                                   /\ input'[m].instance = input'[q].instance
  BY UsedByOwner
<1>3. ASSUME NEW q \in Request, pc'[q] = "rememberRun" PROVE run'[q] = <<"run", q>>
  <2>1. pc \in [Request -> PcType] /\ run \in [Request -> RunIri \cup {None}]
    BY DEF TypeOK
  <2>2. CASE MintRun(r)
    BY <1>3, <2>1, <2>2 DEF MintRun, Goto, OwnerInv
  <2>3. CASE AttachRun(r)
    BY <1>3, <2>1, <2>3 DEF AttachRun, Goto, At, OwnerInv
  <2>4. CASE Arrive(r) \/ Refuse(r) \/ Accept(r) \/ Abort(r)
    BY <1>3, <2>1, <2>4 DEF Arrive, Refuse, Accept, Abort, InFlight, Ended, At, Goto, OwnerInv
  <2>5. CASE \/ RememberRun(r) \/ UseReference(r) \/ ReuseArtifact(r) \/ MintArtifact(r)
             \/ RememberArtifact(r) \/ ClaimAdvertisement(r)
             \/ Commit(r) \/ Notify(r) \/ Answer(r)
    <3>1. UNCHANGED run
      BY <2>5 DEF RememberRun, UseReference, ReuseArtifact, MintArtifact, RememberArtifact,
         ClaimAdvertisement, Commit, Notify, Answer
    <3>2. PICK there \in PcType \ {"rememberRun"} : pc' = [pc EXCEPT ![r] = there]
      BY <2>5 DEF RememberRun, UseReference, ReuseArtifact, MintArtifact, RememberArtifact,
         ClaimAdvertisement, Commit, Notify, Answer, Goto, PcType, Ended
    <3> QED BY <1>3, <2>1, <3>1, <3>2 DEF OwnerInv
  <2> QED BY <2>2, <2>3, <2>4, <2>5 DEF Step
<1>4. \A a \in acked' : pc'[a.by] = "answered" /\ a.run = run'[a.by]
  <2>1. \A a \in acked : pc'[a.by] = "answered" /\ a.run = run'[a.by]
    BY BodyStays DEF OwnerInv, TypeOK
  <2>2. CASE Answer(r)
    <3>1. \A a \in acked' : a \in acked \/ (a.by = r /\ a.run = run[r])
      BY <2>2 DEF Answer
    <3>2. pc'[r] = "answered" /\ run' = run
      BY <2>2 DEF Answer, Goto, TypeOK
    <3> QED BY <2>1, <3>1, <3>2
  <2>3. CASE UNCHANGED acked
    BY <2>1, <2>3
  <2>4. Answer(r) \/ UNCHANGED acked
    BY DEF Step, Arrive, Refuse, Abort, Accept, AttachRun, MintRun, RememberRun, UseReference,
       ReuseArtifact, MintArtifact, RememberArtifact, ClaimAdvertisement, Commit, Notify, histVars
  <2> QED BY <2>2, <2>3, <2>4
<1> QED BY <1>1, <1>2, <1>3, <1>4 DEF OwnerInv

(* The owner of every Run, in every behaviour.                               *)
LEMMA OwnersKept == Spec => []OwnerInv
<1>1. Init => OwnerInv
  BY PayloadAssumption DEF Init, OwnerInv, RunIri
<1>2. TypeOK /\ OwnerInv /\ [Next]_vars => OwnerInv'
  <2>1. TypeOK /\ OwnerInv /\ UNCHANGED vars => OwnerInv'
    BY DEF OwnerInv, RunKeyOf, vars, taskVars, sqlVars, histVars
  <2> QED BY <2>1, OwnerInvStep DEF Next
<1> QED BY <1>1, <1>2, TypeCorrect, PTL DEF Spec

(* Two Instances are never answered with one Run, whatever keys they use and   *)
(* in whatever order their requests run: run_keys is read and written by       *)
(* external key and Instance together.                                       *)
THEOREM RunsNotShared == Spec => []RunPerInstance
<1>1. TypeOK /\ OwnerInv => RunPerInstance
  <2> SUFFICES ASSUME TypeOK, OwnerInv, NEW a \in acked, NEW b \in acked, a.run = b.run
               PROVE  input[a.by].instance = input[b.by].instance
    BY DEF RunPerInstance
  <2>1. /\ a.by \in Request /\ b.by \in Request
        /\ a.run \in RunIri /\ a.run = run[a.by] /\ b.run = run[b.by]
    BY DEF OwnerInv, TypeOK
  <2>2. PICK m \in Request : a.run = <<"run", m>>
    BY <2>1 DEF RunIri
  <2>3. run[a.by] = <<"run", m>> /\ run[b.by] = <<"run", m>>
    BY <2>1, <2>2
  <2>4. \A q \in Request : run[q] = <<"run", m>> => input[m].instance = input[q].instance
    BY DEF OwnerInv
  <2> QED BY <2>1, <2>3, <2>4
<1> QED BY <1>1, OwnersKept, TypeCorrect, PTL

-----------------------------------------------------------------------------
(* One Run for one key.                                                      *)

Minted(r) == <<"run", r>> \in tx[r].runs
Committed(r) == <<"run", r>> \in graph.runs
SameRunKey(r, s) == HasRunKey(input[r]) /\ HasRunKey(input[s]) /\ RunKeyOf(r) = RunKeyOf(s)
AtRest == Ended \ {"idle"}

(* The Run a task mints is its own, is remembered before anything else, and   *)
(* is not minted when one of the same key is in the graph; a task that had     *)
(* ended when another arrived commits nothing any more.                       *)
KeyInv ==
    /\ \A q, r \in Request : <<"run", r>> \in tx[q].runs => q = r
    /\ \A r \in Request :
          Minted(r) /\ HasRunKey(input[r]) /\ pc[r] \notin {"rememberRun", "aborted"}
              => runKeys[RunKeyOf(r)] # None
    /\ \A r \in Request :
          Committed(r) => /\ Minted(r)
                          /\ HasRunKey(input[r]) => runKeys[RunKeyOf(r)] # None
    /\ \A s \in Request : \A r \in before[s] : pc[s] # "idle" /\ pc[r] \in AtRest /\ r # s
    /\ \A s \in Request : \A r \in before[s] :
          SameRunKey(r, s) /\ Minted(s) => ~Committed(r)

(* A task that mints has started, and a task at rest stays there.            *)
LEMMA KeyFacts ==
    ASSUME TypeOK, TxInv, NEW r \in Request, Arrive(r) \/ Refuse(r) \/ Step(r) \/ Abort(r)
    PROVE  /\ \A q \in Request : Minted(q) => pc[q] # "idle"
           /\ \A q \in Request : pc[q] \in AtRest => pc'[q] = pc[q]
           /\ \A q \in Request : pc[q] # "idle" => input'[q] = input[q] /\ pc'[q] # "idle"
<1>1. \A q \in Request : Minted(q) => pc[q] # "idle"
  BY DEF TxInv, EmptyTx, Minted
<1>2. pc \in [Request -> PcType] /\ pc[r] \notin AtRest
  BY DEF TypeOK, Step, Arrive, Refuse, Abort, Accept, AttachRun, MintRun, RememberRun,
     UseReference, ReuseArtifact, MintArtifact, RememberArtifact, ClaimAdvertisement,
     Commit, Notify, Answer, Pending, At, InFlight, Ended, AtRest
<1>3. PICK there : pc' = [pc EXCEPT ![r] = there]
  BY DEF Step, Arrive, Refuse, Abort, Accept, AttachRun, MintRun, RememberRun,
     UseReference, ReuseArtifact, MintArtifact, RememberArtifact, ClaimAdvertisement,
     Commit, Notify, Answer, Goto
<1> QED BY <1>1, <1>2, <1>3, BodyStays

(* Arrival: the newcomer has no transaction yet.                             *)
LEMMA KeyArrive ==
    ASSUME TypeOK, TxInv, KeyInv, NEW r \in Request, Arrive(r)
    PROVE  KeyInv'
<1>1. /\ pc[r] = "idle" /\ pc' = [pc EXCEPT ![r] = "check"]
      /\ before' = [before EXCEPT ![r] = {s \in Request : pc[s] \in AtRest}]
      /\ UNCHANGED <<tx, graph, runKeys>>
  BY DEF Arrive, At, Goto, sqlVars, AtRest
<1>2. /\ \A q \in Request : Minted(q) => pc[q] # "idle"
      /\ \A q \in Request : pc[q] \in AtRest => pc'[q] = pc[q]
      /\ \A q \in Request : pc[q] # "idle" => input'[q] = input[q] /\ pc'[q] # "idle"
  BY KeyFacts
<1>3. ~Minted(r) /\ pc[r] \notin AtRest
  BY <1>1, <1>2 DEF AtRest
<1>4. \A q \in Request : Minted(q)' = Minted(q) /\ Committed(q)' = Committed(q)
  BY <1>1 DEF Minted, Committed
<1>5. \A q \in Request : Minted(q) =>
         input'[q] = input[q] /\ pc'[q] = pc[q] /\ RunKeyOf(q)' = RunKeyOf(q)
  BY <1>1, <1>2, <1>3 DEF RunKeyOf, TypeOK
<1>6. \A q, s \in Request : <<"run", s>> \in tx'[q].runs => q = s
  BY <1>1 DEF KeyInv
<1>7. \A q \in Request :
         (Minted(q) /\ HasRunKey(input[q]) /\ pc[q] \notin {"rememberRun", "aborted"})'
             => (runKeys[RunKeyOf(q)] # None)'
  BY <1>1, <1>4, <1>5 DEF KeyInv
<1>8. \A q \in Request :
         Committed(q)' => Minted(q)' /\ (HasRunKey(input[q])' => (runKeys[RunKeyOf(q)] # None)')
  BY <1>1, <1>4, <1>5 DEF KeyInv
<1>9. \A s \in Request : \A q \in before'[s] : pc'[s] # "idle" /\ pc'[q] \in AtRest /\ q # s
  BY <1>1, <1>2, <1>3 DEF KeyInv, TypeOK
<1>10. \A s \in Request : \A q \in before'[s] : (SameRunKey(q, s) /\ Minted(s))' => ~Committed(q)'
  <2> SUFFICES ASSUME NEW s \in Request, NEW q \in before'[s], (SameRunKey(q, s) /\ Minted(s))',
                      Committed(q)'
               PROVE  FALSE
    OBVIOUS
  <2>1. s # r /\ q \in before[s] /\ q \in Request
    BY <1>1, <1>3, <1>4 DEF TypeOK
  <2>2. Minted(s) /\ Committed(q) /\ Minted(q)
    BY <1>4, <2>1 DEF KeyInv
  <2>3. SameRunKey(q, s)
    BY <1>5, <2>1, <2>2 DEF SameRunKey, RunKeyOf
  <2> QED BY <2>1, <2>2, <2>3 DEF KeyInv
<1> QED BY <1>6, <1>7, <1>8, <1>9, <1>10 DEF KeyInv, AtRest, Ended

(* Every other step leaves the bodies of started tasks, and who had ended       *)
(* before whom, alone.                                                       *)
LEMMA KeyFrame ==
    ASSUME TypeOK, TxInv, KeyInv, NEW r \in Request, Refuse(r) \/ Step(r) \/ Abort(r)
    PROVE  /\ input' = input /\ before' = before
           /\ \A s \in Request : \A q \in before'[s] :
                 pc'[s] # "idle" /\ pc'[q] \in AtRest /\ q # s /\ q \in Request
           /\ \A q, s \in Request : SameRunKey(q, s)' = SameRunKey(q, s)
           /\ \A q \in Request : RunKeyOf(q)' = RunKeyOf(q)
           /\ r \in InFlight /\ (\A s \in Request : r \notin before[s])
<1>1. input' = input /\ before' = before
  BY DEF Step, Refuse, Abort, Accept, AttachRun, MintRun, RememberRun,
     UseReference, ReuseArtifact, MintArtifact, RememberArtifact, ClaimAdvertisement,
     Commit, Notify, Answer, histVars
<1>2. /\ \A q \in Request : pc[q] \in AtRest => pc'[q] = pc[q]
      /\ \A q \in Request : pc[q] # "idle" => pc'[q] # "idle"
  BY KeyFacts
<1>3. \A s \in Request : \A q \in before[s] :
         pc[s] # "idle" /\ pc[q] \in AtRest /\ q # s /\ q \in Request
  BY DEF KeyInv, TypeOK
<1>4. r \in InFlight
  BY DEF TypeOK, Step, Refuse, Abort, Accept, AttachRun, MintRun, RememberRun,
     UseReference, ReuseArtifact, MintArtifact, RememberArtifact, ClaimAdvertisement,
     Commit, Notify, Answer, Pending, At, InFlight, Ended
<1>5. \A s \in Request : r \notin before[s]
  BY <1>3, <1>4 DEF InFlight, AtRest
<1> QED BY <1>1, <1>2, <1>3, <1>4, <1>5 DEF SameRunKey, RunKeyOf

(* Minting: the lookup found no row, so no Run of this key is in the graph.   *)
LEMMA KeyMint ==
    ASSUME TypeOK, TxInv, KeyInv, NEW r \in Request, MintRun(r)
    PROVE  KeyInv'
<1>1. /\ input' = input /\ before' = before
      /\ \A s \in Request : \A q \in before'[s] :
            pc'[s] # "idle" /\ pc'[q] \in AtRest /\ q # s /\ q \in Request
      /\ \A q, s \in Request : SameRunKey(q, s)' = SameRunKey(q, s)
      /\ \A q \in Request : RunKeyOf(q)' = RunKeyOf(q)
  BY KeyFrame DEF Step
<1>2. /\ UNCHANGED <<graph, runKeys>> /\ RunForKey(input[r]) = None
      /\ pc' = [pc EXCEPT ![r] = IF HasRunKey(input[r]) THEN "rememberRun" ELSE "items"]
  BY DEF MintRun, Goto, sqlVars
<1>3. /\ \A q \in Request : q # r => tx'[q].runs = tx[q].runs
      /\ tx'[r].runs = tx[r].runs \cup {<<"run", r>>}
  <2>1. tx' = [tx EXCEPT ![r] = RunQuads(tx[r], <<"run", r>>, input[r])]
    BY DEF MintRun
  <2>2. RunQuads(tx[r], <<"run", r>>, input[r]).runs = tx[r].runs \cup {<<"run", r>>}
    BY DEF RunQuads, TypeOK, TxType
  <2> QED BY <2>1, <2>2 DEF TypeOK
<1>4. \A q \in Request : /\ Committed(q)' <=> Committed(q)
                         /\ Minted(q)' <=> (Minted(q) \/ q = r)
  <2>1. \A q \in Request : Committed(q)' <=> Committed(q)
    BY <1>2 DEF Committed
  <2>2. \A q \in Request : q # r => (Minted(q)' <=> Minted(q))
    BY <1>3 DEF Minted
  <2>3. Minted(r)'
    BY <1>3 DEF Minted
  <2> QED BY <2>1, <2>2, <2>3
<1>5. ASSUME NEW q \in Request, NEW s \in Request, <<"run", s>> \in tx'[q].runs PROVE q = s
  <2>1. <<"run", s>> \in tx[q].runs \/ (q = r /\ s = r)
    BY <1>3, <1>5
  <2> QED BY <2>1 DEF KeyInv
<1>6. \A q \in Request :
         (Minted(q) /\ HasRunKey(input[q]) /\ pc[q] \notin {"rememberRun", "aborted"})'
             => (runKeys[RunKeyOf(q)] # None)'
  BY <1>1, <1>2, <1>4 DEF KeyInv, TypeOK
<1>7. \A q \in Request :
         Committed(q)' => Minted(q)' /\ (HasRunKey(input[q])' => (runKeys[RunKeyOf(q)] # None)')
  BY <1>1, <1>2, <1>4 DEF KeyInv
<1>8. \A q \in Request : SameRunKey(q, r) => ~Committed(q)
  BY <1>2 DEF SameRunKey, RunKeyOf, RunForKey, KeyInv
<1>9. \A s \in Request : \A q \in before'[s] : (SameRunKey(q, s) /\ Minted(s))' => ~Committed(q)'
  BY <1>1, <1>4, <1>8 DEF KeyInv
<1> QED BY <1>1, <1>5, <1>6, <1>7, <1>9 DEF KeyInv

(* Committing: the task is in progress, so nobody arrived after its end.      *)
LEMMA KeyCommit ==
    ASSUME TypeOK, TxInv, KeyInv, NEW r \in Request, Commit(r)
    PROVE  KeyInv'
<1>1. /\ input' = input /\ before' = before
      /\ \A s \in Request : \A q \in before'[s] :
            pc'[s] # "idle" /\ pc'[q] \in AtRest /\ q # s /\ q \in Request
      /\ \A q, s \in Request : SameRunKey(q, s)' = SameRunKey(q, s)
      /\ \A q \in Request : RunKeyOf(q)' = RunKeyOf(q)
      /\ \A s \in Request : r \notin before[s]
  BY KeyFrame DEF Step
<1>2. /\ UNCHANGED <<tx, runKeys>> /\ pc[r] = "items"
      /\ graph'.runs = graph.runs \cup tx[r].runs
      /\ pc' = [pc EXCEPT ![r] = IF input[r].via = "advertise" THEN "notify" ELSE "answer"]
  BY DEF Commit, ApplyTx, At, Goto, sqlVars
<1>3. \A q \in Request : /\ Minted(q)' = Minted(q)
                         /\ Committed(q)' => Committed(q) \/ (q = r /\ Minted(r))
  BY <1>2 DEF Minted, Committed, KeyInv
<1>4. \A q, s \in Request : <<"run", s>> \in tx'[q].runs => q = s
  BY <1>2 DEF KeyInv
<1>5. \A q \in Request :
         (Minted(q) /\ HasRunKey(input[q]) /\ pc[q] \notin {"rememberRun", "aborted"})'
             => (runKeys[RunKeyOf(q)] # None)'
  BY <1>1, <1>2, <1>3 DEF KeyInv, TypeOK
<1>6. \A q \in Request :
         Committed(q)' => Minted(q)' /\ (HasRunKey(input[q])' => (runKeys[RunKeyOf(q)] # None)')
  BY <1>1, <1>2, <1>3 DEF KeyInv
<1>7. \A s \in Request : \A q \in before'[s] : (SameRunKey(q, s) /\ Minted(s))' => ~Committed(q)'
  BY <1>1, <1>3 DEF KeyInv
<1> QED BY <1>1, <1>4, <1>5, <1>6, <1>7 DEF KeyInv

(* The other steps mint and commit no Run; rows of run_keys are only added.   *)
LEMMA KeyOther ==
    ASSUME TypeOK, TxInv, KeyInv, NEW r \in Request,
           \/ Refuse(r) \/ Abort(r) \/ Accept(r) \/ AttachRun(r) \/ RememberRun(r)
           \/ UseReference(r) \/ ReuseArtifact(r) \/ MintArtifact(r) \/ RememberArtifact(r)
           \/ ClaimAdvertisement(r) \/ Notify(r) \/ Answer(r)
    PROVE  KeyInv'
<1>1. /\ input' = input /\ before' = before
      /\ \A s \in Request : \A q \in before'[s] :
            pc'[s] # "idle" /\ pc'[q] \in AtRest /\ q # s /\ q \in Request
      /\ \A q, s \in Request : SameRunKey(q, s)' = SameRunKey(q, s)
      /\ \A q \in Request : RunKeyOf(q)' = RunKeyOf(q)
  BY KeyFrame DEF Step
<1>2. UNCHANGED graph
  BY DEF Refuse, Abort, Accept, AttachRun, RememberRun, UseReference, ReuseArtifact,
     MintArtifact, RememberArtifact, ClaimAdvertisement, Notify, Answer
<1>3. \A q \in Request : tx'[q].runs = tx[q].runs
  <2>1. CASE AttachRun(r)
    BY <2>1 DEF AttachRun, UpdateRunOutcome, TypeOK, TxType
  <2>2. CASE MintArtifact(r)
    BY <2>2 DEF MintArtifact, TypeOK, TxType
  <2>3. CASE ClaimAdvertisement(r)
    BY <2>3 DEF ClaimAdvertisement, TypeOK, TxType
  <2>4. CASE tx' = tx
    BY <2>4
  <2> QED BY <2>1, <2>2, <2>3, <2>4 DEF Refuse, Abort, Accept, RememberRun, UseReference,
     ReuseArtifact, RememberArtifact, Notify, Answer
<1>4. \A k \in RunKey \X Instance : runKeys[k] # None => runKeys'[k] # None
  BY DEF Refuse, Abort, Accept, AttachRun, RememberRun, UseReference, ReuseArtifact,
     MintArtifact, RememberArtifact, ClaimAdvertisement, Notify, Answer, sqlVars, TypeOK
<1>5. \A q \in Request : pc[q] # "idle" /\ HasRunKey(input[q]) => RunKeyOf(q) \in RunKey \X Instance
  BY BodyType DEF HasRunKey, RunKeyOf
<1>6. \A q \in Request : /\ Minted(q)' = Minted(q) /\ Committed(q)' = Committed(q)
                         /\ Minted(q) => pc[q] # "idle"
  BY <1>2, <1>3, KeyFacts DEF Minted, Committed, Step
<1>7. ASSUME NEW q \in Request, Minted(q), HasRunKey(input[q]),
             pc'[q] \notin {"rememberRun", "aborted"}
      PROVE  runKeys'[RunKeyOf(q)] # None
  <2>1. RunKeyOf(q) \in RunKey \X Instance
    BY <1>5, <1>6, <1>7
  <2>2. CASE RememberRun(r) /\ q = r
    <3>1. runKeys' = [runKeys EXCEPT ![RunKeyOf(r)] = IF @ = None THEN run[r] ELSE @]
          /\ run[r] # None
      BY <2>2 DEF RememberRun, RunKeyOf, At, TypeOK
    <3> QED BY <2>1, <2>2, <3>1 DEF TypeOK
  <2>3. CASE ~(RememberRun(r) /\ q = r)
    <3>1. pc[q] \notin {"rememberRun", "aborted"}
      BY <1>7, <2>3 DEF TypeOK, Refuse, Abort, Accept, AttachRun, RememberRun, UseReference,
         ReuseArtifact, MintArtifact, RememberArtifact, ClaimAdvertisement, Notify, Answer,
         Pending, At, Goto
    <3> QED BY <1>4, <1>7, <2>1, <3>1 DEF KeyInv
  <2> QED BY <2>2, <2>3
<1>8. \A q, s \in Request : <<"run", s>> \in tx'[q].runs => q = s
  BY <1>3 DEF KeyInv
<1>9. \A q \in Request :
         Committed(q)' => Minted(q)' /\ (HasRunKey(input[q])' => (runKeys[RunKeyOf(q)] # None)')
  BY <1>1, <1>4, <1>5, <1>6 DEF KeyInv
<1>10. \A s \in Request : \A q \in before'[s] : (SameRunKey(q, s) /\ Minted(s))' => ~Committed(q)'
  BY <1>1, <1>6 DEF KeyInv
<1> QED BY <1>1, <1>6, <1>7, <1>8, <1>9, <1>10 DEF KeyInv

(* The inductive invariant of the run keys.                                  *)
LEMMA KeysKept == Spec => []KeyInv
<1>1. Init => KeyInv
  BY DEF Init, KeyInv, Minted, Committed, EmptyTx
<1>2. TypeOK /\ TxInv /\ KeyInv /\ [Next]_vars => KeyInv'
  <2>1. TypeOK /\ TxInv /\ KeyInv /\ UNCHANGED vars => KeyInv'
    BY DEF KeyInv, Minted, Committed, SameRunKey, RunKeyOf, vars, taskVars, sqlVars, histVars
  <2>2. ASSUME TypeOK, TxInv, KeyInv, NEW r \in Request,
               Arrive(r) \/ Refuse(r) \/ Step(r) \/ Abort(r)
        PROVE  KeyInv'
    BY <2>2, KeyArrive, KeyMint, KeyCommit, KeyOther DEF Step
  <2> QED BY <2>1, <2>2 DEF Next
<1> QED BY <1>1, <1>2, TypeCorrect, ClaimsKept, PTL DEF Spec

(* A request never mints a Run for a CI attempt whose Run is in the graph,     *)
(* committed by a request that had ended when it arrived, even one that died:  *)
(* only overlapping requests can bring two.                                  *)
THEOREM NoSecondRun == Spec => []OneRunPerKey
<1>1. TypeOK /\ KeyInv => OneRunPerKey
  <2> SUFFICES ASSUME TypeOK, KeyInv, NEW r \in Arrived, NEW s \in Arrived,
                      HasRunKey(input[r]), HasRunKey(input[s]), RunKeyOf(r) = RunKeyOf(s),
                      <<"run", r>> \in graph.runs, <<"run", s>> \in graph.runs, r # s,
                      ~Overlap(r, s)
               PROVE  FALSE
    BY DEF OneRunPerKey
  <2>1. r \in Request /\ s \in Request /\ Committed(r) /\ Committed(s)
    BY DEF Arrived, Committed
  <2>2. Minted(r) /\ Minted(s) /\ SameRunKey(r, s) /\ SameRunKey(s, r)
    BY <2>1 DEF KeyInv, SameRunKey
  <2>3. r \in before[s] \/ s \in before[r]
    BY DEF Overlap
  <2> QED BY <2>1, <2>2, <2>3 DEF KeyInv
<1> QED BY <1>1, KeysKept, TypeCorrect, PTL

-----------------------------------------------------------------------------
(* Foreign artifacts.                                                        *)

Traceable(i) == i \in ForeignIri => i \in resolveQueue \cup PeerKnown

(* Records of artifacts are of minted ones, and every IRI a table, a task or  *)
(* a link names is queued or described elsewhere if it is a foreign one.      *)
NamedInv ==
    /\ graph.arts \subseteq MintedArt
    /\ \A r \in Request : tx[r].arts \subseteq MintedArt
    /\ \A r \in Request : Traceable(art[r]) /\ \A l \in tx[r].links : Traceable(l[2])
    /\ \A k \in Key : Traceable(artifactKeys[k])
    /\ \A l \in graph.links : Traceable(l[2])

(* The effect of a step on the tables that name artifacts: what it adds comes  *)
(* from the item, the task or the artifact table, or is minted.               *)
LEMMA NamedInvStep ==
    ASSUME TypeOK, NamedInv, NEW r \in Request,
           Arrive(r) \/ Refuse(r) \/ Step(r) \/ Abort(r)
    PROVE  NamedInv'
<1> DEFINE Later(i) == i \in ForeignIri => i \in resolveQueue' \cup PeerKnown
<1>1. /\ tx \in [Request -> TxType] /\ art \in [Request -> ArtIri \cup {None}]
      /\ artifactKeys \in [Key -> ArtIri \cup {None}]
  BY DEF TypeOK
<1>2. \A i : Traceable(i) => Later(i)
  <2>1. resolveQueue \subseteq resolveQueue'
    BY DEF Step, Arrive, Refuse, Abort, Accept, AttachRun, MintRun, RememberRun, UseReference,
       ReuseArtifact, MintArtifact, RememberArtifact, ClaimAdvertisement, Commit, Notify,
       Answer, sqlVars
  <2> QED BY <2>1 DEF Traceable
<1>3. CASE UseReference(r)
  <2> DEFINE i == ItemOf(r).iri
  <2>1. /\ art' = [art EXCEPT ![r] = i] /\ resolveQueue' = resolveQueue \cup Unknown({i})
        /\ UNCHANGED <<tx, artifactKeys, graph>>
    BY <1>3 DEF UseReference
  <2>2. Later(i)
    <3> SUFFICES ASSUME i \in ForeignIri, Exists(i) PROVE i \in resolveQueue \cup PeerKnown
      BY <2>1 DEF Traceable, Unknown
    <3>1. i \notin graph.arts
      BY IriAssumption DEF NamedInv
    <3>2. \A l \in graph.links : l[2] = i => i \in resolveQueue \cup PeerKnown
      BY DEF NamedInv, Traceable
    <3> HIDE DEF i
    <3> QED BY <3>1, <3>2 DEF Exists
  <2> HIDE DEF i
  <2>3. \A q \in Request : Later(art'[q])
    BY <1>1, <1>2, <2>1, <2>2 DEF NamedInv
  <2>4. \A q \in Request : \A l \in tx'[q].links : Later(l[2])
    BY <1>2, <2>1 DEF NamedInv
  <2>5. \A k \in Key : Later(artifactKeys'[k])
    BY <1>2, <2>1 DEF NamedInv
  <2>6. \A l \in graph'.links : Later(l[2])
    BY <1>2, <2>1 DEF NamedInv
  <2> QED BY <2>1, <2>3, <2>4, <2>5, <2>6 DEF NamedInv, Traceable
<1>4. ASSUME ReuseArtifact(r) PROVE NamedInv'
  <2>1. art' = [art EXCEPT ![r] = ArtifactForKey(r)] /\ UNCHANGED <<tx, artifactKeys, graph, resolveQueue>>
        /\ Pending(r) /\ ArtifactForKey(r) # None
    BY <1>4 DEF ReuseArtifact, sqlVars
  <2>2. ArtifactKey(input[r], ItemOf(r)) \in Key
    BY <2>1, ArtifactForKeyType, ItemType DEF ArtifactForKey, Pending, At
  <2>3. Traceable(ArtifactForKey(r))
    BY <2>1, <2>2 DEF ArtifactForKey, NamedInv
  <2>4. \A q \in Request : Later(art'[q])
    BY <1>1, <2>1, <2>3 DEF NamedInv, Traceable
  <2> QED BY <2>1, <2>4 DEF NamedInv, Traceable
<1>5. ASSUME MintArtifact(r) PROVE NamedInv'
  <2> DEFINE iri == <<"art", r, idx[r]>>
  <2>1. iri \in MintedArt
    BY DEF TypeOK, MintedArt
  <2>2. Later(iri)
    BY <2>1, IriAssumption DEF Traceable
  <2>3. art' = [art EXCEPT ![r] = iri] /\ UNCHANGED <<artifactKeys, graph>>
    BY <1>5 DEF MintArtifact
  <2>4. /\ \A q \in Request : \A l \in tx'[q].links : l \in tx[q].links \/ l[2] = iri
        /\ \A q \in Request : tx'[q].arts \subseteq tx[q].arts \cup {iri}
    BY <1>1, <1>5 DEF MintArtifact, TxType
  <2> HIDE DEF iri
  <2>5. \A q \in Request : Later(art'[q])
    BY <1>1, <1>2, <2>2, <2>3 DEF NamedInv
  <2>6. \A q \in Request : \A l \in tx'[q].links : Later(l[2])
    BY <1>2, <2>2, <2>4 DEF NamedInv
  <2>7. \A q \in Request : tx'[q].arts \subseteq MintedArt
    BY <2>1, <2>4 DEF NamedInv
  <2>8. /\ \A k \in Key : Later(artifactKeys'[k])
        /\ \A l \in graph'.links : Later(l[2])
    BY <1>2, <2>3 DEF NamedInv
  <2> QED BY <2>3, <2>5, <2>6, <2>7, <2>8 DEF NamedInv, Traceable
<1>6. ASSUME RememberArtifact(r) PROVE NamedInv'
  <2>1. /\ artifactKeys' = [artifactKeys EXCEPT ![ArtifactKey(input[r], ItemOf(r))]
                                     = IF @ = None THEN art[r] ELSE @]
        /\ UNCHANGED <<art, tx, resolveQueue, graph>>
    BY <1>6 DEF RememberArtifact
  <2>2. \A k \in Key : artifactKeys'[k] \in {artifactKeys[k], art[r]}
    BY <1>1, <2>1
  <2>3. \A k \in Key : Later(artifactKeys'[k])
    BY <2>1, <2>2 DEF NamedInv, Traceable
  <2> QED BY <2>1, <2>3 DEF NamedInv, Traceable
<1>7. ASSUME ClaimAdvertisement(r) PROVE NamedInv'
  <2>1. UNCHANGED <<art, artifactKeys, resolveQueue, graph>>
    BY <1>7 DEF ClaimAdvertisement
  <2>2. /\ \A q \in Request : \A l \in tx'[q].links : l \in tx[q].links \/ l[2] = art[r]
        /\ \A q \in Request : tx'[q].arts = tx[q].arts
    BY <1>1, <1>7 DEF ClaimAdvertisement, TxType
  <2>3. \A q \in Request : \A l \in tx'[q].links : Later(l[2])
    BY <2>1, <2>2 DEF NamedInv, Traceable
  <2> QED BY <2>1, <2>2, <2>3 DEF NamedInv, Traceable
<1>8. ASSUME Commit(r) PROVE NamedInv'
  <2>1. UNCHANGED <<art, tx, artifactKeys, resolveQueue>> /\ graph' = ApplyTx(graph, tx[r])
    BY <1>8 DEF Commit, sqlVars
  <2>2. graph'.arts = graph.arts \cup tx[r].arts /\ graph'.links = graph.links \cup tx[r].links
    BY <2>1 DEF ApplyTx
  <2>3. \A l \in graph'.links : Later(l[2])
    BY <2>1, <2>2 DEF NamedInv, Traceable
  <2>4. graph'.arts \subseteq MintedArt
    BY <2>2 DEF NamedInv
  <2> QED BY <2>1, <2>3, <2>4 DEF NamedInv, Traceable
<1>9. ASSUME AttachRun(r) \/ MintRun(r) PROVE NamedInv'
  <2>1. UNCHANGED <<art, artifactKeys, resolveQueue, graph>>
    BY <1>9 DEF AttachRun, MintRun, sqlVars
  <2>2. PICK t : /\ tx' = [tx EXCEPT ![r] = t]
                 /\ t \in {RunQuads(tx[r], <<"run", r>>, input[r]),
                          UpdateRunOutcome(tx[r], RunForKey(input[r]), input[r])}
    BY <1>9 DEF AttachRun, MintRun
  <2>3. t.links = tx[r].links /\ t.arts = tx[r].arts
    BY <1>1, <2>2 DEF RunQuads, UpdateRunOutcome, TxType
  <2>4. \A q \in Request : tx'[q].links = tx[q].links /\ tx'[q].arts = tx[q].arts
    BY <1>1, <2>2, <2>3
  <2> QED BY <2>1, <2>4 DEF NamedInv, Traceable
<1>10. ASSUME UNCHANGED <<art, tx, artifactKeys, resolveQueue, graph>> PROVE NamedInv'
  BY <1>10 DEF NamedInv, Traceable
<1>11. \/ UseReference(r) \/ ReuseArtifact(r) \/ MintArtifact(r) \/ RememberArtifact(r)
       \/ ClaimAdvertisement(r) \/ Commit(r) \/ AttachRun(r) \/ MintRun(r)
       \/ UNCHANGED <<art, tx, artifactKeys, resolveQueue, graph>>
  BY DEF Step, Arrive, Refuse, Abort, Accept, RememberRun, Notify, Answer, sqlVars
<1> QED BY <1>3, <1>4, <1>5, <1>6, <1>7, <1>8, <1>9, <1>10, <1>11

(* A link to another registry's artifact never lands without the artifact      *)
(* being queued for the resolver or described by a peer: not even when the     *)
(* lookup answered "known" because of a link alone, and not when the key table  *)
(* supplied the IRI.                                                         *)
THEOREM ForeignAlwaysQueued == Spec => []ForeignReferencesQueued
<1>1. Init => NamedInv
  BY PayloadAssumption DEF Init, NamedInv, Traceable, EmptyTx, ArtIri
<1>2. TypeOK /\ NamedInv /\ [Next]_vars => NamedInv'
  <2>1. TypeOK /\ NamedInv /\ UNCHANGED vars => NamedInv'
    BY DEF NamedInv, Traceable, vars, taskVars, sqlVars, histVars
  <2> QED BY <2>1, NamedInvStep DEF Next
<1>3. NamedInv => ForeignReferencesQueued
  BY DEF NamedInv, Traceable, ForeignReferencesQueued
<1> QED BY <1>1, <1>2, <1>3, TypeCorrect, PTL DEF Spec

-----------------------------------------------------------------------------
(* One status.                                                               *)

Landed == {"notify", "answer", "answered", "aborted"}

(* A task has a Run from the lookup on, and keeps it.                         *)
(* A transaction gives its own Run one status, and replaces what is there      *)
(* unless it is the one that mints the Run; a status in the graph came from a  *)
(* task past its commit; who uses a Run overlaps its minter or came after.     *)
StatusInv ==
    /\ \A r \in Request : pc[r] \in {"idle", "check", "lookup", "refused"} => run[r] = None
    /\ \A r \in Request : \A s, t \in tx[r].status : s = t /\ s[1] = run[r]
    /\ \A r \in Request :
          tx[r].status # {} => run[r] \in tx[r].replace \/ run[r] = <<"run", r>>
    /\ \A s \in graph.status : \E q \in Request : run[q] = s[1] /\ pc[q] \in Landed
    /\ \A q, m \in Request :
          run[q] = <<"run", m>> => q = m \/ Overlap(m, q) \/ m \in before[q]

(* The lookup comes once, when the transaction is empty, and gives the task    *)
(* its Run and at most one status of it.                                     *)
LEMMA StatusOfTx ==
    ASSUME TypeOK, TxInv, StatusInv, NEW r \in Request, AttachRun(r) \/ MintRun(r)
    PROVE  /\ \A s, t \in tx'[r].status : s = t /\ s[1] = run'[r]
           /\ tx'[r].status # {} => run'[r] \in tx'[r].replace \/ run'[r] = <<"run", r>>
           /\ \A q \in Request : q # r => tx'[q] = tx[q] /\ run'[q] = run[q]
<1>1. tx \in [Request -> TxType] /\ run \in [Request -> RunIri \cup {None}]
  BY DEF TypeOK
<1>2. tx[r] = EmptyTx
  BY DEF AttachRun, MintRun, At, TxInv
<1>3. CASE AttachRun(r)
  <2> DEFINE iri == RunForKey(input[r])
             u == UpdateRunOutcome(EmptyTx, iri, input[r])
  <2>1. tx' = [tx EXCEPT ![r] = u] /\ run' = [run EXCEPT ![r] = iri]
    BY <1>2, <1>3 DEF AttachRun
  <2>2. /\ u.status \subseteq {<<iri, input[r].status>>}
        /\ u.status # {} => iri \in u.replace
    BY DEF UpdateRunOutcome, EmptyTx
  <2> HIDE DEF iri, u
  <2> QED BY <1>1, <2>1, <2>2
<1>4. CASE MintRun(r)
  <2> DEFINE iri == <<"run", r>>
             u == RunQuads(EmptyTx, iri, input[r])
             st == IF input[r].status = None THEN DefaultStatus ELSE input[r].status
  <2>1. tx' = [tx EXCEPT ![r] = u] /\ run' = [run EXCEPT ![r] = iri]
    BY <1>2, <1>4 DEF MintRun
  <2>2. u.status = {<<iri, st>>}
    BY DEF RunQuads, EmptyTx
  <2>3. tx'[r] = u /\ run'[r] = iri
    BY <1>1, <2>1
  <2>4. \A s, t \in u.status : s = t /\ s[1] = iri
    BY <2>2
  <2> HIDE DEF u
  <2>5. \A q \in Request : q # r => tx'[q] = tx[q] /\ run'[q] = run[q]
    BY <1>1, <2>1
  <2> QED BY <2>3, <2>4, <2>5
<1> QED BY <1>3, <1>4

(* The other steps leave the statuses of transactions and the Runs alone.     *)
LEMMA StatusFrame ==
    ASSUME TypeOK, NEW r \in Request,
           Arrive(r) \/ Refuse(r) \/ Step(r) \/ Abort(r), ~AttachRun(r), ~MintRun(r)
    PROVE  /\ run' = run
           /\ \A q \in Request : tx'[q].status = tx[q].status /\ tx'[q].replace = tx[q].replace
<1>1. run' = run
  BY DEF Step, Arrive, Refuse, Abort, Accept, RememberRun, UseReference, ReuseArtifact,
     MintArtifact, RememberArtifact, ClaimAdvertisement, Commit, Notify, Answer
<1>2. CASE MintArtifact(r)
  BY <1>2 DEF MintArtifact, TypeOK, TxType
<1>3. CASE ClaimAdvertisement(r)
  BY <1>3 DEF ClaimAdvertisement, TypeOK, TxType
<1>4. CASE tx' = tx
  BY <1>1, <1>4
<1>5. MintArtifact(r) \/ ClaimAdvertisement(r) \/ tx' = tx
  BY DEF Step, Arrive, Refuse, Abort, Accept, RememberRun, UseReference, ReuseArtifact,
     RememberArtifact, Commit, Notify, Answer
<1> QED BY <1>1, <1>2, <1>3, <1>4, <1>5

(* A task past its commit stays there; a task with a Run keeps it and keeps    *)
(* the set of those who had ended before it.                                 *)
LEMMA StatusSteps ==
    ASSUME TypeOK, OwnerInv, NEW r \in Request,
           Arrive(r) \/ Refuse(r) \/ Step(r) \/ Abort(r)
    PROVE  /\ \A q \in Request : pc[q] \in Landed => pc'[q] \in Landed
           /\ \A q \in Request : pc[q] # "idle" => before'[q] = before[q]
           /\ \A q \in Request : q # r => pc'[q] = pc[q]
<1>1. pc \in [Request -> PcType] /\ before \in [Request -> SUBSET Request]
  BY DEF TypeOK
<1>2. \A q \in Request : q # r => pc'[q] = pc[q]
  BY <1>1 DEF Step, Arrive, Refuse, Abort, Accept, AttachRun, MintRun, RememberRun,
     UseReference, ReuseArtifact, MintArtifact, RememberArtifact, ClaimAdvertisement,
     Commit, Notify, Answer, Goto
<1>3. pc[r] \in Landed => pc'[r] \in Landed
  BY <1>1 DEF Step, Arrive, Refuse, Abort, Accept, AttachRun, MintRun, RememberRun,
     UseReference, ReuseArtifact, MintArtifact, RememberArtifact, ClaimAdvertisement,
     Commit, Notify, Answer, At, Goto, Landed, Pending
<1>4. \A q \in Request : pc[q] # "idle" => before'[q] = before[q]
  BY <1>1 DEF Step, Arrive, Refuse, Abort, Accept, AttachRun, MintRun, RememberRun,
     UseReference, ReuseArtifact, MintArtifact, RememberArtifact, ClaimAdvertisement,
     Commit, Notify, Answer, At, histVars
<1> QED BY <1>1, <1>2, <1>3, <1>4

(* Who comes to use a Run overlaps its minter or arrived after its end.       *)
LEMMA UsersOverlap ==
    ASSUME TypeOK, OwnerInv, KeyInv, StatusInv, NEW r \in Request,
           Arrive(r) \/ Refuse(r) \/ Step(r) \/ Abort(r),
           NEW q \in Request, NEW m \in Request, run'[q] = <<"run", m>>, q # m
    PROVE  Overlap(m, q)' \/ m \in before'[q]
<1>1. \A p \in Request : pc[p] # "idle" => before'[p] = before[p]
  BY StatusSteps
<1>2. CASE AttachRun(r) /\ q = r
  <2>1. /\ run' = [run EXCEPT ![r] = RunForKey(input[r])] /\ RunForKey(input[r]) # None
        /\ pc[r] = "lookup"
    BY <1>2 DEF AttachRun, At
  <2>2. /\ HasRunKey(input[r]) /\ RunForKey(input[r]) = runKeys[<<input[r].key, input[r].instance>>]
    BY <2>1 DEF RunForKey
  <2>3. <<input[r].key, input[r].instance>> \in RunKey \X Instance
    BY <2>1, <2>2, BodyType DEF HasRunKey
  <2>4. runKeys[<<input[r].key, input[r].instance>>] = <<"run", m>>
    BY <1>2, <2>1, <2>2 DEF TypeOK
  <2>5. pc[m] # "idle"
    BY <2>3, <2>4 DEF OwnerInv
  <2>6. q \notin before[m]
    BY <1>2, <2>1 DEF KeyInv, AtRest, Ended
  <2> QED BY <1>1, <1>2, <2>1, <2>5, <2>6 DEF Overlap
<1>3. CASE run'[q] = run[q]
  <2>1. pc[m] # "idle" /\ pc[q] # "idle"
    BY <1>3 DEF OwnerInv
  <2>2. Overlap(m, q) \/ m \in before[q]
    BY <1>3 DEF StatusInv
  <2> QED BY <1>1, <2>1, <2>2 DEF Overlap
<1>4. CASE MintRun(r) /\ q = r
  <2>1. run'[r] = <<"run", r>>
    BY <1>4 DEF MintRun, TypeOK
  <2> QED BY <1>4, <2>1
<1>5. ((AttachRun(r) \/ MintRun(r)) /\ q = r) \/ run'[q] = run[q]
  BY StatusFrame DEF AttachRun, MintRun, TypeOK
<1> QED BY <1>2, <1>3, <1>4, <1>5

(* Only a commit changes the statuses in the graph.                          *)
LEMMA StatusKept ==
    ASSUME NEW r \in Request, Arrive(r) \/ Refuse(r) \/ Step(r) \/ Abort(r), ~Commit(r)
    PROVE  graph' = graph
BY DEF Step, Arrive, Refuse, Abort, Accept, AttachRun, MintRun, RememberRun,
     UseReference, ReuseArtifact, MintArtifact, RememberArtifact, ClaimAdvertisement,
     Notify, Answer

(* A Run stays with its task once resolved.                                  *)
LEMMA RunStays ==
    ASSUME TypeOK, StatusInv, NEW r \in Request, Arrive(r) \/ Refuse(r) \/ Step(r) \/ Abort(r),
           NEW q \in Request
    PROVE  /\ run[q] # None => run'[q] = run[q]
           /\ pc'[q] \in {"idle", "check", "lookup", "refused"} => run'[q] = None
<1>1. CASE AttachRun(r) \/ MintRun(r)
  <2>1. pc[r] = "lookup" /\ run[r] = None
    BY <1>1 DEF AttachRun, MintRun, At, StatusInv
  <2>2. pc'[r] \notin {"idle", "check", "lookup", "refused"} /\ (q # r => pc'[q] = pc[q])
    BY <1>1 DEF AttachRun, MintRun, Goto, TypeOK
  <2>3. q # r => run'[q] = run[q]
    BY <1>1 DEF AttachRun, MintRun, TypeOK
  <2> QED BY <2>1, <2>2, <2>3 DEF StatusInv
<1>2. CASE ~AttachRun(r) /\ ~MintRun(r)
  <2>1. run' = run
    BY <1>2, StatusFrame
  <2>2. pc'[q] \in {"idle", "check", "lookup", "refused"} =>
           pc[q] \in {"idle", "check", "lookup", "refused"}
    BY <1>2 DEF TypeOK, Step, Arrive, Refuse, Abort, Accept, RememberRun,
       UseReference, ReuseArtifact, MintArtifact, RememberArtifact, ClaimAdvertisement,
       Commit, Notify, Answer, At, Goto
  <2> QED BY <2>1, <2>2 DEF StatusInv
<1> QED BY <1>1, <1>2

(* The invariant of the statuses is kept by every step.                      *)
LEMMA StatusInvStep ==
    ASSUME TypeOK, TxInv, OwnerInv, KeyInv, StatusInv, NEW r \in Request,
           Arrive(r) \/ Refuse(r) \/ Step(r) \/ Abort(r)
    PROVE  StatusInv'
<1>1. \A q \in Request :
         /\ \A s, t \in tx'[q].status : s = t /\ s[1] = run'[q]
         /\ tx'[q].status # {} => run'[q] \in tx'[q].replace \/ run'[q] = <<"run", q>>
  <2>1. CASE AttachRun(r) \/ MintRun(r)
    BY <2>1, StatusOfTx DEF StatusInv
  <2>2. CASE ~AttachRun(r) /\ ~MintRun(r)
    BY <2>2, StatusFrame DEF StatusInv
  <2> QED BY <2>1, <2>2
<1>2. ASSUME NEW s \in graph'.status PROVE \E q \in Request : run'[q] = s[1] /\ pc'[q] \in Landed
  <2>1. CASE s \in graph.status
    <3>1. PICK q \in Request : run[q] = s[1] /\ pc[q] \in Landed
      BY <2>1 DEF StatusInv
    <3>2. run[q] # None
      BY <2>1, <3>1, PayloadAssumption DEF TypeOK, RunIri
    <3> QED BY <3>1, <3>2, RunStays, StatusSteps
  <2>2. CASE s \notin graph.status
    <3>1. Commit(r) /\ s \in tx[r].status
      BY <1>2, <2>2, StatusKept DEF Commit, ApplyTx
    <3>2. run'[r] = run[r] /\ pc'[r] \in Landed
      BY <3>1 DEF Commit, Goto, Landed, TypeOK
    <3>3. s[1] = run[r]
      BY <3>1 DEF StatusInv
    <3> QED BY <3>2, <3>3
  <2> QED BY <2>1, <2>2
<1>3. \A q, m \in Request :
         run'[q] = <<"run", m>> => q = m \/ Overlap(m, q)' \/ m \in before'[q]
  BY UsersOverlap
<1>4. \A q \in Request : pc'[q] \in {"idle", "check", "lookup", "refused"} => run'[q] = None
  BY RunStays
<1> QED BY <1>1, <1>2, <1>3, <1>4 DEF StatusInv

(* Two statuses of one Run come of a commit that overlapped the minter.       *)
LEMMA SingleStatusStep ==
    ASSUME TypeOK, TxInv, OwnerInv, KeyInv, StatusInv, SingleStatus, NEW r \in Request,
           Arrive(r) \/ Refuse(r) \/ Step(r) \/ Abort(r)
    PROVE  SingleStatus'
<1> DEFINE Two(i) == \E n, q \in Arrived : i = <<"run", n>> /\ run[q] = i /\ Overlap(n, q)
<1>1. ASSUME NEW i, Two(i) PROVE Two(i)'
  <2>1. PICK n \in Arrived, q \in Arrived : i = <<"run", n>> /\ run[q] = i /\ Overlap(n, q)
    BY <1>1
  <2>2. pc[n] # "idle" /\ pc[q] # "idle" /\ n \in Request /\ q \in Request
    BY <2>1 DEF OwnerInv, Arrived
  <2>3. /\ before'[n] = before[n] /\ before'[q] = before[q]
        /\ input'[n] = input[n] /\ input'[q] = input[q]
    BY <2>2, StatusSteps, BodyStays
  <2>4. run'[q] = run[q]
    <3>1. i \in RunIri
      BY <2>1, <2>2 DEF RunIri
    <3> QED BY <2>1, <2>2, <3>1, RunStays, PayloadAssumption
  <2>5. n \in Arrived' /\ q \in Arrived' /\ Overlap(n, q)'
    BY <2>1, <2>3 DEF Overlap, Arrived
  <2> QED BY <2>1, <2>4, <2>5
<1>2. ASSUME ~Commit(r) PROVE SingleStatus'
  <2>1. graph' = graph
    BY <1>2, StatusKept
  <2> QED BY <1>1, <2>1 DEF SingleStatus
<1>3. ASSUME Commit(r),
             NEW s \in graph'.status, NEW t \in graph'.status, s[1] = t[1], s[2] # t[2],
             t \in tx[r].status
      PROVE  Two(s[1])
  <2>1. /\ graph'.status = {u \in graph.status : u[1] \notin tx[r].replace} \cup tx[r].status
        /\ pc[r] = "items"
    BY <1>3 DEF Commit, ApplyTx, At
  <2>2. t[1] = run[r] /\ s \notin tx[r].status
    BY <1>3 DEF StatusInv
  <2>3. s \in graph.status /\ run[r] \notin tx[r].replace
    BY <1>3, <2>1, <2>2
  <2>4. run[r] = <<"run", r>>
    BY <1>3, <2>3 DEF StatusInv
  <2>5. PICK q \in Request : run[q] = s[1] /\ pc[q] \in Landed
    BY <2>3 DEF StatusInv
  <2>6. q # r /\ run[q] = <<"run", r>>
    BY <1>3, <2>1, <2>2, <2>4, <2>5 DEF Landed
  <2>7. r \notin before[q]
    BY <2>1 DEF KeyInv, AtRest, Ended
  <2>8. Overlap(r, q)
    BY <2>6, <2>7 DEF StatusInv
  <2>9. q \in Arrived /\ r \in Arrived
    BY <2>6 DEF OwnerInv, TypeOK, Arrived
  <2> QED BY <1>3, <2>2, <2>4, <2>6, <2>8, <2>9
<1>4. ASSUME Commit(r) PROVE SingleStatus'
  <2> SUFFICES ASSUME NEW s \in graph'.status, NEW t \in graph'.status, s[1] = t[1], s[2] # t[2]
               PROVE  Two(s[1])
    BY <1>1 DEF SingleStatus
  <2>1. CASE t \in tx[r].status
    BY <1>3, <1>4, <2>1
  <2>2. CASE s \in tx[r].status
    BY <1>3, <1>4, <2>2
  <2>3. CASE t \notin tx[r].status /\ s \notin tx[r].status
    BY <1>4, <2>3 DEF Commit, ApplyTx, SingleStatus
  <2> QED BY <2>1, <2>2, <2>3
<1> QED BY <1>2, <1>4

(* A Run has one status however many outcomes of it are committed at once,     *)
(* unless a request that overlapped the one that minted the Run landed its     *)
(* update before the record it updates: a later outcome replaces the earlier.  *)
THEOREM StatusAlwaysSingle == Spec => []SingleStatus
<1>1. Init => StatusInv /\ SingleStatus
  BY PayloadAssumption DEF Init, StatusInv, SingleStatus, EmptyTx, RunIri
<1>2. TypeOK /\ TxInv /\ OwnerInv /\ KeyInv /\ StatusInv /\ SingleStatus /\ [Next]_vars
         => StatusInv' /\ SingleStatus'
  <2>1. StatusInv /\ SingleStatus /\ UNCHANGED vars => StatusInv' /\ SingleStatus'
    BY DEF StatusInv, SingleStatus, Overlap, Arrived, vars, taskVars, sqlVars, histVars
  <2> QED BY <2>1, StatusInvStep, SingleStatusStep DEF Next
<1> QED BY <1>1, <1>2, TypeCorrect, ClaimsKept, OwnersKept, KeysKept, PTL DEF Spec

-----------------------------------------------------------------------------
(* Repeating a request.                                                      *)

Keyed(r) == input[r] # None /\ HasRunKey(input[r]) /\ input[r].via = "advertise"
Alone(r) == \A q \in Arrived : ~Overlap(r, q)

(* The artifact the tables give for an item, and the link the item stands for. *)
ArtAt(r, j) ==
    LET it == input[r].items[j] IN
    IF it.iri # None THEN it.iri ELSE artifactKeys[ArtifactKey(input[r], it)]
LinkAt(r, j) == <<run[r], ArtAt(r, j), input[r].items[j].role>>

Resolved == {"items", "rememberArtifact", "claim", "notify", "answer", "answered"}

(* What a task has done can be read off the tables: its Run is the one of its  *)
(* key, and its links are those of its items so far.                         *)
Traced(r) ==
    /\ pc[r] = "rememberRun" => runKeys[RunKeyOf(r)] = None
    /\ pc[r] = "rememberArtifact" => input[r].items[idx[r]].iri = None /\ ArtAt(r, idx[r]) = None
    /\ pc[r] = "claim" => ArtAt(r, idx[r]) = art[r]
    /\ pc[r] \in Resolved =>
          /\ run[r] # None /\ runKeys[RunKeyOf(r)] = run[r]
          /\ \A j \in 1..(idx[r] - 1) : ArtAt(r, j) # None
          /\ done[r] = {LinkAt(r, j) : j \in 1..(idx[r] - 1)}

(* A task starts with a body and nothing done, ends with every item done, and  *)
(* answers what it did.                                                      *)
BareInv ==
    /\ \A r \in Request : pc[r] = "idle" => input[r] = None
    /\ \A r \in Request : pc[r] \in {"idle", "check", "lookup"} => ~created[r]
    /\ \A r \in Request : pc[r] \in {"idle", "check", "lookup", "rememberRun"} =>
          idx[r] = 1 /\ done[r] = {}
    /\ \A r \in Request : pc[r] \in {"notify", "answer", "answered"} =>
          idx[r] = Len(input[r].items) + 1
    /\ \A r \in Request : pc[r] # "idle" => idx[r] - 1 <= Len(input[r].items)
    /\ \A a \in acked : a.links = done[a.by] /\ a.created = created[a.by]

Repeats(b, a) ==
    a \in before[b] /\ pc[a] = "answered" /\ input[a] = input[b] /\ Keyed(a) /\ Alone(a)

(* A request nobody overlapped, and every repeat of it, can be read off the    *)
(* tables; a repeat creates nothing.                                         *)
RetryInv ==
    /\ \A a \in Request : Keyed(a) /\ Alone(a) => Traced(a)
    /\ \A a, b \in Request : Repeats(b, a) =>
          Traced(b) /\ ~created[b] /\ pc[b] \notin {"rememberRun", "rememberArtifact"}

(* A step of one task leaves the variables of the others alone.              *)
LEMMA OthersStay ==
    ASSUME TypeOK, NEW r \in Request, Arrive(r) \/ Refuse(r) \/ Step(r) \/ Abort(r),
           NEW q \in Request, q # r
    PROVE  /\ pc'[q] = pc[q] /\ input'[q] = input[q] /\ idx'[q] = idx[q] /\ run'[q] = run[q]
           /\ art'[q] = art[q] /\ done'[q] = done[q] /\ created'[q] = created[q]
           /\ before'[q] = before[q]
<1>1. /\ pc \in [Request -> PcType] /\ input \in [Request -> Payload \cup {None}]
      /\ idx \in [Request -> Nat \ {0}] /\ run \in [Request -> RunIri \cup {None}]
      /\ art \in [Request -> ArtIri \cup {None}] /\ done \in [Request -> SUBSET Link]
      /\ created \in [Request -> BOOLEAN] /\ before \in [Request -> SUBSET Request]
  BY DEF TypeOK
<1>2. CASE Arrive(r) \/ Refuse(r) \/ Accept(r) \/ Abort(r)
  BY <1>1, <1>2 DEF Arrive, Refuse, Accept, Abort, Goto, histVars
<1>3. CASE AttachRun(r) \/ MintRun(r) \/ RememberRun(r)
  BY <1>1, <1>3 DEF AttachRun, MintRun, RememberRun, Goto, histVars
<1>4. CASE UseReference(r) \/ ReuseArtifact(r) \/ MintArtifact(r) \/ RememberArtifact(r)
  BY <1>1, <1>4 DEF UseReference, ReuseArtifact, MintArtifact, RememberArtifact, Goto, histVars
<1>5. CASE ClaimAdvertisement(r)
  BY <1>1, <1>5 DEF ClaimAdvertisement, Goto, histVars
<1>6. CASE Commit(r) \/ Notify(r) \/ Answer(r)
  BY <1>1, <1>6 DEF Commit, Notify, Answer, Goto, histVars
<1> QED BY <1>2, <1>3, <1>4, <1>5, <1>6 DEF Step

(* INSERT OR IGNORE: a row that is there stays.                              *)
LEMMA RowsStay ==
    ASSUME TypeOK, NEW r \in Request, Arrive(r) \/ Refuse(r) \/ Step(r) \/ Abort(r)
    PROVE  /\ \A k \in RunKey \X Instance : runKeys[k] # None => runKeys'[k] = runKeys[k]
           /\ \A k \in Key : artifactKeys[k] # None => artifactKeys'[k] = artifactKeys[k]
           /\ RememberRun(r) \/ runKeys' = runKeys
           /\ RememberArtifact(r) \/ artifactKeys' = artifactKeys
<1>1. /\ runKeys \in [RunKey \X Instance -> RunIri \cup {None}]
      /\ artifactKeys \in [Key -> ArtIri \cup {None}]
  BY DEF TypeOK
<1>2. CASE RememberRun(r)
  BY <1>1, <1>2 DEF RememberRun
<1>3. CASE RememberArtifact(r)
  BY <1>1, <1>3 DEF RememberArtifact
<1>4. CASE ~RememberRun(r) /\ ~RememberArtifact(r)
  BY <1>4 DEF Step, Arrive, Refuse, Abort, Accept, AttachRun, MintRun, UseReference,
     ReuseArtifact, MintArtifact, ClaimAdvertisement, Commit, Notify, Answer, sqlVars
<1> QED BY <1>2, <1>3, <1>4

(* The rows a keyed body depends on.                                         *)
LEMMA KeyedRows ==
    ASSUME TypeOK, NEW r \in Request, pc[r] # "idle", Keyed(r)
    PROVE  /\ RunKeyOf(r) \in RunKey \X Instance
           /\ Len(input[r].items) \in Nat
           /\ \A j \in 1..Len(input[r].items) :
                /\ input[r].items[j] \in Item
                /\ input[r].items[j].iri = None =>
                      /\ ArtifactKey(input[r], input[r].items[j]) \in Key
                      /\ ArtifactKey(input[r], input[r].items[j]) # None
<1>1. /\ input[r].key \in RunKey /\ input[r].instance \in Instance
      /\ input[r].items \in Seq(Item) /\ input[r].key # None
  BY BodyType DEF Keyed, HasRunKey
<1>2. RunKeyOf(r) \in RunKey \X Instance /\ Len(input[r].items) \in Nat
  BY <1>1 DEF RunKeyOf
<1>3. ASSUME NEW j \in 1..Len(input[r].items)
      PROVE  /\ input[r].items[j] \in Item
             /\ ArtifactKey(input[r], input[r].items[j]) \in Key
  <2>1. input[r].items[j] \in Item
    BY <1>1, <1>3
  <2>2. input[r].items[j].key \in ItemKey \cup {None} /\ input[r].items[j].desc \in Desc
    BY <2>1 DEF Item
  <2> QED BY <1>1, <2>1, <2>2 DEF ArtifactKey, Key
<1> QED BY <1>2, <1>3, PayloadAssumption

(* What the tables give for an item stays what it is.                        *)
LEMMA ArtStays ==
    ASSUME TypeOK, NEW r \in Request, Arrive(r) \/ Refuse(r) \/ Step(r) \/ Abort(r),
           NEW q \in Request, pc[q] # "idle", Keyed(q),
           NEW j \in 1..Len(input[q].items), ArtAt(q, j) # None
    PROVE  ArtAt(q, j)' = ArtAt(q, j)
<1>1. input'[q] = input[q]
  BY BodyStays
<1>2. CASE input[q].items[j].iri # None
  BY <1>1, <1>2 DEF ArtAt
<1>3. CASE input[q].items[j].iri = None
  <2> DEFINE k == ArtifactKey(input[q], input[q].items[j])
  <2>1. k \in Key
    BY <1>3, KeyedRows
  <2>2. artifactKeys[k] # None
    BY <1>3 DEF ArtAt
  <2>3. artifactKeys'[k] = artifactKeys[k]
    BY <2>1, <2>2, RowsStay
  <2>4. ArtifactKey(input[q], input[q].items[j])' = k
    BY <1>1 DEF ArtifactKey
  <2> HIDE DEF k
  <2> QED BY <1>1, <1>3, <2>3, <2>4 DEF ArtAt, k
<1> QED BY <1>2, <1>3

(* Another task's step does not disturb what a task can be read off, unless    *)
(* the task is between a lookup and the row it writes.                        *)
LEMMA TracedOther ==
    ASSUME TypeOK, BareInv, NEW r \in Request, Arrive(r) \/ Refuse(r) \/ Step(r) \/ Abort(r),
           NEW q \in Request, q # r, pc[q] # "idle", Keyed(q), Traced(q),
           pc[q] \notin {"rememberRun", "rememberArtifact"}
    PROVE  Traced(q)'
<1>1. /\ pc'[q] = pc[q] /\ input'[q] = input[q] /\ idx'[q] = idx[q] /\ run'[q] = run[q]
      /\ art'[q] = art[q] /\ done'[q] = done[q]
  BY OthersStay
<1>2. idx[q] \in Nat \ {0} /\ Len(input[q].items) \in Nat /\ idx[q] - 1 <= Len(input[q].items)
  BY KeyedRows DEF TypeOK, BareInv
<1>3. CASE pc[q] \in Resolved
  <2>1. \A j \in 1..(idx[q] - 1) : ArtAt(q, j)' = ArtAt(q, j)
    <3>1. ASSUME NEW j \in 1..(idx[q] - 1) PROVE ArtAt(q, j)' = ArtAt(q, j)
      <4>1. j \in 1..Len(input[q].items)
        BY <1>2
      <4>2. ArtAt(q, j) # None
        BY <1>3 DEF Traced
      <4> QED BY <4>1, <4>2, ArtStays
    <3> QED BY <3>1
  <2>2. pc[q] = "claim" => ArtAt(q, idx[q])' = art[q]
    <3> SUFFICES ASSUME pc[q] = "claim" PROVE ArtAt(q, idx[q])' = art[q]
      OBVIOUS
    <3>1. idx[q] \in 1..Len(input[q].items) /\ art[q] # None
      BY DEF TypeOK
    <3>2. ArtAt(q, idx[q]) = art[q]
      BY DEF Traced
    <3>3. \A j \in 1..Len(input[q].items) : ArtAt(q, j) # None => ArtAt(q, j)' = ArtAt(q, j)
      BY ArtStays
    <3>4. \A j : idx'[q] = j => ArtAt(q, idx[q])' = ArtAt(q, j)'
      BY DEF ArtAt
    <3> QED BY <1>1, <3>1, <3>2, <3>3, <3>4
  <2>3. runKeys'[RunKeyOf(q)'] = run[q]
    <3>1. RunKeyOf(q)' = RunKeyOf(q) /\ RunKeyOf(q) \in RunKey \X Instance
      BY <1>1, KeyedRows DEF RunKeyOf
    <3>2. runKeys[RunKeyOf(q)] = run[q] /\ run[q] # None
      BY <1>3 DEF Traced
    <3> QED BY <3>1, <3>2, RowsStay
  <2>4. \A j \in 1..(idx[q] - 1) : LinkAt(q, j)' = LinkAt(q, j) /\ ArtAt(q, j)' # None
    BY <1>1, <1>3, <2>1 DEF LinkAt, Traced
  <2>5. done'[q] = {LinkAt(q, j)' : j \in 1..(idx[q] - 1)} /\ run[q] # None
    BY <1>1, <1>3, <2>4 DEF Traced
  <2> QED BY <1>1, <2>2, <2>3, <2>4, <2>5 DEF Traced
<1>4. CASE pc[q] \notin Resolved
  BY <1>1, <1>4 DEF Traced, Resolved
<1> QED BY <1>3, <1>4

(* Looking up and remembering the Run.                                       *)
LEMMA TracedRun ==
    ASSUME TypeOK, BareInv, NEW r \in Request, Keyed(r), Traced(r),
           AttachRun(r) \/ MintRun(r) \/ RememberRun(r)
    PROVE  Traced(r)'
<1>1. /\ pc[r] # "idle" /\ input' = input /\ idx' = idx /\ done' = done
      /\ RunKeyOf(r)' = RunKeyOf(r)
  BY DEF AttachRun, MintRun, RememberRun, At, RunKeyOf
<1>2. RunKeyOf(r) \in RunKey \X Instance /\ HasRunKey(input[r])
  BY <1>1, KeyedRows DEF Keyed
<1>3. CASE AttachRun(r) \/ MintRun(r)
  <2>1. idx'[r] = 1 /\ done'[r] = {} /\ RunForKey(input[r]) = runKeys[RunKeyOf(r)] /\ runKeys' = runKeys
    BY <1>1, <1>2, <1>3 DEF BareInv, AttachRun, MintRun, At, RunForKey, RunKeyOf, sqlVars
  <2>2. CASE AttachRun(r)
    <3>1. pc'[r] = "items" /\ run'[r] = RunForKey(input[r])
      BY <2>2 DEF AttachRun, Goto, TypeOK
    <3>2. 1..(idx'[r] - 1) = {} /\ run'[r] # None
      BY <2>1, <2>2, <3>1 DEF AttachRun
    <3> QED BY <1>1, <2>1, <3>1, <3>2 DEF Traced, Resolved
  <2>3. CASE MintRun(r)
    <3>1. pc'[r] = "rememberRun" /\ RunForKey(input[r]) = None
      BY <1>2, <2>3 DEF MintRun, Goto, TypeOK
    <3> QED BY <1>1, <2>1, <3>1 DEF Traced, Resolved
  <2> QED BY <1>3, <2>2, <2>3
<1>4. CASE RememberRun(r)
  <2>1. runKeys' = [runKeys EXCEPT ![RunKeyOf(r)] = IF @ = None THEN run[r] ELSE @]
        /\ pc[r] = "rememberRun" /\ run' = run
    BY <1>4 DEF RememberRun, At, RunKeyOf
  <2>2. pc'[r] = "items"
    BY <1>4 DEF RememberRun, Goto, TypeOK
  <2>3. runKeys'[RunKeyOf(r)] = run[r] /\ run[r] # None
    BY <1>2, <2>1 DEF Traced, TypeOK
  <2>4. idx[r] = 1 /\ done[r] = {}
    BY <2>1 DEF BareInv
  <2>5. 1..(idx'[r] - 1) = {}
    BY <1>1, <2>4
  <2> QED BY <1>1, <2>1, <2>2, <2>3, <2>4, <2>5 DEF Traced, Resolved
<1> QED BY <1>3, <1>4

(* Whatever row a keyed item is remembered under is that of its position.     *)
LEMMA ItemRow ==
    ASSUME TypeOK, NEW r \in Request, Pending(r) \/ pc[r] \in {"rememberArtifact", "claim"}, Keyed(r)
    PROVE  /\ pc[r] # "idle" /\ idx[r] \in 1..Len(input[r].items)
           /\ ItemOf(r) = input[r].items[idx[r]]
           /\ ItemOf(r).iri = None =>
                 /\ ArtifactKey(input[r], ItemOf(r)) \in Key
                 /\ ArtifactKey(input[r], ItemOf(r)) # None
                 /\ ArtifactForKey(r) = ArtAt(r, idx[r])
           /\ ItemOf(r).iri # None => ArtAt(r, idx[r]) = ItemOf(r).iri
           /\ IsReference(r) <=> ItemOf(r).iri # None
<1>1. pc[r] # "idle" /\ idx[r] \in 1..Len(input[r].items)
  BY ArtifactForKeyType DEF TypeOK, Pending, At
<1>2. ItemOf(r).iri = None => /\ ArtifactKey(input[r], ItemOf(r)) \in Key
                              /\ ArtifactKey(input[r], ItemOf(r)) # None
  BY <1>1, KeyedRows DEF ItemOf
<1>3. IsReference(r) <=> ItemOf(r).iri # None
  BY DEF IsReference, Keyed
<1> QED BY <1>1, <1>2, <1>3 DEF ItemOf, ArtifactForKey, ArtAt

(* The items done so far stand for the same links after a step.              *)
LEMMA TracedPrefix ==
    ASSUME TypeOK, BareInv, NEW r \in Request, Keyed(r), Traced(r), pc[r] \in Resolved,
           Refuse(r) \/ Step(r) \/ Abort(r), run' = run
    PROVE  /\ input'[r] = input[r] /\ RunKeyOf(r)' = RunKeyOf(r)
           /\ idx[r] \in Nat \ {0} /\ Len(input[r].items) \in Nat
           /\ \A j \in 1..(idx[r] - 1) :
                ArtAt(r, j)' = ArtAt(r, j) /\ ArtAt(r, j) # None /\ LinkAt(r, j)' = LinkAt(r, j)
           /\ run[r] # None /\ runKeys'[RunKeyOf(r)] = run[r]
<1>1. pc[r] # "idle"
  BY DEF Resolved
<1>2. input'[r] = input[r] /\ RunKeyOf(r)' = RunKeyOf(r)
  BY <1>1, BodyStays DEF RunKeyOf
<1>3. /\ idx[r] \in Nat \ {0} /\ Len(input[r].items) \in Nat
      /\ idx[r] - 1 <= Len(input[r].items) /\ RunKeyOf(r) \in RunKey \X Instance
  BY <1>1, KeyedRows DEF TypeOK, BareInv
<1>4. ASSUME NEW j \in 1..(idx[r] - 1)
      PROVE  ArtAt(r, j)' = ArtAt(r, j) /\ ArtAt(r, j) # None /\ LinkAt(r, j)' = LinkAt(r, j)
  <2>1. j \in 1..Len(input[r].items)
    BY <1>3
  <2>2. ArtAt(r, j) # None
    BY DEF Traced
  <2>3. ArtAt(r, j)' = ArtAt(r, j)
    BY <1>1, <2>1, <2>2, ArtStays
  <2> QED BY <1>2, <2>2, <2>3 DEF LinkAt
<1>5. run[r] # None /\ runKeys'[RunKeyOf(r)] = run[r]
  <2>1. run[r] # None /\ runKeys[RunKeyOf(r)] = run[r]
    BY DEF Traced
  <2> QED BY <1>3, <2>1, RowsStay
<1> QED BY <1>2, <1>3, <1>4, <1>5

(* Resolving an artifact.                                                    *)
LEMMA TracedArtifact ==
    ASSUME TypeOK, BareInv, NEW r \in Request, Keyed(r), Traced(r),
           UseReference(r) \/ ReuseArtifact(r) \/ MintArtifact(r) \/ RememberArtifact(r)
    PROVE  Traced(r)'
<1>1. /\ Pending(r) \/ pc[r] \in {"rememberArtifact", "claim"}
      /\ pc[r] \in Resolved
      /\ idx' = idx /\ run' = run /\ done' = done /\ input' = input /\ runKeys' = runKeys
  BY DEF UseReference, ReuseArtifact, MintArtifact, RememberArtifact, Pending, At, Resolved,
         sqlVars
<1>2. /\ RunKeyOf(r)' = RunKeyOf(r)
      /\ \A j \in 1..(idx[r] - 1) :
            ArtAt(r, j)' = ArtAt(r, j) /\ ArtAt(r, j) # None /\ LinkAt(r, j)' = LinkAt(r, j)
      /\ run[r] # None /\ runKeys'[RunKeyOf(r)] = run[r]
  BY <1>1, TracedPrefix DEF Step
<1>3. /\ pc[r] # "idle" /\ idx[r] \in 1..Len(input[r].items)
      /\ ItemOf(r) = input[r].items[idx[r]]
      /\ ItemOf(r).iri = None =>
            /\ ArtifactKey(input[r], ItemOf(r)) \in Key
            /\ ArtifactKey(input[r], ItemOf(r)) # None
            /\ ArtifactForKey(r) = ArtAt(r, idx[r])
      /\ ItemOf(r).iri # None => ArtAt(r, idx[r]) = ItemOf(r).iri
      /\ IsReference(r) <=> ItemOf(r).iri # None
  BY <1>1, ItemRow
<1>4. /\ \A j \in 1..(idx'[r] - 1) : ArtAt(r, j)' # None
      /\ done'[r] = {LinkAt(r, j)' : j \in 1..(idx'[r] - 1)}
  <2>1. done[r] = {LinkAt(r, j) : j \in 1..(idx[r] - 1)}
    BY <1>1 DEF Traced
  <2> QED BY <1>1, <1>2, <2>1
<1>5. CASE UseReference(r)
  <2>1. pc'[r] = "claim" /\ art'[r] = ItemOf(r).iri /\ IsReference(r)
    BY <1>5 DEF UseReference, Goto, TypeOK
  <2>2. ArtAt(r, idx[r])' = art'[r]
    BY <1>1, <1>3, <2>1 DEF ArtAt
  <2> QED BY <1>1, <1>2, <1>4, <2>1, <2>2 DEF Traced
<1>6. CASE ReuseArtifact(r)
  <2>1. pc'[r] = "claim" /\ art'[r] = ArtifactForKey(r) /\ ~IsReference(r)
        /\ artifactKeys' = artifactKeys
    BY <1>6 DEF ReuseArtifact, Goto, TypeOK, sqlVars
  <2>2. ArtAt(r, idx[r])' = ArtAt(r, idx[r])
    BY <1>1, <2>1 DEF ArtAt
  <2> QED BY <1>1, <1>2, <1>3, <1>4, <2>1, <2>2 DEF Traced
<1>7. CASE MintArtifact(r)
  <2>1. /\ artifactKeys' = artifactKeys /\ ~IsReference(r) /\ ArtifactForKey(r) = None
        /\ pc' = [pc EXCEPT ![r] = IF ArtifactKey(input[r], ItemOf(r)) = None
                                   THEN "claim" ELSE "rememberArtifact"]
    BY <1>7 DEF MintArtifact, Goto
  <2>2. pc'[r] = "rememberArtifact"
    BY <1>3, <2>1 DEF TypeOK
  <2>3. ArtAt(r, idx[r])' = None /\ ItemOf(r).iri = None
    BY <1>1, <1>3, <2>1 DEF ArtAt
  <2> QED BY <1>1, <1>2, <1>3, <1>4, <2>2, <2>3 DEF Traced
<1>8. CASE RememberArtifact(r)
  <2> DEFINE k == ArtifactKey(input[r], ItemOf(r))
  <2>1. pc[r] = "rememberArtifact" /\ pc'[r] = "claim" /\ art' = art
        /\ artifactKeys' = [artifactKeys EXCEPT ![k] = IF @ = None THEN art[r] ELSE @]
    BY <1>8 DEF RememberArtifact, At, Goto, TypeOK
  <2>2. ItemOf(r).iri = None /\ ArtAt(r, idx[r]) = None
    BY <1>3, <2>1 DEF Traced
  <2>3. k \in Key /\ artifactKeys[k] = None
    BY <1>3, <2>2 DEF ArtAt
  <2>4. artifactKeys'[k] = art[r]
    BY <2>1, <2>3 DEF TypeOK
  <2>5. ArtAt(r, idx[r])' = artifactKeys'[k]
    BY <1>1, <1>3, <2>2 DEF ArtAt
  <2> QED BY <1>1, <1>2, <1>4, <2>1, <2>4, <2>5 DEF Traced
<1> QED BY <1>5, <1>6, <1>7, <1>8

(* Claiming the link of an item.                                             *)
LEMMA TracedClaim ==
    ASSUME TypeOK, BareInv, NEW r \in Request, Keyed(r), Traced(r), ClaimAdvertisement(r)
    PROVE  Traced(r)'
<1>1. /\ pc[r] = "claim" /\ pc[r] \in Resolved /\ pc'[r] = "items"
      /\ run' = run /\ input' = input /\ runKeys' = runKeys /\ artifactKeys' = artifactKeys
      /\ idx'[r] = idx[r] + 1
      /\ done'[r] = done[r] \cup {<<run[r], art[r], ItemOf(r).role>>}
  BY DEF ClaimAdvertisement, At, Goto, TypeOK, Resolved
<1>2. /\ RunKeyOf(r)' = RunKeyOf(r) /\ idx[r] \in Nat \ {0}
      /\ \A j \in 1..(idx[r] - 1) :
            ArtAt(r, j)' = ArtAt(r, j) /\ ArtAt(r, j) # None /\ LinkAt(r, j)' = LinkAt(r, j)
      /\ run[r] # None /\ runKeys'[RunKeyOf(r)] = run[r]
  BY <1>1, TracedPrefix DEF Step
<1>3. ArtAt(r, idx[r]) = art[r] /\ art[r] # None
  BY <1>1 DEF Traced, TypeOK
<1>4. \A j : LinkAt(r, j)' = LinkAt(r, j) /\ ArtAt(r, j)' = ArtAt(r, j)
  BY <1>1, <1>3 DEF LinkAt, ArtAt
<1>5. LinkAt(r, idx[r]) = <<run[r], art[r], ItemOf(r).role>>
  BY <1>3 DEF LinkAt, ItemOf
<1>6. done[r] = {LinkAt(r, j) : j \in 1..(idx[r] - 1)}
  BY <1>1 DEF Traced
<1>7. 1..(idx'[r] - 1) = 1..(idx[r] - 1) \cup {idx[r]}
  BY <1>1, <1>2
<1>8. done'[r] = {LinkAt(r, j)' : j \in 1..(idx'[r] - 1)}
  BY <1>1, <1>4, <1>5, <1>6, <1>7
<1>9. \A j \in 1..(idx'[r] - 1) : ArtAt(r, j)' # None
  BY <1>2, <1>3, <1>4, <1>7
<1> QED BY <1>1, <1>2, <1>8, <1>9 DEF Traced

(* Every step of a task leaves it readable off the tables.                   *)
LEMMA TracedOwn ==
    ASSUME TypeOK, BareInv, NEW r \in Request, Keyed(r), Traced(r),
           Refuse(r) \/ Step(r) \/ Abort(r)
    PROVE  Traced(r)'
<1>1. CASE Commit(r) \/ Notify(r) \/ Answer(r)
  <2>1. /\ pc[r] \in Resolved /\ run' = run /\ idx' = idx /\ done' = done
        /\ pc'[r] \in {"notify", "answer", "answered"}
    BY <1>1 DEF Commit, Notify, Answer, At, Goto, Resolved, TypeOK
  <2>2. /\ RunKeyOf(r)' = RunKeyOf(r)
        /\ \A j \in 1..(idx[r] - 1) :
              ArtAt(r, j)' = ArtAt(r, j) /\ ArtAt(r, j) # None /\ LinkAt(r, j)' = LinkAt(r, j)
        /\ run[r] # None /\ runKeys'[RunKeyOf(r)] = run[r]
    BY <1>1, <2>1, TracedPrefix DEF Step
  <2>3. done[r] = {LinkAt(r, j) : j \in 1..(idx[r] - 1)}
    BY <2>1 DEF Traced
  <2> QED BY <2>1, <2>2, <2>3 DEF Traced
<1>2. CASE Refuse(r) \/ Accept(r) \/ Abort(r)
  <2>1. pc'[r] \in {"refused", "lookup", "aborted"}
    BY <1>2 DEF Refuse, Accept, Abort, InFlight, Goto, TypeOK
  <2> QED BY <2>1 DEF Traced, Resolved
<1> QED BY <1>1, <1>2, TracedRun, TracedArtifact, TracedClaim DEF Step

(* A task that nobody overlaps so far works alone while it is in progress.     *)
LEMMA AloneStep ==
    ASSUME TypeOK, TxInv, OwnerInv, KeyInv, BareInv, NEW r \in Request,
           Arrive(r) \/ Refuse(r) \/ Step(r) \/ Abort(r),
           NEW a \in Request, pc[a] # "idle", Alone(a)'
    PROVE  Alone(a) /\ (r # a => pc[a] \in AtRest)
<1>1. \A q \in Request : pc[q] # "idle" => before'[q] = before[q] /\ input'[q] = input[q]
  BY StatusSteps, BodyStays
<1>2. ASSUME NEW q \in Arrived, Overlap(a, q) PROVE FALSE
  <2>1. q \in Request /\ input[q] # None
    BY DEF Arrived
  <2>2. CASE pc[q] # "idle"
    <3>1. q \in Arrived'
      BY <1>1, <2>1, <2>2 DEF Arrived
    <3>2. Overlap(a, q)'
      BY <1>1, <1>2, <2>1, <2>2 DEF Overlap
    <3> QED BY <3>1, <3>2 DEF Alone
  <2>3. CASE pc[q] = "idle"
    BY <2>1, <2>3 DEF BareInv
  <2> QED BY <2>2, <2>3
<1>3. ASSUME r # a, pc[a] \notin AtRest PROVE FALSE
  <2>1. pc[a] \notin Ended
    BY <1>3 DEF AtRest
  <2>2. a \notin before'[r]
    <3>1. CASE Arrive(r)
      BY <2>1, <3>1 DEF Arrive, TypeOK
    <3>2. CASE ~Arrive(r)
      <4>1. pc[r] # "idle"
        BY <3>2, KeyFrame DEF InFlight, Ended
      <4> QED BY <1>1, <1>3, <4>1 DEF KeyInv
    <3> QED BY <3>1, <3>2
  <2>3. r \notin before'[a]
    <3>1. pc[r] \notin AtRest
      BY DEF TypeOK, Step, Arrive, Refuse, Abort, Accept, AttachRun, MintRun, RememberRun,
         UseReference, ReuseArtifact, MintArtifact, RememberArtifact, ClaimAdvertisement,
         Commit, Notify, Answer, Pending, At, InFlight, Ended, AtRest
    <3> QED BY <1>1, <3>1 DEF KeyInv
  <2>4. r \in Arrived'
    <3>1. CASE Arrive(r)
      BY <3>1, PayloadAssumption DEF Arrive, TypeOK, Arrived
    <3>2. CASE ~Arrive(r)
      <4>1. pc[r] # "idle"
        BY <3>2, KeyFrame DEF InFlight, Ended
      <4> QED BY <1>1, <4>1 DEF TypeOK, Arrived
    <3> QED BY <3>1, <3>2
  <2>5. Overlap(a, r)'
    BY <1>3, <2>2, <2>3 DEF Overlap
  <2> QED BY <2>4, <2>5 DEF Alone
<1> QED BY <1>2, <1>3 DEF Alone

(* Where a task can be before and after a step of its own.                    *)
LEMMA BareOwn ==
    ASSUME TypeOK, BareInv, NEW r \in Request,
           Arrive(r) \/ Refuse(r) \/ Step(r) \/ Abort(r)
    PROVE  /\ pc'[r] # "idle" /\ input'[r] # None
           /\ pc'[r] \in {"check", "lookup"} => ~created'[r]
           /\ pc'[r] \in {"check", "lookup", "rememberRun"} => idx'[r] = 1 /\ done'[r] = {}
           /\ pc'[r] \in {"notify", "answer", "answered"} => idx'[r] = Len(input'[r].items) + 1
           /\ idx'[r] - 1 <= Len(input'[r].items)
<1> DEFINE n == Len(input[r].items)
<1>1. /\ pc \in [Request -> PcType] /\ input \in [Request -> Payload \cup {None}]
      /\ idx \in [Request -> Nat \ {0}] /\ done \in [Request -> SUBSET Link]
      /\ created \in [Request -> BOOLEAN] /\ idx[r] \in Nat
  BY DEF TypeOK
<1>2. CASE Arrive(r)
  <2>1. /\ pc'[r] = "check" /\ pc[r] = "idle" /\ input'[r] \in Payload
        /\ UNCHANGED <<idx, done, created>>
    BY <1>1, <1>2 DEF Arrive, At, Goto
  <2>2. input'[r] # None /\ Len(input'[r].items) \in Nat
    BY <2>1, PayloadAssumption
  <2>3. idx[r] = 1 /\ done[r] = {} /\ ~created[r]
    BY <2>1 DEF BareInv
  <2> QED BY <2>1, <2>2, <2>3
<1>3. ASSUME ~Arrive(r)
      PROVE  pc[r] # "idle" /\ input'[r] = input[r] /\ input[r] # None /\ n \in Nat
  <2>1. pc[r] # "idle"
    BY <1>3 DEF Step, Refuse, Abort, Accept, AttachRun, MintRun, RememberRun,
       UseReference, ReuseArtifact, MintArtifact, RememberArtifact, ClaimAdvertisement,
       Commit, Notify, Answer, Pending, At, InFlight, Ended
  <2>2. n \in Nat /\ input'[r] = input[r] /\ input[r] # None
    BY <2>1, BodyType, BodyStays DEF TypeOK
  <2> QED BY <2>1, <2>2
<1> HIDE DEF n
<1>4. pc[r] # "idle" => idx[r] - 1 <= n
  BY DEF BareInv, n
<1>5. CASE Accept(r) \/ Refuse(r) \/ Abort(r)
  <2>1. ~Arrive(r)
    BY <1>5 DEF Accept, Refuse, Abort, Arrive, At, InFlight, Ended
  <2>2. /\ pc'[r] \in {"lookup", "refused", "aborted"}
        /\ pc'[r] = "lookup" => pc[r] = "check"
        /\ UNCHANGED <<idx, done, created>>
    BY <1>1, <1>5 DEF Accept, Refuse, Abort, At, Goto, InFlight
  <2>3. pc[r] = "check" => idx[r] = 1 /\ done[r] = {} /\ ~created[r]
    BY DEF BareInv
  <2> QED BY <1>3, <1>4, <2>1, <2>2, <2>3 DEF n
<1>6. CASE AttachRun(r) \/ MintRun(r) \/ RememberRun(r)
  <2>1. ~Arrive(r)
    BY <1>6 DEF AttachRun, MintRun, RememberRun, Arrive, At
  <2>2. /\ pc'[r] \in {"items", "rememberRun"}
        /\ pc'[r] = "rememberRun" => pc[r] = "lookup"
        /\ UNCHANGED <<idx, done>>
    BY <1>1, <1>6 DEF AttachRun, MintRun, RememberRun, At, Goto
  <2>3. pc[r] = "lookup" => idx[r] = 1 /\ done[r] = {}
    BY DEF BareInv
  <2> QED BY <1>3, <1>4, <2>1, <2>2, <2>3 DEF n
<1>7. CASE UseReference(r) \/ ReuseArtifact(r) \/ MintArtifact(r) \/ RememberArtifact(r)
  <2>1. ~Arrive(r)
    BY <1>7 DEF UseReference, ReuseArtifact, MintArtifact, RememberArtifact, Arrive, Pending, At
  <2>2. pc'[r] \in {"claim", "rememberArtifact"} /\ UNCHANGED <<idx, done>>
    BY <1>1, <1>7 DEF UseReference, ReuseArtifact, MintArtifact, RememberArtifact, Goto
  <2> QED BY <1>3, <1>4, <2>1, <2>2 DEF n
<1>8. CASE ClaimAdvertisement(r)
  <2>1. ~Arrive(r) /\ pc[r] = "claim"
    BY <1>8 DEF ClaimAdvertisement, Arrive, At
  <2>2. pc'[r] = "items" /\ idx'[r] = idx[r] + 1
    BY <1>1, <1>8 DEF ClaimAdvertisement, Goto
  <2>3. idx[r] \in 1..n
    BY <2>1 DEF TypeOK, n
  <2> QED BY <1>1, <1>3, <2>1, <2>2, <2>3 DEF n
<1>9. CASE Commit(r) \/ Notify(r) \/ Answer(r)
  <2>1. ~Arrive(r) /\ pc[r] \in {"items", "notify", "answer"}
    BY <1>9 DEF Commit, Notify, Answer, Arrive, At
  <2>2. pc'[r] \in {"notify", "answer", "answered"} /\ UNCHANGED <<idx, done>>
    BY <1>1, <1>9 DEF Commit, Notify, Answer, Goto
  <2>3. CASE Commit(r)
    <3>1. idx[r] > n
      BY <2>3 DEF Commit, n
    <3>2. idx[r] = n + 1
      BY <1>1, <1>3, <1>4, <2>1, <3>1
    <3> QED BY <1>3, <1>4, <2>1, <2>2, <3>2 DEF n
  <2>4. CASE Notify(r) \/ Answer(r)
    <3>1. idx[r] = n + 1
      BY <2>4 DEF Notify, Answer, At, BareInv, n
    <3> QED BY <1>3, <1>4, <2>1, <2>2, <3>1 DEF n
  <2> QED BY <1>9, <2>3, <2>4
<1> QED BY <1>2, <1>5, <1>6, <1>7, <1>8, <1>9 DEF Step

(* Every step keeps the shape of tasks and of answers.                       *)
LEMMA BareInvStep ==
    ASSUME TypeOK, OwnerInv, BareInv, NEW r \in Request,
           Arrive(r) \/ Refuse(r) \/ Step(r) \/ Abort(r)
    PROVE  BareInv'
<1>1. ASSUME NEW q \in Request
      PROVE  /\ pc'[q] = "idle" => input'[q] = None
             /\ pc'[q] \in {"idle", "check", "lookup"} => ~created'[q]
             /\ pc'[q] \in {"idle", "check", "lookup", "rememberRun"} => idx'[q] = 1 /\ done'[q] = {}
             /\ pc'[q] \in {"notify", "answer", "answered"} => idx'[q] = Len(input'[q].items) + 1
             /\ pc'[q] # "idle" => idx'[q] - 1 <= Len(input'[q].items)
  <2>1. CASE q = r
    BY <2>1, BareOwn
  <2>2. CASE q # r
    BY <2>2, OthersStay DEF BareInv
  <2> QED BY <2>1, <2>2
<1>2. ASSUME NEW a \in acked' PROVE a.links = done'[a.by] /\ a.created = created'[a.by]
  <2>1. CASE a \in acked
    <3>1. a.by \in Request /\ pc[a.by] = "answered"
      BY <2>1 DEF OwnerInv, TypeOK
    <3>2. a.by # r
      BY <3>1 DEF Step, Arrive, Refuse, Abort, Accept, AttachRun, MintRun, RememberRun,
         UseReference, ReuseArtifact, MintArtifact, RememberArtifact, ClaimAdvertisement,
         Commit, Notify, Answer, Pending, At, InFlight, Ended
    <3> QED BY <2>1, <3>1, <3>2, OthersStay DEF BareInv
  <2>2. CASE a \notin acked
    <3>1. Answer(r)
      BY <1>2, <2>2 DEF Step, Arrive, Refuse, Abort, Accept, AttachRun, MintRun, RememberRun,
         UseReference, ReuseArtifact, MintArtifact, RememberArtifact, ClaimAdvertisement,
         Commit, Notify, histVars
    <3>2. a = [by |-> r, run |-> run[r], links |-> done[r], created |-> created[r]]
          /\ UNCHANGED <<done, created>>
      BY <1>2, <2>2, <3>1 DEF Answer
    <3> QED BY <3>2
  <2> QED BY <2>1, <2>2
<1> QED BY <1>1, <1>2 DEF BareInv

(* A repeat finds every row of its body, so it mints and claims nothing new.   *)
LEMMA RepeatOwn ==
    ASSUME TypeOK, ClaimInv, BareInv, NEW r \in Request, NEW a \in Request,
           pc[r] # "idle", pc[a] = "answered", input[a] = input[r], Keyed(a), Traced(a),
           Traced(r), ~created[r], pc[r] \notin {"rememberRun", "rememberArtifact"},
           Refuse(r) \/ Step(r) \/ Abort(r)
    PROVE  ~created'[r] /\ pc'[r] \notin {"rememberRun", "rememberArtifact"}
<1> DEFINE n == Len(input[r].items)
<1>1. Keyed(r) /\ RunKeyOf(r) = RunKeyOf(a) /\ \A j : ArtAt(r, j) = ArtAt(a, j)
  BY DEF Keyed, RunKeyOf, ArtAt
<1>2. /\ run[a] # None /\ runKeys[RunKeyOf(r)] = run[a]
      /\ n \in Nat /\ idx[a] = n + 1
      /\ \A j \in 1..(idx[a] - 1) : ArtAt(a, j) # None
      /\ done[a] = {LinkAt(a, j) : j \in 1..(idx[a] - 1)}
      /\ done[a] \subseteq claims
  BY <1>1, KeyedRows DEF Traced, Resolved, BareInv, ClaimInv
<1>3. 1..(idx[a] - 1) = 1..n
  BY <1>2
<1>4. ~MintRun(r)
  BY <1>1, <1>2 DEF MintRun, RunForKey, RunKeyOf, Keyed
<1>5. ~MintArtifact(r)
  <2> SUFFICES ASSUME MintArtifact(r) PROVE FALSE
    OBVIOUS
  <2>1. Pending(r) /\ ~IsReference(r) /\ ArtifactForKey(r) = None
    BY DEF MintArtifact
  <2>2. idx[r] \in 1..n /\ ArtifactForKey(r) = ArtAt(r, idx[r])
    BY <1>1, <2>1, ItemRow
  <2> QED BY <1>1, <1>2, <1>3, <2>1, <2>2
<1>6. ASSUME ClaimAdvertisement(r)
      PROVE  ~created'[r] /\ pc'[r] = "items"
  <2> DEFINE l == <<run[r], art[r], ItemOf(r).role>>
  <2>1. pc[r] = "claim" /\ pc'[r] = "items" /\ created'[r] = (created[r] \/ Fresh(l))
    BY <1>6 DEF ClaimAdvertisement, At, Goto, TypeOK
  <2>2. idx[r] \in 1..n /\ run[r] = run[a] /\ ArtAt(r, idx[r]) = art[r]
    BY <1>2, <2>1 DEF Traced, Resolved, TypeOK
  <2>3. l = LinkAt(a, idx[r])
    BY <1>1, <2>2 DEF LinkAt, ItemOf
  <2>4. l \in claims
    BY <1>2, <1>3, <2>2, <2>3
  <2> QED BY <2>1, <2>4 DEF Fresh
<1>7. CASE Refuse(r) \/ Accept(r) \/ Abort(r)
  BY <1>7 DEF Refuse, Accept, Abort, Goto, TypeOK
<1>8. CASE AttachRun(r) \/ RememberRun(r)
  BY <1>8 DEF AttachRun, RememberRun, Goto, TypeOK
<1>9. CASE UseReference(r) \/ ReuseArtifact(r) \/ RememberArtifact(r)
  BY <1>9 DEF UseReference, ReuseArtifact, RememberArtifact, Goto, TypeOK
<1>10. CASE Commit(r) \/ Notify(r) \/ Answer(r)
  BY <1>10 DEF Commit, Notify, Answer, Goto, TypeOK
<1> QED BY <1>4, <1>5, <1>6, <1>7, <1>8, <1>9, <1>10 DEF Step

(* The invariant of a request nobody overlapped.                             *)
LEMMA AloneInvStep ==
    ASSUME TypeOK, TxInv, OwnerInv, KeyInv, BareInv, RetryInv, NEW r \in Request,
           Arrive(r) \/ Refuse(r) \/ Step(r) \/ Abort(r),
           NEW a \in Request, Keyed(a)', Alone(a)'
    PROVE  Traced(a)'
<1>1. CASE pc[a] = "idle"
  <2>1. pc'[a] \in {"idle", "check"}
    <3>1. CASE a # r
      BY <1>1, <3>1, OthersStay
    <3>2. CASE a = r
      BY <1>1, <3>2 DEF TypeOK, Step, Arrive, Refuse, Abort, Accept, AttachRun, MintRun,
         RememberRun, UseReference, ReuseArtifact, MintArtifact, RememberArtifact,
         ClaimAdvertisement, Commit, Notify, Answer, Pending, At, Goto, InFlight, Ended
    <3> QED BY <3>1, <3>2
  <2> QED BY <2>1 DEF Traced, Resolved
<1>2. CASE pc[a] # "idle"
  <2>1. Alone(a) /\ (r # a => pc[a] \in AtRest)
    BY <1>2, AloneStep
  <2>2. Keyed(a)
    BY <1>2, BodyStays DEF Keyed, HasRunKey
  <2>3. Traced(a)
    BY <2>1, <2>2 DEF RetryInv
  <2>4. CASE r = a
    <3>1. ~Arrive(r)
      BY <1>2, <2>4 DEF Arrive, At
    <3> QED BY <2>2, <2>3, <2>4, <3>1, TracedOwn
  <2>5. CASE r # a
    <3>1. pc[a] \notin {"rememberRun", "rememberArtifact"}
      BY <2>1, <2>5 DEF AtRest, Ended
    <3> QED BY <1>2, <2>2, <2>3, <2>5, <3>1, TracedOther
  <2> QED BY <2>4, <2>5
<1> QED BY <1>1, <1>2

(* The invariant of a repeat.                                                *)
LEMMA RepeatInvStep ==
    ASSUME TypeOK, TxInv, ClaimInv, OwnerInv, KeyInv, BareInv, RetryInv, NEW r \in Request,
           Arrive(r) \/ Refuse(r) \/ Step(r) \/ Abort(r),
           NEW a \in Request, NEW b \in Request, Repeats(b, a)'
    PROVE  Traced(b)' /\ ~created'[b] /\ pc'[b] \notin {"rememberRun", "rememberArtifact"}
<1>1. a \in before'[b] /\ pc'[a] = "answered" /\ input'[a] = input'[b] /\ Keyed(a)' /\ Alone(a)'
  BY DEF Repeats
<1>2. CASE pc[b] = "idle"
  <2>1. b = r
    BY <1>1, <1>2, OthersStay DEF KeyInv
  <2>2. Arrive(r)
    BY <1>2, <2>1, KeyFrame DEF InFlight, Ended
  <2>3. pc'[b] = "check" /\ created'[b] = created[b] /\ ~created[b]
    BY <1>2, <2>1, <2>2 DEF Arrive, Goto, TypeOK, BareInv
  <2> QED BY <2>3 DEF Traced, Resolved
<1>3. CASE pc[b] # "idle"
  <2>1. a \in before[b] /\ pc[a] \in AtRest
    BY <1>1, <1>3, StatusSteps DEF KeyInv
  <2>2. pc[a] = "answered" /\ pc[a] # "idle"
    BY <1>1, <2>1, KeyFacts DEF AtRest, Ended
  <2>3. Alone(a)
    BY <1>1, <2>2, AloneStep
  <2>4. input'[a] = input[a] /\ input'[b] = input[b]
    BY <1>3, <2>2, BodyStays
  <2>5. input[a] = input[b] /\ Keyed(a) /\ Keyed(b)
    BY <1>1, <2>4 DEF Keyed, HasRunKey
  <2>6. Traced(a) /\ Traced(b) /\ ~created[b] /\ pc[b] \notin {"rememberRun", "rememberArtifact"}
    BY <2>1, <2>2, <2>3, <2>5 DEF RetryInv, Repeats
  <2>7. CASE r = b
    <3>1. ~Arrive(r)
      BY <1>3, <2>7 DEF Arrive, At
    <3>2. Traced(b)'
      BY <2>5, <2>6, <2>7, <3>1, TracedOwn
    <3> QED BY <1>3, <2>2, <2>5, <2>6, <2>7, <3>1, <3>2, RepeatOwn
  <2>8. CASE r # b
    <3>1. Traced(b)'
      BY <1>3, <2>5, <2>6, <2>8, TracedOther
    <3> QED BY <2>6, <2>8, <3>1, OthersStay
  <2> QED BY <2>7, <2>8
<1> QED BY <1>2, <1>3

(* What two answers of one body have in common.                              *)
LEMMA RetryHolds == TypeOK /\ OwnerInv /\ BareInv /\ RetryInv => RetryIdempotent
<1> SUFFICES ASSUME TypeOK, OwnerInv, BareInv, RetryInv, NEW x \in acked, NEW y \in acked,
                    x.by \in before[y.by], input[x.by] = input[y.by],
                    HasRunKey(input[x.by]), input[x.by].via = "advertise",
                    \A r \in Arrived : ~Overlap(x.by, r)
             PROVE  y.run = x.run /\ y.links = x.links /\ ~y.created
  BY DEF RetryIdempotent
<1>1. PICK a \in Request, b \in Request : a = x.by /\ b = y.by
  BY DEF TypeOK
<1>2. /\ x.run = run[a] /\ y.run = run[b] /\ pc[a] = "answered" /\ pc[b] = "answered"
      /\ x.links = done[a] /\ y.links = done[b] /\ y.created = created[b]
  BY <1>1 DEF OwnerInv, BareInv
<1>3. Keyed(a) /\ Alone(a)
  BY <1>1, <1>2 DEF Keyed, Alone, TypeOK
<1>4. Traced(a) /\ Traced(b) /\ ~created[b]
  BY <1>1, <1>2, <1>3 DEF RetryInv, Repeats
<1>5. run[a] = run[b]
  BY <1>1, <1>2, <1>4 DEF Traced, Resolved, RunKeyOf
<1>6. idx[a] = idx[b]
  BY <1>1, <1>2 DEF BareInv
<1>7. \A j : LinkAt(a, j) = LinkAt(b, j)
  BY <1>1, <1>5 DEF LinkAt, ArtAt
<1>8. done[a] = done[b]
  <2> DEFINE S == 1..(idx[a] - 1)
  <2>1. done[a] = {LinkAt(a, j) : j \in S}
    BY <1>2, <1>4 DEF Traced, Resolved
  <2>2. done[b] = {LinkAt(b, j) : j \in S}
    BY <1>2, <1>4, <1>6 DEF Traced, Resolved
  <2>3. {LinkAt(a, j) : j \in S} = {LinkAt(b, j) : j \in S}
    BY <1>7
  <2> QED BY <2>1, <2>2, <2>3
<1> QED BY <1>2, <1>4, <1>5, <1>8

(* Repeating an advertisement that names its run, after an answer no other      *)
(* request overlapped, attaches to the same Run, reports the same links and    *)
(* says nothing was created, whoever died before it and whoever runs beside it. *)
THEOREM RepeatChangesNothing == Spec => []RetryIdempotent
<1>1. Init => BareInv /\ RetryInv
  BY DEF Init, BareInv, RetryInv, Keyed, Repeats
<1>2. TypeOK /\ TxInv /\ ClaimInv /\ OwnerInv /\ KeyInv /\ BareInv /\ RetryInv /\ [Next]_vars
         => BareInv' /\ RetryInv'
  <2>1. BareInv /\ RetryInv /\ UNCHANGED vars => BareInv' /\ RetryInv'
    <3> SUFFICES ASSUME BareInv, RetryInv, UNCHANGED vars PROVE BareInv' /\ RetryInv'
      OBVIOUS
    <3>1. UNCHANGED <<input, pc, idx, run, art, done, created, runKeys, artifactKeys, before, acked>>
      BY DEF vars, taskVars, sqlVars, histVars
    <3>2. BareInv'
      BY <3>1 DEF BareInv
    <3>3. \A a : Keyed(a)' = Keyed(a) /\ Alone(a)' = Alone(a)
      BY <3>1 DEF Keyed, Alone, Arrived, Overlap
    <3>4. \A a, b : Repeats(b, a)' = Repeats(b, a)
      BY <3>1, <3>3 DEF Repeats
    <3>5. \A a, j : ArtAt(a, j)' = ArtAt(a, j) /\ LinkAt(a, j)' = LinkAt(a, j)
      BY <3>1 DEF ArtAt, LinkAt
    <3>6. \A a : Traced(a) => Traced(a)'
      <4> SUFFICES ASSUME NEW a, Traced(a) PROVE Traced(a)'
        OBVIOUS
      <4>1. pc[a] \in Resolved => done[a] = {LinkAt(a, j)' : j \in 1..(idx[a] - 1)}
        BY <3>5 DEF Traced
      <4>2. RunKeyOf(a)' = RunKeyOf(a) /\ ArtAt(a, idx[a])' = ArtAt(a, idx[a])
        BY <3>1 DEF RunKeyOf, ArtAt
      <4> QED BY <3>1, <3>5, <4>1, <4>2 DEF Traced
    <3> QED BY <3>1, <3>2, <3>3, <3>4, <3>6 DEF RetryInv
  <2>2. ASSUME TypeOK, TxInv, ClaimInv, OwnerInv, KeyInv, BareInv, RetryInv, NEW r \in Request,
               Arrive(r) \/ Refuse(r) \/ Step(r) \/ Abort(r)
        PROVE  BareInv' /\ RetryInv'
    <3>1. \A a \in Request : Keyed(a)' /\ Alone(a)' => Traced(a)'
      BY <2>2, AloneInvStep
    <3>2. \A a, b \in Request : Repeats(b, a)' =>
             Traced(b)' /\ ~created'[b] /\ pc'[b] \notin {"rememberRun", "rememberArtifact"}
      BY <2>2, RepeatInvStep
    <3> QED BY <2>2, <3>1, <3>2, BareInvStep DEF RetryInv
  <2> QED BY <2>1, <2>2 DEF Next
<1> QED BY <1>1, <1>2, RetryHolds, TypeCorrect, ClaimsKept, OwnersKept, KeysKept, PTL DEF Spec
=============================================================================
