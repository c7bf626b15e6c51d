------------------------------ MODULE Advertise ------------------------------
(***************************************************************************)
(* The advertisement path: POST /advertise/produced, /advertise/consumed   *)
(* and the OpenLineage adapter, which shares the run and artifact keys, the *)
(* claim table and the graph transaction.                                  *)
(*                                                                         *)
(* A request is a task that awaits once per SQLite statement and once for   *)
(* the graph transaction; other requests run between any two awaits, so     *)
(* every action below is one such await (with the synchronous code around   *)
(* it).  SQLite and the graph store commit separately: rows are written     *)
(* while the request builds its transaction, the transaction lands last,    *)
(* and a request may die anywhere in between (an error answer, a dropped    *)
(* connection that cancels the handler, a crash of the process).            *)
(***************************************************************************)
EXTENDS Naturals, Sequences, FiniteSets

CONSTANTS
    Request,      \* request identities; each is used for one HTTP call
    Instance,     \* the Instances credentials name
    RunKey,       \* non-empty values of RunIn.external_key
    EmptyKey,     \* external_key = "" : present, but filtered out for the run
    ItemKey,      \* explicit artifact keys (external_key, or namespace#name)
    Desc,         \* what a producer says of an artifact (title, type, urls)
    LocalIri,     \* explicit artifact references under this registry's base
    ForeignIri,   \* explicit artifact references under another base
    PeerKnown,    \* foreign IRIs some cached peer graph already describes
    Status,       \* run statuses
    DefaultStatus,\* what run_quads writes when the caller gives none
    None,         \* an absent optional value
    Payload,      \* the request bodies that may arrive
    MaxInFlight,  \* bound: requests in progress at once
    MaxAborts     \* bound: requests that die before they answer

Role == {"produced", "consumed"}
Via == {"advertise", "openlineage"}

(* An IRI minted here is a fresh UUID; it is named after the request, and   *)
(* for an artifact the position in its list, that minted it.                *)
RunIri == {"run"} \X Request
MintedArt == {"art"} \X Request \X Nat
ArtIri == MintedArt \cup LocalIri \cup ForeignIri
Key == ItemKey \cup ((RunKey \cup {EmptyKey}) \X Desc)
Link == RunIri \X ArtIri \X Role

Item == [role : Role, iri : LocalIri \cup ForeignIri \cup {None},
         key : ItemKey \cup {None}, desc : Desc,
         parents : SUBSET (LocalIri \cup ForeignIri)]

ASSUME PayloadAssumption ==
    /\ Payload \subseteq [via : Via, instance : Instance,
                          key : RunKey \cup {EmptyKey, None},
                          status : Status \cup {None}, items : Seq(Item)]
    /\ DefaultStatus \in Status
    /\ None \notin Status
    /\ None \notin RunIri
    /\ None \notin ArtIri
    /\ None \notin Payload
    /\ None \notin Key
    /\ PeerKnown \subseteq ForeignIri
(* The adapter keys every dataset by namespace#name, gives every event a      *)
(* status, and has no derivations to record.                                 *)
ASSUME AdapterAssumption ==
    \A p \in Payload : p.via = "openlineage" =>
        /\ p.status # None
        /\ \A i \in DOMAIN p.items : p.items[i].key # None /\ p.items[i].parents = {}
(* ids::mint stays under this registry's base and never repeats.             *)
ASSUME IriAssumption ==
    /\ \A i \in LocalIri \cup ForeignIri : i \notin MintedArt
    /\ LocalIri \cap ForeignIri = {}
ASSUME BoundAssumption == MaxInFlight \in Nat /\ MaxAborts \in Nat

VARIABLES
    (* one request task *)
    input,         \* the body it carries
    pc,            \* the await it has reached
    idx,           \* position in the artifact list
    run, art,      \* the Run, and the artifact at idx, once resolved
    done,          \* links claimed or found claimed so far
    created,       \* created_any
    tx,            \* the graph transaction being built
    (* SQLite *)
    runKeys, artifactKeys, claims, resolveQueue,
    (* the graph store *)
    graph,
    (* history: who had ended when a request arrived, answers given, artifacts *)
    (* subscribers were told of, deaths                                        *)
    before, acked, notified, aborts

taskVars == <<input, pc, idx, run, art, done, created, tx>>
sqlVars == <<runKeys, artifactKeys, claims, resolveQueue>>
histVars == <<before, acked, notified, aborts>>
vars == <<taskVars, sqlVars, graph, histVars>>

EmptyTx == [runs |-> {}, arts |-> {}, links |-> {}, status |-> {}, replace |-> {}]

(* Requests between arrival and answer.                                     *)
Ended == {"idle", "answered", "refused", "aborted"}
InFlight == {r \in Request : pc[r] \notin Ended}

HasRunKey(p) == p.key \notin {EmptyKey, None}

(* derived_key, or the producer's own key.  The run key enters unfiltered,  *)
(* and without the Instance.                                                *)
ArtifactKey(p, it) ==
    IF it.key # None THEN it.key
    ELSE IF p.key # None THEN <<p.key, it.desc>>
    ELSE None

(* ASK { GRAPH ?g { iri ?p ?o } }: an artifact record, or the               *)
(* prov:wasGeneratedBy a produce advertisement hangs on a bare reference.    *)
Exists(iri) ==
    \/ iri \in graph.arts \cup PeerKnown
    \/ \E l \in graph.links : l[2] = iri /\ l[3] = "produced"

(* Fault: the test is the wrong way round.                                   *)
UnknownInverted(iris) == {i \in iris \cap ForeignIri : Exists(i)}

Unknown(iris) == {i \in iris \cap ForeignIri : ~Exists(i)}

(* Fault: the properties of the Run are not deleted first.                   *)
ApplyTxAppend(g, t) ==
    [runs |-> g.runs \cup t.runs, arts |-> g.arts \cup t.arts,
     links |-> g.links \cup t.links, status |-> g.status \cup t.status]

(* Fault: the whole Run is deleted with its status.                          *)
ApplyTxWhole(g, t) ==
    [runs |-> (g.runs \ t.replace) \cup t.runs, arts |-> g.arts \cup t.arts,
     links |-> g.links \cup t.links,
     status |-> {s \in g.status : s[1] \notin t.replace} \cup t.status]

(* Deleted properties first, then the inserts, in one store transaction.     *)
ApplyTx(g, t) ==
    [runs |-> g.runs \cup t.runs,
     arts |-> g.arts \cup t.arts,
     links |-> g.links \cup t.links,
     status |-> {s \in g.status : s[1] \notin t.replace} \cup t.status]

Init ==
    /\ input = [r \in Request |-> None]
    /\ pc = [r \in Request |-> "idle"]
    /\ idx = [r \in Request |-> 1]
    /\ run = [r \in Request |-> None]
    /\ art = [r \in Request |-> None]
    /\ done = [r \in Request |-> {}]
    /\ created = [r \in Request |-> FALSE]
    /\ tx = [r \in Request |-> EmptyTx]
    /\ runKeys = [k \in RunKey \X Instance |-> None]
    /\ artifactKeys = [k \in Key |-> None]
    /\ claims = {}
    /\ resolveQueue = {}
    /\ graph = [runs |-> {}, arts |-> {}, links |-> {}, status |-> {}]
    /\ before = [r \in Request |-> {}]
    /\ acked = {}
    /\ notified = {}
    /\ aborts = 0

At(r, here) == pc[r] = here
Goto(r, there) == pc' = [pc EXCEPT ![r] = there]

(***************************************************************************)
(* Arrival and validation.                                                 *)
(***************************************************************************)

Arrive(r) ==
    /\ At(r, "idle")
    /\ Cardinality(InFlight) < MaxInFlight
    /\ \E p \in Payload : input' = [input EXCEPT ![r] = p]
    /\ before' = [before EXCEPT ![r] = {s \in Request : pc[s] \in Ended \ {"idle"}}]
    /\ Goto(r, "check")
    /\ UNCHANGED <<idx, run, art, done, created, tx, sqlVars, graph, acked, notified, aborts>>

(* Missing scope, a credential that names no known Instance, or (advertise) *)
(* candidate quads the shapes refuse: answered before any row is written.   *)
Refuse(r) ==
    /\ At(r, "check")
    /\ Goto(r, "refused")
    /\ UNCHANGED <<input, idx, run, art, done, created, tx, sqlVars, graph, histVars>>

Accept(r) ==
    /\ At(r, "check")
    /\ Goto(r, "lookup")
    /\ UNCHANGED <<input, idx, run, art, done, created, tx, sqlVars, graph, histVars>>

(***************************************************************************)
(* The Run: SELECT by (external_key, instance), then attach or mint.       *)
(***************************************************************************)

(* Fault: only a body with an outcome attaches.                              *)
RunForKeyOutcome(p) ==
    IF HasRunKey(p) /\ p.status # None THEN runKeys[<<p.key, p.instance>>] ELSE None

(* Fault: the lookup forgets the Instance.                                   *)
RunForKeyAnyInstance(p) ==
    IF HasRunKey(p) /\ \E i \in Instance : runKeys[<<p.key, i>>] # None
    THEN runKeys[<<p.key, CHOOSE i \in Instance : runKeys[<<p.key, i>>] # None>>]
    ELSE None

RunForKey(p) == IF HasRunKey(p) THEN runKeys[<<p.key, p.instance>>] ELSE None

(* update_run_outcome: the status is replaced, and only if the body has one. *)
UpdateRunOutcome(t, iri, p) ==
    IF p.status = None THEN t
    ELSE [t EXCEPT !.replace = @ \cup {iri}, !.status = @ \cup {<<iri, p.status>>}]

(* Fault: no default status.                                                 *)
RunQuadsBare(t, iri, p) ==
    [t EXCEPT !.runs = @ \cup {iri}, !.status = @ \cup {<<iri, p.status>>}]

(* run_quads: a record with its status, nothing deleted.                     *)
RunQuads(t, iri, p) ==
    [t EXCEPT !.runs = @ \cup {iri},
              !.status = @ \cup {<<iri, IF p.status = None THEN DefaultStatus ELSE p.status>>}]

AttachRun(r) ==
    LET known == RunForKey(input[r]) IN
    /\ At(r, "lookup")
    /\ known # None
    /\ run' = [run EXCEPT ![r] = known]
    /\ tx' = [tx EXCEPT ![r] = UpdateRunOutcome(@, known, input[r])]
    /\ Goto(r, "items")
    /\ UNCHANGED <<input, idx, art, done, created, sqlVars, graph, histVars>>

MintRun(r) ==
    LET iri == <<"run", r>> IN
    /\ At(r, "lookup")
    /\ RunForKey(input[r]) = None
    /\ run' = [run EXCEPT ![r] = iri]
    /\ tx' = [tx EXCEPT ![r] = RunQuads(@, iri, input[r])]
    /\ created' = [created EXCEPT ![r] = TRUE]
    /\ Goto(r, IF HasRunKey(input[r]) THEN "rememberRun" ELSE "items")
    /\ UNCHANGED <<input, idx, art, done, sqlVars, graph, histVars>>

(* INSERT OR IGNORE: the first writer's row stays, and the caller goes on     *)
(* with the IRI it minted either way.                                        *)
RememberRun(r) ==
    LET k == <<input[r].key, input[r].instance>> IN
    /\ At(r, "rememberRun")
    /\ runKeys' = [runKeys EXCEPT ![k] = IF @ = None THEN run[r] ELSE @]
    /\ Goto(r, "items")
    /\ UNCHANGED <<input, idx, run, art, done, created, tx, artifactKeys, claims,
                   resolveQueue, graph, histVars>>

(***************************************************************************)
(* The artifacts, in the order of the body.                                *)
(***************************************************************************)

Pending(r) == At(r, "items") /\ idx[r] <= Len(input[r].items)
ItemOf(r) == input[r].items[idx[r]]

(* A bare reference.  The adapter takes a symlink only if it is local or     *)
(* known; an advertisement takes any, and queues a foreign one not known.     *)
IsReference(r) ==
    /\ ItemOf(r).iri # None
    /\ \/ input[r].via = "advertise"
       \/ ItemOf(r).iri \in LocalIri
       \/ Exists(ItemOf(r).iri)

ArtifactForKey(r) ==
    LET k == ArtifactKey(input[r], ItemOf(r)) IN
    IF k = None THEN None ELSE artifactKeys[k]

UseReference(r) ==
    /\ Pending(r)
    /\ IsReference(r)
    /\ art' = [art EXCEPT ![r] = ItemOf(r).iri]
    /\ resolveQueue' = resolveQueue \cup Unknown({ItemOf(r).iri})
    /\ Goto(r, "claim")
    /\ UNCHANGED <<input, idx, run, done, created, tx, runKeys, artifactKeys, claims,
                   graph, histVars>>

ReuseArtifact(r) ==
    LET known == ArtifactForKey(r) IN
    /\ Pending(r)
    /\ ~IsReference(r)
    /\ known # None
    /\ art' = [art EXCEPT ![r] = known]
    /\ Goto(r, "claim")
    /\ UNCHANGED <<input, idx, run, done, created, tx, sqlVars, graph, histVars>>

(* artifact_quads name the generating Run themselves on a produce            *)
(* advertisement; the adapter leaves that to the claim.                      *)
MintArtifact(r) ==
    LET it == ItemOf(r)
        iri == <<"art", r, idx[r]>>
        generated == IF input[r].via = "advertise" /\ it.role = "produced"
                     THEN {<<run[r], iri, it.role>>} ELSE {}
    IN
    /\ Pending(r)
    /\ ~IsReference(r)
    /\ ArtifactForKey(r) = None
    /\ art' = [art EXCEPT ![r] = iri]
    /\ tx' = [tx EXCEPT ![r].arts = @ \cup {iri}, ![r].links = @ \cup generated]
    /\ resolveQueue' = resolveQueue \cup Unknown(it.parents)
    /\ created' = [created EXCEPT ![r] = TRUE]
    /\ Goto(r, IF ArtifactKey(input[r], it) = None THEN "claim" ELSE "rememberArtifact")
    /\ UNCHANGED <<input, idx, run, done, runKeys, artifactKeys, claims, graph, histVars>>

(* INSERT OR IGNORE, as for the run.                                         *)
RememberArtifact(r) ==
    LET k == ArtifactKey(input[r], ItemOf(r)) IN
    /\ At(r, "rememberArtifact")
    /\ artifactKeys' = [artifactKeys EXCEPT ![k] = IF @ = None THEN art[r] ELSE @]
    /\ Goto(r, "claim")
    /\ UNCHANGED <<input, idx, run, art, done, created, tx, runKeys, claims,
                   resolveQueue, graph, histVars>>

(* Fault: every claim counts as new.                                         *)
FreshAlways(l) == TRUE

(* Fault: a claim is not told apart by its Run and role.                     *)
FreshPerArtifact(l) == \A c \in claims : c[2] # l[2]

(* Whether this request is the one that writes the link: the row is new.     *)
Fresh(l) == l \notin claims

ClaimAdvertisement(r) ==
    LET l == <<run[r], art[r], ItemOf(r).role>> IN
    /\ At(r, "claim")
    /\ claims' = claims \cup {l}
    /\ tx' = [tx EXCEPT ![r].links = IF Fresh(l) THEN @ \cup {l} ELSE @]
    /\ created' = [created EXCEPT ![r] = @ \/ Fresh(l)]
    /\ done' = [done EXCEPT ![r] = @ \cup {l}]
    /\ idx' = [idx EXCEPT ![r] = @ + 1]
    /\ Goto(r, "items")
    /\ UNCHANGED <<input, run, art, runKeys, artifactKeys, resolveQueue, graph, histVars>>

(***************************************************************************)
(* Commit, notify, answer.                                                 *)
(***************************************************************************)

Commit(r) ==
    /\ At(r, "items")
    /\ idx[r] > Len(input[r].items)
    /\ graph' = ApplyTx(graph, tx[r])
    /\ Goto(r, IF input[r].via = "advertise" THEN "notify" ELSE "answer")
    /\ UNCHANGED <<input, idx, run, art, done, created, tx, sqlVars, histVars>>

(* notify_advertised: one candidate per artifact of the body.                *)
Notify(r) ==
    /\ At(r, "notify")
    /\ notified' = notified \cup {l[2] : l \in done[r]}
    /\ Goto(r, "answer")
    /\ UNCHANGED <<input, idx, run, art, done, created, tx, sqlVars, graph, before, acked, aborts>>

Answer(r) ==
    /\ At(r, "answer")
    /\ acked' = acked \cup {[by |-> r, run |-> run[r], links |-> done[r], created |-> created[r]]}
    /\ Goto(r, "answered")
    /\ UNCHANGED <<input, idx, run, art, done, created, tx, sqlVars, graph, before, notified, aborts>>

(* Any `?` on a SQLite or store error, the adapter's vocabulary check, a     *)
(* cancelled handler, a crash: the task ends, its rows stay.  The task's own *)
(* transaction is kept in `tx` only so that properties can name what was lost.*)
Abort(r) ==
    /\ r \in InFlight
    /\ aborts < MaxAborts
    /\ aborts' = aborts + 1
    /\ Goto(r, "aborted")
    /\ UNCHANGED <<input, idx, run, art, done, created, tx, sqlVars, graph, before, acked, notified>>

Step(r) ==
    \/ Accept(r) \/ AttachRun(r) \/ MintRun(r) \/ RememberRun(r)
    \/ UseReference(r) \/ ReuseArtifact(r) \/ MintArtifact(r) \/ RememberArtifact(r)
    \/ ClaimAdvertisement(r) \/ Commit(r) \/ Notify(r) \/ Answer(r)

Next == \E r \in Request : Arrive(r) \/ Refuse(r) \/ Step(r) \/ Abort(r)

Spec == Init /\ [][Next]_vars

(* The runtime polls every task that can make progress.                      *)
FairSpec == Spec /\ \A r \in Request : WF_vars(Step(r))

-----------------------------------------------------------------------------
(***************************************************************************)
(* Properties.                                                             *)
(***************************************************************************)

TxType == [runs : SUBSET RunIri, arts : SUBSET ArtIri, links : SUBSET Link,
           status : SUBSET (RunIri \X Status), replace : SUBSET RunIri]
PcType == Ended \cup {"check", "lookup", "rememberRun", "items", "rememberArtifact",
                      "claim", "notify", "answer"}

(* Every variable holds values of its type; a task past the run lookup has a *)
(* body and a Run, and one at the claim has an artifact and an item to claim. *)
TypeOK ==
    /\ input \in [Request -> Payload \cup {None}]
    /\ pc \in [Request -> PcType]
    /\ idx \in [Request -> Nat \ {0}]
    /\ run \in [Request -> RunIri \cup {None}]
    /\ art \in [Request -> ArtIri \cup {None}]
    /\ done \in [Request -> SUBSET Link]
    /\ created \in [Request -> BOOLEAN]
    /\ tx \in [Request -> TxType]
    /\ runKeys \in [RunKey \X Instance -> RunIri \cup {None}]
    /\ artifactKeys \in [Key -> ArtIri \cup {None}]
    /\ claims \in SUBSET Link
    /\ resolveQueue \in SUBSET ForeignIri
    /\ graph \in [runs : SUBSET RunIri, arts : SUBSET ArtIri, links : SUBSET Link,
                  status : SUBSET (RunIri \X Status)]
    /\ acked \in SUBSET [by : Request, run : RunIri, links : SUBSET Link, created : BOOLEAN]
    /\ before \in [Request -> SUBSET Request]
    /\ notified \in SUBSET ArtIri
    /\ aborts \in 0..MaxAborts
    /\ \A r \in Request :
        /\ pc[r] # "idle" => input[r] # None
        /\ pc[r] \in {"rememberRun", "items", "rememberArtifact", "claim", "notify", "answer"}
              => run[r] # None
        /\ pc[r] = "rememberRun" => HasRunKey(input[r])
        /\ pc[r] \in {"rememberArtifact", "claim"}
              => art[r] # None /\ idx[r] \in 1..Len(input[r].items)
        /\ pc[r] = "rememberArtifact" => ArtifactKey(input[r], ItemOf(r)) # None

(* Requests in progress or dead, whose transaction may not be in the graph;   *)
(* and what is in the graph or in one of those transactions.                  *)
Carriers == {r \in Request : pc[r] \notin {"idle", "refused", "answered"}}
HeldLinks == graph.links \cup UNION {tx[r].links : r \in Carriers}
HeldRuns == graph.runs \cup UNION {tx[r].runs : r \in Carriers}
HeldArts == graph.arts \cup LocalIri \cup ForeignIri \cup UNION {tx[r].arts : r \in Carriers}

(* The claim row is committed before the link it stands for, and a later      *)
(* request that finds the row writes nothing (advertise.rs claim_advertisement *)
(* and `if fresh`).  So a link that any request was told is recorded is in the *)
(* graph, or still carried by the transaction of the one request that won the *)
(* claim; the only way to lose it is for that request to die.                 *)
AckedLinksAccounted == \A a \in acked : a.links \subseteq HeldLinks

(* Both endpoints of a committed link have a record, and so has every artifact *)
(* subscribers were told of, unless the request that minted the record has not *)
(* committed yet or died (advertise.rs: keys are remembered, and so reusable   *)
(* by others, before the record lands).                                       *)
RecordsAccounted ==
    /\ \A l \in graph.links : l[1] \in HeldRuns /\ l[2] \in HeldArts
    /\ notified \subseteq HeldArts

(* Two Instances never share a Run, whatever keys they use: run_keys is keyed *)
(* by (external_key, instance_iri) and a lookup gives both.                   *)
RunPerInstance ==
    \A a, b \in acked : a.run = b.run => input[a.by].instance = input[b.by].instance

(* "an unknown foreign IRI is stored verbatim and queued for background       *)
(* resolution": a foreign artifact in a committed link is queued unless a     *)
(* peer graph already described it -- also when the request that linked it    *)
(* found it "known" only because of an earlier link.                          *)
ForeignReferencesQueued ==
    \A l \in graph.links : l[2] \in ForeignIri => l[2] \in resolveQueue \cup PeerKnown

Arrived == {r \in Request : input[r] # None}
Overlap(r, s) == r # s /\ r \notin before[s] /\ s \notin before[r]
RunKeyOf(r) == <<input[r].key, input[r].instance>>

(* "a run advertised first as running and then as success must end up with    *)
(* one of each", however many outcomes of one Run are committed at once: only  *)
(* one that overlapped the request that minted the Run can add a second        *)
(* status, by landing before the record it updates.                           *)
SingleStatus ==
    \A s, t \in graph.status :
        s[1] = t[1] /\ s[2] # t[2] =>
            \E r, q \in Arrived : s[1] = <<"run", r>> /\ run[q] = s[1] /\ Overlap(r, q)

(* "A second advertisement for the same CI attempt attaches to the same Run   *)
(* rather than inventing a new one": a request never mints a Run for a key     *)
(* whose Run was committed by one that had ended when it arrived, answered or  *)
(* dead; only overlapping requests can bring two.                             *)
OneRunPerKey ==
    \A r, s \in Arrived :
        /\ HasRunKey(input[r]) /\ HasRunKey(input[s]) /\ RunKeyOf(r) = RunKeyOf(s)
        /\ <<"run", r>> \in graph.runs /\ <<"run", s>> \in graph.runs
        => r = s \/ Overlap(r, s)

(* A body that names its run is idempotent: repeating it after an answer that  *)
(* no other request overlapped attaches to the same Run, records the same      *)
(* links and does not say `created` again, whoever died before it and whoever  *)
(* runs beside the repeat.                                                    *)
RetryIdempotent ==
    \A a, b \in acked :
        /\ a.by \in before[b.by]
        /\ input[a.by] = input[b.by]
        /\ HasRunKey(input[a.by]) /\ input[a.by].via = "advertise"
        /\ \A r \in Arrived : ~Overlap(a.by, r)
        => b.run = a.run /\ b.links = a.links /\ ~b.created

(* "a retried CI step does not duplicate lineage" -- nor lose it: a link a    *)
(* request was answered for is in the graph, or a live request will write it. *)
AckedLinksNotLost ==
    \A a \in acked : \A l \in a.links :
        l \in graph.links \/ \E r \in InFlight : l \in tx[r].links

(* Every link a request was answered for reaches the graph, whichever request  *)
(* won its claim, unless the winner dies.                                     *)
AckedLinksLand ==
    \A r \in Request : pc[r] = "answered" ~>
        \A l \in done[r] :
            l \in graph.links \/ \E d \in Request : pc[d] = "aborted" /\ l \in tx[d].links
=============================================================================
