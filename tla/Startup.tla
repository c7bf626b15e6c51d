------------------------------ MODULE Startup ------------------------------
(***************************************************************************)
(* The life of a registry between two requests: it stops or crashes, is       *)
(* started again, perhaps as another build or under another base IRI, brings   *)
(* its copy of the bundled reference data up to date, applies its graph         *)
(* migrations, and may be renamed by `tar rebase`.                            *)
(*                                                                         *)
(* The graph store and the operational database survive a crash; each         *)
(* transaction on either is one action, and a crash may come between any two.  *)
(***************************************************************************)
EXTENDS Integers, FiniteSets

CONSTANTS
    Bundle,         \* graphs of reference data
    Build,          \* builds of the program, 1..n in the order of their release
    Content,        \* [Build -> [Bundle -> terms]]
    Base,           \* base IRIs the registry has had, 1..n
    Term,           \* terms the retired vocabulary graph may hold
    Series,         \* version series, which an early build called concepts
    Foreign,        \* terms the cached graphs of peers may class
    Label,
    External,       \* the store may run the clear and the insert of an update apart
    Start,          \* starting points: [local, legacy, boots, moves, ads]
    Nothing

KeyOf(v, n, b) == [terms |-> Content[v][b], base |-> n]

(* No build goes back to what a bundle was before an earlier one changed it.     *)
ASSUME StartupAssumption ==
    /\ External \in BOOLEAN
    /\ Build \subseteq Nat /\ 1 \in Build
    /\ Base \subseteq Nat /\ 1 \in Base
    /\ \A b \in Bundle, u, v, w \in Build :
          u <= v /\ v <= w /\ Content[u][b] = Content[w][b] => Content[v][b] = Content[u][b]
    /\ \A b \in Bundle, v \in Build, n \in Base : KeyOf(v, n, b) # Nothing

(* A version series is a record of its own, not a term.                        *)
ASSUME StartAssumption ==
    /\ Nothing \notin Base
    /\ Series \cap Term = {}
    /\ \A s \in Start : s.local \in [Term -> SUBSET Label] /\ s.legacy \in [Term -> SUBSET Label]

VARIABLES
    mode, arg,      \* what the process is doing, and to which bundle, or from which base
                    \* and with what in memory
    build, base,    \* what is installed and configured
    todo,           \* bundles this start has still to look at
    bundleGraph,    \* [Bundle -> [terms, base] or Nothing]
    recorded,       \* <urn:tar:bundles>: the digest of each, or Nothing
    local,          \* <urn:tar:local>, see Graph
    legacy,         \* <urn:tar:vocab>: [Term -> labels]
    snapshot,       \* the files of the rebases since the local graph was whole: graphs
    token,          \* api_tokens: the base of the token's Instance
    runKeys, idem,  \* run_keys, advertise_idem
    left,           \* bounds: boots, moves, ads
    newest, torn, rolledBack,
    lent,           \* history: the terms this start found classed in a peer's graph
    astray          \* history: terms were written while the graph was lost, or a run
                    \* while the two stores had different bases

bundleVars == <<bundleGraph, recorded, todo>>
graphVars == <<local, legacy, snapshot, newest>>
opsVars == <<token, runKeys, idem>>
histVars == <<torn, rolledBack, lent, astray>>
installed == <<build, base>>
startupVars ==
    <<mode, arg, installed, bundleVars, graphVars, opsVars, left, histVars>>

Digest(b) == KeyOf(build, base, b)
Labelled(f) == {t \in Term : f[t] # {}}
Held == Labelled(local.labels)

(* What the local graph says: the labels of its terms; what carries the class of   *)
(* an artifact type, which series still claim to be concepts, and which terms have  *)
(* the literal the class replaced; the runs, with the advertisement each is of; and  *)
(* the base of the Instance record.                                          *)
Unlabelled == [t \in Term |-> {}]
Graph(labels, instance) ==
    [labels |-> labels, classed |-> {}, concepts |-> {}, marked |-> {}, runs |-> {},
     deployment |-> instance]
Lost == local.deployment = Nothing

StartupInit ==
    \E s \in Start :
        /\ mode = "off" /\ arg = Nothing /\ build = 1 /\ base = 1 /\ todo = {}
        /\ bundleGraph = [b \in Bundle |-> Nothing]
        /\ recorded = [b \in Bundle |-> Nothing]
        /\ local = [Graph(s.local, 1) EXCEPT !.concepts = Series, !.marked = Labelled(s.local)]
        /\ legacy = s.legacy /\ snapshot = {}
        /\ newest = [t \in Term |-> IF s.local[t] # {} THEN s.local[t] ELSE s.legacy[t]]
        /\ token = 1 /\ runKeys = {} /\ idem = {}
        /\ left = [boots |-> s.boots, moves |-> s.moves, ads |-> s.ads]
        /\ torn = {} /\ rolledBack = FALSE /\ lent = {} /\ astray = FALSE

Spend(what) == left[what] > 0 /\ left' = [left EXCEPT ![what] = @ - 1]
Turn(m, a) == mode' = m /\ arg' = a

(***************************************************************************)
(* Stopped: a crash is a stop in the middle of anything.                      *)
(***************************************************************************)
Stop ==
    /\ mode # "off"
    /\ Turn("off", Nothing) /\ todo' = {}
    /\ UNCHANGED <<installed, bundleGraph, recorded, graphVars, opsVars, left, histVars>>

Reconfigure ==
    /\ mode = "off" /\ Spend("moves")
    /\ \E v \in Build, n \in Base :
          /\ build' = v /\ base' = n /\ <<v, n>> # <<build, base>>
          /\ rolledBack' = (rolledBack \/ v < build \/ n < base)
    /\ UNCHANGED <<mode, arg, bundleVars, graphVars, opsVars, torn, lent, astray>>

Boot ==
    /\ mode = "off" /\ Spend("boots")
    /\ Turn("sync", Nothing) /\ todo' = Bundle
    /\ UNCHANGED <<installed, bundleGraph, recorded, graphVars, opsVars, histVars>>

(***************************************************************************)
(* bundles::sync.  A bundle whose recorded digest is this build's is left      *)
(* alone; the graph of any other is dropped, loaded, and its digest recorded.   *)
(***************************************************************************)
(* Fault: the digest is recorded before the load.                            *)
RecordedFirst(step) ==
    CASE step = "drop" -> "record" [] step = "record" -> "load" [] step = "load" -> "sync"
Follows(step) ==
    CASE step = "drop" -> "load" [] step = "load" -> "record" [] step = "record" -> "sync"

WriteStep(step, b) ==
    /\ Turn(Follows(step), IF Follows(step) = "sync" THEN Nothing ELSE b)
    /\ todo' = IF Follows(step) = "sync" THEN todo \ {b} ELSE todo
    /\ UNCHANGED <<installed, graphVars, opsVars, left, rolledBack, lent, astray>>

SkipBundle(b) ==
    /\ mode = "sync" /\ b \in todo /\ recorded[b] = Digest(b)
    /\ todo' = todo \ {b}
    /\ UNCHANGED <<mode, arg, installed, bundleGraph, recorded, graphVars, opsVars,
                   left, histVars>>

DropBundle(b) ==
    /\ mode = "sync" /\ b \in todo /\ recorded[b] # Digest(b)
    /\ bundleGraph' = [bundleGraph EXCEPT ![b] = Nothing]
    /\ torn' = torn \cup {b}
    /\ WriteStep("drop", b)
    /\ UNCHANGED recorded

LoadBundle(b) ==
    /\ mode = "load" /\ b = arg
    /\ bundleGraph' = [bundleGraph EXCEPT ![b] = Digest(b)]
    /\ WriteStep("load", b)
    /\ UNCHANGED <<recorded, torn>>

RecordDigest(b) ==
    /\ mode = "record" /\ b = arg
    /\ recorded' = [recorded EXCEPT ![b] = Digest(b)]
    /\ torn' = torn \ {b}
    /\ WriteStep("record", b)
    /\ UNCHANGED bundleGraph

(***************************************************************************)
(* load_vocab: the migrations, each one transaction but the first, which       *)
(* moves what no bundle has to the local graph and then drops the old graph.    *)
(***************************************************************************)
(* Fault: types are classed before the old graph is emptied.                 *)
ClassedFirst(step) ==
    CASE step = "sync" -> "class" [] step = "class" -> "adopt" [] step = "adopt" -> "drop_legacy"
      [] step = "drop_legacy" -> "markers" [] step = "markers" -> "series"
      [] step = "series" -> "serving"
AfterMigration(step) ==
    CASE step = "sync" -> "adopt" [] step = "adopt" -> "drop_legacy" [] step = "drop_legacy" -> "class"
      [] step = "class" -> "markers" [] step = "markers" -> "series" [] step = "series" -> "serving"

Migrate(step) ==
    /\ mode = step
    /\ Turn(AfterMigration(step), Nothing)
    /\ UNCHANGED <<installed, bundleVars, snapshot, opsVars, left, newest, torn, rolledBack>>

Synced == todo = {} /\ Migrate("sync") /\ UNCHANGED <<local, legacy, lent, astray>>

InBundle(t) == \E b \in Bundle : bundleGraph[b] # Nothing /\ t \in bundleGraph[b].terms
(* Fault: a term that is in the local graph too is moved again.               *)
RescuedAnyway == {t \in Labelled(legacy) : ~InBundle(t)}
Rescued == {t \in Labelled(legacy) : ~InBundle(t) /\ local.labels[t] = {}}
adopt_legacy_vocab_graph ==
    /\ local' = [local EXCEPT !.marked = local.marked \cup Rescued,
          !.labels = [t \in Term |-> IF t \in Rescued THEN local.labels[t] \cup legacy[t]
                                     ELSE local.labels[t]]]
    /\ astray' = (astray \/ (Lost /\ Rescued # {}))
    /\ Migrate("adopt") /\ UNCHANGED <<legacy, lent>>
drop_legacy_graph ==
    /\ legacy' = Unlabelled
    /\ Migrate("drop_legacy") /\ UNCHANGED <<local, lent, astray>>

(* A concept that some graph gives a concept class, a bundle's or a peer's, is       *)
(* left without one in the local graph.                                      *)
is_a_record_that_is_not_a_type(x) == x \in Series
class_existing_types ==
    /\ \E foreign \in SUBSET (Foreign \cap Held) :
          /\ local' = [local EXCEPT !.classed = @ \cup
                {x \in Held \cup local.concepts :
                    ~InBundle(x) /\ x \notin foreign /\ ~is_a_record_that_is_not_a_type(x)}]
          /\ lent' = foreign
    /\ Migrate("class") /\ UNCHANGED <<legacy, astray>>
drop_branch_markers ==
    /\ local' = [local EXCEPT !.marked = {}]
    /\ Migrate("markers") /\ UNCHANGED <<legacy, lent, astray>>
unclaim_series_concepts ==
    /\ local' = [local EXCEPT !.concepts = {}]
    /\ Migrate("series") /\ UNCHANGED <<legacy, lent, astray>>

(***************************************************************************)
(* Serving.  A term is registered by clearing and writing it in the local       *)
(* graph, also one a bundle has.  (One held without the class of a type is       *)
(* refused, adoptable: of Term, one whose class went with a peer's graph.)      *)
(* The Instance of a run is the token's, from the database, or, for an OIDC      *)
(* client, the record's, from the graph; a run is new unless run_keys knows its   *)
(* key for that Instance, and is applied unless advertise_idem does.           *)
(***************************************************************************)
Quiet == UNCHANGED <<mode, arg, installed, bundleVars, legacy, snapshot, torn, rolledBack, lent>>
RegisterTerm(t, label) ==
    /\ mode = "serving" /\ Spend("ads")
    /\ local' = [local EXCEPT !.labels[t] = {label}, !.classed = @ \cup {t}, !.marked = @ \ {t}]
    /\ newest' = [newest EXCEPT ![t] = {label}]
    /\ astray' = (astray \/ Lost)
    /\ Quiet /\ UNCHANGED opsVars

NewRun == [n |-> Cardinality(runKeys) + 1, base |-> base]
RunOf(i) ==
    LET known == {k \in runKeys : k.instance = i}
    IN IF known = {} THEN NewRun ELSE (CHOOSE k \in known : TRUE).run
Advertise(i) ==
    /\ mode = "serving" /\ i # Nothing /\ Spend("ads")
    /\ runKeys' = runKeys \cup {[instance |-> i, run |-> RunOf(i)]}
    /\ idem' = idem \cup {RunOf(i)}
    /\ local' = IF RunOf(i) \in idem THEN local
                ELSE [local EXCEPT !.runs = @ \cup {[run |-> RunOf(i), of |-> left.ads]}]
    /\ Quiet /\ UNCHANGED <<newest, token>>
AdvertiseAsToken == Advertise(token) /\ UNCHANGED astray
AdvertiseAsClient ==
    /\ Advertise(local.deployment)
    /\ astray' = (astray \/ local.deployment # token)

(***************************************************************************)
(* tar rebase, run while the registry is stopped: the local graph first, which  *)
(* is read, kept in a file and replaced by what was read, renamed; then the      *)
(* database, in one transaction.                                             *)
(***************************************************************************)
Renamed(b) == IF b = arg.old THEN base ELSE b
RenamedRun(r) == [r EXCEPT !.base = Renamed(r.base)]
RenamedGraph(g) ==
    [g EXCEPT !.runs = {[run |-> RenamedRun(r.run), of |-> r.of] : r \in g.runs},
              !.deployment = Renamed(g.deployment)]

StartRebase(old) ==
    /\ mode = "off" /\ old # base /\ Spend("boots")
    /\ Turn("snapshot", [old |-> old, quads |-> Nothing])
    /\ UNCHANGED <<installed, bundleVars, graphVars, opsVars, histVars>>

UnderOld == local.deployment = arg.old \/ \E r \in local.runs : r.run.base = arg.old
Rebasing(step, next, quads) ==
    /\ mode = step /\ Turn(next, [old |-> arg.old, quads |-> quads])
    /\ UNCHANGED <<installed, bundleVars, legacy, newest, opsVars, left, histVars>>

(* The file is named for the time it is written.  The files a rebase of a whole    *)
(* graph finds are of no more use; those of one whose graph was lost are.      *)
Kept == (IF Lost THEN snapshot ELSE {}) \cup {local}
(* Fault: the file is written when the graph has been.                        *)
NoFile == snapshot
NothingUnderOld ==
    /\ Rebasing("snapshot", "database", Nothing) /\ ~UnderOld
    /\ UNCHANGED <<local, snapshot>>
Snapshot ==
    /\ \E next \in {"graph"} \cup (IF External THEN {"clear"} ELSE {}) :
          Rebasing("snapshot", next, RenamedGraph(local))
    /\ UnderOld
    /\ snapshot' = Kept /\ UNCHANGED local
RewriteGraph ==
    /\ Rebasing("graph", "database", arg.quads)
    /\ local' = arg.quads /\ UNCHANGED snapshot

(* An endpoint may run the halves of one update apart.                         *)
ClearGraph ==
    /\ Rebasing("clear", "insert", arg.quads)
    /\ local' = Graph(Unlabelled, Nothing) /\ UNCHANGED snapshot
InsertGraph ==
    /\ Rebasing("insert", "database", arg.quads)
    /\ local' = arg.quads /\ UNCHANGED snapshot

(* Fault: the idempotency keys are not among the columns.                     *)
ColumnsButIdem == {"instance_iri", "run_iri"}
OPS_COLUMNS == {"instance_iri", "run_iri", "idem_key"}
RebaseDatabase ==
    /\ mode = "database" /\ Turn("off", Nothing)
    /\ token' = IF "instance_iri" \in OPS_COLUMNS THEN Renamed(token) ELSE token
    /\ runKeys' = {[instance |-> Renamed(k.instance), run |-> RenamedRun(k.run)] : k \in runKeys}
    /\ idem' = IF "idem_key" \in OPS_COLUMNS THEN {RenamedRun(r) : r \in idem} ELSE idem
    /\ UNCHANGED <<installed, bundleVars, graphVars, left, histVars>>

(* tar restore starts like the server and then adds a file to the graph.         *)
Restore ==
    /\ mode = "serving" /\ Lost
    /\ \E f \in snapshot :
          local' = [labels |-> [t \in Term |-> local.labels[t] \cup f.labels[t]],
                    classed |-> local.classed \cup f.classed,
                    concepts |-> local.concepts \cup f.concepts,
                    marked |-> local.marked \cup f.marked,
                    runs |-> local.runs \cup f.runs, deployment |-> f.deployment]
    /\ Turn("off", Nothing)
    /\ UNCHANGED <<installed, bundleVars, legacy, snapshot, newest, opsVars, left, histVars>>

Progress ==
    \/ Reconfigure \/ Boot
    \/ \E b \in Bundle : SkipBundle(b) \/ DropBundle(b) \/ LoadBundle(b) \/ RecordDigest(b)
    \/ Synced \/ adopt_legacy_vocab_graph \/ drop_legacy_graph \/ class_existing_types
    \/ drop_branch_markers \/ unclaim_series_concepts
    \/ \E t \in Term, label \in Label : RegisterTerm(t, label)
    \/ AdvertiseAsToken \/ AdvertiseAsClient
    \/ \E old \in Base : StartRebase(old)
    \/ NothingUnderOld \/ Snapshot \/ RewriteGraph \/ ClearGraph \/ InsertGraph \/ RebaseDatabase
End == Stop \/ Restore

StartupSpec == StartupInit /\ [][Progress \/ End]_startupVars

(***************************************************************************)
(* Properties.                                                             *)
(***************************************************************************)

(* A registry that serves has the bundles of its own build and base in its        *)
(* store, however its starts were interrupted; a return to an earlier build        *)
(* after an interrupted start is not recognised (sync, stored_digests).         *)
BundlesCurrent ==
    mode = "serving" =>
        \A b \in Bundle : bundleGraph[b] = Digest(b) \/ (rolledBack /\ b \in torn)

(* A term the registry minted or adopted is in its graphs, or, while a failed      *)
(* rebase has lost them, in the file it left, and once the registry serves it has the one label it was     *)
(* given last, unless terms were written while the graph was lost                *)
(* (adopt_legacy_vocab_graph, rebase::run, snapshot).                          *)
TermsSurvive ==
    \A t \in Labelled(newest) :
        (\A v \in Build, b \in Bundle : t \notin Content[v][b]) =>
          /\ \/ newest[t] \subseteq local.labels[t] \cup legacy[t]
             \/ Lost /\ \E f \in snapshot : newest[t] \subseteq f.labels[t]
             \/ astray
          /\ mode = "serving" /\ ~Lost => local.labels[t] = newest[t] \/ astray

(* No term of a registry that serves is without a concept class: each has one in     *)
(* the local graph, in a bundle's, or in that of a peer where this start found it,   *)
(* also when it was left to a bundle that a later start has no more; and no version  *)
(* series has one in the local graph (class_existing_types, load_vocab).         *)
TermsClassed ==
    mode = "serving" =>
        /\ local.classed \subseteq Held
        /\ \A t \in Held : t \in local.classed \cup lent \/ InBundle(t)

(* An advertisement that was acknowledged is not applied a second time when it is    *)
(* retried after a move, unless an OIDC client was served between the two halves     *)
(* of an interrupted rebase (rebase::run, OPS_COLUMNS).                          *)
AppliedOnce == astray \/ Cardinality({r.of : r \in local.runs}) <= 1
=============================================================================
