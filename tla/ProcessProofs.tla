---------------------------- MODULE ProcessProofs ----------------------------
(***************************************************************************)
(* Theorems about Startup and Process, for any number of builds, bases and     *)
(* bundles, and any sequence of stops, upgrades, moves and requests.          *)
(***************************************************************************)
EXTENDS Process, FiniteSetTheorems, TLAPS

-----------------------------------------------------------------------------
(* The bundles.                                                              *)

Booting == {"sync", "load", "record", "adopt", "drop_legacy", "class", "markers", "series", "serving"}

BundlesTyped ==
    /\ build \in Build /\ base \in Base
    /\ todo \subseteq Bundle /\ torn \subseteq Bundle
    /\ DOMAIN bundleGraph = Bundle /\ DOMAIN recorded = Bundle

(* A bundle nobody is in the middle of has the digest of what is in its graph. *)
DigestsTrue == \A b \in Bundle \ torn : recorded[b] = bundleGraph[b]

(* Without a step back, a recorded digest is of a build and base the registry   *)
(* has had, and one that a start did not replace to the end was replaced for     *)
(* another that came after it.                                              *)
OfThePast(b) ==
    \E v \in Build, n \in Base :
        /\ v <= build /\ n <= base
        /\ recorded[b] = KeyOf(v, n, b)
        /\ b \in torn => \E u \in Build, m \in Base :
              /\ v <= u /\ u <= build /\ n <= m /\ m <= base
              /\ KeyOf(u, m, b) # recorded[b]
DigestsPast == ~rolledBack => \A b \in Bundle : recorded[b] = Nothing \/ OfThePast(b)

Current(b) == bundleGraph[b] = Digest(b) \/ (rolledBack /\ b \in torn)

(* What a start has done so far.                                             *)
StartProgress ==
    /\ mode \in {"load", "record"} => arg \in todo \cap torn
    /\ mode = "record" => bundleGraph[arg] = Digest(arg)
    /\ mode \in Booting \ {"sync", "load", "record"} => todo = {}
    /\ mode \in Booting => \A b \in Bundle \ todo : Current(b)

BundlesInv == BundlesTyped /\ DigestsTrue /\ DigestsPast /\ StartProgress

(* The digest of a bundle that an earlier start left half written is recognised *)
(* as stale.                                                                *)
LEMMA TornIsStale ==
    ASSUME BundlesTyped, DigestsPast, ~rolledBack, NEW b \in torn
    PROVE  recorded[b] # Digest(b)
<1> SUFFICES ASSUME recorded[b] = Digest(b) PROVE FALSE
  OBVIOUS
<1>1. b \in Bundle /\ build \in Build /\ base \in Base
  BY DEF BundlesTyped
<1>2. OfThePast(b)
  BY <1>1, StartupAssumption DEF DigestsPast, Digest
<1>3. PICK v \in Build, n \in Base :
        /\ v <= build /\ n <= base
        /\ recorded[b] = KeyOf(v, n, b)
        /\ \E u \in Build, m \in Base :
              /\ v <= u /\ u <= build /\ n <= m /\ m <= base
              /\ KeyOf(u, m, b) # recorded[b]
  BY <1>2 DEF OfThePast
<1>4. PICK u \in Build, m \in Base :
        /\ v <= u /\ u <= build /\ n <= m /\ m <= base
        /\ KeyOf(u, m, b) # recorded[b]
  BY <1>3
<1>5. n = base /\ Content[v][b] = Content[build][b]
  BY <1>3 DEF Digest, KeyOf
<1>6. m = n
  BY <1>1, <1>4, <1>5, StartupAssumption
<1>7. Content[u][b] = Content[v][b]
  BY <1>1, <1>4, <1>5, StartupAssumption
<1> QED BY <1>3, <1>4, <1>6, <1>7 DEF KeyOf

LEMMA BundlesInit == StartupInit => BundlesInv
<1> SUFFICES ASSUME StartupInit PROVE BundlesInv
  OBVIOUS
<1> QED BY StartupAssumption DEF StartupInit, BundlesInv, BundlesTyped, DigestsTrue,
           DigestsPast, StartProgress, Booting

(* A step that leaves the bundles and the installation alone and goes from a     *)
(* stage of a start to a later one, to no start, or stays, disturbs nothing.   *)
LEMMA BundlesUntouched ==
    ASSUME BundlesInv, UNCHANGED <<installed, bundleVars, torn, rolledBack>>,
           \/ UNCHANGED <<mode, arg>>
           \/ mode' \notin Booting
           \/ mode \in Booting /\ todo = {} /\ mode' \in Booting \ {"load", "record"}
    PROVE  BundlesInv'
<1> USE DEF installed, bundleVars
<1>1. BundlesTyped' /\ DigestsTrue'
  BY DEF BundlesInv, BundlesTyped, DigestsTrue
<1>2. DigestsPast'
  BY DEF BundlesInv, DigestsPast, OfThePast
<1>3. StartProgress'
  BY DEF BundlesInv, StartProgress, Current, Digest, Booting
<1> QED BY <1>1, <1>2, <1>3 DEF BundlesInv

LEMMA ReconfigureKeeps == BundlesInv /\ Reconfigure => BundlesInv'
<1> SUFFICES ASSUME BundlesInv, Reconfigure PROVE BundlesInv'
  OBVIOUS
<1> USE DEF Reconfigure, bundleVars
<1>1. BundlesTyped' /\ DigestsTrue'
  BY DEF BundlesInv, BundlesTyped, DigestsTrue
<1>2. DigestsPast'
  <2> SUFFICES ASSUME ~rolledBack', NEW b \in Bundle, recorded[b] # Nothing PROVE OfThePast(b)'
    BY DEF DigestsPast
  <2>0. ~rolledBack /\ ~(build' < build) /\ ~(base' < base)
    OBVIOUS
  <2>1. OfThePast(b)
    BY <2>0 DEF BundlesInv, DigestsPast
  <2>2. /\ build \in Build /\ base \in Base /\ build' \in Build /\ base' \in Base
        /\ build <= build' /\ base <= base'
    <3>1. build \in Build /\ base \in Base /\ build' \in Build /\ base' \in Base
      BY DEF BundlesInv, BundlesTyped
    <3> QED BY <2>0, <3>1, StartupAssumption
  <2>3. PICK v \in Build, n \in Base :
          /\ v <= build /\ n <= base
          /\ recorded[b] = KeyOf(v, n, b)
          /\ b \in torn => \E u \in Build, m \in Base :
                /\ v <= u /\ u <= build /\ n <= m /\ m <= base
                /\ KeyOf(u, m, b) # recorded[b]
    BY <2>1 DEF OfThePast
  <2>4. v <= build' /\ n <= base'
    BY <2>2, <2>3, StartupAssumption
  <2>5. ASSUME b \in torn
        PROVE  \E u \in Build, m \in Base :
                  /\ v <= u /\ u <= build' /\ n <= m /\ m <= base'
                  /\ KeyOf(u, m, b) # recorded[b]
    <3>1. PICK u \in Build, m \in Base :
            /\ v <= u /\ u <= build /\ n <= m /\ m <= base
            /\ KeyOf(u, m, b) # recorded[b]
      BY <2>3, <2>5
    <3>2. u <= build' /\ m <= base'
      BY <2>2, <3>1, StartupAssumption
    <3> QED BY <3>1, <3>2
  <2> QED BY <2>3, <2>4, <2>5 DEF OfThePast
<1>3. StartProgress'
  BY DEF StartProgress, Booting
<1> QED BY <1>1, <1>2, <1>3 DEF BundlesInv

LEMMA SkipKeeps == ASSUME NEW b \in Bundle, BundlesInv, SkipBundle(b) PROVE BundlesInv'
<1> USE DEF SkipBundle, installed, histVars
<1>1. BundlesTyped' /\ DigestsTrue'
  BY DEF BundlesInv, BundlesTyped, DigestsTrue
<1>2. DigestsPast'
  BY DEF BundlesInv, DigestsPast, OfThePast
<1>3. Current(b)
  BY TornIsStale DEF BundlesInv, DigestsTrue, Current
<1>4. StartProgress'
  BY <1>3 DEF BundlesInv, StartProgress, Current, Digest, Booting
<1> QED BY <1>1, <1>2, <1>4 DEF BundlesInv

LEMMA DropKeeps == ASSUME NEW b \in Bundle, BundlesInv, DropBundle(b) PROVE BundlesInv'
<1>1. /\ mode = "sync" /\ b \in todo /\ recorded[b] # Digest(b)
      /\ bundleGraph' = [bundleGraph EXCEPT ![b] = Nothing]
      /\ torn' = torn \cup {b}
      /\ mode' = "load" /\ arg' = b /\ todo' = todo
      /\ build' = build /\ base' = base /\ recorded' = recorded /\ rolledBack' = rolledBack
  BY DEF DropBundle, WriteStep, Follows, Turn, installed
<1>2. BundlesTyped' /\ DigestsTrue'
  BY <1>1 DEF BundlesInv, BundlesTyped, DigestsTrue
<1>3. DigestsPast'
  <2> SUFFICES ASSUME ~rolledBack, NEW c \in Bundle, recorded[c] # Nothing PROVE OfThePast(c)'
    BY <1>1 DEF DigestsPast
  <2>1. OfThePast(c)
    BY DEF BundlesInv, DigestsPast
  <2>2. CASE c # b
    BY <1>1, <2>1, <2>2 DEF OfThePast
  <2>3. CASE c = b
    <3>1. PICK v \in Build, n \in Base : v <= build /\ n <= base /\ recorded[c] = KeyOf(v, n, c)
      BY <2>1 DEF OfThePast
    <3>2. /\ build \in Build /\ base \in Base /\ build <= build /\ base <= base
          /\ KeyOf(build, base, c) # recorded[c]
      BY <1>1, <2>3, StartupAssumption DEF BundlesInv, BundlesTyped, Digest
    <3> QED BY <1>1, <3>1, <3>2 DEF OfThePast
  <2> QED BY <2>2, <2>3
<1>4. StartProgress'
  BY <1>1 DEF BundlesInv, BundlesTyped, StartProgress, Current, Digest, Booting
<1> QED BY <1>2, <1>3, <1>4 DEF BundlesInv

LEMMA LoadKeeps == ASSUME NEW b \in Bundle, BundlesInv, LoadBundle(b) PROVE BundlesInv'
<1>1. /\ mode = "load" /\ b = arg
      /\ bundleGraph' = [bundleGraph EXCEPT ![b] = Digest(b)]
      /\ mode' = "record" /\ arg' = b /\ todo' = todo
      /\ build' = build /\ base' = base /\ recorded' = recorded /\ rolledBack' = rolledBack
      /\ torn' = torn
  BY DEF LoadBundle, WriteStep, Follows, Turn, installed
<1>2. b \in todo \cap torn
  BY <1>1 DEF BundlesInv, StartProgress
<1>3. BundlesTyped' /\ DigestsTrue'
  BY <1>1, <1>2 DEF BundlesInv, BundlesTyped, DigestsTrue
<1>4. DigestsPast'
  BY <1>1 DEF BundlesInv, DigestsPast, OfThePast
<1>5. StartProgress'
  BY <1>1, <1>2 DEF BundlesInv, BundlesTyped, StartProgress, Current, Digest, Booting
<1> QED BY <1>3, <1>4, <1>5 DEF BundlesInv

LEMMA RecordKeeps == ASSUME NEW b \in Bundle, BundlesInv, RecordDigest(b) PROVE BundlesInv'
<1>1. /\ mode = "record" /\ b = arg
      /\ recorded' = [recorded EXCEPT ![b] = Digest(b)]
      /\ torn' = torn \ {b}
      /\ mode' = "sync" /\ todo' = todo \ {b}
      /\ build' = build /\ base' = base /\ bundleGraph' = bundleGraph /\ rolledBack' = rolledBack
  BY DEF RecordDigest, WriteStep, Follows, Turn, installed
<1>2. bundleGraph[b] = Digest(b)
  BY <1>1 DEF BundlesInv, StartProgress
<1>3. BundlesTyped' /\ DigestsTrue'
  BY <1>1, <1>2 DEF BundlesInv, BundlesTyped, DigestsTrue
<1>4. DigestsPast'
  <2> SUFFICES ASSUME ~rolledBack, NEW c \in Bundle, recorded'[c] # Nothing PROVE OfThePast(c)'
    BY <1>1 DEF DigestsPast
  <2>1. CASE c # b
    <3>1. recorded'[c] = recorded[c] /\ OfThePast(c)
      BY <1>1, <2>1 DEF BundlesInv, BundlesTyped, DigestsPast
    <3> QED BY <1>1, <2>1, <3>1 DEF OfThePast
  <2>2. CASE c = b
    <3>1. recorded'[c] = KeyOf(build, base, c) /\ c \notin torn'
      BY <1>1, <2>2 DEF BundlesInv, BundlesTyped, Digest
    <3>2. build \in Build /\ base \in Base /\ build <= build /\ base <= base
      BY StartupAssumption DEF BundlesInv, BundlesTyped
    <3> QED BY <1>1, <3>1, <3>2 DEF OfThePast
  <2> QED BY <2>1, <2>2
<1>5. StartProgress'
  BY <1>1, <1>2 DEF BundlesInv, BundlesTyped, StartProgress, Current, Digest, Booting
<1> QED BY <1>3, <1>4, <1>5 DEF BundlesInv

LEMMA BundlesStep == BundlesInv /\ [Progress \/ End]_startupVars => BundlesInv'
<1> SUFFICES ASSUME BundlesInv, [Progress \/ End]_startupVars PROVE BundlesInv'
  OBVIOUS
<1> USE DEF installed, bundleVars
<1>1. CASE UNCHANGED startupVars
  BY <1>1, BundlesUntouched DEF startupVars, histVars
<1>2. CASE Reconfigure
  BY <1>2, ReconfigureKeeps
<1>3. CASE Boot
  <2>1. mode' = "sync" /\ todo' = Bundle /\ UNCHANGED <<installed, bundleGraph, recorded, torn, rolledBack>>
    BY <1>3 DEF Boot, Turn, histVars
  <2>2. BundlesTyped' /\ DigestsTrue' /\ DigestsPast'
    BY <2>1 DEF BundlesInv, BundlesTyped, DigestsTrue, DigestsPast, OfThePast
  <2>3. StartProgress'
    BY <2>1 DEF StartProgress, Booting
  <2> QED BY <2>2, <2>3 DEF BundlesInv
<1>4. ASSUME NEW b \in Bundle, SkipBundle(b) \/ DropBundle(b) \/ LoadBundle(b) \/ RecordDigest(b)
      PROVE  BundlesInv'
  BY <1>4, SkipKeeps, DropKeeps, LoadKeeps, RecordKeeps
<1>5. CASE Synced
  BY <1>5, BundlesUntouched DEF Synced, Migrate, AfterMigration, Turn, Booting
<1>6. CASE \/ adopt_legacy_vocab_graph \/ drop_legacy_graph \/ class_existing_types
           \/ drop_branch_markers \/ unclaim_series_concepts
  <2>1. PICK step \in {"adopt", "drop_legacy", "class", "markers", "series"} : Migrate(step)
    BY <1>6 DEF adopt_legacy_vocab_graph, drop_legacy_graph, class_existing_types,
           drop_branch_markers, unclaim_series_concepts
  <2>2. mode = step /\ mode \in Booting /\ todo = {}
    BY <2>1 DEF Migrate, BundlesInv, StartProgress, Booting
  <2>3. mode' \in Booting \ {"load", "record"}
    BY <2>1, <2>2 DEF Migrate, AfterMigration, Turn, Booting
  <2> QED BY <2>1, <2>2, <2>3, BundlesUntouched DEF Migrate
<1>7. CASE \E t \in Term, label \in Label : RegisterTerm(t, label)
  BY <1>7, BundlesUntouched DEF RegisterTerm, Quiet
<1>8. CASE AdvertiseAsToken \/ AdvertiseAsClient
  BY <1>8, BundlesUntouched DEF AdvertiseAsToken, AdvertiseAsClient, Advertise, Quiet
<1>9. CASE \E old \in Base : StartRebase(old)
  BY <1>9, BundlesUntouched DEF StartRebase, Turn, histVars, Booting
<1>10. CASE NothingUnderOld \/ Snapshot
  <2>1. PICK next \in {"database", "graph", "clear"} :
            \/ Rebasing("snapshot", next, Nothing)
            \/ Rebasing("snapshot", next, RenamedGraph(local))
    BY <1>10 DEF NothingUnderOld, Snapshot
  <2> QED BY <2>1, BundlesUntouched DEF Rebasing, Turn, histVars, Booting
<1>11. CASE RewriteGraph \/ ClearGraph \/ InsertGraph
  <2>1. PICK step \in {"graph", "clear", "insert"}, next \in {"database", "insert"} :
            Rebasing(step, next, arg.quads)
    BY <1>11 DEF RewriteGraph, ClearGraph, InsertGraph
  <2> QED BY <2>1, BundlesUntouched DEF Rebasing, Turn, histVars, Booting
<1>12. CASE RebaseDatabase
  BY <1>12, BundlesUntouched DEF RebaseDatabase, Turn, histVars, Booting
<1>13. CASE Restore
  BY <1>13, BundlesUntouched DEF Restore, Turn, histVars, Booting
<1>14. CASE Stop
  <2>1. mode' = "off" /\ todo' = {} /\ UNCHANGED <<installed, bundleGraph, recorded, torn, rolledBack>>
    BY <1>14 DEF Stop, Turn, histVars
  <2>2. BundlesTyped' /\ DigestsTrue' /\ DigestsPast'
    BY <2>1 DEF BundlesInv, BundlesTyped, DigestsTrue, DigestsPast, OfThePast
  <2>3. StartProgress'
    BY <2>1 DEF StartProgress, Booting
  <2> QED BY <2>2, <2>3 DEF BundlesInv
<1> QED
  BY <1>1, <1>2, <1>3, <1>4, <1>5, <1>6, <1>7, <1>8, <1>9, <1>10, <1>11, <1>12, <1>13, <1>14
  DEF Progress, End

LEMMA BundlesGoal == BundlesInv => BundlesCurrent
BY DEF BundlesInv, StartProgress, BundlesCurrent, Current, Booting

(* A process step is one of Startup or leaves what Startup describes alone.     *)
LEMMA ProcessSteps == [ProcessNext]_processVars => [Progress \/ End]_startupVars
BY DEF ProcessNext, Serve, Exit, Maintain, processVars

(* However the starts of a registry are interrupted, whatever builds and bases   *)
(* follow on each other and whatever it serves in between, a registry that       *)
(* serves has the bundles of its own build and base in its store, unless a step   *)
(* back to an earlier build or base met a start that had not ended (sync,        *)
(* stored_digests, ProcessSpec).                                             *)
THEOREM BundlesAlwaysCurrent == ProcessSpec => []BundlesCurrent
<1>1. ProcessInit => BundlesInv
  BY BundlesInit DEF ProcessInit
<1>2. BundlesInv /\ [ProcessNext]_processVars => BundlesInv'
  BY BundlesStep, ProcessSteps
<1> QED BY <1>1, <1>2, BundlesGoal, PTL DEF ProcessSpec


-----------------------------------------------------------------------------
(* The terms and the runs.                                                   *)

GraphShape(g) ==
    /\ g = [labels |-> g.labels, classed |-> g.classed, concepts |-> g.concepts,
            marked |-> g.marked, runs |-> g.runs, deployment |-> g.deployment]
    /\ g.labels \in [Term -> SUBSET Label]
    /\ g.deployment \in Base \cup {Nothing}

Rebase == {"snapshot", "graph", "clear", "insert", "database"}
Rewriting == {"graph", "clear", "insert"}
(* The graphs that may become the local one, or a part of it.                  *)
Files == snapshot \cup (IF mode \in Rewriting THEN {arg.quads} ELSE {})

StoresTyped ==
    /\ \A g \in {local} \cup Files : GraphShape(g)
    /\ legacy \in [Term -> SUBSET Label] /\ newest \in [Term -> SUBSET Label]
    /\ mode \in Rebase => arg.old \in Base

(* Only terms with a label are types, and only series are left over.             *)
GraphUsable(g) == g.classed \subseteq Labelled(g.labels) /\ g.concepts \subseteq Series
Classed == {"markers", "series", "serving"}
(* Each term has its class here, in a bundle, or had it in a peer's graph.        *)
HeldClassed == \A t \in Held : t \in local.classed \cup lent \/ InBundle(t)
UsableInv ==
    /\ \A g \in {local} \cup Files : GraphUsable(g)
    /\ mode \in Classed => HeldClassed

(* The two stores have the same runs: whoever the token speaks for is the        *)
(* instance of every key, the run of every key has been applied, and whatever    *)
(* has been applied anywhere came with one call.                             *)
KeysKnown == \A k \in runKeys : k.instance = token /\ k.run \in idem
OneCall == \E o : \A g \in {local} \cup Files : \A r \in g.runs : runKeys # {} /\ r.of = o
OnceInv == astray \/ (KeysKnown /\ OneCall)

(* A graph has the last label of a term, or none while the retired graph has it;  *)
(* one that was lost has none, and the files of the rebase that lost it do.     *)
Private(t) == \A v \in Build, b \in Bundle : t \notin Content[v][b]
Whole(g, t) ==
    IF g.deployment = Nothing THEN g.labels[t] = {}
    ELSE newest[t] = IF g.labels[t] # {} THEN g.labels[t] ELSE legacy[t]
Adopted == {"drop_legacy", "class", "markers", "series", "serving"}
TermKept(t) ==
    /\ Whole(local, t)
    /\ mode \in Rewriting => Whole(arg.quads, t)
    /\ Lost \/ mode \in Rewriting => \A f \in snapshot : Whole(f, t)
    /\ mode \in Adopted => IF Lost THEN legacy[t] = {} ELSE local.labels[t] = newest[t]
SurviveInv ==
    astray \/ /\ \A t \in Term : Private(t) => TermKept(t)
              /\ Lost \/ mode \in Rewriting => \E f \in snapshot : f.deployment # Nothing

(* What a bundle holds is what some build has of it.                           *)
ContentsInv ==
    \A b \in Bundle : bundleGraph[b] # Nothing =>
        \E v \in Build : bundleGraph[b].terms = Content[v][b]

StoresInv == BundlesInv /\ ContentsInv /\ StoresTyped /\ UsableInv /\ OnceInv /\ SurviveInv

LEMMA GraphShapeFacts ==
    ASSUME NEW l, NEW c, NEW n, NEW m, NEW r, NEW d, l \in [Term -> SUBSET Label],
           d \in Base \cup {Nothing}
    PROVE  GraphShape([labels |-> l, classed |-> c, concepts |-> n, marked |-> m,
                       runs |-> r, deployment |-> d])
BY DEF GraphShape

LEMMA RenamedFields ==
    ASSUME NEW g, GraphShape(g), arg.old \in Base, base \in Base
    PROVE  /\ GraphShape(RenamedGraph(g))
           /\ RenamedGraph(g).labels = g.labels
           /\ RenamedGraph(g).classed = g.classed
           /\ RenamedGraph(g).concepts = g.concepts
           /\ RenamedGraph(g).deployment = Nothing <=> g.deployment = Nothing
           /\ \A r \in RenamedGraph(g).runs : \E s \in g.runs : r.of = s.of
<1> DEFINE rs == {[run |-> RenamedRun(r.run), of |-> r.of] : r \in g.runs}
           x == [g EXCEPT !.runs = rs]
           d == Renamed(g.deployment)
<1>1. x = [labels |-> g.labels, classed |-> g.classed, concepts |-> g.concepts,
           marked |-> g.marked, runs |-> rs, deployment |-> g.deployment]
  <2> HIDE DEF rs
  <2>1. PICK l, c, n, m, r, e : /\ l = g.labels /\ c = g.classed /\ n = g.concepts /\ m = g.marked
                                /\ r = g.runs /\ e = g.deployment
    OBVIOUS
  <2>2. g = [labels |-> l, classed |-> c, concepts |-> n, marked |-> m, runs |-> r, deployment |-> e]
    BY <2>1 DEF GraphShape
  <2>3. [g EXCEPT !.runs = rs] =
            [labels |-> l, classed |-> c, concepts |-> n, marked |-> m, runs |-> rs, deployment |-> e]
    BY <2>2
  <2> QED BY <2>1, <2>3
<1>2. RenamedGraph(g) = [x EXCEPT !.deployment = d]
  BY Zenon DEF RenamedGraph
<1>3. \A r \in rs : \E s \in g.runs : r.of = s.of
  OBVIOUS
<1>4. d \in Base \cup {Nothing} /\ (d = Nothing <=> g.deployment = Nothing)
  BY StartAssumption DEF Renamed, GraphShape
<1> HIDE DEF x, rs, d
<1>5. RenamedGraph(g) = [labels |-> g.labels, classed |-> g.classed, concepts |-> g.concepts,
                         marked |-> g.marked, runs |-> rs, deployment |-> d]
  <2>1. [x EXCEPT !.deployment = d] =
            [labels |-> g.labels, classed |-> g.classed, concepts |-> g.concepts,
             marked |-> g.marked, runs |-> rs, deployment |-> d]
    BY <1>1
  <2> QED BY <1>2, <2>1
<1>6. g.labels \in [Term -> SUBSET Label]
  BY DEF GraphShape
<1> QED BY <1>3, <1>4, <1>5, <1>6, GraphShapeFacts

LEMMA StoresInit == StartupInit => StoresInv
<1> SUFFICES ASSUME StartupInit PROVE StoresInv
  OBVIOUS
<1>1. PICK s \in Start :
        /\ mode = "off" /\ bundleGraph = [b \in Bundle |-> Nothing]
        /\ local = [Graph(s.local, 1) EXCEPT !.concepts = Series, !.marked = Labelled(s.local)]
        /\ legacy = s.legacy /\ snapshot = {}
        /\ newest = [t \in Term |-> IF s.local[t] # {} THEN s.local[t] ELSE s.legacy[t]]
        /\ runKeys = {}
  BY DEF StartupInit
<1>2. local = [labels |-> s.local, classed |-> {}, concepts |-> Series,
               marked |-> Labelled(s.local), runs |-> {}, deployment |-> 1]
  <2> DEFINE x == [Graph(s.local, 1) EXCEPT !.concepts = Series]
             m == Labelled(s.local)
  <2>1. x = [labels |-> s.local, classed |-> {}, concepts |-> Series, marked |-> {},
             runs |-> {}, deployment |-> 1]
    BY DEF Graph
  <2>2. local = [x EXCEPT !.marked = m]
    BY <1>1, Zenon
  <2> HIDE DEF x, m
  <2>3. [x EXCEPT !.marked = m] = [labels |-> s.local, classed |-> {}, concepts |-> Series,
             marked |-> m, runs |-> {}, deployment |-> 1]
    BY <2>1
  <2> QED BY <2>2, <2>3 DEF m
<1>3. /\ s.local \in [Term -> SUBSET Label] /\ s.legacy \in [Term -> SUBSET Label]
      /\ 1 \in Base /\ 1 # Nothing
  BY StartAssumption, StartupAssumption
<1>0. /\ local.labels = s.local /\ local.classed = {} /\ local.concepts = Series
      /\ local.runs = {} /\ local.deployment = 1
      /\ Files = {} /\ mode \notin Classed \cup Adopted \cup Rewriting
  <2>1. mode \notin Classed \cup Adopted \cup Rewriting
    BY <1>1 DEF Rewriting, Classed, Adopted
  <2>2. Files = {}
    BY <1>1, <2>1 DEF Files
  <2> QED BY ONLY <1>2, <2>1, <2>2
<1>4. StoresTyped
  <2>1. GraphShape(local)
    <3> DEFINE m == Labelled(s.local)
    <3>1. 1 \in Base \cup {Nothing}
      BY <1>3
    <3> HIDE DEF m
    <3>2. GraphShape([labels |-> s.local, classed |-> {}, concepts |-> Series, marked |-> m,
                      runs |-> {}, deployment |-> 1])
      BY <1>3, <3>1, GraphShapeFacts
    <3> QED BY <1>2, <3>2 DEF m
  <2>2. newest \in [Term -> SUBSET Label]
    BY <1>1, <1>3
  <2> QED BY <1>0, <1>1, <1>3, <2>1, <2>2 DEF StoresTyped, Rebase
<1>5. UsableInv
  BY <1>0 DEF UsableInv, GraphUsable
<1>6. OnceInv
  BY <1>0, <1>1 DEF OnceInv, KeysKnown, OneCall
<1>7. SurviveInv
  <2>1. ~Lost /\ mode \notin Rewriting
    BY <1>0, <1>3 DEF Lost
  <2>2. \A t \in Term : Whole(local, t)
    BY <1>0, <1>1, <1>3 DEF Whole
  <2> QED BY <1>0, <2>1, <2>2 DEF SurviveInv, TermKept
<1>8. ContentsInv
  BY <1>1 DEF ContentsInv
<1> QED BY <1>4, <1>5, <1>6, <1>7, <1>8, BundlesInit DEF StoresInv


-----------------------------------------------------------------------------
(* What most steps leave alone.                                              *)

(* A stage that is not part of a rebase, or that begins one or ends its first     *)
(* half; and one that needs no more of the local graph than the stage before.   *)
PlainTurn ==
    \/ UNCHANGED <<mode, arg>>
    \/ /\ mode' \notin Rewriting
       /\ mode' \in Rebase => arg'.old \in Base
NoFurther ==
    /\ mode' \in Classed => mode \in Classed
    /\ mode' \in Adopted => mode \in Adopted

LEMMA FilesShrink ==
    ASSUME PlainTurn, UNCHANGED snapshot
    PROVE  Files' \subseteq Files
BY DEF PlainTurn, Files, Rewriting

LEMMA TypedUntouched ==
    ASSUME StoresTyped, PlainTurn, UNCHANGED <<snapshot>>,
           GraphShape(local)', legacy' \in [Term -> SUBSET Label], newest' \in [Term -> SUBSET Label]
    PROVE  StoresTyped'
<1>1. \A g \in Files' : GraphShape(g)
  BY FilesShrink DEF StoresTyped
<1>2. GraphShape(local')
  BY DEF GraphShape
<1>3. mode' \in Rebase => arg'.old \in Base
  BY DEF StoresTyped, PlainTurn
<1> QED BY <1>1, <1>2, <1>3 DEF StoresTyped, GraphShape

LEMMA UsableUntouched ==
    ASSUME UsableInv, PlainTurn, UNCHANGED <<snapshot>>, GraphUsable(local)',
           mode' \in Classed => HeldClassed'
    PROVE  UsableInv'
<1>1. \A g \in Files' : GraphUsable(g)
  BY FilesShrink DEF UsableInv
<1> QED BY <1>1 DEF UsableInv, GraphUsable, Labelled

(* The classes stay where they are.                                          *)
LEMMA ClassesStay ==
    ASSUME HeldClassed, UNCHANGED <<bundleGraph, lent>>,
           local'.labels = local.labels, local'.classed = local.classed
    PROVE  HeldClassed'
BY DEF HeldClassed, Held, Labelled, InBundle

LEMMA OnceUntouched ==
    ASSUME OnceInv, Files' \subseteq {local} \cup Files, local'.runs \subseteq local.runs,
           UNCHANGED opsVars, astray => astray'
    PROVE  OnceInv'
<1> SUFFICES ASSUME KeysKnown, OneCall PROVE KeysKnown' /\ OneCall'
  BY DEF OnceInv
<1>1. KeysKnown'
  BY DEF KeysKnown, opsVars
<1>2. PICK o : \A g \in {local} \cup Files : \A r \in g.runs : runKeys # {} /\ r.of = o
  BY DEF OneCall
<1>3. \A g \in {local'} \cup Files' : \A r \in g.runs : runKeys' # {} /\ r.of = o
  BY <1>2 DEF opsVars
<1> QED BY <1>1, <1>3 DEF OneCall

LEMMA SurviveUntouched ==
    ASSUME SurviveInv, PlainTurn, mode' \in Adopted => mode \in Adopted,
           UNCHANGED <<legacy, newest, snapshot>>, astray => astray',
           local'.labels = local.labels, local'.deployment = local.deployment
    PROVE  SurviveInv'
<1> SUFFICES ASSUME ~astray, ~astray' PROVE SurviveInv'
  BY DEF SurviveInv
<1>0. Lost' <=> Lost
  BY DEF Lost
<1>1. mode' \in Rewriting => mode \in Rewriting /\ arg' = arg
  BY DEF PlainTurn
<1>3. mode' \in Adopted => mode \in Adopted
  OBVIOUS
<1>4. \A g : \A t \in Term : Whole(g, t) => Whole(g, t)'
  BY DEF Whole
<1>5. \A t \in Term : Whole(local, t) => Whole(local, t)'
  BY DEF Whole
<1>6. \A t \in Term : TermKept(t) => TermKept(t)'
  <2> SUFFICES ASSUME NEW t \in Term, TermKept(t) PROVE TermKept(t)'
    OBVIOUS
  <2>1. Whole(local, t)'
    BY <1>5 DEF TermKept
  <2>2. mode' \in Rewriting => Whole(arg.quads, t)'
    BY <1>1 DEF TermKept, Whole
  <2>3. Lost' \/ mode' \in Rewriting => \A f \in snapshot' : Whole(f, t)'
    BY <1>0, <1>1, <1>4 DEF TermKept
  <2>4. mode' \in Adopted => IF Lost' THEN legacy'[t] = {} ELSE local'.labels[t] = newest'[t]
    BY <1>0, <1>3 DEF TermKept
  <2> QED BY <2>1, <2>2, <2>3, <2>4 DEF TermKept
<1> QED BY <1>0, <1>1, <1>6 DEF SurviveInv

(* A step of a start, of the operator, or the first and last of a rebase.        *)
LEMMA StoresUntouched ==
    ASSUME StoresInv, PlainTurn, NoFurther, UNCHANGED <<graphVars, opsVars>>, UNCHANGED astray,
           mode' \in Classed => UNCHANGED <<bundleGraph, lent>>
    PROVE  StoresTyped' /\ UsableInv' /\ OnceInv' /\ SurviveInv'
<1> USE DEF StoresInv, graphVars
<1>1. StoresTyped'
  <2>1. GraphShape(local)'
    BY DEF StoresTyped, GraphShape
  <2> QED BY <2>1, TypedUntouched DEF StoresTyped
<1>2. UsableInv'
  <2>1. GraphUsable(local)'
    BY DEF UsableInv, GraphUsable, Labelled
  <2>2. mode' \in Classed => HeldClassed'
    BY ClassesStay DEF UsableInv, NoFurther
  <2> QED BY <2>1, <2>2, UsableUntouched
<1>3. OnceInv'
  BY OnceUntouched, FilesShrink
<1>4. SurviveInv'
  BY SurviveUntouched DEF NoFurther
<1> QED BY <1>1, <1>2, <1>3, <1>4


-----------------------------------------------------------------------------
(* The steps.                                                                *)

LEMMA ContentsStep ==
    ASSUME BundlesInv, ContentsInv, [Progress \/ End]_startupVars PROVE ContentsInv'
<1>1. CASE UNCHANGED bundleGraph
  BY <1>1 DEF ContentsInv
<1>2. ASSUME NEW b \in Bundle, DropBundle(b) PROVE ContentsInv'
  BY <1>2 DEF DropBundle, ContentsInv, BundlesInv, BundlesTyped
<1>3. ASSUME NEW b \in Bundle, LoadBundle(b) PROVE ContentsInv'
  <2>1. bundleGraph' = [bundleGraph EXCEPT ![b] = Digest(b)]
    BY <1>3 DEF LoadBundle
  <2>2. build \in Build /\ Digest(b).terms = Content[build][b]
    BY DEF BundlesInv, BundlesTyped, Digest, KeyOf
  <2> QED BY <2>1, <2>2 DEF ContentsInv, BundlesInv, BundlesTyped
<1>4. ASSUME NEW b \in Bundle, SkipBundle(b) \/ RecordDigest(b) PROVE UNCHANGED bundleGraph
  BY <1>4 DEF SkipBundle, RecordDigest
<1>5. CASE Reconfigure \/ Boot \/ Synced \/ adopt_legacy_vocab_graph \/ drop_legacy_graph
           \/ class_existing_types \/ drop_branch_markers \/ unclaim_series_concepts
           \/ UNCHANGED startupVars
  BY <1>1, <1>5 DEF Reconfigure, Boot, Synced, adopt_legacy_vocab_graph, drop_legacy_graph,
     class_existing_types, drop_branch_markers, unclaim_series_concepts, Migrate, bundleVars,
     startupVars
<1>6. CASE \/ \E t \in Term, label \in Label : RegisterTerm(t, label)
           \/ AdvertiseAsToken \/ AdvertiseAsClient
  BY <1>1, <1>6 DEF RegisterTerm, AdvertiseAsToken, AdvertiseAsClient, Advertise, Quiet, bundleVars
<1>7. CASE \/ \E old \in Base : StartRebase(old)
           \/ NothingUnderOld \/ Snapshot \/ RewriteGraph \/ ClearGraph \/ InsertGraph
           \/ RebaseDatabase
  BY <1>1, <1>7 DEF StartRebase, NothingUnderOld, Snapshot, RewriteGraph, ClearGraph, InsertGraph,
     RebaseDatabase, Rebasing, bundleVars
<1>8. CASE Stop \/ Restore
  BY <1>1, <1>8 DEF Stop, Restore, bundleVars
<1> QED
  BY <1>1, <1>2, <1>3, <1>4, <1>5, <1>6, <1>7, <1>8 DEF Progress, End

LEMMA PrivateInNoBundle ==
    ASSUME ContentsInv, NEW t \in Term, Private(t) PROVE ~InBundle(t)
BY DEF ContentsInv, Private, InBundle

(* The fields of a local graph after a step that changes some of them.           *)
LEMMA LocalFields ==
    ASSUME StoresTyped
    PROVE  /\ GraphShape(local)
           /\ local.labels \in [Term -> SUBSET Label]
           /\ local.deployment \in Base \cup {Nothing}
           /\ \A f \in Files : GraphShape(f)
           /\ \A f \in snapshot : GraphShape(f)
BY DEF StoresTyped, GraphShape, Files

LEMMA AdoptKeeps ==
    ASSUME StoresInv, adopt_legacy_vocab_graph
    PROVE  StoresTyped' /\ UsableInv' /\ OnceInv' /\ SurviveInv'
<1> DEFINE m == local.marked \cup Rescued
           l == [t \in Term |-> IF t \in Rescued THEN local.labels[t] \cup legacy[t]
                                ELSE local.labels[t]]
           x == [local EXCEPT !.marked = m]
<1>0. StoresTyped /\ UsableInv /\ OnceInv /\ SurviveInv /\ ContentsInv
  BY DEF StoresInv
<1>1. local' = [x EXCEPT !.labels = l]
  BY Zenon DEF adopt_legacy_vocab_graph
<1>2. /\ mode = "adopt" /\ mode' = "drop_legacy" /\ legacy' = legacy
      /\ newest' = newest /\ snapshot' = snapshot /\ UNCHANGED opsVars
      /\ astray' = (astray \/ (Lost /\ Rescued # {}))
  BY DEF adopt_legacy_vocab_graph, Migrate, AfterMigration, Turn
<1>3. PICK c, n, r, d : /\ c = local.classed /\ n = local.concepts
                        /\ r = local.runs /\ d = local.deployment
  OBVIOUS
<1>4. l \in [Term -> SUBSET Label] /\ \A t \in Term : local.labels[t] \subseteq l[t]
  BY <1>0, LocalFields DEF StoresTyped
<1>4a. \A t \in Term : l[t] = IF t \in Rescued THEN local.labels[t] \cup legacy[t] ELSE local.labels[t]
  OBVIOUS
<1> HIDE DEF m, l
<1>5. local' = [labels |-> l, classed |-> c, concepts |-> n, marked |-> m, runs |-> r, deployment |-> d]
  <2>1. PICK g : g = local.labels
    OBVIOUS
  <2>2. local = [labels |-> g, classed |-> c, concepts |-> n, marked |-> local.marked,
                 runs |-> r, deployment |-> d]
    BY <1>0, <1>3, <2>1, LocalFields DEF GraphShape
  <2>3. x = [labels |-> g, classed |-> c, concepts |-> n, marked |-> m, runs |-> r, deployment |-> d]
    BY <2>2
  <2> HIDE DEF x
  <2>4. [x EXCEPT !.labels = l] =
            [labels |-> l, classed |-> c, concepts |-> n, marked |-> m, runs |-> r, deployment |-> d]
    BY <2>3
  <2> QED BY <1>1, <2>4
<1>6. /\ local'.labels = l /\ local'.classed = local.classed /\ local'.concepts = local.concepts
      /\ local'.runs = local.runs /\ local'.deployment = local.deployment
  BY ONLY <1>3, <1>5
<1>7. PlainTurn
  BY <1>2 DEF PlainTurn, Rewriting, Rebase
<1>8. StoresTyped'
  <2>1. GraphShape(local')
    BY <1>0, <1>3, <1>4, <1>5, LocalFields, GraphShapeFacts
  <2>2. GraphShape(local)'
    BY <2>1 DEF GraphShape
  <2> QED BY <1>0, <1>2, <1>7, <2>2, TypedUntouched DEF StoresTyped
<1>9. UsableInv'
  <2>1. Labelled(local.labels) \subseteq Labelled(local'.labels)
    BY <1>4, <1>6, <1>0, LocalFields DEF Labelled
  <2>2. GraphUsable(local)'
    BY <1>0, <1>6, <2>1 DEF UsableInv, GraphUsable, Labelled
  <2> QED BY <1>0, <1>2, <1>7, <2>2, UsableUntouched DEF Classed
<1>10. OnceInv'
  BY <1>0, <1>2, <1>6, <1>7, FilesShrink, OnceUntouched
<1>11. SurviveInv'
  <2> SUFFICES ASSUME ~astray, ~astray' PROVE SurviveInv'
    BY <1>2 DEF SurviveInv
  <2>1. Lost' <=> Lost
    BY <1>6 DEF Lost
  <2>2. Lost => Rescued = {}
    BY <1>2
  <2>3. ASSUME NEW t \in Term, Private(t) PROVE TermKept(t)'
    <3>1. TermKept(t) /\ ~InBundle(t)
      BY <1>0, <2>3, PrivateInNoBundle DEF SurviveInv
    <3>2. t \in Rescued <=> (legacy[t] # {} /\ local.labels[t] = {})
      BY <3>1, <2>3 DEF Rescued, Labelled
    <3>3. CASE Lost
      <4>1. local.labels[t] = {} /\ legacy[t] = {} /\ l[t] = {}
        BY <1>4a, <2>2, <2>3, <3>1, <3>2, <3>3 DEF TermKept, Whole, Lost
      <4>2. \A f \in snapshot : Whole(f, t)
        BY <3>1, <3>3 DEF TermKept
      <4>3. \A f \in snapshot' : Whole(f, t)'
        BY <1>2, <4>2 DEF Whole
      <4>4. Whole(local, t)'
        BY <1>6, <3>3, <4>1 DEF Whole, Lost
      <4> QED BY <1>2, <2>1, <3>3, <4>1, <4>3, <4>4 DEF TermKept, Rewriting
    <3>4. CASE ~Lost
      <4>1. newest[t] = IF local.labels[t] # {} THEN local.labels[t] ELSE legacy[t]
        BY <3>1, <3>4 DEF TermKept, Whole, Lost
      <4>2. l[t] = newest[t]
        <5>1. CASE local.labels[t] # {}
          BY <1>4a, <2>3, <3>2, <4>1, <5>1
        <5>2. CASE local.labels[t] = {}
          BY <1>4a, <2>3, <3>2, <4>1, <5>2
        <5> QED BY <5>1, <5>2
      <4>3. l[t] = {} => legacy[t] = {}
        BY <1>4a, <2>3, <3>2, <4>1, <4>2
      <4>4. Whole(local, t)'
        BY <1>2, <1>6, <4>2, <4>3, <3>4 DEF Whole, Lost
      <4> QED BY <1>2, <1>6, <2>1, <3>4, <4>2, <4>4 DEF TermKept, Rewriting
    <3> QED BY <3>3, <3>4
  <2> QED BY <1>0, <1>2, <2>1, <2>3 DEF SurviveInv, Rewriting
<1> QED BY <1>8, <1>9, <1>10, <1>11


LEMMA DropLegacyKeeps ==
    ASSUME StoresInv, drop_legacy_graph
    PROVE  StoresTyped' /\ UsableInv' /\ OnceInv' /\ SurviveInv'
<1>0. StoresTyped /\ UsableInv /\ OnceInv /\ SurviveInv
  BY DEF StoresInv
<1>1. /\ mode = "drop_legacy" /\ mode' = "class" /\ legacy' = Unlabelled
      /\ UNCHANGED <<local, newest, snapshot, astray>> /\ UNCHANGED opsVars
  BY DEF drop_legacy_graph, Migrate, AfterMigration, Turn
<1>2. PlainTurn
  BY <1>1 DEF PlainTurn, Rewriting, Rebase
<1>3. StoresTyped'
  <2>1. GraphShape(local)'
    BY <1>0, <1>1 DEF StoresTyped, GraphShape
  <2>2. legacy' \in [Term -> SUBSET Label] /\ newest' \in [Term -> SUBSET Label]
    BY <1>0, <1>1 DEF Unlabelled, StoresTyped
  <2> QED BY <1>0, <1>1, <1>2, <2>1, <2>2, TypedUntouched
<1>4. UsableInv'
  <2>1. GraphUsable(local)'
    BY <1>0, <1>1 DEF UsableInv, GraphUsable, Labelled
  <2> QED BY <1>0, <1>1, <1>2, <2>1, UsableUntouched DEF Classed
<1>5. OnceInv'
  BY <1>0, <1>1, <1>2, FilesShrink, OnceUntouched
<1>6. SurviveInv'
  <2> SUFFICES ASSUME ~astray PROVE SurviveInv'
    BY <1>1 DEF SurviveInv
  <2>1. Lost' <=> Lost
    BY <1>1 DEF Lost
  <2>2. \A t \in Term : legacy'[t] = {}
    BY <1>1 DEF Unlabelled
  <2>3. ASSUME NEW t \in Term, Private(t) PROVE TermKept(t)'
    <3>1. TermKept(t)
      BY <1>0, <2>3 DEF SurviveInv
    <3>2. IF Lost THEN legacy[t] = {} ELSE local.labels[t] = newest[t]
      BY <1>1, <3>1 DEF TermKept, Adopted
    <3>3. Whole(local, t)'
      BY <1>1, <2>2, <2>3, <3>1, <3>2 DEF TermKept, Whole, Lost
    <3>4. Lost => \A f \in snapshot : Whole(f, t) /\ legacy[t] = {}
      BY <3>1, <3>2 DEF TermKept
    <3>5. Lost' => \A f \in snapshot' : Whole(f, t)'
      BY <1>1, <2>1, <2>2, <2>3, <3>4 DEF Whole
    <3> QED BY <1>1, <2>1, <2>2, <2>3, <3>2, <3>3, <3>5 DEF TermKept, Rewriting
  <2> QED BY <1>0, <1>1, <2>1, <2>3 DEF SurviveInv, Rewriting
<1> QED BY <1>3, <1>4, <1>5, <1>6

(* A step that changes one field of the local graph, or none, and no label.      *)
LEMMA FieldKeeps ==
    ASSUME StoresTyped, SurviveInv, PlainTurn, mode' \in Adopted => mode \in Adopted,
           UNCHANGED <<legacy, newest, snapshot>>, astray => astray',
           NEW c, NEW n, NEW m, NEW r,
           local' = [labels |-> local.labels, classed |-> c, concepts |-> n, marked |-> m,
                     runs |-> r, deployment |-> local.deployment]
    PROVE  StoresTyped' /\ SurviveInv'
<1>1. local'.labels = local.labels /\ local'.deployment = local.deployment
  OBVIOUS
<1>2. GraphShape(local')
  BY LocalFields, GraphShapeFacts
<1>3. GraphShape(local)'
  BY <1>2 DEF GraphShape
<1>4. StoresTyped'
  BY <1>3, TypedUntouched DEF StoresTyped
<1>5. SurviveInv'
  BY <1>1, SurviveUntouched
<1> QED BY <1>4, <1>5

LEMMA ClassKeeps ==
    ASSUME StoresInv, class_existing_types
    PROVE  StoresTyped' /\ UsableInv' /\ OnceInv' /\ SurviveInv'
<1>0. StoresTyped /\ UsableInv /\ OnceInv /\ SurviveInv
  BY DEF StoresInv
<1>1. /\ mode = "class" /\ mode' = "markers" /\ bundleGraph' = bundleGraph
      /\ UNCHANGED <<legacy, newest, snapshot, astray>> /\ UNCHANGED opsVars
  BY DEF class_existing_types, Migrate, AfterMigration, Turn, bundleVars
<1>2. PICK new :
        /\ new = {x \in Held \cup local.concepts :
                    ~InBundle(x) /\ x \notin lent' /\ ~is_a_record_that_is_not_a_type(x)}
        /\ local' = [local EXCEPT !.classed = local.classed \cup new]
  BY DEF class_existing_types
<1>3. PICK k : k = local.classed \cup new
  OBVIOUS
<1>4. new \subseteq Held /\ \A t \in Held : t \in new \cup lent' \/ InBundle(t)
  <2>1. local.concepts \subseteq Series /\ Held \subseteq Term
    BY <1>0 DEF UsableInv, GraphUsable, Held, Labelled
  <2> QED BY <1>2, <2>1, StartAssumption DEF is_a_record_that_is_not_a_type
<1>5. local' = [labels |-> local.labels, classed |-> k, concepts |-> local.concepts,
                marked |-> local.marked, runs |-> local.runs, deployment |-> local.deployment]
  <2>1. PICK g, c, n, m, r, d :
           /\ g = local.labels /\ c = local.classed /\ n = local.concepts /\ m = local.marked
           /\ r = local.runs /\ d = local.deployment
    OBVIOUS
  <2>2. local = [labels |-> g, classed |-> c, concepts |-> n, marked |-> m, runs |-> r, deployment |-> d]
    BY <1>0, <2>1, LocalFields DEF GraphShape
  <2>3. local' = [local EXCEPT !.classed = k]
    BY <1>2, <1>3
  <2>4. local' = [labels |-> g, classed |-> k, concepts |-> n, marked |-> m, runs |-> r, deployment |-> d]
    BY <2>2, <2>3
  <2> QED BY <2>1, <2>4
<1>6. PlainTurn /\ (mode' \in Adopted => mode \in Adopted)
  BY <1>1 DEF PlainTurn, Rewriting, Rebase, Adopted
<1>7. local'.labels = local.labels /\ local'.concepts = local.concepts /\ local'.runs = local.runs
      /\ local'.classed = k
  BY <1>5
<1>8. UsableInv'
  <2>1. Held' = Held
    BY <1>7 DEF Held, Labelled
  <2>2. GraphUsable(local)'
    BY <1>0, <1>3, <1>4, <1>7, <2>1 DEF UsableInv, GraphUsable, Held
  <2>3. HeldClassed'
    BY <1>1, <1>3, <1>4, <1>7, <2>1 DEF HeldClassed, InBundle
  <2> QED BY <1>0, <1>1, <1>6, <2>2, <2>3, UsableUntouched
<1>9. OnceInv'
  BY <1>0, <1>1, <1>6, <1>7, FilesShrink, OnceUntouched
<1>10. StoresTyped' /\ SurviveInv'
  BY <1>0, <1>1, <1>5, <1>6, FieldKeeps
<1> QED BY <1>8, <1>9, <1>10


LEMMA MarkersKeeps ==
    ASSUME StoresInv, drop_branch_markers
    PROVE  StoresTyped' /\ UsableInv' /\ OnceInv' /\ SurviveInv'
<1>0. StoresTyped /\ UsableInv /\ OnceInv /\ SurviveInv
  BY DEF StoresInv
<1>1. /\ mode = "markers" /\ mode' = "series"
      /\ local' = [local EXCEPT !.marked = {}]
      /\ UNCHANGED <<legacy, newest, snapshot, lent, astray>> /\ UNCHANGED <<bundleGraph, opsVars>>
  BY DEF drop_branch_markers, Migrate, AfterMigration, Turn, bundleVars
<1>2. local' = [labels |-> local.labels, classed |-> local.classed, concepts |-> local.concepts,
                marked |-> {}, runs |-> local.runs, deployment |-> local.deployment]
  <2>1. PICK g, c, n, m, r, d :
           /\ g = local.labels /\ c = local.classed /\ n = local.concepts /\ m = local.marked
           /\ r = local.runs /\ d = local.deployment
    OBVIOUS
  <2>2. local = [labels |-> g, classed |-> c, concepts |-> n, marked |-> m, runs |-> r, deployment |-> d]
    BY <1>0, <2>1, LocalFields DEF GraphShape
  <2>3. local' = [labels |-> g, classed |-> c, concepts |-> n, marked |-> {}, runs |-> r, deployment |-> d]
    BY <1>1, <2>2
  <2> QED BY <2>1, <2>3
<1>3. PlainTurn /\ NoFurther
  BY <1>1 DEF PlainTurn, NoFurther, Rewriting, Rebase, Adopted, Classed
<1>4. local'.labels = local.labels /\ local'.concepts = local.concepts /\ local'.runs = local.runs
      /\ local'.classed = local.classed
  BY <1>2
<1>5. UsableInv'
  <2>1. Held' = Held
    BY <1>4 DEF Held, Labelled
  <2>2. GraphUsable(local)'
    BY <1>0, <1>4, <2>1 DEF UsableInv, GraphUsable, Held
  <2>3. mode' \in Classed => HeldClassed'
    BY <1>0, <1>1, <1>3, <1>4, ClassesStay DEF UsableInv, NoFurther
  <2> QED BY <1>0, <1>1, <1>3, <2>2, <2>3, UsableUntouched
<1>6. OnceInv'
  BY <1>0, <1>1, <1>3, <1>4, FilesShrink, OnceUntouched
<1>7. StoresTyped' /\ SurviveInv'
  BY <1>0, <1>1, <1>2, <1>3, FieldKeeps DEF NoFurther
<1> QED BY <1>5, <1>6, <1>7

LEMMA SeriesKeeps ==
    ASSUME StoresInv, unclaim_series_concepts
    PROVE  StoresTyped' /\ UsableInv' /\ OnceInv' /\ SurviveInv'
<1>0. StoresTyped /\ UsableInv /\ OnceInv /\ SurviveInv
  BY DEF StoresInv
<1>1. /\ mode = "series" /\ mode' = "serving"
      /\ local' = [local EXCEPT !.concepts = {}]
      /\ UNCHANGED <<legacy, newest, snapshot, lent, astray>> /\ UNCHANGED <<bundleGraph, opsVars>>
  BY DEF unclaim_series_concepts, Migrate, AfterMigration, Turn, bundleVars
<1>2. local' = [labels |-> local.labels, classed |-> local.classed, concepts |-> {},
                marked |-> local.marked, runs |-> local.runs, deployment |-> local.deployment]
  <2>1. PICK g, c, n, m, r, d :
           /\ g = local.labels /\ c = local.classed /\ n = local.concepts /\ m = local.marked
           /\ r = local.runs /\ d = local.deployment
    OBVIOUS
  <2>2. local = [labels |-> g, classed |-> c, concepts |-> n, marked |-> m, runs |-> r, deployment |-> d]
    BY <1>0, <2>1, LocalFields DEF GraphShape
  <2>3. local' = [labels |-> g, classed |-> c, concepts |-> {}, marked |-> m, runs |-> r, deployment |-> d]
    BY <1>1, <2>2
  <2> QED BY <2>1, <2>3
<1>3. PlainTurn /\ NoFurther
  BY <1>1 DEF PlainTurn, NoFurther, Rewriting, Rebase, Adopted, Classed
<1>4. local'.labels = local.labels /\ local'.concepts = {} /\ local'.runs = local.runs
      /\ local'.classed = local.classed
  BY <1>2
<1>5. UsableInv'
  <2>1. Held' = Held
    BY <1>4 DEF Held, Labelled
  <2>2. GraphUsable(local)'
    BY <1>0, <1>4, <2>1 DEF UsableInv, GraphUsable, Held
  <2>3. mode' \in Classed => HeldClassed'
    BY <1>0, <1>1, <1>3, <1>4, ClassesStay DEF UsableInv, NoFurther
  <2> QED BY <1>0, <1>1, <1>3, <2>2, <2>3, UsableUntouched
<1>6. OnceInv'
  BY <1>0, <1>1, <1>3, <1>4, FilesShrink, OnceUntouched
<1>7. StoresTyped' /\ SurviveInv'
  BY <1>0, <1>1, <1>2, <1>3, FieldKeeps DEF NoFurther
<1> QED BY <1>5, <1>6, <1>7

LEMMA RegisterKeeps ==
    ASSUME StoresInv, NEW t \in Term, NEW label \in Label, RegisterTerm(t, label)
    PROVE  StoresTyped' /\ UsableInv' /\ OnceInv' /\ SurviveInv'
<1>0. StoresTyped /\ UsableInv /\ OnceInv /\ SurviveInv
  BY DEF StoresInv
<1> DEFINE l == [local.labels EXCEPT ![t] = {label}]
           k == local.classed \cup {t}
           h == local.marked \ {t}
<1>1. /\ mode = "serving" /\ mode' = mode /\ arg' = arg
      /\ newest' = [newest EXCEPT ![t] = {label}]
      /\ astray' = (astray \/ Lost)
      /\ UNCHANGED <<legacy, snapshot, bundleGraph, lent>> /\ UNCHANGED opsVars
  BY DEF RegisterTerm, Quiet, bundleVars
<1>2. local' = [labels |-> l, classed |-> k, concepts |-> local.concepts,
                marked |-> h, runs |-> local.runs, deployment |-> local.deployment]
  <2> DEFINE x == [local EXCEPT !.labels[t] = {label}]
             y == [x EXCEPT !.classed = k]
  <2>1. PICK g, c, n, m, r, d :
           /\ g = local.labels /\ c = local.classed /\ n = local.concepts /\ m = local.marked
           /\ r = local.runs /\ d = local.deployment
    OBVIOUS
  <2>2. local = [labels |-> g, classed |-> c, concepts |-> n, marked |-> m, runs |-> r, deployment |-> d]
    BY <1>0, <2>1, LocalFields DEF GraphShape
  <2>3. x = [labels |-> l, classed |-> c, concepts |-> n, marked |-> m, runs |-> r, deployment |-> d]
    BY <2>1, <2>2
  <2>4. local' = [y EXCEPT !.marked = h]
    BY Zenon DEF RegisterTerm
  <2> HIDE DEF x, l, k, h
  <2>5. y = [labels |-> l, classed |-> k, concepts |-> n, marked |-> m, runs |-> r, deployment |-> d]
    BY <2>3
  <2> HIDE DEF y
  <2>6. local' = [labels |-> l, classed |-> k, concepts |-> n, marked |-> h, runs |-> r, deployment |-> d]
    BY <2>4, <2>5
  <2> QED BY <2>1, <2>6
<1>3. local.labels \in [Term -> SUBSET Label]
  BY <1>0, LocalFields
<1>4. l \in [Term -> SUBSET Label] /\ l[t] = {label} /\ \A u \in Term \ {t} : l[u] = local.labels[u]
  BY <1>3
<1> HIDE DEF l, k, h
<1>5. /\ local'.labels = l /\ local'.classed = k /\ local'.concepts = local.concepts
      /\ local'.runs = local.runs /\ local'.deployment = local.deployment
  BY <1>2
<1>6. PlainTurn
  BY <1>1 DEF PlainTurn
<1>7. StoresTyped'
  <2>1. GraphShape(local')
    BY <1>0, <1>2, <1>4, LocalFields, GraphShapeFacts
  <2>2. GraphShape(local)'
    BY <2>1 DEF GraphShape
  <2>3. newest' \in [Term -> SUBSET Label] /\ legacy' \in [Term -> SUBSET Label]
    BY <1>0, <1>1 DEF StoresTyped
  <2> QED BY <1>0, <1>1, <1>6, <2>2, <2>3, TypedUntouched
<1>8. UsableInv'
  <2>1. Held' = Held \cup {t}
    BY <1>4, <1>5 DEF Held, Labelled
  <2>2. GraphUsable(local) /\ HeldClassed
    BY <1>0, <1>1 DEF UsableInv, Classed
  <2>3. GraphUsable(local)' /\ HeldClassed'
    BY <1>1, <1>5, <2>1, <2>2 DEF GraphUsable, HeldClassed, Held, InBundle, k
  <2> QED BY <1>0, <1>1, <1>6, <2>3, UsableUntouched
<1>9. OnceInv'
  BY <1>0, <1>1, <1>5, <1>6, FilesShrink, OnceUntouched
<1>10. SurviveInv'
  <2> SUFFICES ASSUME ~astray, ~Lost PROVE SurviveInv'
    BY <1>1 DEF SurviveInv
  <2>1. ~Lost'
    BY <1>5 DEF Lost
  <2>2. ASSUME NEW u \in Term, Private(u) PROVE TermKept(u)'
    <3>1. local.labels[u] = newest[u]
      BY <1>0, <1>1, <2>2 DEF SurviveInv, TermKept, Adopted
    <3>2. Whole(local, u)
      BY <1>0, <2>2 DEF SurviveInv, TermKept
    <3>3. l[u] = newest'[u] /\ (l[u] = {} => legacy[u] = {})
      <4>1. CASE u = t
        BY <1>0, <1>1, <1>4, <4>1 DEF StoresTyped
      <4>2. CASE u # t
        BY <1>0, <1>1, <1>4, <2>2, <3>1, <3>2, <4>2 DEF StoresTyped, Whole, Lost
      <4> QED BY <4>1, <4>2
    <3>4. Whole(local, u)'
      BY <1>1, <1>5, <3>3 DEF Whole, Lost
    <3> QED BY <1>1, <1>5, <2>1, <3>3, <3>4 DEF TermKept, Rewriting
  <2> QED BY <1>1, <2>1, <2>2 DEF SurviveInv, Rewriting
<1> QED BY <1>7, <1>8, <1>9, <1>10


(* Of two stores with the same runs, an advertisement by whom the token speaks    *)
(* for finds its key, or is the first.                                        *)
LEMMA AdvertiseOnce ==
    ASSUME StoresTyped, OnceInv, NEW i, Advertise(i), astray' \/ (~astray /\ i = token)
    PROVE  OnceInv'
<1> SUFFICES ASSUME ~astray, i = token, KeysKnown, OneCall PROVE KeysKnown' /\ OneCall'
  BY DEF OnceInv
<1>1. /\ mode' = mode /\ arg' = arg /\ snapshot' = snapshot /\ token' = token /\ mode = "serving"
      /\ runKeys' = runKeys \cup {[instance |-> i, run |-> RunOf(i)]}
      /\ idem' = idem \cup {RunOf(i)}
      /\ local' = IF RunOf(i) \in idem THEN local
                  ELSE [local EXCEPT !.runs = local.runs \cup {[run |-> RunOf(i), of |-> left.ads]}]
  BY DEF Advertise, Quiet
<1>2. KeysKnown'
  BY <1>1 DEF KeysKnown
<1>3. Files' = Files
  BY <1>1 DEF Files
<1>4. PICK o : \A g \in {local} \cup Files : \A r \in g.runs : runKeys # {} /\ r.of = o
  BY DEF OneCall
<1>5. runKeys' # {}
  BY <1>1
<1>6. CASE runKeys = {}
  <2>1. \A g \in {local} \cup Files : g.runs = {}
    BY <1>4, <1>6
  <2>2. PICK a, b : a = RunOf(i) /\ b = left.ads
    OBVIOUS
  <2>3. \A r \in local'.runs : r.of = b
    <3>1. CASE RunOf(i) \in idem
      BY <1>1, <2>1, <3>1
    <3>2. CASE RunOf(i) \notin idem
      <4>1. local' = [local EXCEPT !.runs = {[run |-> a, of |-> b]}]
        BY <1>1, <2>1, <2>2, <3>2
      <4>2. local'.runs = {[run |-> a, of |-> b]}
        BY <4>1, LocalFields DEF GraphShape
      <4> QED BY <4>2
    <3> QED BY <3>1, <3>2
  <2>4. \A g \in {local'} \cup Files' : \A r \in g.runs : runKeys' # {} /\ r.of = b
    BY <1>3, <1>5, <2>1, <2>3
  <2> QED BY <1>2, <2>4 DEF OneCall
<1>7. CASE runKeys # {}
  <2>1. RunOf(i) \in idem
    <3>1. {k \in runKeys : k.instance = i} = runKeys
      BY DEF KeysKnown
    <3>2. PICK k : k = CHOOSE j \in runKeys : TRUE
      OBVIOUS
    <3>3. k \in runKeys
      BY <1>7, <3>2
    <3>4. RunOf(i) = k.run
      BY <1>7, <3>1, <3>2 DEF RunOf
    <3> QED BY <3>3, <3>4 DEF KeysKnown
  <2>2. local' = local
    BY <1>1, <2>1
  <2>3. \A g \in {local'} \cup Files' : \A r \in g.runs : runKeys' # {} /\ r.of = o
    BY <1>3, <1>4, <1>5, <2>2
  <2> QED BY <1>2, <2>3 DEF OneCall
<1> QED BY <1>6, <1>7

LEMMA AdvertiseKeeps ==
    ASSUME StoresInv, AdvertiseAsToken \/ AdvertiseAsClient
    PROVE  StoresTyped' /\ UsableInv' /\ OnceInv' /\ SurviveInv'
<1>0. StoresTyped /\ UsableInv /\ OnceInv /\ SurviveInv
  BY DEF StoresInv
<1>1. PICK i : /\ Advertise(i) /\ (astray' \/ (~astray /\ i = token))
               /\ astray => astray'
  <2>1. CASE AdvertiseAsToken
    BY <2>1 DEF AdvertiseAsToken
  <2>2. CASE AdvertiseAsClient
    BY <2>2 DEF AdvertiseAsClient
  <2> QED BY <2>1, <2>2
<1>2. /\ mode' = mode /\ arg' = arg
      /\ UNCHANGED <<legacy, newest, snapshot, bundleGraph, lent>>
  BY <1>1 DEF Advertise, Quiet, bundleVars
<1>3. PICK s : local' = [labels |-> local.labels, classed |-> local.classed,
                         concepts |-> local.concepts, marked |-> local.marked, runs |-> s,
                         deployment |-> local.deployment]
  <2>1. PICK g, c, n, m, r, d :
           /\ g = local.labels /\ c = local.classed /\ n = local.concepts /\ m = local.marked
           /\ r = local.runs /\ d = local.deployment
    OBVIOUS
  <2>2. local = [labels |-> g, classed |-> c, concepts |-> n, marked |-> m, runs |-> r, deployment |-> d]
    BY <1>0, <2>1, LocalFields DEF GraphShape
  <2>3. CASE RunOf(i) \in idem
    BY <1>1, <2>1, <2>2, <2>3 DEF Advertise
  <2>4. CASE RunOf(i) \notin idem
    <3>1. PICK s : s = local.runs \cup {[run |-> RunOf(i), of |-> left.ads]}
      OBVIOUS
    <3>2. local' = [local EXCEPT !.runs = s]
      BY <1>1, <2>4, <3>1 DEF Advertise
    <3>3. local' = [labels |-> g, classed |-> c, concepts |-> n, marked |-> m, runs |-> s, deployment |-> d]
      BY <2>2, <3>2
    <3> QED BY <2>1, <3>3
  <2> QED BY <2>3, <2>4
<1>4. PlainTurn /\ NoFurther
  BY <1>2 DEF PlainTurn, NoFurther
<1>5. local'.labels = local.labels /\ local'.concepts = local.concepts
      /\ local'.classed = local.classed
  BY <1>3
<1>6. UsableInv'
  <2>1. Held' = Held
    BY <1>5 DEF Held, Labelled
  <2>2. GraphUsable(local)'
    BY <1>0, <1>5, <2>1 DEF UsableInv, GraphUsable, Held
  <2>3. mode' \in Classed => HeldClassed'
    BY <1>0, <1>2, <1>4, <1>5, ClassesStay DEF UsableInv, NoFurther
  <2> QED BY <1>0, <1>2, <1>4, <2>2, <2>3, UsableUntouched
<1>7. OnceInv'
  BY <1>0, <1>1, AdvertiseOnce
<1>8. StoresTyped' /\ SurviveInv'
  BY <1>0, <1>1, <1>2, <1>3, <1>4, FieldKeeps DEF NoFurther
<1> QED BY <1>6, <1>7, <1>8

LEMMA SnapshotKeeps ==
    ASSUME StoresInv, Snapshot
    PROVE  StoresTyped' /\ UsableInv' /\ OnceInv' /\ SurviveInv'
<1>0. StoresTyped /\ UsableInv /\ OnceInv /\ SurviveInv /\ base \in Base
  BY DEF StoresInv, BundlesInv, BundlesTyped
<1>1. PICK q : q = RenamedGraph(local)
  OBVIOUS
<1>2. /\ mode = "snapshot" /\ mode' \in {"graph", "clear"}
      /\ arg'.old = arg.old /\ arg'.quads = q
      /\ snapshot' = (IF Lost THEN snapshot ELSE {}) \cup {local}
      /\ UnderOld
      /\ UNCHANGED <<local, legacy, newest, astray>> /\ UNCHANGED opsVars
  BY <1>1 DEF Snapshot, Rebasing, Turn, Kept, histVars
<1>3. arg.old \in Base /\ GraphShape(local) /\ GraphUsable(local)
  BY <1>0, <1>2 DEF StoresTyped, Rebase, UsableInv
<1>4. /\ GraphShape(q)
      /\ q.labels = local.labels /\ q.classed = local.classed /\ q.concepts = local.concepts
      /\ q.deployment = Nothing <=> local.deployment = Nothing
      /\ \A r \in q.runs : \E s \in local.runs : r.of = s.of
  BY <1>0, <1>1, <1>3, RenamedFields
<1>5. Files' \subseteq {local, q} \cup Files
  BY <1>2 DEF Files, Rewriting
<1>6. StoresTyped'
  <2>1. \A g \in {local'} \cup Files' : GraphShape(g)
    BY <1>0, <1>2, <1>3, <1>4, <1>5 DEF StoresTyped
  <2> QED BY <1>0, <1>2, <1>3, <2>1 DEF StoresTyped, GraphShape
<1>7. UsableInv'
  <2>1. GraphUsable(q)
    BY <1>3, <1>4 DEF GraphUsable
  <2>2. \A g \in {local'} \cup Files' : GraphUsable(g)
    BY <1>0, <1>2, <1>3, <1>5, <2>1 DEF UsableInv
  <2> QED BY <1>2, <2>2 DEF UsableInv, GraphUsable, Labelled, Classed
<1>8. OnceInv'
  <2> SUFFICES ASSUME KeysKnown, OneCall PROVE KeysKnown' /\ OneCall'
    BY <1>0, <1>2 DEF OnceInv
  <2>1. KeysKnown'
    BY <1>2 DEF KeysKnown, opsVars
  <2>2. PICK o : \A g \in {local} \cup Files : \A r \in g.runs : runKeys # {} /\ r.of = o
    BY DEF OneCall
  <2>3. \A r \in q.runs : runKeys # {} /\ r.of = o
    BY <1>4, <2>2
  <2>4. \A g \in {local'} \cup Files' : \A r \in g.runs : runKeys' # {} /\ r.of = o
    BY <1>2, <1>5, <2>2, <2>3 DEF opsVars
  <2> QED BY <2>1, <2>4 DEF OneCall
<1>9. SurviveInv'
  <2> SUFFICES ASSUME ~astray PROVE SurviveInv'
    BY <1>2 DEF SurviveInv
  <2>1. Lost' <=> Lost
    BY <1>2 DEF Lost
  <2>2. ASSUME NEW t \in Term, Private(t) PROVE TermKept(t)'
    <3>1. Whole(local, t) /\ (Lost => \A f \in snapshot : Whole(f, t))
      BY <1>0, <2>2 DEF SurviveInv, TermKept
    <3>2. Whole(q, t)
      BY <1>4, <3>1 DEF Whole
    <3>3. Whole(local, t)' /\ Whole(arg.quads, t)'
      BY <1>2, <3>1, <3>2 DEF Whole
    <3>4. \A f \in snapshot' : Whole(f, t)
      BY <1>2, <3>1
    <3>5. \A f \in snapshot' : Whole(f, t)'
      BY <1>2, <3>4 DEF Whole
    <3> QED BY <1>2, <3>3, <3>5 DEF TermKept, Adopted
  <2>3. \E f \in snapshot' : f.deployment # Nothing
    BY <1>0, <1>2 DEF SurviveInv, Lost
  <2> QED BY <2>2, <2>3 DEF SurviveInv
<1> QED BY <1>6, <1>7, <1>8, <1>9


LEMMA WriteBackKeeps ==
    ASSUME StoresInv, RewriteGraph \/ InsertGraph
    PROVE  StoresTyped' /\ UsableInv' /\ OnceInv' /\ SurviveInv'
<1>0. StoresTyped /\ UsableInv /\ OnceInv /\ SurviveInv
  BY DEF StoresInv
<1>1. /\ mode \in {"graph", "insert"} /\ mode' = "database"
      /\ arg'.old = arg.old /\ local' = arg.quads
      /\ UNCHANGED <<legacy, newest, astray, snapshot>> /\ UNCHANGED opsVars
  BY DEF RewriteGraph, InsertGraph, Rebasing, Turn, histVars
<1>2. arg.quads \in Files
  BY <1>1 DEF Files, Rewriting
<1>3. Files' \subseteq Files /\ PlainTurn
  <2>1. arg.old \in Base
    BY <1>0, <1>1 DEF StoresTyped, Rebase
  <2> QED BY <1>1, <2>1 DEF Files, Rewriting, PlainTurn
<1>4. StoresTyped'
  <2>1. GraphShape(local')
    BY <1>0, <1>1, <1>2 DEF StoresTyped
  <2>2. GraphShape(local)'
    BY <2>1 DEF GraphShape
  <2> QED BY <1>0, <1>1, <1>3, <2>2, TypedUntouched DEF StoresTyped
<1>5. UsableInv'
  <2>1. GraphUsable(local')
    BY <1>0, <1>1, <1>2 DEF UsableInv
  <2>2. GraphUsable(local)'
    BY <2>1 DEF GraphUsable, Labelled
  <2> QED BY <1>0, <1>1, <1>3, <2>2, UsableUntouched DEF Classed
<1>6. OnceInv'
  <2> SUFFICES ASSUME KeysKnown, OneCall PROVE KeysKnown' /\ OneCall'
    BY <1>0, <1>1 DEF OnceInv
  <2>1. KeysKnown'
    BY <1>1 DEF KeysKnown, opsVars
  <2>2. PICK o : \A g \in {local} \cup Files : \A r \in g.runs : runKeys # {} /\ r.of = o
    BY DEF OneCall
  <2>3. \A g \in {local'} \cup Files' : \A r \in g.runs : runKeys' # {} /\ r.of = o
    BY <1>1, <1>2, <1>3, <2>2 DEF opsVars
  <2> QED BY <2>1, <2>3 DEF OneCall
<1>7. SurviveInv'
  <2> SUFFICES ASSUME ~astray PROVE SurviveInv'
    BY <1>1 DEF SurviveInv
  <2>0. PICK q : q = arg.quads
    OBVIOUS
  <2>1. CASE Lost'
    <3>1. mode \in Rewriting
      BY <1>1 DEF Rewriting
    <3>2. ASSUME NEW t \in Term, Private(t) PROVE TermKept(t)'
      <4>1. Whole(q, t) /\ \A f \in snapshot : Whole(f, t)
        BY <1>0, <2>0, <3>1, <3>2 DEF SurviveInv, TermKept
      <4>2. Whole(local, t)' /\ \A f \in snapshot' : Whole(f, t)'
        BY <1>1, <2>0, <4>1 DEF Whole
      <4> QED BY <1>1, <4>2 DEF TermKept, Rewriting, Adopted
    <3> QED BY <1>0, <1>1, <3>1, <3>2 DEF SurviveInv
  <2>2. CASE ~Lost'
    <3>1. ASSUME NEW t \in Term, Private(t) PROVE TermKept(t)'
      <4>1. Whole(q, t)
        BY <1>0, <1>1, <2>0, <3>1 DEF SurviveInv, TermKept, Rewriting
      <4>2. Whole(local, t)'
        BY <1>1, <2>0, <4>1 DEF Whole
      <4> QED BY <1>1, <2>2, <4>2 DEF TermKept, Rewriting, Adopted
    <3> QED BY <1>1, <2>2, <3>1 DEF SurviveInv, Rewriting
  <2> QED BY <2>1, <2>2
<1> QED BY <1>4, <1>5, <1>6, <1>7

LEMMA ClearKeeps ==
    ASSUME StoresInv, ClearGraph
    PROVE  StoresTyped' /\ UsableInv' /\ OnceInv' /\ SurviveInv'
<1>0. StoresTyped /\ UsableInv /\ OnceInv /\ SurviveInv
  BY DEF StoresInv
<1>1. /\ mode = "clear" /\ mode' = "insert"
      /\ arg'.old = arg.old /\ arg'.quads = arg.quads
      /\ UNCHANGED <<legacy, newest, astray, snapshot>> /\ UNCHANGED opsVars
  BY DEF ClearGraph, Rebasing, Turn, histVars
<1>2. local' = [labels |-> Unlabelled, classed |-> {}, concepts |-> {}, marked |-> {},
                runs |-> {}, deployment |-> Nothing]
  BY DEF ClearGraph, Graph
<1>3. Files' = Files /\ Unlabelled \in [Term -> SUBSET Label]
  BY <1>1 DEF Files, Rewriting, Unlabelled
<1>4. StoresTyped'
  <2>1. GraphShape(local')
    BY <1>2, <1>3, GraphShapeFacts
  <2>2. arg.old \in Base
    BY <1>0, <1>1 DEF StoresTyped, Rebase
  <2>3. \A g \in {local'} \cup Files' : GraphShape(g)
    BY <1>0, <1>3, <2>1 DEF StoresTyped
  <2> QED BY <1>0, <1>1, <2>2, <2>3 DEF StoresTyped, GraphShape
<1>5. UsableInv'
  <2>1. \A g \in {local'} \cup Files' : GraphUsable(g)
    BY <1>0, <1>2, <1>3 DEF UsableInv, GraphUsable
  <2> QED BY <1>1, <2>1 DEF UsableInv, GraphUsable, Labelled, Classed
<1>6. OnceInv'
  <2> SUFFICES ASSUME KeysKnown, OneCall PROVE KeysKnown' /\ OneCall'
    BY <1>0, <1>1 DEF OnceInv
  <2>1. KeysKnown'
    BY <1>1 DEF KeysKnown, opsVars
  <2>2. PICK o : \A g \in {local} \cup Files : \A r \in g.runs : runKeys # {} /\ r.of = o
    BY DEF OneCall
  <2>3. local'.runs = {}
    BY <1>2
  <2>4. \A g \in {local'} \cup Files' : \A r \in g.runs : runKeys' # {} /\ r.of = o
    BY <1>1, <1>3, <2>2, <2>3 DEF opsVars
  <2> QED BY <2>1, <2>4 DEF OneCall
<1>7. SurviveInv'
  <2> SUFFICES ASSUME ~astray PROVE SurviveInv'
    BY <1>1 DEF SurviveInv
  <2>1. local'.deployment = Nothing /\ \A t \in Term : local'.labels[t] = {}
    BY <1>2 DEF Unlabelled
  <2>2. ASSUME NEW t \in Term, Private(t) PROVE TermKept(t)'
    <3>1. Whole(arg.quads, t) /\ \A f \in snapshot : Whole(f, t)
      BY <1>0, <1>1, <2>2 DEF SurviveInv, TermKept, Rewriting
    <3>2. Whole(local, t)'
      BY <2>1, <2>2 DEF Whole
    <3>3. Whole(arg.quads, t)' /\ \A f \in snapshot' : Whole(f, t)'
      BY <1>1, <3>1 DEF Whole
    <3> QED BY <1>1, <3>2, <3>3 DEF TermKept, Rewriting, Adopted
  <2>3. \E f \in snapshot : f.deployment # Nothing
    BY <1>0, <1>1 DEF SurviveInv, Rewriting
  <2> QED BY <1>1, <2>2, <2>3 DEF SurviveInv
<1> QED BY <1>4, <1>5, <1>6, <1>7

LEMMA DatabaseKeeps ==
    ASSUME StoresInv, RebaseDatabase
    PROVE  StoresTyped' /\ UsableInv' /\ OnceInv' /\ SurviveInv'
<1>0. StoresTyped /\ UsableInv /\ OnceInv /\ SurviveInv
  BY DEF StoresInv
<1>1. /\ mode' = "off"
      /\ token' = Renamed(token)
      /\ runKeys' = {[instance |-> Renamed(k.instance), run |-> RenamedRun(k.run)] : k \in runKeys}
      /\ idem' = {RenamedRun(r) : r \in idem}
      /\ UNCHANGED <<local, legacy, newest, snapshot, astray>>
  BY DEF RebaseDatabase, Turn, OPS_COLUMNS, graphVars, histVars
<1>2. PlainTurn /\ NoFurther
  BY <1>1 DEF PlainTurn, NoFurther, Rewriting, Rebase, Classed, Adopted
<1>3. StoresTyped'
  <2>1. GraphShape(local)'
    BY <1>0, <1>1 DEF StoresTyped, GraphShape
  <2> QED BY <1>0, <1>1, <1>2, <2>1, TypedUntouched DEF StoresTyped
<1>4. UsableInv'
  <2>1. GraphUsable(local)'
    BY <1>0, <1>1 DEF UsableInv, GraphUsable, Labelled
  <2> QED BY <1>0, <1>1, <1>2, <2>1, UsableUntouched DEF Classed
<1>5. OnceInv'
  <2> SUFFICES ASSUME KeysKnown, OneCall PROVE KeysKnown' /\ OneCall'
    BY <1>0, <1>1 DEF OnceInv
  <2>1. KeysKnown'
    BY <1>1 DEF KeysKnown
  <2>2. PICK o : \A g \in {local} \cup Files : \A r \in g.runs : runKeys # {} /\ r.of = o
    BY DEF OneCall
  <2>3. Files' \subseteq Files
    BY <1>1, <1>2, FilesShrink
  <2>4. runKeys # {} => runKeys' # {}
    BY <1>1
  <2>5. \A g \in {local'} \cup Files' : \A r \in g.runs : runKeys' # {} /\ r.of = o
    BY <1>1, <2>2, <2>3, <2>4
  <2> QED BY <2>1, <2>5 DEF OneCall
<1>6. SurviveInv'
  BY <1>0, <1>1, <1>2, SurviveUntouched DEF NoFurther
<1> QED BY <1>3, <1>4, <1>5, <1>6

LEMMA RestoreKeeps ==
    ASSUME StoresInv, Restore
    PROVE  StoresTyped' /\ UsableInv' /\ OnceInv' /\ SurviveInv'
<1>0. StoresTyped /\ UsableInv /\ OnceInv /\ SurviveInv
  BY DEF StoresInv
<1>1. PICK f \in snapshot :
          local' = [labels |-> [t \in Term |-> local.labels[t] \cup f.labels[t]],
                    classed |-> local.classed \cup f.classed,
                    concepts |-> local.concepts \cup f.concepts,
                    marked |-> local.marked \cup f.marked,
                    runs |-> local.runs \cup f.runs, deployment |-> f.deployment]
  BY DEF Restore
<1>2. /\ mode = "serving" /\ Lost /\ mode' = "off"
      /\ UNCHANGED <<legacy, newest, snapshot, astray>> /\ UNCHANGED opsVars
  BY DEF Restore, Turn, histVars
<1> DEFINE l == [t \in Term |-> local.labels[t] \cup f.labels[t]]
<1>3. PICK c, n, m, r : /\ c = local.classed \cup f.classed /\ n = local.concepts \cup f.concepts
                        /\ m = local.marked \cup f.marked /\ r = local.runs \cup f.runs
  OBVIOUS
<1>4. /\ GraphShape(local) /\ GraphShape(f) /\ f \in Files
      /\ GraphUsable(local) /\ GraphUsable(f)
  BY <1>0 DEF StoresTyped, UsableInv, Files
<1>5. l \in [Term -> SUBSET Label] /\ \A t \in Term : l[t] = local.labels[t] \cup f.labels[t]
  BY <1>4 DEF GraphShape
<1>6. local' = [labels |-> l, classed |-> c, concepts |-> n, marked |-> m, runs |-> r,
                deployment |-> f.deployment]
  BY <1>1, <1>3
<1> HIDE DEF l
<1>7. /\ local'.labels = l /\ local'.classed = c /\ local'.concepts = n
      /\ local'.runs = r /\ local'.deployment = f.deployment
  BY <1>6
<1>8. PlainTurn /\ NoFurther
  BY <1>2 DEF PlainTurn, NoFurther, Rewriting, Rebase, Classed, Adopted
<1>9. StoresTyped'
  <2>1. f.deployment \in Base \cup {Nothing}
    BY <1>4 DEF GraphShape
  <2>2. GraphShape(local')
    BY <1>5, <1>6, <2>1, GraphShapeFacts
  <2>3. GraphShape(local)'
    BY <2>2 DEF GraphShape
  <2> QED BY <1>0, <1>2, <1>8, <2>3, TypedUntouched DEF StoresTyped
<1>10. UsableInv'
  <2>1. GraphUsable(local)'
    BY <1>3, <1>4, <1>5, <1>7 DEF GraphUsable, Labelled
  <2> QED BY <1>0, <1>2, <1>8, <2>1, UsableUntouched DEF Classed
<1>11. OnceInv'
  <2> SUFFICES ASSUME KeysKnown, OneCall PROVE KeysKnown' /\ OneCall'
    BY <1>0, <1>2 DEF OnceInv
  <2>1. KeysKnown'
    BY <1>2 DEF KeysKnown, opsVars
  <2>2. PICK o : \A g \in {local} \cup Files : \A s \in g.runs : runKeys # {} /\ s.of = o
    BY DEF OneCall
  <2>3. \A s \in local'.runs : runKeys # {} /\ s.of = o
    BY <1>3, <1>4, <1>7, <2>2
  <2>4. Files' \subseteq Files
    BY <1>2, <1>8, FilesShrink
  <2>5. \A g \in {local'} \cup Files' : \A s \in g.runs : runKeys' # {} /\ s.of = o
    BY <1>2, <2>2, <2>3, <2>4 DEF opsVars
  <2> QED BY <2>1, <2>5 DEF OneCall
<1>12. SurviveInv'
  <2> SUFFICES ASSUME ~astray PROVE SurviveInv'
    BY <1>2 DEF SurviveInv
  <2>1. ASSUME NEW t \in Term, Private(t) PROVE TermKept(t)'
    <3>1. Whole(local, t) /\ \A g \in snapshot : Whole(g, t)
      BY <1>0, <1>2, <2>1 DEF SurviveInv, TermKept
    <3>2. local.labels[t] = {} /\ Whole(f, t)
      BY <1>2, <3>1 DEF Whole, Lost
    <3>3. l[t] = f.labels[t]
      BY <1>5, <2>1, <3>2
    <3>4. Whole(local, t)'
      BY <1>2, <1>7, <3>2, <3>3 DEF Whole
    <3>5. \A g \in snapshot' : Whole(g, t)'
      BY <1>2, <3>1 DEF Whole
    <3> QED BY <1>2, <3>4, <3>5 DEF TermKept, Rewriting, Adopted
  <2>2. \E g \in snapshot' : g.deployment # Nothing
    BY <1>0, <1>2 DEF SurviveInv
  <2> QED BY <2>1, <2>2 DEF SurviveInv
<1> QED BY <1>9, <1>10, <1>11, <1>12


(* The steps between two requests that leave the local graph, its files and the    *)
(* database alone.                                                           *)
LEMMA PlainSteps ==
    ASSUME StoresInv,
           \/ UNCHANGED startupVars \/ Stop \/ Reconfigure \/ Boot \/ Synced \/ NothingUnderOld
           \/ \E b \in Bundle : SkipBundle(b) \/ DropBundle(b) \/ LoadBundle(b) \/ RecordDigest(b)
           \/ \E old \in Base : StartRebase(old)
    PROVE  StoresTyped' /\ UsableInv' /\ OnceInv' /\ SurviveInv'
<1> USE DEF histVars
<1>1. ASSUME UNCHANGED <<graphVars, opsVars, astray>>, PlainTurn, NoFurther,
             mode' \in Classed => UNCHANGED <<bundleGraph, lent>>
      PROVE  StoresTyped' /\ UsableInv' /\ OnceInv' /\ SurviveInv'
  BY <1>1, StoresUntouched
<1>2. CASE UNCHANGED startupVars
  BY <1>1, <1>2 DEF startupVars, bundleVars, PlainTurn, NoFurther
<1>3. CASE Stop
  BY <1>1, <1>3 DEF Stop, Turn, PlainTurn, NoFurther, Rewriting, Rebase, Classed, Adopted
<1>4. CASE Reconfigure
  <2>1. UNCHANGED <<mode, arg, bundleGraph, lent>> /\ UNCHANGED <<graphVars, opsVars, astray>>
    BY <1>4 DEF Reconfigure, bundleVars
  <2> QED BY <1>1, <2>1 DEF PlainTurn, NoFurther
<1>5. CASE Boot
  BY <1>1, <1>5 DEF Boot, Turn, PlainTurn, NoFurther, Rewriting, Rebase, Classed, Adopted
<1>6. CASE Synced
  BY <1>1, <1>6
  DEF Synced, Migrate, AfterMigration, Turn, PlainTurn, NoFurther, Rewriting, Rebase, Classed,
      Adopted, graphVars
<1>7. ASSUME NEW b \in Bundle, SkipBundle(b) \/ DropBundle(b) \/ LoadBundle(b) \/ RecordDigest(b)
      PROVE  StoresTyped' /\ UsableInv' /\ OnceInv' /\ SurviveInv'
  <2>1. UNCHANGED <<graphVars, opsVars, astray>>
    BY <1>7 DEF SkipBundle, DropBundle, LoadBundle, RecordDigest, WriteStep
  <2>2. mode' \in {"sync", "load", "record"}
    BY <1>7 DEF SkipBundle, DropBundle, LoadBundle, RecordDigest, WriteStep, Follows, Turn
  <2> QED BY <1>1, <2>1, <2>2 DEF PlainTurn, NoFurther, Rewriting, Rebase, Classed, Adopted
<1>8. ASSUME NEW old \in Base, StartRebase(old)
      PROVE  StoresTyped' /\ UsableInv' /\ OnceInv' /\ SurviveInv'
  <2>1. UNCHANGED <<graphVars, opsVars, astray>> /\ mode' = "snapshot" /\ arg'.old = old
    BY <1>8 DEF StartRebase, Turn
  <2> QED BY <1>1, <1>8, <2>1 DEF PlainTurn, NoFurther, Rewriting, Rebase, Classed, Adopted
<1>9. CASE NothingUnderOld
  <2>1. /\ UNCHANGED <<graphVars, opsVars, astray>>
        /\ mode = "snapshot" /\ mode' = "database" /\ arg'.old = arg.old
    BY <1>9 DEF NothingUnderOld, Rebasing, Turn, graphVars
  <2>2. arg.old \in Base
    BY <2>1 DEF StoresInv, StoresTyped, Rebase
  <2> QED BY <1>1, <2>1, <2>2 DEF PlainTurn, NoFurther, Rewriting, Rebase, Classed, Adopted
<1> QED BY <1>2, <1>3, <1>4, <1>5, <1>6, <1>7, <1>8, <1>9

LEMMA StoresStep == StoresInv /\ [Progress \/ End]_startupVars => StoresInv'
<1> SUFFICES ASSUME StoresInv, [Progress \/ End]_startupVars PROVE StoresInv'
  OBVIOUS
<1>1. BundlesInv' /\ ContentsInv'
  BY BundlesStep, ContentsStep DEF StoresInv
<1>2. StoresTyped' /\ UsableInv' /\ OnceInv' /\ SurviveInv'
  <2>1. CASE \/ UNCHANGED startupVars \/ Stop \/ Reconfigure \/ Boot \/ Synced \/ NothingUnderOld
             \/ \E b \in Bundle : SkipBundle(b) \/ DropBundle(b) \/ LoadBundle(b) \/ RecordDigest(b)
             \/ \E old \in Base : StartRebase(old)
    BY <2>1, PlainSteps
  <2>2. CASE \/ adopt_legacy_vocab_graph \/ drop_legacy_graph \/ class_existing_types
             \/ drop_branch_markers \/ unclaim_series_concepts
    BY <2>2, AdoptKeeps, DropLegacyKeeps, ClassKeeps, MarkersKeeps, SeriesKeeps
  <2>3. CASE \E t \in Term, label \in Label : RegisterTerm(t, label)
    BY <2>3, RegisterKeeps
  <2>4. CASE AdvertiseAsToken \/ AdvertiseAsClient
    BY <2>4, AdvertiseKeeps
  <2>5. CASE Snapshot \/ RewriteGraph \/ ClearGraph \/ InsertGraph \/ RebaseDatabase \/ Restore
    BY <2>5, SnapshotKeeps, WriteBackKeeps, ClearKeeps, DatabaseKeeps, RestoreKeeps
  <2> QED BY <2>1, <2>2, <2>3, <2>4, <2>5 DEF Progress, End
<1> QED BY <1>1, <1>2 DEF StoresInv

LEMMA StoresAlways == ProcessSpec => []StoresInv
<1>1. ProcessInit => StoresInv
  BY StoresInit DEF ProcessInit
<1>2. StoresInv /\ [ProcessNext]_processVars => StoresInv'
  BY StoresStep, ProcessSteps
<1> QED BY <1>1, <1>2, PTL DEF ProcessSpec

-----------------------------------------------------------------------------
(* The theorems.                                                             *)

(* Whatever builds and bases follow on each other, and however starts, renamings    *)
(* and restorations were interrupted, no term of a registry that serves is without  *)
(* a concept class: one that was left to a bundle or a peer that no longer gives it  *)
(* one gets it in the next start, before anything is served; and no version series  *)
(* has one (class_existing_types, is_a_record_that_is_not_a_type, load_vocab).   *)
THEOREM TermsAlwaysClassed == ProcessSpec => []TermsClassed
<1>1. StoresInv => TermsClassed
  BY DEF StoresInv, UsableInv, GraphUsable, HeldClassed, TermsClassed, Classed, Held
<1> QED BY <1>1, StoresAlways, PTL

(* A term that no bundle has is never lost: it is in the local or the retired      *)
(* graph with the label it was last given, or the rebase that lost the local      *)
(* graph left it in a file; and a registry that serves its own graph shows that    *)
(* label and no other, unless it was written to while its graph was lost          *)
(* (adopt_legacy_vocab_graph, rebase::run, snapshot).                          *)
THEOREM TermsAlwaysSurvive == ProcessSpec => []TermsSurvive
<1>1. ASSUME StoresInv PROVE TermsSurvive
  <2> SUFFICES ASSUME NEW t \in Labelled(newest), Private(t), ~astray
               PROVE  /\ \/ newest[t] \subseteq local.labels[t] \cup legacy[t]
                         \/ Lost /\ \E f \in snapshot : newest[t] \subseteq f.labels[t]
                      /\ mode = "serving" /\ ~Lost => local.labels[t] = newest[t]
    BY DEF TermsSurvive, Private
  <2>1. t \in Term
    BY DEF Labelled
  <2>2. TermKept(t) /\ (Lost => \E f \in snapshot : f.deployment # Nothing)
    BY <1>1, <2>1 DEF StoresInv, SurviveInv
  <2>3. CASE Lost
    <3>1. PICK f \in snapshot : f.deployment # Nothing
      BY <2>2, <2>3
    <3>2. newest[t] \subseteq f.labels[t] \cup legacy[t] /\ (f.labels[t] # {} => newest[t] = f.labels[t])
          /\ (f.labels[t] = {} => newest[t] = legacy[t])
      BY <2>2, <2>3, <3>1 DEF TermKept, Whole
    <3> QED BY <2>3, <3>2
  <2>4. CASE ~Lost
    <3>1. newest[t] = IF local.labels[t] # {} THEN local.labels[t] ELSE legacy[t]
      BY <2>2, <2>4 DEF TermKept, Whole, Lost
    <3>2. mode = "serving" => local.labels[t] = newest[t]
      BY <2>2, <2>4 DEF TermKept, Adopted
    <3> QED BY <3>1, <3>2
  <2> QED BY <2>3, <2>4
<1> QED BY <1>1, StoresAlways, PTL

(* An advertisement and its retries, before and after the registry is renamed,    *)
(* are applied by one call, however often a rebase is interrupted and run again,   *)
(* unless an OIDC client was served between its two halves                      *)
(* (rebase::run, OPS_COLUMNS, claim_advertisement).                            *)
THEOREM AlwaysAppliedOnce == ProcessSpec => []AppliedOnce
<1>1. ASSUME StoresInv PROVE AppliedOnce
  <2> SUFFICES ASSUME ~astray PROVE Cardinality({r.of : r \in local.runs}) <= 1
    BY DEF AppliedOnce
  <2>1. PICK o : \A r \in local.runs : r.of = o
    BY <1>1 DEF StoresInv, OnceInv, OneCall
  <2> DEFINE ofs == {r.of : r \in local.runs}
  <2>2. ofs = {} \/ ofs = {o}
    BY <2>1
  <2>3. Cardinality({}) = 0 /\ Cardinality({o}) = 1
    BY FS_EmptySet, FS_Singleton
  <2>4. \/ Cardinality(ofs) = 0 \/ Cardinality(ofs) = 1
    BY <2>2, <2>3
  <2> HIDE DEF ofs
  <2>5. Cardinality(ofs) <= 1
    BY ONLY <2>4
  <2> QED BY <2>5 DEF ofs
<1> QED BY <1>1, StoresAlways, PTL


=============================================================================
