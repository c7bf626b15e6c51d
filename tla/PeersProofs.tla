---------------------------- MODULE PeersProofs ----------------------------
(***************************************************************************)
(* Proofs about Peers: its types, that a peer keeps its id, that a tracked   *)
(* stub is kept, and that record_count is not inflated.                      *)
(*                                                                         *)
(* RowInv follows the copies of a peer's row, StubInv what a fetch keeps and  *)
(* deletes, GraphInv what is in a peer's graph.  CountInv strengthens         *)
(* RecordCountNotInflated: no copy of a row counts more than was fetched, and *)
(* a fetch about to write the count it read plus one holds a stub that count  *)
(* does not cover.                                                          *)
(***************************************************************************)
EXTENDS Peers, FiniteSetTheorems, SequenceTheorems, TLAPS
-----------------------------------------------------------------------------
(* Types.                                                                    *)

Row == [id : Id \cup {None}, state : {"none", "active", "suggested"},
        status : {"unknown", "ok", "error"}, count : Nat]
AdminType == [pc : {"idle", "upsert", "suggest", "put", "drop", "delete"},
              base : Base \cup {None}, row : Row, todo : SUBSET Base]
FetchPc == {"idle", "get", "failed", "failed contact", "leftovers", "apply", "track", "mark",
            "count"}
FetchType == [pc : FetchPc, iri : Iri \cup {None}, peer : Row, todo : SUBSET Iri,
              leftovers : SUBSET Iri, stub : SUBSET Iri, cached : BOOLEAN]

(* A row that is one: its id is of its base.                                 *)
OfBase(row, b) == b \in Base /\ row.id \in Id /\ row.id[1] = b

TypeOK ==
    /\ peers \in [Base -> Row]
    /\ minted \in [Base -> Nat]
    /\ queue \in [Iri -> {"none", "pending", "resolved", "failed"}]
    /\ due \in Seq(Resolvable)
    /\ graph \in SUBSET ((Id \cup {Unknown}) \X Iri)
    /\ admin \in [Admin -> AdminType]
    /\ announced \in [Announcer -> [base : Base \cup {None}, row : Row]]
    /\ fetch \in [Fetcher -> FetchType]
    /\ batch \in Seq(Resolvable)
    /\ dropped \in SUBSET Id
    /\ missed \in SUBSET Iri
    /\ resolves \in Nat /\ faults \in Nat

(* A row of the table, on its way to it, or read from it has an id of its      *)
(* base; a fetch is of an IRI of the base of the peer it read, if any.        *)
RowInv ==
    /\ \A b \in Base : Known(b) => OfBase(peers[b], b)
    /\ \A m \in Admin :
          /\ admin[m].pc \in {"upsert", "put"} => OfBase(admin[m].row, admin[m].base)
          /\ admin[m].pc \in {"drop", "delete"} => admin[m].row.id \in Id
    /\ \A n \in Announcer :
          announced[n] # NoAnnounce => OfBase(announced[n].row, announced[n].base)
    /\ \A f \in Fetcher :
          /\ fetch[f].pc # "idle" => fetch[f].iri \in Resolvable
          /\ fetch[f].peer # NoPeer => OfBase(fetch[f].peer, BaseOf[fetch[f].iri])

(* What a fetch keeps of a document is the record at the IRI or nothing; what  *)
(* it is about to delete besides was not tracked when it asked.              *)
StubInv ==
    \A f \in Fetcher :
        /\ fetch[f].leftovers \subseteq missed
        /\ fetch[f].pc \in {"leftovers", "apply"} =>
              \/ fetch[f].stub = {fetch[f].iri}
              \/ fetch[f].stub = {} /\ fetch[f].iri \in missed

(* A stub is in the graph of the peer its IRI is of.                         *)
GraphInv ==
    /\ IsFiniteSet(graph)
    /\ \A x \in graph : x[1] # Unknown => BaseOf[x[2]] = x[1][1]
    /\ \A x \in graph : x[1] # Unknown => x \in CachedAtStart \/ x[2] \in Resolvable

(* A peer nothing was taken from; the stubs fetched for it.                  *)
Sound(id) ==
    id \in Id /\ id \notin dropped /\ \A i \in missed \cap Resolvable : BaseOf[i] # id[1]
Stubs(id) == {x \in graph \ CachedAtStart : x[1] = id}
Honest(row) == Sound(row.id) => row.count <= Cardinality(Stubs(row.id))

(* What was in the graph of a sound peer at the start is there still, if it is *)
(* asked for at all.                                                         *)
CachedKept == \A x \in CachedAtStart : Sound(x[1]) /\ x[2] \in Resolvable => x \in graph

(* A fetch that will add one to the count it read does so for a stub that the  *)
(* count does not cover; the stub is in the graph once it was written.         *)
Counting(x) ==
    LET own == <<x.peer.id, x.iri>>
    IN  Sound(x.peer.id) =>
          /\ x.pc \in {"apply", "track", "mark", "count"} /\ ~x.cached =>
                /\ own \notin CachedAtStart
                /\ x.peer.count + 1 <= Cardinality(Stubs(x.peer.id) \cup {own})
          /\ x.pc \in {"track", "mark", "count"} => own \in graph

(* No copy of a row counts more than was fetched.                             *)
CountInv ==
    /\ CachedKept
    /\ \A b \in Base : Honest(peers[b])
    /\ \A m \in Admin : Honest(admin[m].row)
    /\ \A n \in Announcer : Honest(announced[n].row)
    /\ \A f \in Fetcher : Honest(fetch[f].peer) /\ Counting(fetch[f])


-----------------------------------------------------------------------------
(* Type correctness.                                                         *)

(* The queue starts with what is cited.                                      *)
LEMMA DueAtStart == SetToSeq(Cited) \in Seq(Resolvable)
<1> DEFINE n == Cardinality(Cited)
<1>1. n \in Nat /\ ExistsBijection(1..n, Cited)
  BY FS_CardinalityType, PeerAssumption
<1>2. \E f \in [1..n -> Cited] : IsInjective(f)
  BY <1>1 DEF ExistsBijection, Bijection, Injection, IsInjective
<1>3. SetToSeq(Cited) \in [1..n -> Cited]
  BY <1>2 DEF SetToSeq
<1>4. Cited \subseteq Resolvable
  BY PeerAssumption
<1> HIDE DEF n
<1>5. SetToSeq(Cited) \in [1..n -> Resolvable]
  BY <1>3, <1>4
<1> QED BY <1>1, <1>5

(* Fields of rows.                                                           *)
LEMMA RowFields ==
    /\ NoPeer \in Row /\ NoPeer.id = None /\ NoPeer.count = 0
    /\ \A row \in Row : row.id \in Id \cup {None} /\ row.count \in Nat
BY DEF Row, NoPeer

LEMMA RowMade ==
    ASSUME NEW id \in Id \cup {None}, NEW st \in {"none", "active", "suggested"},
           NEW s \in {"unknown", "ok", "error"}, NEW c \in Nat
    PROVE  /\ PeerRow(id, st, s, c) \in Row
           /\ PeerRow(id, st, s, c).id = id /\ PeerRow(id, st, s, c).count = c
BY DEF Row, PeerRow

Updated(old, row) == PeerRow(old.id, row.state, row.status, old.count)
Noted(row, s) == [row EXCEPT !.status = s]
Counted(row, c) == [row EXCEPT !.count = c]

LEMMA RowUpdated ==
    ASSUME NEW old \in Row, NEW row \in Row
    PROVE  /\ Updated(old, row) \in Row
           /\ Updated(old, row).id = old.id /\ Updated(old, row).count = old.count
BY DEF Row, PeerRow, Updated

LEMMA RowNoted ==
    ASSUME NEW row \in Row, NEW s \in {"unknown", "ok", "error"}
    PROVE  Noted(row, s) \in Row /\ Noted(row, s).id = row.id /\ Noted(row, s).count = row.count
BY DEF Row, Noted

LEMMA RowCounted ==
    ASSUME NEW row \in Row, NEW c \in Nat
    PROVE  Counted(row, c) \in Row /\ Counted(row, c).id = row.id /\ Counted(row, c).count = c
BY DEF Row, Counted

(* No id stands for no peer.                                                 *)
LEMMA IdFacts ==
    /\ None \notin Id /\ Unknown \notin Id /\ MaxIds \in Nat \ {0}
    /\ \A b \in Base, n \in 1..MaxIds : <<b, n>> \in Id /\ <<b, n>>[1] = b
    /\ \A id \in Id : id[1] \in Base
    /\ \A b \in Base : FirstId(b) \in Id /\ FirstId(b)[1] = b
BY PeerAssumption DEF Id, FirstId

LEMMA TypeInit == Init => TypeOK
<1> SUFFICES ASSUME Init PROVE TypeOK
  OBVIOUS
<1>1. peers \in [Base -> Row] /\ minted \in [Base -> Nat]
  <2>1. \A b \in Base : PeerRow(FirstId(b), "active", "ok", 0) \in Row
    BY RowMade, IdFacts
  <2> QED BY <2>1, RowFields DEF Init
<1>2. queue \in [Iri -> {"none", "pending", "resolved", "failed"}] /\ due \in Seq(Resolvable)
  BY DueAtStart DEF Init
<1>3. graph \in SUBSET ((Id \cup {Unknown}) \X Iri)
  BY IdFacts, PeerAssumption DEF Init, CachedAtStart
<1>4. NoAdmin \in AdminType /\ NoAnnounce \in [base : Base \cup {None}, row : Row] /\ NoFetch \in FetchType
  BY RowFields DEF NoAdmin, NoAnnounce, NoFetch, AdminType, FetchType, FetchPc
<1>5. admin \in [Admin -> AdminType] /\ announced \in [Announcer -> [base : Base \cup {None}, row : Row]]
      /\ fetch \in [Fetcher -> FetchType]
  BY <1>4 DEF Init
<1>6. batch \in Seq(Resolvable) /\ dropped = {} /\ missed = {} /\ resolves \in Nat /\ faults \in Nat
  BY DEF Init
<1> QED BY <1>1, <1>2, <1>3, <1>5, <1>6 DEF TypeOK

(* The table: what an upsert writes keeps the id and the count of a base that  *)
(* is there.                                                                 *)
LEMMA UpsertFacts ==
    ASSUME peers \in [Base -> Row], NEW b \in Base, NEW row \in Row, Upsert(b, row)
    PROVE  /\ peers' \in [Base -> Row]
           /\ \A c \in Base : c # b => peers'[c] = peers[c]
           /\ Known(b) => peers'[b].id = peers[b].id /\ peers'[b].count = peers[b].count
           /\ ~Known(b) => peers'[b] = row
<1>1. /\ peers[b] \in Row
      /\ peers' = [peers EXCEPT ![b] = IF Known(b) THEN Updated(peers[b], row) ELSE row]
  BY DEF Upsert, Updated
<1>2. /\ Updated(peers[b], row) \in Row
      /\ Updated(peers[b], row).id = peers[b].id /\ Updated(peers[b], row).count = peers[b].count
  BY <1>1, RowUpdated
<1> QED BY <1>1, <1>2

(* ... and what a contact note or a count writes keeps the id.               *)
LEMMA NoteFacts ==
    ASSUME peers \in [Base -> Row], NEW row, NEW s \in {"ok", "error"}, NoteContact(row, s)
    PROVE  /\ peers' \in [Base -> Row]
           /\ \A b \in Base : peers'[b].id = peers[b].id /\ peers'[b].count = peers[b].count
           /\ \A b \in Base : ~Known(b) => peers'[b] = peers[b]
<1>1. peers' = [b \in Base |-> IF Known(b) /\ peers[b].id = row.id
                               THEN Noted(peers[b], s) ELSE peers[b]]
  BY DEF NoteContact, Noted
<1>2. \A b \in Base : /\ Noted(peers[b], s) \in Row /\ Noted(peers[b], s).id = peers[b].id
                      /\ Noted(peers[b], s).count = peers[b].count
  BY RowNoted
<1> QED BY <1>1, <1>2

(* A request's steps keep the types: what they write is typed.               *)
LEMMA AdminTypes ==
    /\ NoAdmin \in AdminType /\ NoAdmin.row = NoPeer /\ NoAdmin.pc = "idle"
    /\ \A T \in SUBSET Base : /\ Suggesting(T) \in AdminType
                              /\ Suggesting(T).pc \in {"idle", "suggest"}
                              /\ Suggesting(T).row = NoPeer
    /\ \A row \in Row : /\ [NoAdmin EXCEPT !.pc = "drop", !.row = row] \in AdminType
                        /\ [NoAdmin EXCEPT !.pc = "drop", !.row = row].row = row
                        /\ [NoAdmin EXCEPT !.pc = "drop", !.row = row].pc = "drop"
    /\ \A a \in AdminType : a.row \in Row /\ a.todo \in SUBSET Base /\ a.base \in Base \cup {None}
BY RowFields DEF NoAdmin, AdminType, Suggesting

LEMMA TypeAdd ==
    ASSUME TypeOK, RowInv, NEW m \in Admin,
           NEW b \in Base, NEW others \in SUBSET (Base \ {b}), BeginAdd(m, b, others)
    PROVE  TypeOK'
<1> DEFINE row == IF Known(b) THEN PeerRow(peers[b].id, "active", "ok", peers[b].count)
                              ELSE PeerRow(NewId(b), "active", "ok", 0)
           new == [pc |-> "upsert", base |-> b, row |-> row, todo |-> others]
<1>1. peers[b] \in Row /\ NewId(b) \in Id
  BY IdFacts DEF TypeOK, BeginAdd, Mint, NewId
<1>2. row \in Row
  <2>1. peers[b].id \in Id \cup {None} /\ peers[b].count \in Nat
    BY <1>1, RowFields
  <2>2. \A i \in Id \cup {None}, c \in Nat : PeerRow(i, "active", "ok", c) \in Row
    BY RowMade
  <2> QED BY <1>1, <2>1, <2>2
<1>3. admin' = [admin EXCEPT ![m] = new]
  BY DEF BeginAdd
<1> HIDE DEF row
<1>4. new \in AdminType
  BY <1>2 DEF AdminType
<1> HIDE DEF new
<1>5. minted' \in [Base -> Nat] /\ UNCHANGED <<peers, queue, due, graph, announced, fetch, batch, hist>>
  BY DEF BeginAdd, Mint, TypeOK
<1> QED BY <1>3, <1>4, <1>5 DEF TypeOK, hist

LEMMA TypeUpsert ==
    ASSUME TypeOK, RowInv, NEW m \in Admin, UpsertPeer(m) \/ PutSuggestion(m)
    PROVE  TypeOK'
<1>1. /\ admin[m] \in AdminType /\ OfBase(admin[m].row, admin[m].base)
      /\ Upsert(admin[m].base, admin[m].row)
      /\ admin' = [admin EXCEPT ![m] = Suggesting(admin[m].todo)]
      /\ UNCHANGED <<minted, queue, due, graph, announced, fetch, batch, hist>>
  BY DEF TypeOK, RowInv, UpsertPeer, PutSuggestion
<1>2. Suggesting(admin[m].todo) \in AdminType
  BY <1>1, AdminTypes
<1>3. admin[m].row \in Row /\ admin[m].base \in Base /\ peers \in [Base -> Row]
  BY <1>1, AdminTypes DEF OfBase, TypeOK
<1>4. peers' \in [Base -> Row]
  BY <1>1, <1>3, UpsertFacts
<1> QED BY <1>1, <1>2, <1>4 DEF TypeOK, hist

LEMMA TypeSuggestion ==
    ASSUME TypeOK, NEW m \in Admin, LookUpSuggestion(m)
    PROVE  TypeOK'
<1>1. admin[m] \in AdminType /\ admin[m].todo \in SUBSET Base
  BY AdminTypes DEF TypeOK
<1>2. PICK b \in admin[m].todo :
        IF Known(b)
        THEN /\ admin' = [admin EXCEPT ![m] = Suggesting(@.todo \ {b})]
             /\ UNCHANGED minted
        ELSE /\ Mint(b)
             /\ admin' = [admin EXCEPT ![m] =
                  [pc |-> "put", base |-> b, todo |-> @.todo \ {b},
                   row |-> PeerRow(NewId(b), "suggested", "unknown", 0)]]
  BY DEF LookUpSuggestion
<1>3. /\ UNCHANGED <<peers, queue, due, graph, announced, fetch, batch, hist>>
      /\ b \in Base /\ admin[m].todo \ {b} \in SUBSET Base
  BY <1>1 DEF LookUpSuggestion
<1>4. CASE Known(b)
  <2>1. Suggesting(admin[m].todo \ {b}) \in AdminType
    BY <1>3, AdminTypes
  <2> QED BY <1>2, <1>3, <1>4, <2>1 DEF TypeOK, hist
<1>5. CASE ~Known(b)
  <2> DEFINE row == PeerRow(NewId(b), "suggested", "unknown", 0)
             new == [pc |-> "put", base |-> b, todo |-> admin[m].todo \ {b}, row |-> row]
  <2>1. NewId(b) \in Id /\ minted' \in [Base -> Nat]
    BY <1>2, <1>3, <1>5, IdFacts DEF TypeOK, Mint, NewId
  <2>2. row \in Row
    BY <2>1, RowMade
  <2>3. admin' = [admin EXCEPT ![m] = new]
    BY <1>2, <1>5
  <2> HIDE DEF row
  <2>4. new \in AdminType
    BY <1>3, <2>2 DEF AdminType
  <2> HIDE DEF new
  <2> QED BY <1>3, <2>1, <2>3, <2>4 DEF TypeOK, hist
<1> QED BY <1>4, <1>5

LEMMA TypeAnnounce ==
    ASSUME TypeOK, RowInv, NEW n \in Announcer,
           (\E b \in Base : BeginAnnounce(n, b)) \/ RecordAnnouncement(n)
    PROVE  TypeOK'
<1> DEFINE A == [base : Base \cup {None}, row : Row]
<1>1. ASSUME NEW b \in Base, BeginAnnounce(n, b) PROVE TypeOK'
  <2> DEFINE row == PeerRow(NewId(b), "suggested", "unknown", 0)
  <2>1. NewId(b) \in Id /\ minted' \in [Base -> Nat]
    BY <1>1, IdFacts DEF BeginAnnounce, TypeOK, Mint, NewId
  <2>2. row \in Row
    BY <2>1, RowMade
  <2>3. announced' = [announced EXCEPT ![n] = [base |-> b, row |-> row]]
        /\ UNCHANGED <<peers, queue, due, graph, admin, fetch, batch, hist>>
    BY <1>1 DEF BeginAnnounce
  <2> HIDE DEF row
  <2> QED BY <2>1, <2>2, <2>3 DEF TypeOK, hist
<1>2. CASE RecordAnnouncement(n)
  <2>1. /\ OfBase(announced[n].row, announced[n].base) /\ announced[n].row \in Row
        /\ Upsert(announced[n].base, announced[n].row)
        /\ announced' = [announced EXCEPT ![n] = NoAnnounce]
        /\ UNCHANGED <<minted, queue, due, graph, admin, fetch, batch, hist>>
    BY <1>2 DEF RecordAnnouncement, RowInv, TypeOK
  <2>2. NoAnnounce \in A
    BY RowFields DEF NoAnnounce
  <2>3. peers' \in [Base -> Row]
    BY <2>1, UpsertFacts DEF TypeOK, OfBase
  <2> QED BY <2>1, <2>2, <2>3 DEF TypeOK, hist
<1> QED BY <1>1, <1>2

LEMMA TypeRemove ==
    ASSUME TypeOK, RowInv, NEW m \in Admin,
           (\E b \in Base : BeginRemove(m, b)) \/ DropGraph(m) \/ DeletePeer(m) \/ AbandonAdmin(m)
    PROVE  TypeOK'
<1>1. ASSUME NEW b \in Base, BeginRemove(m, b) PROVE TypeOK'
  <2>1. /\ admin' = [admin EXCEPT ![m] = [NoAdmin EXCEPT !.pc = "drop", !.row = peers[b]]]
        /\ peers[b] \in Row
        /\ UNCHANGED <<sqlVars, graph, announced, fetch, batch, hist>>
    BY <1>1 DEF BeginRemove, TypeOK
  <2>2. [NoAdmin EXCEPT !.pc = "drop", !.row = peers[b]] \in AdminType
    BY <2>1, AdminTypes
  <2> QED BY <2>1, <2>2 DEF TypeOK, sqlVars, hist
<1>2. CASE DropGraph(m)
  <2>1. admin[m].row.id \in Id
    BY <1>2 DEF DropGraph, RowInv
  <2>2. admin' \in [Admin -> AdminType]
    BY <1>2 DEF DropGraph, TypeOK, AdminType
  <2>3. /\ graph' \subseteq graph /\ dropped' = dropped \cup {admin[m].row.id}
        /\ UNCHANGED <<sqlVars, announced, fetch, batch, missed, resolves, faults>>
    BY <1>2 DEF DropGraph
  <2> QED BY <2>1, <2>2, <2>3 DEF TypeOK, sqlVars
<1>3. CASE DeletePeer(m)
  <2>1. peers' \in [Base -> Row]
    BY <1>3, RowFields DEF DeletePeer, TypeOK
  <2> QED BY <1>3, <2>1, AdminTypes DEF DeletePeer, TypeOK, hist
<1>4. CASE AbandonAdmin(m)
  <2>1. /\ admin' = [admin EXCEPT ![m] = NoAdmin] /\ faults' = faults + 1
        /\ UNCHANGED <<peers, minted, queue, due, graph, announced, fetch, batch, dropped,
                       missed, resolves>>
    BY <1>4 DEF AbandonAdmin, sqlVars
  <2>2. NoAdmin \in AdminType
    BY AdminTypes
  <2>3. admin' \in [Admin -> AdminType] /\ faults' \in Nat
    BY <2>1, <2>2 DEF TypeOK
  <2> QED BY <2>1, <2>3 DEF TypeOK
<1> QED BY <1>1, <1>2, <1>3, <1>4

(* The queue: a row is tracked from then on, and is due or not.               *)
LEMMA QueueFacts ==
    ASSUME TypeOK, NEW i \in Resolvable, QueueResolve(i)
    PROVE  /\ queue' \in [Iri -> {"none", "pending", "resolved", "failed"}]
           /\ due' \in Seq(Resolvable)
<1>1. i \in Iri /\ due \in Seq(Resolvable)
      /\ queue \in [Iri -> {"none", "pending", "resolved", "failed"}]
  BY PeerAssumption DEF TypeOK
<1>2. Append(due, i) \in Seq(Resolvable)
  BY <1>1, AppendProperties
<1> QED BY <1>1, <1>2 DEF QueueResolve

LEMMA RescheduleFacts ==
    ASSUME TypeOK, NEW i \in Resolvable, NEW s \in {"resolved", "failed"}, Reschedule(i, s)
    PROVE  /\ queue' \in [Iri -> {"none", "pending", "resolved", "failed"}]
           /\ due' \in Seq(Resolvable)
<1>1. queue' \in [Iri -> {"none", "pending", "resolved", "failed"}]
  BY DEF TypeOK, Reschedule
<1>2. ASSUME i \in ToSet(due) PROVE due' \in Seq(Resolvable)
  <2>1. due \in Seq(Resolvable) /\ due' = RemoveAt(due, PlaceOf(i))
    BY <1>2 DEF TypeOK, Reschedule
  <2>2. \E n \in 1..Len(due) : due[n] = i
    BY <1>2, <2>1 DEF ToSet
  <2>3. PlaceOf(i) \in 1..Len(due)
    BY <2>2 DEF PlaceOf
  <2>4. \A s1 \in Seq(Resolvable) : \A m \in 1..Len(s1) :
           /\ SubSeq(s1, 1, m - 1) \in Seq(Resolvable)
           /\ SubSeq(s1, m + 1, Len(s1)) \in Seq(Resolvable)
    <3> TAKE s1 \in Seq(Resolvable)
    <3> TAKE m \in 1..Len(s1)
    <3>1. SubSeq(s1, 1, m - 1) \in Seq(Resolvable)
      BY SubSeqProperties
    <3>2. SubSeq(s1, m + 1, Len(s1)) \in Seq(Resolvable)
      BY SubSeqProperties
    <3> QED BY <3>1, <3>2
  <2>5. \A s1, s2 \in Seq(Resolvable) : s1 \o s2 \in Seq(Resolvable)
    BY ConcatProperties
  <2>6. RemoveAt(due, PlaceOf(i)) =
          SubSeq(due, 1, PlaceOf(i) - 1) \o SubSeq(due, PlaceOf(i) + 1, Len(due))
    BY DEF RemoveAt
  <2> QED BY <2>1, <2>3, <2>4, <2>5, <2>6
<1>3. CASE i \notin ToSet(due)
  BY <1>3 DEF TypeOK, Reschedule
<1> QED BY <1>1, <1>2, <1>3

LEMMA TypeQueue ==
    ASSUME TypeOK, (\E i \in Resolvable : Cite(i) \/ ComeDue(i)) \/ ResolverTick
    PROVE  TypeOK'
<1>1. ASSUME NEW i \in Resolvable, Cite(i) PROVE TypeOK'
  <2>1. QueueResolve(i)
        /\ UNCHANGED <<peers, minted, graph, admin, announced, fetch, batch, hist>>
    BY <1>1 DEF Cite
  <2> QED BY <2>1, QueueFacts DEF TypeOK, hist
<1>2. ASSUME NEW i \in Resolvable, ComeDue(i) PROVE TypeOK'
  BY <1>2 DEF ComeDue, TypeOK, hist
<1>3. CASE ResolverTick
  <2>1. batch' = DueRows /\ UNCHANGED <<sqlVars, graph, admin, announced, fetch, hist>>
    BY <1>3 DEF ResolverTick
  <2>2. SubSeq(due, 1, IF Len(due) < Batch THEN Len(due) ELSE Batch) \in Seq(Resolvable)
    <3>1. due \in Seq(Resolvable) /\ Batch \in Nat \ {0} /\ Len(due) \in Nat
      BY PeerAssumption DEF TypeOK
    <3>2. (IF Len(due) < Batch THEN Len(due) ELSE Batch) \in 0..Len(due)
      BY <3>1
    <3> QED BY <3>1, <3>2, SubSeqProperties
  <2> QED BY <2>1, <2>2 DEF TypeOK, DueRows, sqlVars, hist
<1> QED BY <1>1, <1>2, <1>3

(* What a step does to the fetches: one of them moves.                       *)
Fetches == fetch \in [Fetcher -> FetchType]
OnlyMoves(f) == Fetches' /\ \A g \in Fetcher \ {f} : fetch'[g] = fetch[g]
SameFetch(f) == fetch'[f].iri = fetch[f].iri /\ fetch'[f].peer = fetch[f].peer
SameFinds(f) ==
    /\ fetch'[f].leftovers = fetch[f].leftovers /\ fetch'[f].stub = fetch[f].stub
    /\ fetch'[f].cached = fetch[f].cached

Moved(x, there) == [x EXCEPT !.pc = there]
Kept(x, stub, todo) == [x EXCEPT !.pc = "leftovers", !.stub = stub, !.todo = todo]
Left(x, todo, leftovers) == [x EXCEPT !.todo = todo, !.leftovers = leftovers]
Asked(x, cached) == [x EXCEPT !.pc = "apply", !.cached = cached]
Sought(x, i) == [x EXCEPT !.pc = "get", !.iri = i]
SoughtOf(x, i, peer) == [x EXCEPT !.pc = "get", !.iri = i, !.peer = peer]

LEMMA FetchMade ==
    ASSUME NEW x \in FetchType
    PROVE  /\ \A there \in FetchPc : Moved(x, there) \in FetchType
           /\ \A stub, todo \in SUBSET Iri : Kept(x, stub, todo) \in FetchType
           /\ \A todo, leftovers \in SUBSET Iri : Left(x, todo, leftovers) \in FetchType
           /\ \A cached \in BOOLEAN : Asked(x, cached) \in FetchType
BY DEF FetchType, FetchPc, Moved, Kept, Left, Asked

LEMMA FetchFields ==
    ASSUME NEW x \in FetchType
    PROVE  /\ \A there : /\ Moved(x, there).pc = there /\ Moved(x, there).iri = x.iri
                         /\ Moved(x, there).peer = x.peer /\ Moved(x, there).cached = x.cached
                         /\ Moved(x, there).stub = x.stub
                         /\ Moved(x, there).leftovers = x.leftovers
           /\ \A s, t : /\ Kept(x, s, t).pc = "leftovers" /\ Kept(x, s, t).iri = x.iri
                        /\ Kept(x, s, t).peer = x.peer /\ Kept(x, s, t).stub = s
                        /\ Kept(x, s, t).leftovers = x.leftovers
           /\ \A t, l : /\ Left(x, t, l).pc = x.pc /\ Left(x, t, l).iri = x.iri
                        /\ Left(x, t, l).peer = x.peer /\ Left(x, t, l).stub = x.stub
                        /\ Left(x, t, l).leftovers = l
           /\ \A c : /\ Asked(x, c).pc = "apply" /\ Asked(x, c).iri = x.iri
                     /\ Asked(x, c).peer = x.peer /\ Asked(x, c).stub = x.stub
                     /\ Asked(x, c).leftovers = x.leftovers /\ Asked(x, c).cached = c
           /\ x.iri \in Iri \cup {None} /\ x.peer \in Row /\ x.todo \in SUBSET Iri
           /\ x.leftovers \in SUBSET Iri /\ x.stub \in SUBSET Iri /\ x.cached \in BOOLEAN
BY DEF FetchType, FetchPc, Moved, Kept, Left, Asked

LEMMA SoughtMade ==
    ASSUME NEW x \in FetchType, NEW i \in Iri, NEW peer \in Row
    PROVE  /\ Sought(x, i) \in FetchType
           /\ Sought(x, i).pc = "get" /\ Sought(x, i).iri = i
           /\ Sought(x, i).peer = x.peer /\ Sought(x, i).stub = x.stub
           /\ Sought(x, i).leftovers = x.leftovers
           /\ SoughtOf(x, i, peer) \in FetchType
           /\ SoughtOf(x, i, peer).pc = "get" /\ SoughtOf(x, i, peer).iri = i
           /\ SoughtOf(x, i, peer).peer = peer /\ SoughtOf(x, i, peer).stub = x.stub
           /\ SoughtOf(x, i, peer).leftovers = x.leftovers
BY DEF FetchType, FetchPc, Sought, SoughtOf

LEMMA NoFetchFields ==
    /\ NoFetch \in FetchType /\ NoFetch.pc = "idle" /\ NoFetch.peer = NoPeer
    /\ NoFetch.leftovers = {} /\ NoFetch.stub = {}
BY RowFields DEF NoFetch, FetchType, FetchPc

LEMMA GotoFacts ==
    ASSUME Fetches, NEW f \in Fetcher, NEW there \in FetchPc, Goto(f, there)
    PROVE  OnlyMoves(f) /\ SameFetch(f) /\ SameFinds(f) /\ fetch'[f].pc = there
<1>1. fetch' = [fetch EXCEPT ![f] = Moved(fetch[f], there)]
  BY DEF Goto, Moved
<1>2. fetch[f] \in FetchType
  BY DEF Fetches
<1>3. Moved(fetch[f], there) \in FetchType
  BY <1>2, FetchMade
<1>4. fetch'[f] = Moved(fetch[f], there) /\ OnlyMoves(f)
  BY <1>1, <1>3 DEF Fetches, OnlyMoves
<1> QED BY <1>2, <1>4, FetchFields DEF SameFetch, SameFinds

LEMMA AnswerFacts ==
    ASSUME Fetches, NEW f \in Fetcher, NEW stub \in SUBSET Iri, NEW todo \in SUBSET Iri,
           fetch' = [fetch EXCEPT ![f].pc = "leftovers", ![f].stub = stub, ![f].todo = todo]
    PROVE  /\ OnlyMoves(f) /\ SameFetch(f) /\ fetch'[f].pc = "leftovers"
           /\ fetch'[f].stub = stub /\ fetch'[f].leftovers = fetch[f].leftovers
<1>1. fetch' = [fetch EXCEPT ![f] = Kept(fetch[f], stub, todo)]
  BY DEF Kept, Fetches
<1>2. fetch[f] \in FetchType
  BY DEF Fetches
<1>3. Kept(fetch[f], stub, todo) \in FetchType
  BY <1>2, FetchMade
<1>4. fetch'[f] = Kept(fetch[f], stub, todo) /\ OnlyMoves(f)
  BY <1>1, <1>3 DEF Fetches, OnlyMoves
<1> QED BY <1>2, <1>4, FetchFields DEF SameFetch

LEMMA LeftoverFacts ==
    ASSUME Fetches, NEW f \in Fetcher, NEW s \in fetch[f].todo,
           fetch' = [fetch EXCEPT ![f].todo = @ \ {s},
                                  ![f].leftovers = IF IsTracked(s) THEN @ ELSE @ \cup {s}]
    PROVE  /\ OnlyMoves(f) /\ SameFetch(f) /\ fetch'[f].pc = fetch[f].pc
           /\ fetch'[f].stub = fetch[f].stub
           /\ fetch'[f].leftovers = IF Tracked(s) THEN fetch[f].leftovers
                                                  ELSE fetch[f].leftovers \cup {s}
<1> DEFINE todo == fetch[f].todo \ {s}
           leftovers == IF Tracked(s) THEN fetch[f].leftovers ELSE fetch[f].leftovers \cup {s}
<1>1. fetch[f] \in FetchType
  BY DEF Fetches
<1>2. todo \in SUBSET Iri /\ leftovers \in SUBSET Iri
  BY <1>1, FetchFields
<1>3. fetch' = [fetch EXCEPT ![f] = Left(fetch[f], todo, leftovers)]
  BY DEF Left, Fetches, IsTracked
<1> HIDE DEF todo, leftovers
<1>4. Left(fetch[f], todo, leftovers) \in FetchType
  BY <1>1, <1>2, FetchMade
<1>5. fetch'[f] = Left(fetch[f], todo, leftovers) /\ OnlyMoves(f)
  BY <1>3, <1>4 DEF Fetches, OnlyMoves
<1> DEFINE y == Left(fetch[f], todo, leftovers)
<1>7. /\ y.pc = fetch[f].pc /\ y.iri = fetch[f].iri /\ y.peer = fetch[f].peer
      /\ y.stub = fetch[f].stub /\ y.leftovers = leftovers
  BY <1>1, FetchFields
<1>6. /\ SameFetch(f) /\ fetch'[f].pc = fetch[f].pc
      /\ fetch'[f].stub = fetch[f].stub /\ fetch'[f].leftovers = leftovers
  BY <1>5, <1>7 DEF SameFetch
<1> QED BY <1>5, <1>6 DEF leftovers

LEMMA AskFacts ==
    ASSUME Fetches, NEW f \in Fetcher, AskCached(f)
    PROVE  /\ OnlyMoves(f) /\ SameFetch(f) /\ fetch'[f].pc = "apply"
           /\ fetch'[f].stub = fetch[f].stub /\ fetch'[f].leftovers = fetch[f].leftovers
           /\ fetch'[f].cached = WasCached(f)
<1>1. fetch[f] \in FetchType /\ WasCached(f) \in BOOLEAN
  BY DEF Fetches, WasCached
<1>2. fetch' = [fetch EXCEPT ![f] = Asked(fetch[f], WasCached(f))]
  BY DEF AskCached, Asked, Fetches
<1>3. Asked(fetch[f], WasCached(f)) \in FetchType
  BY <1>1, FetchMade
<1>4. fetch'[f] = Asked(fetch[f], WasCached(f)) /\ OnlyMoves(f)
  BY <1>2, <1>3 DEF Fetches, OnlyMoves
<1> QED BY <1>1, <1>4, FetchFields DEF SameFetch

LEMMA StartFacts ==
    ASSUME TypeOK, NEW f \in Fetcher, NEW i \in Resolvable, Start(f, i)
    PROVE  /\ OnlyMoves(f) /\ faults' \in Nat
           /\ fetch'[f].pc = "get" /\ fetch'[f].iri = i
           /\ fetch'[f].peer \in {NoPeer, OwningPeer(i)}
           /\ fetch'[f].stub = {} /\ fetch'[f].leftovers = {}
<1>1. OwningPeer(i) \in Row /\ i \in Iri /\ Fetches
  BY PeerAssumption, RowFields DEF OwningPeer, TypeOK, Fetches
<1> DEFINE x == Sought(NoFetch, i)
           y == SoughtOf(NoFetch, i, OwningPeer(i))
<1>2. /\ x \in FetchType /\ x.pc = "get" /\ x.iri = i /\ x.peer = NoPeer /\ x.stub = {}
      /\ x.leftovers = {}
  BY <1>1, NoFetchFields, SoughtMade
<1>3. /\ y \in FetchType /\ y.pc = "get" /\ y.iri = i /\ y.peer = OwningPeer(i) /\ y.stub = {}
      /\ y.leftovers = {}
  BY <1>1, NoFetchFields, SoughtMade
<1>4. /\ fetch' = [fetch EXCEPT ![f] = y] \/ fetch' = [fetch EXCEPT ![f] = x]
      /\ faults' = faults \/ faults' = faults + 1
  BY DEF Start, Sought, SoughtOf
<1> HIDE DEF x, y
<1>5. faults' \in Nat
  BY <1>4 DEF TypeOK
<1>6. /\ fetch'[f] = x \/ fetch'[f] = y
      /\ OnlyMoves(f)
  BY <1>1, <1>2, <1>3, <1>4 DEF Fetches, OnlyMoves
<1> QED BY <1>2, <1>3, <1>5, <1>6

(* A fetch's steps keep the types.                                           *)
LEMMA FetchesTyped == TypeOK => Fetches /\ \A f \in Fetcher : fetch[f] \in FetchType
BY DEF TypeOK, Fetches

LEMMA TypeMoves ==
    ASSUME TypeOK, RowInv, NEW f \in Fetcher,
           GetFails(f) \/ MarkFailed(f) \/ Track(f) \/ MarkResolved(f) \/ ApplyStub(f)
    PROVE  TypeOK' /\ OnlyMoves(f) /\ SameFetch(f) /\ SameFinds(f)
<1> USE FetchesTyped
<1>1. CASE GetFails(f)
  <2>1. Goto(f, "failed") /\ UNCHANGED <<sqlVars, graph, admin, announced, batch, hist>>
    BY <1>1 DEF GetFails
  <2>2. OnlyMoves(f) /\ SameFetch(f) /\ SameFinds(f)
    BY <2>1, GotoFacts DEF FetchPc
  <2> QED BY <2>1, <2>2 DEF TypeOK, OnlyMoves, Fetches, sqlVars, hist
<1>2. ASSUME NEW s \in {"resolved", "failed"}, NEW there \in FetchPc, fetch[f].pc # "idle",
             Reschedule(fetch[f].iri, s), fetch' = [fetch EXCEPT ![f].pc = there],
             UNCHANGED <<peers, minted, graph, admin, announced, batch, hist>>
      PROVE  TypeOK' /\ OnlyMoves(f) /\ SameFetch(f) /\ SameFinds(f)
  <2>1. fetch[f].iri \in Resolvable
    BY <1>2 DEF RowInv
  <2>2. /\ queue' \in [Iri -> {"none", "pending", "resolved", "failed"}]
        /\ due' \in Seq(Resolvable)
    BY <1>2, <2>1, RescheduleFacts
  <2>3. OnlyMoves(f) /\ SameFetch(f) /\ SameFinds(f)
    BY <1>2, GotoFacts DEF Goto
  <2> QED BY <1>2, <2>2, <2>3 DEF TypeOK, OnlyMoves, Fetches, hist
<1>3. CASE MarkFailed(f)
  BY <1>2, <1>3 DEF MarkFailed, FetchPc
<1>4. CASE MarkResolved(f)
  BY <1>2, <1>4 DEF MarkResolved, FetchPc
<1>5. CASE Track(f)
  <2>1. /\ fetch[f].pc = "track" /\ QueueResolve(fetch[f].iri) /\ Goto(f, "mark")
        /\ UNCHANGED <<peers, minted, graph, admin, announced, batch, hist>>
    BY <1>5 DEF Track
  <2>2. /\ queue' \in [Iri -> {"none", "pending", "resolved", "failed"}]
        /\ due' \in Seq(Resolvable)
    BY <2>1, QueueFacts DEF RowInv
  <2>3. OnlyMoves(f) /\ SameFetch(f) /\ SameFinds(f)
    BY <2>1, GotoFacts DEF FetchPc
  <2> QED BY <2>1, <2>2, <2>3 DEF TypeOK, OnlyMoves, Fetches, hist
<1>6. CASE ApplyStub(f)
  <2>1. /\ fetch[f].pc = "apply" /\ Goto(f, "track")
        /\ graph' \subseteq graph \cup ({Graph(f)} \X fetch[f].stub)
        /\ UNCHANGED <<sqlVars, admin, announced, batch, hist>>
    BY <1>6 DEF ApplyStub
  <2>2. OnlyMoves(f) /\ SameFetch(f) /\ SameFinds(f)
    BY <2>1, GotoFacts DEF FetchPc
  <2>3. Graph(f) \in Id \cup {Unknown}
    BY DEF RowInv, OfBase, Graph
  <2>4. fetch[f].stub \in SUBSET Iri
    BY FetchFields
  <2>5. graph' \in SUBSET ((Id \cup {Unknown}) \X Iri)
    BY <2>1, <2>3, <2>4 DEF TypeOK
  <2> QED BY <2>1, <2>2, <2>5 DEF TypeOK, OnlyMoves, Fetches, sqlVars, hist
<1> QED BY <1>1, <1>3, <1>4, <1>5, <1>6

LEMMA TypeAnswers ==
    ASSUME TypeOK, RowInv, NEW f \in Fetcher, GetAnswers(f)
    PROVE  /\ TypeOK' /\ OnlyMoves(f) /\ SameFetch(f) /\ missed \subseteq missed'
           /\ fetch'[f].leftovers = fetch[f].leftovers
           /\ \/ fetch'[f].pc = "failed"
              \/ /\ fetch'[f].pc = "leftovers"
                 /\ \/ fetch'[f].stub = {fetch[f].iri}
                    \/ fetch'[f].stub = {} /\ fetch[f].iri \in missed'
<1> USE FetchesTyped
<1>1. /\ fetch[f].pc = "get" /\ NoteContact(fetch[f].peer, "ok")
      /\ UNCHANGED <<minted, queue, due, graph, admin, announced, batch, dropped, resolves, faults>>
  BY DEF GetAnswers
<1>2. peers' \in [Base -> Row]
  BY <1>1, NoteFacts DEF TypeOK
<1>3. CASE Goto(f, "failed") /\ UNCHANGED missed
  <2>1. /\ OnlyMoves(f) /\ SameFetch(f) /\ fetch'[f].pc = "failed"
        /\ fetch'[f].leftovers = fetch[f].leftovers
    BY <1>3, GotoFacts DEF FetchPc, SameFinds
  <2> QED BY <1>1, <1>2, <1>3, <2>1 DEF TypeOK, OnlyMoves, Fetches
<1>4. CASE ~(Goto(f, "failed") /\ UNCHANGED missed)
  <2>1. PICK stub \in StubQuads(fetch[f].iri) :
           /\ fetch' = [fetch EXCEPT ![f].pc = "leftovers", ![f].stub = stub,
                                     ![f].todo = Also[fetch[f].iri]]
           /\ missed' = IF stub = {} THEN missed \cup {fetch[f].iri} ELSE missed
    BY <1>4 DEF GetAnswers
  <2>2. fetch[f].iri \in Iri
    BY <1>1, PeerAssumption DEF RowInv
  <2>3. stub = {fetch[f].iri} \/ stub = {}
    BY DEF StubQuads
  <2>4. stub \in SUBSET Iri /\ Also[fetch[f].iri] \in SUBSET Iri
    BY <2>2, <2>3, PeerAssumption
  <2>5. /\ OnlyMoves(f) /\ SameFetch(f) /\ fetch'[f].pc = "leftovers"
        /\ fetch'[f].stub = stub /\ fetch'[f].leftovers = fetch[f].leftovers
    BY <2>1, <2>4, AnswerFacts
  <2>6. missed' \in SUBSET Iri /\ missed \subseteq missed' /\ (stub = {} => fetch[f].iri \in missed')
    BY <2>1, <2>2 DEF TypeOK
  <2>7. TypeOK'
    BY <1>1, <1>2, <2>5, <2>6 DEF TypeOK, OnlyMoves, Fetches
  <2> QED BY <2>3, <2>5, <2>6, <2>7
<1> QED BY <1>3, <1>4

LEMMA TypeLeftovers ==
    ASSUME TypeOK, RowInv, NEW f \in Fetcher, CheckLeftover(f)
    PROVE  /\ TypeOK' /\ OnlyMoves(f) /\ SameFetch(f) /\ missed \subseteq missed'
           /\ fetch'[f].pc = "leftovers" /\ fetch'[f].stub = fetch[f].stub
           /\ fetch'[f].leftovers \subseteq fetch[f].leftovers \cup missed'
<1> USE FetchesTyped
<1>1. /\ fetch[f].pc = "leftovers"
      /\ UNCHANGED <<sqlVars, graph, admin, announced, batch, dropped, resolves, faults>>
  BY DEF CheckLeftover
<1>2. PICK s \in fetch[f].todo :
         /\ fetch' = [fetch EXCEPT ![f].todo = @ \ {s},
                                   ![f].leftovers = IF IsTracked(s) THEN @ ELSE @ \cup {s}]
         /\ missed' = IF Tracked(s) THEN missed ELSE missed \cup {s}
  BY DEF CheckLeftover
<1>3. /\ OnlyMoves(f) /\ SameFetch(f) /\ fetch'[f].pc = fetch[f].pc
      /\ fetch'[f].stub = fetch[f].stub
      /\ fetch'[f].leftovers = IF Tracked(s) THEN fetch[f].leftovers
                                             ELSE fetch[f].leftovers \cup {s}
  BY <1>2, LeftoverFacts
<1>4. s \in Iri
  BY FetchFields
<1>5. missed' \in SUBSET Iri /\ missed \subseteq missed'
  BY <1>2, <1>4 DEF TypeOK
<1>6. TypeOK'
  BY <1>1, <1>3, <1>5 DEF TypeOK, OnlyMoves, Fetches, sqlVars
<1>7. fetch'[f].leftovers \subseteq fetch[f].leftovers \cup missed'
  BY <1>2, <1>3
<1> QED BY <1>1, <1>3, <1>5, <1>6, <1>7

LEMMA TypeAsks ==
    ASSUME TypeOK, NEW f \in Fetcher, AskCached(f)
    PROVE  TypeOK'
<1>1. OnlyMoves(f) /\ UNCHANGED <<sqlVars, graph, admin, announced, batch, hist>>
  BY FetchesTyped, AskFacts DEF AskCached
<1> QED BY <1>1 DEF TypeOK, OnlyMoves, Fetches, sqlVars, hist

(* A step that ends a fetch.                                                 *)
EndsFetch(f) == fetch' = [fetch EXCEPT ![f] = NoFetch]

LEMMA EndFacts ==
    ASSUME Fetches, NEW f \in Fetcher, EndsFetch(f)
    PROVE  OnlyMoves(f) /\ fetch'[f] = NoFetch
BY NoFetchFields DEF Fetches, OnlyMoves, EndsFetch

(* The table after the count of a peer is written.                           *)
LEMMA CountFacts ==
    ASSUME TypeOK, NEW f \in Fetcher, SetRecordCount(f)
    PROVE  /\ peers' \in [Base -> Row]
           /\ \A b \in Base : peers'[b].id = peers[b].id
           /\ \A b \in Base : ~Known(b) => peers'[b] = peers[b]
           /\ \A b \in Base :
                 \/ peers'[b].count = peers[b].count
                 \/ /\ peers[b].id = fetch[f].peer.id /\ ~fetch[f].cached
                    /\ peers'[b].count <= fetch[f].peer.count + 1
<1> DEFINE c == Capped(fetch[f].peer.count + 1)
<1>1. fetch[f].peer \in Row
  BY FetchesTyped, FetchFields
<1>2. fetch[f].peer.count \in Nat
  BY <1>1, RowFields
<1>3. c \in Nat /\ c <= fetch[f].peer.count + 1
  BY <1>2, PeerAssumption DEF Capped
<1>4. peers' = [b \in Base |-> IF IsFetchedPeer(f, b) /\ ~fetch[f].cached
                               THEN Counted(peers[b], c) ELSE peers[b]]
  BY DEF SetRecordCount, Counted
<1> HIDE DEF c
<1>5. \A b \in Base : /\ peers[b] \in Row /\ Counted(peers[b], c) \in Row
                      /\ Counted(peers[b], c).id = peers[b].id /\ Counted(peers[b], c).count = c
  BY <1>3, RowCounted DEF TypeOK
<1>6. \A b \in Base : IsFetchedPeer(f, b) => Known(b) /\ peers[b].id = fetch[f].peer.id
  BY DEF IsFetchedPeer
<1>7. peers' \in [Base -> Row]
  BY <1>4, <1>5
<1> QED BY <1>3, <1>4, <1>5, <1>6, <1>7

LEMMA TypeEnds ==
    ASSUME TypeOK, NEW f \in Fetcher,
           NoteFailure(f) \/ SetRecordCount(f) \/ StoreFails(f)
    PROVE  TypeOK' /\ OnlyMoves(f) /\ fetch'[f] = NoFetch
<1> USE FetchesTyped
<1>1. CASE NoteFailure(f)
  <2>1. /\ NoteContact(fetch[f].peer, "error") /\ EndsFetch(f)
        /\ UNCHANGED <<minted, queue, due, graph, admin, announced, batch, hist>>
    BY <1>1 DEF NoteFailure, EndsFetch
  <2>2. peers' \in [Base -> Row]
    BY <2>1, NoteFacts DEF TypeOK
  <2> QED BY <2>1, <2>2, EndFacts DEF TypeOK, OnlyMoves, Fetches, hist
<1>2. CASE SetRecordCount(f)
  <2>1. EndsFetch(f) /\ UNCHANGED <<minted, queue, due, graph, admin, announced, batch, hist>>
    BY <1>2 DEF SetRecordCount, EndsFetch
  <2>2. peers' \in [Base -> Row]
    BY <1>2, CountFacts
  <2> QED BY <2>1, <2>2, EndFacts DEF TypeOK, OnlyMoves, Fetches, hist
<1>3. CASE StoreFails(f)
  <2>1. /\ EndsFetch(f) /\ faults' = faults + 1
        /\ UNCHANGED <<sqlVars, graph, admin, announced, batch, dropped, missed, resolves>>
    BY <1>3 DEF StoreFails, EndsFetch
  <2> QED BY <2>1, EndFacts DEF TypeOK, OnlyMoves, Fetches, sqlVars
<1> QED BY <1>1, <1>2, <1>3

LEMMA TypeStatementFails ==
    ASSUME TypeOK, NEW f \in Fetcher, StatementFails(f)
    PROVE  /\ TypeOK' /\ OnlyMoves(f)
           /\ \/ fetch'[f] = NoFetch
              \/ /\ SameFetch(f) /\ SameFinds(f)
                 /\ <<fetch[f].pc, fetch'[f].pc>> \in
                      {<<"failed", "failed contact">>, <<"track", "mark">>, <<"mark", "count">>}
<1> USE FetchesTyped
<1>1. /\ faults' = faults + 1
      /\ UNCHANGED <<sqlVars, graph, admin, announced, batch, dropped, missed, resolves>>
      /\ \/ fetch[f].pc = "failed" /\ Goto(f, "failed contact")
         \/ fetch[f].pc = "track" /\ Goto(f, "mark")
         \/ fetch[f].pc = "mark" /\ Goto(f, "count")
         \/ EndsFetch(f)
  BY DEF StatementFails, EndsFetch
<1>2. /\ OnlyMoves(f)
      /\ \/ fetch'[f] = NoFetch
         \/ /\ SameFetch(f) /\ SameFinds(f)
            /\ <<fetch[f].pc, fetch'[f].pc>> \in
                 {<<"failed", "failed contact">>, <<"track", "mark">>, <<"mark", "count">>}
  <2>1. ASSUME EndsFetch(f) PROVE OnlyMoves(f) /\ fetch'[f] = NoFetch
    BY <2>1, EndFacts
  <2>2. ASSUME NEW there \in {"failed contact", "mark", "count"}, Goto(f, there)
        PROVE  OnlyMoves(f) /\ SameFetch(f) /\ SameFinds(f) /\ fetch'[f].pc = there
    BY <2>2, GotoFacts DEF FetchPc
  <2> QED BY <1>1, <2>1, <2>2
<1>6. OnlyMoves(f) /\ faults' = faults + 1
  BY <1>1, <1>2
<1>3. Fetches' /\ faults' \in Nat
  BY <1>6 DEF OnlyMoves, TypeOK
<1>4. UNCHANGED <<peers, minted, queue, due, graph, admin, announced, batch, dropped, missed,
                  resolves>>
  BY <1>1 DEF sqlVars
<1>5. TypeOK'
  BY <1>3, <1>4 DEF TypeOK, Fetches
<1> QED BY <1>2, <1>5

LEMMA TypeStarts ==
    ASSUME TypeOK, NEW f \in Fetcher, NEW i \in Resolvable,
           Resolve(f, i) \/ (f = Worker /\ i = Head(batch) /\ ResolveNext)
    PROVE  TypeOK' /\ Start(f, i)
<1>1. CASE Resolve(f, i)
  <2>1. Start(f, i) /\ resolves' = resolves + 1
        /\ UNCHANGED <<sqlVars, graph, admin, announced, batch, dropped, missed>>
    BY <1>1 DEF Resolve
  <2>2. OnlyMoves(f) /\ faults' \in Nat
    BY <2>1, StartFacts
  <2> QED BY <2>1, <2>2 DEF TypeOK, OnlyMoves, Fetches, sqlVars
<1>2. CASE f = Worker /\ i = Head(batch) /\ ResolveNext
  <2>1. Start(f, i) /\ batch # <<>> /\ batch' = Tail(batch)
        /\ UNCHANGED <<sqlVars, graph, admin, announced, dropped, missed, resolves>>
    BY <1>2 DEF ResolveNext
  <2>2. OnlyMoves(f) /\ faults' \in Nat
    BY <2>1, StartFacts
  <2>3. batch' \in Seq(Resolvable)
    BY <2>1, HeadTailProperties DEF TypeOK
  <2> QED BY <2>1, <2>2, <2>3 DEF TypeOK, OnlyMoves, Fetches, sqlVars
<1> QED BY <1>1, <1>2

LEMMA TypeCrash == TypeOK /\ Crash => TypeOK'
<1> SUFFICES ASSUME TypeOK, Crash PROVE TypeOK'
  OBVIOUS
<1>1. NoAdmin \in AdminType /\ NoFetch \in FetchType
  BY AdminTypes, NoFetchFields
<1>2. NoAnnounce \in [base : Base \cup {None}, row : Row]
  BY RowFields DEF NoAnnounce
<1>3. /\ admin' = [m \in Admin |-> NoAdmin] /\ announced' = [n \in Announcer |-> NoAnnounce]
      /\ fetch' = [f \in Fetcher |-> NoFetch] /\ batch' = <<>> /\ faults' = faults + 1
      /\ UNCHANGED <<sqlVars, graph, dropped, missed, resolves>>
  BY DEF Crash
<1> QED BY <1>1, <1>2, <1>3 DEF TypeOK, sqlVars

LEMMA TypeNext == TypeOK /\ RowInv /\ [Next]_vars => TypeOK'
<1> SUFFICES ASSUME TypeOK, RowInv, [Next]_vars PROVE TypeOK'
  OBVIOUS
<1>1. ASSUME NEW m \in Admin, AdminStep(m) PROVE TypeOK'
  BY <1>1, TypeAdd, TypeUpsert, TypeSuggestion, TypeRemove DEF AdminStep
<1>2. ASSUME NEW n \in Announcer, (\E b \in Base : BeginAnnounce(n, b)) \/ RecordAnnouncement(n)
      PROVE  TypeOK'
  BY <1>2, TypeAnnounce
<1>3. ASSUME NEW f \in Fetcher, FetchStep(f) \/ StoreFails(f) \/ StatementFails(f)
      PROVE  TypeOK'
  BY <1>3, TypeMoves, TypeAnswers, TypeLeftovers, TypeAsks, TypeEnds, TypeStatementFails
     DEF FetchStep
<1>4. ASSUME NEW f \in Reader, NEW i \in Resolvable, Resolve(f, i) PROVE TypeOK'
  BY <1>4, TypeStarts DEF Fetcher
<1>5. ASSUME ResolveNext PROVE TypeOK'
  <2>1. Head(batch) \in Resolvable
    BY <1>5, HeadTailProperties DEF ResolveNext, TypeOK
  <2> QED BY <1>5, <2>1, TypeStarts DEF Fetcher
<1>6. CASE UNCHANGED vars
  BY <1>6 DEF vars, sqlVars, hist, TypeOK
<1>7. Worker \in Fetcher /\ Reader \subseteq Fetcher
  BY DEF Fetcher
<1> QED BY <1>1, <1>2, <1>3, <1>4, <1>5, <1>6, <1>7, TypeQueue, TypeCrash DEF Next, ResolverStep

-----------------------------------------------------------------------------
(* Rows: an id is of its base, wherever a copy of it is.                      *)

LEMMA RowInit == Init => RowInv
<1> SUFFICES ASSUME Init PROVE RowInv
  OBVIOUS
<1>1. \A b \in Base : Known(b) => OfBase(peers[b], b)
  <2>1. \A b \in Base : PeerRow(FirstId(b), "active", "ok", 0).id = FirstId(b)
    BY RowMade, IdFacts
  <2> QED BY <2>1, IdFacts DEF Init, Known, OfBase
<1>2. \A m \in Admin : admin[m].pc = "idle"
  BY AdminTypes DEF Init
<1>3. \A n \in Announcer : announced[n] = NoAnnounce
  BY DEF Init
<1>4. \A f \in Fetcher : fetch[f].pc = "idle" /\ fetch[f].peer = NoPeer
  BY NoFetchFields DEF Init
<1> QED BY <1>1, <1>2, <1>3, <1>4 DEF RowInv

RowsOK == \A b \in Base : Known(b) => OfBase(peers[b], b)
AdminOK(m) ==
    /\ admin[m].pc \in {"upsert", "put"} => OfBase(admin[m].row, admin[m].base)
    /\ admin[m].pc \in {"drop", "delete"} => admin[m].row.id \in Id
AnnounceOK(n) == announced[n] # NoAnnounce => OfBase(announced[n].row, announced[n].base)
FetchOK(f) ==
    /\ fetch[f].pc # "idle" => fetch[f].iri \in Resolvable
    /\ fetch[f].peer # NoPeer => OfBase(fetch[f].peer, BaseOf[fetch[f].iri])

LEMMA RowParts == RowInv <=> /\ RowsOK /\ \A m \in Admin : AdminOK(m)
                             /\ \A n \in Announcer : AnnounceOK(n)
                             /\ \A f \in Fetcher : FetchOK(f)
BY DEF RowInv, RowsOK, AdminOK, AnnounceOK, FetchOK

LEMMA RowPartsNext ==
    ASSUME RowsOK', \A m \in Admin : AdminOK(m)', \A n \in Announcer : AnnounceOK(n)',
           \A f \in Fetcher : FetchOK(f)'
    PROVE  RowInv'
BY DEF RowInv, RowsOK, AdminOK, AnnounceOK, FetchOK

LEMMA MintedId ==
    ASSUME TypeOK, NEW b \in Base, Mint(b)
    PROVE  NewId(b) \in Id /\ NewId(b)[1] = b
BY IdFacts DEF TypeOK, Mint, NewId

LEMMA OfItsBase ==
    ASSUME NEW b \in Base, NEW id \in Id, id[1] = b, NEW row, row.id = id
    PROVE  OfBase(row, b)
BY DEF OfBase

(* A step that leaves the fetches alone, and one that leaves all but one.     *)
LEMMA RowFrame ==
    ASSUME RowInv
    PROVE  /\ UNCHANGED peers => RowsOK'
           /\ UNCHANGED admin => \A m \in Admin : AdminOK(m)'
           /\ \A m \in Admin : \A x : admin' = [admin EXCEPT ![m] = x] =>
                 \A o \in Admin \ {m} : AdminOK(o)'
           /\ UNCHANGED announced => \A n \in Announcer : AnnounceOK(n)'
           /\ UNCHANGED fetch => \A f \in Fetcher : FetchOK(f)'
           /\ \A f \in Fetcher : OnlyMoves(f) => \A g \in Fetcher \ {f} : FetchOK(g)'
           /\ \A f \in Fetcher :
                 (fetch[f].pc # "idle" /\ SameFetch(f)) \/ fetch'[f] = NoFetch => FetchOK(f)'
<1>1. RowsOK /\ (\A m \in Admin : AdminOK(m)) /\ (\A n \in Announcer : AnnounceOK(n))
      /\ \A f \in Fetcher : FetchOK(f)
  BY RowParts
<1>2. UNCHANGED peers => RowsOK'
  BY <1>1 DEF RowsOK, Known
<1>3. UNCHANGED admin => \A m \in Admin : AdminOK(m)'
  BY <1>1 DEF AdminOK
<1>4. ASSUME NEW m \in Admin, NEW x, admin' = [admin EXCEPT ![m] = x], NEW o \in Admin \ {m}
      PROVE  AdminOK(o)'
  <2>1. admin'[o] = admin[o]
    BY <1>4
  <2> QED BY <1>1, <2>1 DEF AdminOK
<1>5. UNCHANGED announced => \A n \in Announcer : AnnounceOK(n)'
  BY <1>1 DEF AnnounceOK
<1>6. UNCHANGED fetch => \A f \in Fetcher : FetchOK(f)'
  BY <1>1 DEF FetchOK
<1>7. ASSUME NEW f \in Fetcher, OnlyMoves(f), NEW g \in Fetcher \ {f}
      PROVE  FetchOK(g)'
  <2>1. fetch'[g] = fetch[g]
    BY <1>7 DEF OnlyMoves
  <2> QED BY <1>1, <2>1 DEF FetchOK
<1>8. ASSUME NEW f \in Fetcher, (fetch[f].pc # "idle" /\ SameFetch(f)) \/ fetch'[f] = NoFetch
      PROVE  FetchOK(f)'
  BY <1>1, <1>8, NoFetchFields DEF FetchOK, SameFetch
<1> QED BY <1>2, <1>3, <1>4, <1>5, <1>6, <1>7, <1>8

(* What is written to the table is of its base.                              *)
LEMMA RowUpsert ==
    ASSUME TypeOK, RowsOK, NEW b \in Base, NEW row \in Row, OfBase(row, b), Upsert(b, row)
    PROVE  RowsOK'
<1>1. peers' \in [Base -> Row]
      /\ (\A c \in Base : c # b => peers'[c] = peers[c])
      /\ (Known(b) => peers'[b].id = peers[b].id) /\ (~Known(b) => peers'[b] = row)
  BY UpsertFacts DEF TypeOK
<1>2. \A c \in Base : c # b => (Known(c)' => OfBase(peers[c], c)')
  BY <1>1 DEF RowsOK, Known, OfBase
<1>3. OfBase(peers[b], b)'
  BY <1>1 DEF RowsOK, OfBase
<1> QED BY <1>2, <1>3 DEF RowsOK

LEMMA RowSameIds ==
    ASSUME RowsOK, \A b \in Base : peers'[b].id = peers[b].id,
           \A b \in Base : ~Known(b) => peers'[b] = peers[b]
    PROVE  RowsOK'
BY DEF RowsOK, Known, OfBase

LEMMA RowAdmin ==
    ASSUME TypeOK, RowInv, NEW m \in Admin, AdminStep(m)
    PROVE  RowInv'
<1>1. RowsOK /\ AdminOK(m) /\ admin[m] \in AdminType
  BY RowParts DEF TypeOK
<1>2. UNCHANGED <<announced, fetch>>
  BY DEF AdminStep, BeginAdd, BeginRemove, UpsertPeer, LookUpSuggestion, PutSuggestion, DropGraph,
         DeletePeer, AbandonAdmin
<1>3. ASSUME RowsOK', NEW x, admin' = [admin EXCEPT ![m] = x],
             x.pc \in {"upsert", "put"} => OfBase(x.row, x.base),
             x.pc \in {"drop", "delete"} => x.row.id \in Id
      PROVE  RowInv'
  <2>1. AdminOK(m)'
    BY <1>3 DEF AdminOK, TypeOK
  <2>2. \A o \in Admin \ {m} : AdminOK(o)'
    BY <1>3, RowFrame
  <2>3. (\A n \in Announcer : AnnounceOK(n)') /\ \A f \in Fetcher : FetchOK(f)'
    BY <1>2, RowFrame
  <2> QED BY <1>3, <2>1, <2>2, <2>3, RowPartsNext
<1>4. ASSUME NEW b \in Base, NEW others \in SUBSET (Base \ {b}), BeginAdd(m, b, others)
      PROVE  RowInv'
  <2> DEFINE row == IF Known(b) THEN PeerRow(peers[b].id, "active", "ok", peers[b].count)
                                ELSE PeerRow(NewId(b), "active", "ok", 0)
             x == [pc |-> "upsert", base |-> b, row |-> row, todo |-> others]
  <2>1. NewId(b) \in Id /\ NewId(b)[1] = b
    BY <1>4, MintedId DEF BeginAdd
  <2>2. ASSUME Known(b) PROVE OfBase(row, b)
    <3>1. peers[b].id \in Id /\ peers[b].id[1] = b /\ peers[b].count \in Nat
      BY <1>1, <2>2, RowFields DEF RowsOK, OfBase, TypeOK
    <3>2. row.id = peers[b].id
      BY <2>2, <3>1, RowMade
    <3> HIDE DEF row
    <3> QED BY <3>1, <3>2, OfItsBase
  <2>3. ASSUME ~Known(b) PROVE OfBase(row, b)
    <3>1. row.id = NewId(b)
      BY <2>1, <2>3, RowMade
    <3> HIDE DEF row
    <3> QED BY <2>1, <3>1, OfItsBase
  <2>4. admin' = [admin EXCEPT ![m] = x] /\ UNCHANGED peers
    BY <1>4 DEF BeginAdd
  <2>5. OfBase(row, b)
    BY <2>2, <2>3
  <2> HIDE DEF row
  <2>6. x.pc = "upsert" /\ x.row = row /\ x.base = b
    OBVIOUS
  <2> HIDE DEF x
  <2>7. RowsOK'
    BY <2>4, RowFrame
  <2> QED BY <1>3, <2>4, <2>5, <2>6, <2>7
<1>5. CASE UpsertPeer(m) \/ PutSuggestion(m)
  <2>1. /\ OfBase(admin[m].row, admin[m].base)
        /\ Upsert(admin[m].base, admin[m].row)
        /\ admin' = [admin EXCEPT ![m] = Suggesting(admin[m].todo)]
    BY <1>1, <1>5 DEF AdminOK, UpsertPeer, PutSuggestion
  <2>2. admin[m].row \in Row /\ admin[m].base \in Base
    BY <1>1, <2>1, AdminTypes DEF OfBase
  <2>3. RowsOK'
    BY <1>1, <2>1, <2>2, RowUpsert
  <2>4. Suggesting(admin[m].todo).pc \in {"idle", "suggest"}
    BY <1>1, AdminTypes
  <2> QED BY <1>3, <2>1, <2>3, <2>4
<1>6. CASE LookUpSuggestion(m)
  <2>1. PICK b \in admin[m].todo :
          IF Known(b)
          THEN /\ admin' = [admin EXCEPT ![m] = Suggesting(@.todo \ {b})]
               /\ UNCHANGED minted
          ELSE /\ Mint(b)
               /\ admin' = [admin EXCEPT ![m] =
                    [pc |-> "put", base |-> b, todo |-> @.todo \ {b},
                     row |-> PeerRow(NewId(b), "suggested", "unknown", 0)]]
    BY <1>6 DEF LookUpSuggestion
  <2>2. b \in Base /\ admin[m].todo \ {b} \in SUBSET Base
    BY <1>1, AdminTypes
  <2>3. RowsOK'
    BY <1>6, RowFrame DEF LookUpSuggestion
  <2>4. CASE Known(b)
    <3>1. Suggesting(admin[m].todo \ {b}).pc \in {"idle", "suggest"}
      BY <2>2, AdminTypes
    <3> QED BY <1>3, <2>1, <2>3, <2>4, <3>1
  <2>5. CASE ~Known(b)
    <3> DEFINE row == PeerRow(NewId(b), "suggested", "unknown", 0)
               x == [pc |-> "put", base |-> b, todo |-> admin[m].todo \ {b}, row |-> row]
    <3>1. NewId(b) \in Id /\ NewId(b)[1] = b
      BY <2>1, <2>2, <2>5, MintedId
    <3>2. row.id = NewId(b)
      BY <3>1, RowMade
    <3>3. admin' = [admin EXCEPT ![m] = x]
      BY <2>1, <2>5
    <3> HIDE DEF row
    <3>5. OfBase(row, b)
      BY <2>2, <3>1, <3>2, OfItsBase
    <3>4. x.pc = "put" /\ x.row = row /\ x.base = b
      OBVIOUS
    <3> HIDE DEF x
    <3> QED BY <1>3, <2>3, <3>5, <3>3, <3>4
  <2> QED BY <2>4, <2>5
<1>7. ASSUME NEW b \in Base, BeginRemove(m, b) PROVE RowInv'
  <2> DEFINE x == [NoAdmin EXCEPT !.pc = "drop", !.row = peers[b]]
  <2>1. admin' = [admin EXCEPT ![m] = x] /\ UNCHANGED peers
    BY <1>7 DEF BeginRemove, sqlVars
  <2>2. x.pc = "drop" /\ x.row = peers[b]
    BY AdminTypes DEF TypeOK
  <2>3. peers[b].id \in Id
    BY <1>1, <1>7 DEF BeginRemove, RowsOK, OfBase
  <2> HIDE DEF x
  <2>4. RowsOK'
    BY <2>1, RowFrame
  <2> QED BY <1>3, <2>1, <2>2, <2>3, <2>4
<1>8. CASE DropGraph(m)
  <2> DEFINE x == [admin[m] EXCEPT !.pc = "delete"]
  <2>1. admin' = [admin EXCEPT ![m] = x] /\ UNCHANGED peers /\ admin[m].pc = "drop"
    BY <1>8 DEF DropGraph, sqlVars
  <2>2. x.pc = "delete" /\ x.row = admin[m].row
    BY <1>1 DEF AdminType
  <2>3. admin[m].row.id \in Id
    BY <1>1, <2>1 DEF AdminOK
  <2> HIDE DEF x
  <2>4. RowsOK'
    BY <2>1, RowFrame
  <2> QED BY <1>3, <2>1, <2>2, <2>3, <2>4
<1>9. CASE DeletePeer(m)
  <2>1. /\ peers' = [b \in Base |-> IF peers[b].id = admin[m].row.id THEN NoPeer ELSE peers[b]]
        /\ admin' = [admin EXCEPT ![m] = NoAdmin]
    BY <1>9 DEF DeletePeer
  <2>2. RowsOK'
    BY <1>1, <2>1 DEF RowsOK, Known, OfBase
  <2>3. NoAdmin.pc = "idle"
    BY AdminTypes
  <2> QED BY <1>3, <2>1, <2>2, <2>3
<1>10. CASE AbandonAdmin(m)
  <2>1. admin' = [admin EXCEPT ![m] = NoAdmin] /\ UNCHANGED peers
    BY <1>10 DEF AbandonAdmin, sqlVars
  <2>2. NoAdmin.pc = "idle" /\ RowsOK'
    BY <2>1, AdminTypes, RowFrame
  <2> QED BY <1>3, <2>1, <2>2
<1> QED BY <1>4, <1>5, <1>6, <1>7, <1>8, <1>9, <1>10 DEF AdminStep

LEMMA RowAnnounce ==
    ASSUME TypeOK, RowInv, NEW n \in Announcer,
           (\E b \in Base : BeginAnnounce(n, b)) \/ RecordAnnouncement(n)
    PROVE  RowInv'
<1>1. RowsOK /\ AnnounceOK(n) /\ \A k \in Announcer : AnnounceOK(k)
  BY RowParts
<1>2. UNCHANGED <<admin, fetch>>
  BY DEF BeginAnnounce, RecordAnnouncement
<1>3. ASSUME RowsOK', NEW x, announced' = [announced EXCEPT ![n] = x],
             x # NoAnnounce => OfBase(x.row, x.base)
      PROVE  RowInv'
  <2>1. \A k \in Announcer : AnnounceOK(k)'
    BY <1>1, <1>3 DEF AnnounceOK, TypeOK
  <2>2. (\A m \in Admin : AdminOK(m)') /\ \A f \in Fetcher : FetchOK(f)'
    BY <1>2, RowFrame
  <2> QED BY <1>3, <2>1, <2>2, RowPartsNext
<1>4. ASSUME NEW b \in Base, BeginAnnounce(n, b) PROVE RowInv'
  <2> DEFINE row == PeerRow(NewId(b), "suggested", "unknown", 0)
             x == [base |-> b, row |-> row]
  <2>1. NewId(b) \in Id /\ NewId(b)[1] = b
    BY <1>4, MintedId DEF BeginAnnounce
  <2>2. row.id = NewId(b)
    BY <2>1, RowMade
  <2>3. announced' = [announced EXCEPT ![n] = x] /\ UNCHANGED peers
    BY <1>4 DEF BeginAnnounce
  <2>4. RowsOK'
    BY <2>3, RowFrame
  <2> HIDE DEF row
  <2>6. OfBase(row, b)
    BY <2>1, <2>2, OfItsBase
  <2>5. x.row = row /\ x.base = b
    OBVIOUS
  <2> HIDE DEF x
  <2> QED BY <1>3, <2>6, <2>3, <2>4, <2>5
<1>5. CASE RecordAnnouncement(n)
  <2>1. /\ OfBase(announced[n].row, announced[n].base) /\ announced[n].row \in Row
        /\ Upsert(announced[n].base, announced[n].row)
        /\ announced' = [announced EXCEPT ![n] = NoAnnounce]
    BY <1>1, <1>5 DEF RecordAnnouncement, AnnounceOK, TypeOK
  <2>2. RowsOK'
    BY <1>1, <2>1, RowUpsert DEF OfBase
  <2> QED BY <1>3, <2>1, <2>2
<1> QED BY <1>4, <1>5

LEMMA RowFetch ==
    ASSUME TypeOK, RowInv, NEW f \in Fetcher,
           FetchStep(f) \/ StoreFails(f) \/ StatementFails(f)
    PROVE  RowInv'
<1> USE FetchesTyped
<1>1. RowsOK
  BY RowParts
<1>2. UNCHANGED <<admin, announced>>
  BY DEF FetchStep, GetFails, GetAnswers, MarkFailed, NoteFailure, CheckLeftover, AskCached,
         ApplyStub, Track, MarkResolved, SetRecordCount, StoreFails, StatementFails
<1>3. ASSUME RowsOK', OnlyMoves(f),
             (fetch[f].pc # "idle" /\ SameFetch(f)) \/ fetch'[f] = NoFetch
      PROVE  RowInv'
  <2>1. (\A m \in Admin : AdminOK(m)') /\ \A n \in Announcer : AnnounceOK(n)'
    BY <1>2, RowFrame
  <2>2. FetchOK(f)' /\ \A g \in Fetcher \ {f} : FetchOK(g)'
    BY <1>3, RowFrame
  <2> QED BY <1>3, <2>1, <2>2, RowPartsNext
<1>4. UNCHANGED peers => RowsOK'
  BY RowFrame
<1>5. CASE GetFails(f) \/ MarkFailed(f) \/ Track(f) \/ MarkResolved(f) \/ ApplyStub(f)
  <2>1. UNCHANGED peers /\ fetch[f].pc # "idle"
    BY <1>5 DEF GetFails, MarkFailed, Track, MarkResolved, ApplyStub, sqlVars
  <2> QED BY <1>3, <1>4, <1>5, <2>1, TypeMoves
<1>6. CASE GetAnswers(f)
  <2>1. RowsOK'
    BY <1>1, <1>6, NoteFacts, RowSameIds DEF GetAnswers, TypeOK
  <2>2. fetch[f].pc # "idle"
    BY <1>6 DEF GetAnswers
  <2> QED BY <1>3, <1>6, <2>1, <2>2, TypeAnswers
<1>7. CASE CheckLeftover(f)
  <2>1. UNCHANGED peers /\ fetch[f].pc # "idle"
    BY <1>7 DEF CheckLeftover, sqlVars
  <2> QED BY <1>3, <1>4, <1>7, <2>1, TypeLeftovers
<1>8. CASE AskCached(f)
  <2>1. UNCHANGED peers /\ fetch[f].pc # "idle"
    BY <1>8 DEF AskCached, sqlVars
  <2> QED BY <1>3, <1>4, <1>8, <2>1, AskFacts
<1>9. CASE NoteFailure(f)
  <2>1. RowsOK'
    BY <1>1, <1>9, NoteFacts, RowSameIds DEF NoteFailure, TypeOK
  <2> QED BY <1>3, <1>9, <2>1, TypeEnds
<1>10. CASE SetRecordCount(f)
  <2>1. RowsOK'
    BY <1>1, <1>10, CountFacts, RowSameIds
  <2> QED BY <1>3, <1>10, <2>1, TypeEnds
<1>11. CASE StoreFails(f)
  <2>1. UNCHANGED peers
    BY <1>11 DEF StoreFails, sqlVars
  <2> QED BY <1>3, <1>4, <1>11, <2>1, TypeEnds
<1>12. CASE StatementFails(f)
  <2>1. UNCHANGED peers /\ fetch[f].pc # "idle"
    BY <1>12 DEF StatementFails, sqlVars, Goto
  <2>2. OnlyMoves(f) /\ (SameFetch(f) \/ fetch'[f] = NoFetch)
    BY <1>12, TypeStatementFails
  <2> QED BY <1>3, <1>4, <2>1, <2>2
<1> QED BY <1>5, <1>6, <1>7, <1>8, <1>9, <1>10, <1>11, <1>12 DEF FetchStep

LEMMA RowStarts ==
    ASSUME TypeOK, RowInv, NEW f \in Fetcher, NEW i \in Resolvable, Start(f, i),
           UNCHANGED <<peers, admin, announced>>
    PROVE  RowInv'
<1>1. RowsOK
  BY RowParts
<1>2. /\ OnlyMoves(f) /\ fetch'[f].iri = i /\ fetch'[f].peer \in {NoPeer, OwningPeer(i)}
  BY StartFacts
<1>3. OwningPeer(i) # NoPeer => OfBase(OwningPeer(i), BaseOf[i])
  BY <1>1, PeerAssumption DEF OwningPeer, RowsOK, Known
<1>4. FetchOK(f)'
  BY <1>2, <1>3 DEF FetchOK, OfBase
<1>5. RowsOK' /\ (\A m \in Admin : AdminOK(m)') /\ (\A n \in Announcer : AnnounceOK(n)')
      /\ \A g \in Fetcher \ {f} : FetchOK(g)'
  BY <1>2, RowFrame
<1> QED BY <1>4, <1>5, RowPartsNext

LEMMA RowNext == TypeOK /\ RowInv /\ [Next]_vars => RowInv'
<1> SUFFICES ASSUME TypeOK, RowInv, [Next]_vars PROVE RowInv'
  OBVIOUS
<1>1. ASSUME NEW f \in Reader, NEW i \in Resolvable, Resolve(f, i) PROVE RowInv'
  BY <1>1, RowStarts DEF Resolve, Fetcher, sqlVars
<1>2. ASSUME ResolveNext PROVE RowInv'
  <2>1. Head(batch) \in Resolvable /\ Worker \in Fetcher
    BY <1>2, HeadTailProperties DEF ResolveNext, TypeOK, Fetcher
  <2> QED BY <1>2, <2>1, RowStarts DEF ResolveNext, sqlVars
<1>3. UNCHANGED <<peers, admin, announced, fetch>> => RowInv'
  BY RowFrame, RowPartsNext
<1>4. CASE (\E i \in Resolvable : Cite(i) \/ ComeDue(i)) \/ ResolverTick \/ UNCHANGED vars
  <2>1. UNCHANGED <<peers, admin, announced, fetch>>
    BY <1>4 DEF Cite, ComeDue, ResolverTick, vars, sqlVars
  <2> QED BY <1>3, <2>1
<1>5. CASE Crash
  <2>1. UNCHANGED peers /\ (\A m \in Admin : admin'[m] = NoAdmin)
        /\ (\A n \in Announcer : announced'[n] = NoAnnounce)
        /\ \A f \in Fetcher : fetch'[f] = NoFetch
    BY <1>5 DEF Crash, sqlVars
  <2>2. RowsOK' /\ \A f \in Fetcher : FetchOK(f)'
    BY <2>1, RowFrame
  <2>3. (\A m \in Admin : AdminOK(m)') /\ \A n \in Announcer : AnnounceOK(n)'
    BY <2>1, AdminTypes DEF AdminOK, AnnounceOK
  <2> QED BY <2>2, <2>3, RowPartsNext
<1>6. ASSUME NEW f \in Fetcher, FetchStep(f) \/ StoreFails(f) \/ StatementFails(f)
      PROVE  RowInv'
  BY <1>6, RowFetch
<1>7. Worker \in Fetcher /\ Reader \subseteq Fetcher
  BY DEF Fetcher
<1> QED BY <1>1, <1>2, <1>4, <1>5, <1>6, <1>7, RowAdmin, RowAnnounce DEF Next, ResolverStep

(* Every variable keeps its type, and every copy of a peer's row -- in the     *)
(* table, in a request's hands, in a fetch's -- has an id of its base.         *)
THEOREM TypeCorrect == Spec => [](TypeOK /\ RowInv)
<1>1. Init => TypeOK /\ RowInv
  BY TypeInit, RowInit
<1>2. TypeOK /\ RowInv /\ [Next]_vars => (TypeOK /\ RowInv)'
  BY TypeNext, RowNext
<1> QED BY <1>1, <1>2, PTL DEF Spec

-----------------------------------------------------------------------------
(* A peer keeps its id.                                                      *)

KeepsIds == \A b \in Base : Known(b) /\ peers'[b] # NoPeer => peers'[b].id = peers[b].id

LEMMA IdsKept == TypeOK /\ RowInv /\ [Next]_vars => KeepsIds
<1> SUFFICES ASSUME TypeOK, RowInv, [Next]_vars PROVE KeepsIds
  OBVIOUS
<1>1. UNCHANGED peers => KeepsIds
  BY DEF KeepsIds
<1>2. ASSUME NEW b \in Base, NEW row \in Row, Upsert(b, row) PROVE KeepsIds
  <2>1. /\ \A c \in Base : c # b => peers'[c] = peers[c]
        /\ Known(b) => peers'[b].id = peers[b].id
    BY <1>2, UpsertFacts DEF TypeOK
  <2> QED BY <2>1 DEF KeepsIds
<1>3. ASSUME NEW m \in Admin, AdminStep(m) PROVE KeepsIds
  <2>1. CASE UpsertPeer(m) \/ PutSuggestion(m)
    <3>1. Upsert(admin[m].base, admin[m].row) /\ OfBase(admin[m].row, admin[m].base)
      BY <2>1 DEF UpsertPeer, PutSuggestion, RowInv
    <3>2. admin[m].row \in Row /\ admin[m].base \in Base
      BY <3>1, AdminTypes DEF TypeOK, OfBase
    <3> QED BY <1>2, <3>1, <3>2
  <2>2. CASE DeletePeer(m)
    BY <2>2 DEF DeletePeer, KeepsIds
  <2>3. CASE LookUpSuggestion(m) \/ DropGraph(m) \/ AbandonAdmin(m)
    BY <1>1, <2>3 DEF LookUpSuggestion, DropGraph, AbandonAdmin, sqlVars
  <2>4. ASSUME NEW b \in Base, BeginRemove(m, b) PROVE KeepsIds
    BY <1>1, <2>4 DEF BeginRemove, sqlVars
  <2>5. ASSUME NEW b \in Base, NEW others \in SUBSET (Base \ {b}), BeginAdd(m, b, others)
        PROVE  KeepsIds
    BY <1>1, <2>5 DEF BeginAdd
  <2> QED BY <1>3, <2>1, <2>2, <2>3, <2>4, <2>5 DEF AdminStep
<1>4. ASSUME NEW n \in Announcer, RecordAnnouncement(n) PROVE KeepsIds
  <2>1. /\ Upsert(announced[n].base, announced[n].row) /\ announced[n].row \in Row
        /\ announced[n].base \in Base
    BY <1>4 DEF RecordAnnouncement, RowInv, OfBase, TypeOK
  <2> QED BY <1>2, <2>1
<1>5. ASSUME NEW n \in Announcer, NEW b \in Base, BeginAnnounce(n, b) PROVE KeepsIds
  BY <1>1, <1>5 DEF BeginAnnounce
<1>6. ASSUME NEW f \in Fetcher, FetchStep(f) \/ StoreFails(f) \/ StatementFails(f)
      PROVE  KeepsIds
  <2>1. CASE GetAnswers(f) \/ NoteFailure(f)
    BY <2>1, NoteFacts DEF GetAnswers, NoteFailure, KeepsIds, TypeOK
  <2>2. CASE SetRecordCount(f)
    BY <2>2, CountFacts DEF KeepsIds
  <2>3. CASE UNCHANGED peers
    BY <1>1, <2>3
  <2> QED BY <1>6, <2>1, <2>2, <2>3
          DEF FetchStep, GetFails, MarkFailed, CheckLeftover, AskCached, ApplyStub, Track,
              MarkResolved, StoreFails, StatementFails, sqlVars
<1>7. ASSUME NEW f \in Reader, NEW i \in Resolvable, Resolve(f, i) PROVE KeepsIds
  BY <1>1, <1>7 DEF Resolve, sqlVars
<1>8. CASE (\E i \in Resolvable : Cite(i) \/ ComeDue(i)) \/ ResolverTick \/ ResolveNext \/ Crash
           \/ UNCHANGED vars
  BY <1>1, <1>8 DEF Cite, ComeDue, ResolverTick, ResolveNext, Crash, vars, sqlVars
<1>9. Worker \in Fetcher /\ Reader \subseteq Fetcher
  BY DEF Fetcher
<1> QED BY <1>3, <1>4, <1>5, <1>6, <1>7, <1>8, <1>9 DEF Next, ResolverStep

(* upsert_peer: the base IRI decides, whichever of two adds or announcements   *)
(* comes second; only a removal lets the base have another id.               *)
THEOREM PeerIdAlwaysStable == Spec => PeerIdStable
<1>1. TypeOK /\ RowInv /\ [Next]_vars =>
        [\A b \in Base : Known(b) /\ peers'[b] # NoPeer => peers'[b].id = peers[b].id]_vars
  BY IdsKept DEF KeepsIds
<1> QED BY <1>1, TypeCorrect, PTL DEF Spec, PeerIdStable

-----------------------------------------------------------------------------
(* Stubs: what a fetch deletes besides the stub was missed.                   *)

StubOK(f) ==
    /\ fetch[f].leftovers \subseteq missed
    /\ fetch[f].pc \in {"leftovers", "apply"} =>
          \/ fetch[f].stub = {fetch[f].iri}
          \/ fetch[f].stub = {} /\ fetch[f].iri \in missed

LEMMA StubFrame ==
    ASSUME StubInv, missed \subseteq missed'
    PROVE  /\ UNCHANGED fetch => StubInv'
           /\ \A f \in Fetcher : OnlyMoves(f) /\ StubOK(f)' => StubInv'
           /\ \A f \in Fetcher : OnlyMoves(f) /\ fetch'[f] = NoFetch => StubInv'
<1>1. \A f \in Fetcher : StubOK(f)
  BY DEF StubInv, StubOK
<1>2. ASSUME NEW g \in Fetcher, fetch'[g] = fetch[g] PROVE StubOK(g)'
  BY <1>1, <1>2 DEF StubOK
<1>3. ASSUME NEW g \in Fetcher, fetch'[g] = NoFetch PROVE StubOK(g)'
  BY <1>3, NoFetchFields DEF StubOK
<1>4. (\A g \in Fetcher : StubOK(g)') => StubInv'
  BY DEF StubInv, StubOK
<1>5. ASSUME NEW f \in Fetcher, OnlyMoves(f), StubOK(f)' PROVE StubInv'
  BY <1>2, <1>4, <1>5 DEF OnlyMoves
<1>6. UNCHANGED fetch => StubInv'
  BY <1>2, <1>4
<1> QED BY <1>3, <1>5, <1>6

LEMMA StubInit == Init => StubInv
BY NoFetchFields DEF Init, StubInv

LEMMA StubFetch ==
    ASSUME TypeOK, RowInv, StubInv, NEW f \in Fetcher,
           FetchStep(f) \/ StoreFails(f) \/ StatementFails(f)
    PROVE  StubInv'
<1> USE FetchesTyped
<1>1. StubOK(f)
  BY DEF StubInv, StubOK
<1>2. ASSUME OnlyMoves(f), SameFetch(f), missed \subseteq missed',
             fetch'[f].leftovers \subseteq fetch[f].leftovers \cup missed',
             \/ fetch'[f].stub = fetch[f].stub /\ fetch[f].pc \in {"leftovers", "apply"}
             \/ fetch'[f].stub = {fetch[f].iri}
             \/ fetch'[f].stub = {} /\ fetch[f].iri \in missed'
             \/ fetch'[f].pc \notin {"leftovers", "apply"}
      PROVE  StubInv'
  <2>1. StubOK(f)'
    BY <1>1, <1>2 DEF StubOK, SameFetch
  <2> QED BY <1>2, <2>1, StubFrame
<1>3. CASE GetFails(f) \/ MarkFailed(f) \/ Track(f) \/ MarkResolved(f) \/ ApplyStub(f)
  <2>1. missed' = missed /\ fetch[f].pc # "idle"
    BY <1>3 DEF GetFails, MarkFailed, Track, MarkResolved, ApplyStub, hist
  <2>2. fetch'[f].pc \notin {"leftovers", "apply"}
    BY <1>3, GotoFacts DEF GetFails, MarkFailed, Track, MarkResolved, ApplyStub, Goto, FetchPc
  <2>3. OnlyMoves(f) /\ SameFetch(f) /\ SameFinds(f)
    BY <1>3, TypeMoves
  <2> QED BY <1>2, <2>1, <2>2, <2>3 DEF SameFinds
<1>4. CASE GetAnswers(f)
  BY <1>2, <1>4, TypeAnswers
<1>5. CASE CheckLeftover(f)
  <2>1. fetch[f].pc = "leftovers"
    BY <1>5 DEF CheckLeftover
  <2> QED BY <1>2, <1>5, <2>1, TypeLeftovers
<1>6. CASE AskCached(f)
  <2>1. fetch[f].pc = "leftovers" /\ missed' = missed
    BY <1>6 DEF AskCached, hist
  <2> QED BY <1>2, <1>6, <2>1, AskFacts
<1>7. CASE NoteFailure(f) \/ SetRecordCount(f) \/ StoreFails(f)
  <2>1. missed' = missed
    BY <1>7 DEF NoteFailure, SetRecordCount, StoreFails, hist
  <2> QED BY <1>7, <2>1, TypeEnds, StubFrame
<1>8. CASE StatementFails(f)
  <2>1. missed' = missed
    BY <1>8 DEF StatementFails
  <2>2. CASE OnlyMoves(f) /\ fetch'[f] = NoFetch
    BY <2>1, <2>2, StubFrame
  <2>3. CASE OnlyMoves(f) /\ SameFetch(f) /\ SameFinds(f)
             /\ fetch'[f].pc \in {"failed contact", "mark", "count"}
    BY <1>2, <2>1, <2>3 DEF SameFinds
  <2> QED BY <1>8, <2>2, <2>3, TypeStatementFails
<1> QED BY <1>3, <1>4, <1>5, <1>6, <1>7, <1>8 DEF FetchStep

LEMMA StubStarts ==
    ASSUME TypeOK, StubInv, NEW f \in Fetcher, NEW i \in Resolvable, Start(f, i),
           UNCHANGED missed
    PROVE  StubInv'
<1>1. OnlyMoves(f) /\ fetch'[f].pc = "get" /\ fetch'[f].leftovers = {}
  BY StartFacts
<1>2. StubOK(f)'
  BY <1>1 DEF StubOK
<1> QED BY <1>1, <1>2, StubFrame

LEMMA StubNext == TypeOK /\ RowInv /\ StubInv /\ [Next]_vars => StubInv'
<1> SUFFICES ASSUME TypeOK, RowInv, StubInv, [Next]_vars PROVE StubInv'
  OBVIOUS
<1>1. ASSUME NEW f \in Reader, NEW i \in Resolvable, Resolve(f, i) PROVE StubInv'
  BY <1>1, StubStarts DEF Resolve, Fetcher
<1>2. ASSUME ResolveNext PROVE StubInv'
  <2>1. Head(batch) \in Resolvable /\ Worker \in Fetcher
    BY <1>2, HeadTailProperties DEF ResolveNext, TypeOK, Fetcher
  <2> QED BY <1>2, <2>1, StubStarts DEF ResolveNext
<1>3. CASE UNCHANGED <<fetch, missed>>
  BY <1>3, StubFrame
<1>4. ASSUME NEW m \in Admin, AdminStep(m) PROVE UNCHANGED <<fetch, missed>>
  BY <1>4 DEF AdminStep, BeginAdd, BeginRemove, UpsertPeer, LookUpSuggestion, PutSuggestion,
              DropGraph, DeletePeer, AbandonAdmin, hist
<1>5. ASSUME NEW n \in Announcer, (\E b \in Base : BeginAnnounce(n, b)) \/ RecordAnnouncement(n)
      PROVE  UNCHANGED <<fetch, missed>>
  BY <1>5 DEF BeginAnnounce, RecordAnnouncement, hist
<1>6. ASSUME (\E i \in Resolvable : Cite(i) \/ ComeDue(i)) \/ ResolverTick \/ UNCHANGED vars
      PROVE  UNCHANGED <<fetch, missed>>
  BY <1>6 DEF Cite, ComeDue, ResolverTick, vars, hist
<1>7. ASSUME Crash PROVE StubInv'
  BY <1>7, NoFetchFields DEF Crash, StubInv
<1>8. ASSUME NEW f \in Fetcher, FetchStep(f) \/ StoreFails(f) \/ StatementFails(f)
      PROVE  StubInv'
  BY <1>8, StubFetch
<1>9. Worker \in Fetcher /\ Reader \subseteq Fetcher
  BY DEF Fetcher
<1> QED BY <1>1, <1>2, <1>3, <1>4, <1>5, <1>6, <1>7, <1>8, <1>9 DEF Next, ResolverStep

(* What a step does to the graphs.                                           *)
LEMMA GraphSteps ==
    ASSUME [Next]_vars
    PROVE  \/ UNCHANGED <<graph, dropped>>
           \/ \E m \in Admin : DropGraph(m)
           \/ \E f \in Fetcher : ApplyStub(f)
<1>1. ASSUME NEW m \in Admin, AdminStep(m), ~DropGraph(m) PROVE UNCHANGED <<graph, dropped>>
  BY <1>1 DEF AdminStep, BeginAdd, BeginRemove, UpsertPeer, LookUpSuggestion, PutSuggestion,
              DeletePeer, AbandonAdmin, hist
<1>2. ASSUME NEW n \in Announcer, (\E b \in Base : BeginAnnounce(n, b)) \/ RecordAnnouncement(n)
      PROVE  UNCHANGED <<graph, dropped>>
  BY <1>2 DEF BeginAnnounce, RecordAnnouncement, hist
<1>3. ASSUME NEW f \in Fetcher, FetchStep(f) \/ StoreFails(f) \/ StatementFails(f), ~ApplyStub(f)
      PROVE  UNCHANGED <<graph, dropped>>
  BY <1>3 DEF FetchStep, GetFails, GetAnswers, MarkFailed, NoteFailure, CheckLeftover, AskCached,
              Track, MarkResolved, SetRecordCount, StoreFails, StatementFails, hist
<1>4. ASSUME (\E i \in Resolvable : Cite(i) \/ ComeDue(i)) \/ ResolverTick \/ ResolveNext \/ Crash
             \/ (\E f \in Reader, i \in Resolvable : Resolve(f, i)) \/ UNCHANGED vars
      PROVE  UNCHANGED <<graph, dropped>>
  BY <1>4 DEF Cite, ComeDue, ResolverTick, ResolveNext, Crash, Resolve, vars, hist
<1>5. Worker \in Fetcher /\ Reader \subseteq Fetcher
  BY DEF Fetcher
<1> QED BY <1>1, <1>2, <1>3, <1>4, <1>5 DEF Next, ResolverStep

KeepsStubs == \A x \in graph : Tracked(x[2]) =>
                 x \in graph' \/ Removing(x[1]) \/ x[2] \in missed

LEMMA StubsStay == TypeOK /\ StubInv /\ [Next]_vars => KeepsStubs
<1> SUFFICES ASSUME TypeOK, StubInv, [Next]_vars PROVE KeepsStubs
  OBVIOUS
<1>1. CASE UNCHANGED graph
  BY <1>1 DEF KeepsStubs
<1>2. ASSUME NEW m \in Admin, DropGraph(m) PROVE KeepsStubs
  BY <1>2 DEF DropGraph, KeepsStubs, Removing
<1>3. ASSUME NEW f \in Fetcher, ApplyStub(f) PROVE KeepsStubs
  <2>1. /\ fetch[f].pc = "apply"
        /\ graph' = (graph \ ({Graph(f)} \X (fetch[f].leftovers \cup {fetch[f].iri})))
                      \cup ({Graph(f)} \X fetch[f].stub)
    BY <1>3 DEF ApplyStub
  <2>2. /\ fetch[f].leftovers \subseteq missed
        /\ fetch[f].stub = {fetch[f].iri} \/ fetch[f].iri \in missed
    BY <2>1 DEF StubInv
  <2>3. ASSUME NEW x \in graph, x \notin graph' PROVE x[2] \in missed
    <3>1. x \in {Graph(f)} \X (fetch[f].leftovers \cup {fetch[f].iri})
          /\ x \notin {Graph(f)} \X fetch[f].stub
      BY <2>1, <2>3
    <3>2. x = <<x[1], x[2]>> /\ x[1] = Graph(f) /\ x[2] \in fetch[f].leftovers \cup {fetch[f].iri}
      BY <3>1
    <3>3. x[2] \notin fetch[f].stub
      BY <3>1, <3>2
    <3> QED BY <2>2, <3>2, <3>3
  <2> QED BY <2>3 DEF KeepsStubs
<1> QED BY <1>1, <1>2, <1>3, GraphSteps

(* A tracked stub leaves the graph with its peer, or after its own document    *)
(* said nothing of it or another fetch had asked before it was tracked.        *)
THEOREM StubsAlwaysKept == Spec => StubsKept
<1>1. Init => StubInv
  BY StubInit
<1>2. TypeOK /\ RowInv /\ StubInv /\ [Next]_vars => StubInv'
  BY StubNext
<1>3. TypeOK /\ StubInv /\ [Next]_vars =>
        [\A x \in graph : Tracked(x[2]) =>
            x \in graph' \/ Removing(x[1]) \/ x[2] \in missed]_vars
  BY StubsStay DEF KeepsStubs
<1> QED BY <1>1, <1>2, <1>3, TypeCorrect, PTL DEF Spec, StubsKept

-----------------------------------------------------------------------------
(* What is in a peer's graph.                                                *)

LEMMA GraphInit == Init => GraphInv
<1> SUFFICES ASSUME Init PROVE GraphInv
  OBVIOUS
<1>1. graph = CachedAtStart
  BY DEF Init
<1>2. IsFiniteSet(CachedAtStart)
  <2> DEFINE g == [i \in Cached |-> <<FirstId(BaseOf[i]), i>>]
  <2>1. g \in Surjection(Cached, CachedAtStart)
    BY DEF Surjection, CachedAtStart
  <2> HIDE DEF g
  <2> QED BY <2>1, FS_Surjection, PeerAssumption
<1>3. \A x \in CachedAtStart : BaseOf[x[2]] = x[1][1]
  <2> SUFFICES ASSUME NEW i \in Cached
               PROVE  BaseOf[i] = FirstId(BaseOf[i])[1]
    BY DEF CachedAtStart
  <2> QED BY DEF FirstId
<1> QED BY <1>1, <1>2, <1>3 DEF GraphInv

(* A stub leaves a graph when its peer is dropped or it was missed.           *)
LEMMA GraphLoses ==
    ASSUME StubInv, [Next]_vars, NEW x \in graph, x \notin graph'
    PROVE  x[1] \in dropped' \/ x[2] \in missed
<1>1. CASE UNCHANGED <<graph, dropped>>
  BY <1>1
<1>2. ASSUME NEW m \in Admin, DropGraph(m) PROVE x[1] \in dropped'
  BY <1>2 DEF DropGraph
<1>3. ASSUME NEW f \in Fetcher, ApplyStub(f) PROVE x[2] \in missed
  <2>1. /\ fetch[f].pc = "apply"
        /\ graph' = (graph \ ({Graph(f)} \X (fetch[f].leftovers \cup {fetch[f].iri})))
                      \cup ({Graph(f)} \X fetch[f].stub)
    BY <1>3 DEF ApplyStub
  <2>2. /\ fetch[f].leftovers \subseteq missed
        /\ fetch[f].stub = {fetch[f].iri} \/ fetch[f].iri \in missed
    BY <2>1 DEF StubInv
  <2>3. x \in {Graph(f)} \X (fetch[f].leftovers \cup {fetch[f].iri})
        /\ x \notin {Graph(f)} \X fetch[f].stub
    BY <2>1
  <2>4. x = <<x[1], x[2]>> /\ x[1] = Graph(f) /\ x[2] \in fetch[f].leftovers \cup {fetch[f].iri}
    BY <2>3
  <2>5. x[2] \notin fetch[f].stub
    BY <2>3, <2>4
  <2> QED BY <2>2, <2>4, <2>5
<1> QED BY <1>1, <1>2, <1>3, GraphSteps

(* ... and comes into it by a fetch of the peer that the IRI is of.           *)
LEMMA FetchGraph ==
    ASSUME TypeOK, RowInv, NEW f \in Fetcher
    PROVE  /\ fetch[f].peer.id \in Id => /\ Graph(f) = fetch[f].peer.id
                                         /\ BaseOf[fetch[f].iri] = fetch[f].peer.id[1]
           /\ Graph(f) # Unknown => Graph(f) = fetch[f].peer.id /\ fetch[f].peer.id \in Id
<1>1. fetch[f].peer # NoPeer => fetch[f].peer.id \in Id
                                /\ fetch[f].peer.id[1] = BaseOf[fetch[f].iri]
  BY DEF RowInv, OfBase
<1>2. NoPeer.id \notin Id
  BY RowFields, IdFacts
<1> QED BY <1>1, <1>2, IdFacts DEF Graph

LEMMA GraphNext == TypeOK /\ RowInv /\ StubInv /\ GraphInv /\ [Next]_vars => GraphInv'
<1> SUFFICES ASSUME TypeOK, RowInv, StubInv, GraphInv, [Next]_vars PROVE GraphInv'
  OBVIOUS
<1> DEFINE Good(x) == x[1] # Unknown =>
                        BaseOf[x[2]] = x[1][1] /\ (x \in CachedAtStart \/ x[2] \in Resolvable)
<1>1. IsFiniteSet(graph) /\ \A x \in graph : Good(x)
  BY DEF GraphInv
<1>2. ASSUME IsFiniteSet(graph'), \A x \in graph' : Good(x) PROVE GraphInv'
  BY <1>2 DEF GraphInv
<1> HIDE DEF Good
<1>3. CASE UNCHANGED graph
  BY <1>1, <1>2, <1>3
<1>4. ASSUME NEW m \in Admin, DropGraph(m) PROVE GraphInv'
  <2>1. graph' \in SUBSET graph
    BY <1>4 DEF DropGraph
  <2>2. IsFiniteSet(graph')
    BY <1>1, <2>1, FS_Subset
  <2> QED BY <1>1, <1>2, <2>1, <2>2
<1>5. ASSUME NEW f \in Fetcher, ApplyStub(f) PROVE GraphInv'
  <2> DEFINE own == <<Graph(f), fetch[f].iri>>
  <2>1. /\ fetch[f].pc = "apply"
        /\ graph' \subseteq graph \cup ({Graph(f)} \X fetch[f].stub)
    BY <1>5 DEF ApplyStub
  <2>2. fetch[f].stub \subseteq {fetch[f].iri} /\ fetch[f].iri \in Resolvable
    BY <2>1 DEF StubInv, RowInv
  <2>3. graph' \in SUBSET (graph \cup {own})
    BY <2>1, <2>2
  <2>4. IsFiniteSet(graph \cup {own})
    BY <1>1, FS_AddElement
  <2>5. IsFiniteSet(graph')
    BY <2>3, <2>4, FS_Subset
  <2>6. Good(own)
    <3>1. own[1] = Graph(f) /\ own[2] = fetch[f].iri
      OBVIOUS
    <3> QED BY <2>2, <3>1, FetchGraph DEF Good
  <2> QED BY <1>1, <1>2, <2>3, <2>5, <2>6
<1> QED BY <1>3, <1>4, <1>5, GraphSteps

-----------------------------------------------------------------------------
(* Counts.  What the next state says of a peer's id, and of a copy of a row.   *)

LaterSound(id) ==
    id \in Id /\ id \notin dropped' /\ \A i \in missed' \cap Resolvable : BaseOf[i] # id[1]
LaterStubs(id) == {x \in graph' \ CachedAtStart : x[1] = id}
LaterHonest(row) == LaterSound(row.id) => row.count <= Cardinality(LaterStubs(row.id))
LaterCounting(x) ==
    LET own == <<x.peer.id, x.iri>>
    IN  LaterSound(x.peer.id) =>
          /\ x.pc \in {"apply", "track", "mark", "count"} /\ ~x.cached =>
                /\ own \notin CachedAtStart
                /\ x.peer.count + 1 <= Cardinality(LaterStubs(x.peer.id) \cup {own})
          /\ x.pc \in {"track", "mark", "count"} => own \in graph'

LEMMA Later ==
    ASSUME \A x \in CachedAtStart : LaterSound(x[1]) /\ x[2] \in Resolvable => x \in graph',
           \A b \in Base : LaterHonest(peers'[b]),
           \A m \in Admin : LaterHonest(admin'[m].row),
           \A n \in Announcer : LaterHonest(announced'[n].row),
           \A f \in Fetcher : LaterHonest(fetch'[f].peer) /\ LaterCounting(fetch'[f])
    PROVE  CountInv'
BY DEF CountInv, CachedKept, Honest, Sound, Stubs, Counting, LaterSound, LaterStubs, LaterHonest,
       LaterCounting

(* Nothing is taken back: what was dropped or missed stays so.                *)
LEMMA HistoryGrows ==
    ASSUME [Next]_vars PROVE dropped \subseteq dropped' /\ missed \subseteq missed'
<1>1. ASSUME NEW m \in Admin, AdminStep(m) PROVE dropped \subseteq dropped' /\ missed' = missed
  BY <1>1 DEF AdminStep, BeginAdd, BeginRemove, UpsertPeer, LookUpSuggestion, PutSuggestion,
              DropGraph, DeletePeer, AbandonAdmin, hist
<1>2. ASSUME NEW f \in Fetcher, FetchStep(f) \/ StoreFails(f) \/ StatementFails(f)
      PROVE  dropped' = dropped /\ missed \subseteq missed'
  <2>1. CASE GetAnswers(f)
    BY <2>1 DEF GetAnswers
  <2>2. CASE CheckLeftover(f)
    BY <2>2 DEF CheckLeftover
  <2> QED BY <1>2, <2>1, <2>2 DEF FetchStep, GetFails, MarkFailed, NoteFailure, AskCached,
          ApplyStub, Track, MarkResolved, SetRecordCount, StoreFails, StatementFails, hist
<1>3. ASSUME NEW n \in Announcer, (\E b \in Base : BeginAnnounce(n, b)) \/ RecordAnnouncement(n)
      PROVE  UNCHANGED <<missed, dropped>>
  BY <1>3 DEF BeginAnnounce, RecordAnnouncement, hist
<1>4. ASSUME (\E i \in Resolvable : Cite(i) \/ ComeDue(i)) \/ ResolverTick \/ ResolveNext \/ Crash
             \/ (\E f \in Reader, i \in Resolvable : Resolve(f, i)) \/ UNCHANGED vars
      PROVE  UNCHANGED <<missed, dropped>>
  BY <1>4 DEF Cite, ComeDue, ResolverTick, ResolveNext, Crash, Resolve, vars, hist
<1>5. Worker \in Fetcher /\ Reader \subseteq Fetcher
  BY DEF Fetcher
<1> QED BY <1>1, <1>2, <1>3, <1>4, <1>5 DEF Next, ResolverStep

CountCtx == TypeOK /\ RowInv /\ StubInv /\ GraphInv /\ CountInv /\ [Next]_vars

LEMMA SoundBefore ==
    ASSUME CountCtx, NEW id, LaterSound(id) PROVE Sound(id)
BY HistoryGrows DEF CountCtx, LaterSound, Sound

(* A stub of a peer that is still sound stays in its graph.                   *)
LEMMA SoundKeeps ==
    ASSUME CountCtx, NEW x \in graph, LaterSound(x[1]), x[2] \in Resolvable
    PROVE  x \in graph'
<1>1. Sound(x[1])
  BY SoundBefore
<1>2. BaseOf[x[2]] = x[1][1]
  BY <1>1, IdFacts DEF CountCtx, GraphInv, Sound
<1>3. x[2] \notin missed /\ x[1] \notin dropped'
  BY <1>1, <1>2 DEF Sound, LaterSound
<1> QED BY <1>3, GraphLoses DEF CountCtx

LEMMA StubsGrow ==
    ASSUME CountCtx, NEW id, LaterSound(id)
    PROVE  /\ Stubs(id) \subseteq LaterStubs(id)
           /\ IsFiniteSet(Stubs(id)) /\ IsFiniteSet(LaterStubs(id))
<1>1. id \in Id
  BY DEF LaterSound
<1>2. ASSUME NEW x \in Stubs(id) PROVE x \in LaterStubs(id)
  <2>1. x \in graph /\ x \notin CachedAtStart /\ x[1] = id
    BY DEF Stubs
  <2>2. x[2] \in Resolvable
    BY <1>1, <2>1, IdFacts DEF CountCtx, GraphInv
  <2> QED BY <2>1, <2>2, SoundKeeps DEF LaterStubs
<1>3. IsFiniteSet(graph)
  BY DEF CountCtx, GraphInv
<1>4. IsFiniteSet(graph')
  BY GraphNext DEF CountCtx, GraphInv
<1>5. Stubs(id) \in SUBSET graph /\ LaterStubs(id) \in SUBSET graph'
  BY DEF Stubs, LaterStubs
<1>6. IsFiniteSet(Stubs(id))
  BY <1>3, <1>5, FS_Subset
<1>7. IsFiniteSet(LaterStubs(id))
  BY <1>4, <1>5, FS_Subset
<1> QED BY <1>2, <1>6, <1>7

LEMMA StaysHonest ==
    ASSUME CountCtx, NEW row \in Row, Honest(row) PROVE LaterHonest(row)
<1> SUFFICES ASSUME LaterSound(row.id)
             PROVE  row.count <= Cardinality(LaterStubs(row.id))
  BY DEF LaterHonest
<1>1. row.count <= Cardinality(Stubs(row.id)) /\ row.count \in Nat
  BY SoundBefore, RowFields DEF Honest
<1>2. Cardinality(Stubs(row.id)) <= Cardinality(LaterStubs(row.id))
  BY StubsGrow, FS_Subset
<1>3. Cardinality(Stubs(row.id)) \in Nat /\ Cardinality(LaterStubs(row.id)) \in Nat
  BY StubsGrow, FS_CardinalityType
<1> QED BY <1>1, <1>2, <1>3

LEMMA EmptyHonest ==
    ASSUME CountCtx, NEW row, row.count = 0 PROVE LaterHonest(row)
<1> SUFFICES ASSUME LaterSound(row.id)
             PROVE  0 <= Cardinality(LaterStubs(row.id))
  BY DEF LaterHonest
<1>1. Cardinality(LaterStubs(row.id)) \in Nat
  BY StubsGrow, FS_CardinalityType
<1> QED BY <1>1

LEMMA NoPeerHonest == LaterHonest(NoPeer)
BY RowFields, IdFacts DEF LaterHonest, LaterSound

LEMMA SameHonest ==
    ASSUME NEW row, NEW other, LaterHonest(row), other.id = row.id, other.count = row.count
    PROVE  LaterHonest(other)
BY DEF LaterHonest

LEMMA StaysCounting ==
    ASSUME CountCtx, NEW f \in Fetcher, NEW y,
           y.peer = fetch[f].peer, y.iri = fetch[f].iri, y.cached = fetch[f].cached,
           y.pc \in {"apply", "track", "mark", "count"} =>
              fetch[f].pc \in {"apply", "track", "mark", "count"},
           y.pc \in {"track", "mark", "count"} =>
              \/ fetch[f].pc \in {"track", "mark", "count"}
              \/ LaterSound(y.peer.id) => <<y.peer.id, y.iri>> \in graph'
    PROVE  LaterCounting(y)
<1> DEFINE id == fetch[f].peer.id
           own == <<id, fetch[f].iri>>
<1> SUFFICES ASSUME LaterSound(id)
             PROVE  /\ y.pc \in {"apply", "track", "mark", "count"} /\ ~fetch[f].cached =>
                          /\ own \notin CachedAtStart
                          /\ fetch[f].peer.count + 1 <= Cardinality(LaterStubs(id) \cup {own})
                    /\ y.pc \in {"track", "mark", "count"} => own \in graph'
  BY DEF LaterCounting
<1>1. /\ fetch[f].pc \in {"apply", "track", "mark", "count"} /\ ~fetch[f].cached =>
            /\ own \notin CachedAtStart
            /\ fetch[f].peer.count + 1 <= Cardinality(Stubs(id) \cup {own})
      /\ fetch[f].pc \in {"track", "mark", "count"} => own \in graph
  BY SoundBefore DEF CountCtx, CountInv, Counting
<1>2. Stubs(id) \cup {own} \in SUBSET (LaterStubs(id) \cup {own})
  BY StubsGrow
<1>3. IsFiniteSet(LaterStubs(id) \cup {own}) /\ IsFiniteSet(Stubs(id) \cup {own})
  BY StubsGrow, FS_AddElement
<1>4. Cardinality(Stubs(id) \cup {own}) <= Cardinality(LaterStubs(id) \cup {own})
  BY <1>2, <1>3, FS_Subset
<1>5. Cardinality(Stubs(id) \cup {own}) \in Nat /\ Cardinality(LaterStubs(id) \cup {own}) \in Nat
  BY <1>3, FS_CardinalityType
<1>6. fetch[f].peer.count \in Nat
  BY FetchesTyped, FetchFields, RowFields DEF CountCtx
<1>7. ASSUME fetch[f].pc \in {"track", "mark", "count"} PROVE own \in graph'
  <2>1. own \in graph /\ own[1] = id /\ own[2] = fetch[f].iri
    BY <1>1, <1>7
  <2>2. fetch[f].iri \in Resolvable
    BY <1>7 DEF CountCtx, RowInv
  <2> HIDE DEF own
  <2> QED BY <2>1, <2>2, SoundKeeps
<1> HIDE DEF id, own
<1>8. fetch[f].pc \in {"apply", "track", "mark", "count"} /\ ~fetch[f].cached =>
        fetch[f].peer.count + 1 <= Cardinality(LaterStubs(id) \cup {own})
  BY <1>1, <1>4, <1>5, <1>6
<1> QED BY <1>1, <1>7, <1>8 DEF id, own

LEMMA CountInit == Init => CountInv
<1> SUFFICES ASSUME Init PROVE CountInv
  OBVIOUS
<1>1. CachedKept
  BY DEF Init, CachedKept
<1>2. \A id : IsFiniteSet(Stubs(id)) /\ Cardinality(Stubs(id)) = 0
  <2>1. \A id : Stubs(id) = {}
    BY DEF Init, Stubs
  <2> QED BY <2>1, FS_EmptySet
<1>3. \A row : row.count = 0 => Honest(row)
  BY <1>2 DEF Honest
<1>4. \A b \in Base : peers[b].count = 0
  <2>1. \A b \in Base : PeerRow(FirstId(b), "active", "ok", 0).count = 0
    BY RowMade, IdFacts
  <2> QED BY <2>1, RowFields DEF Init
<1>5. \A m \in Admin : admin[m].row.count = 0
  BY AdminTypes, RowFields DEF Init
<1>6. \A n \in Announcer : announced[n].row.count = 0
  BY RowFields DEF Init, NoAnnounce
<1>7. \A f \in Fetcher : fetch[f].pc = "idle" /\ fetch[f].peer.count = 0
  BY NoFetchFields, RowFields DEF Init
<1>8. \A f \in Fetcher : Counting(fetch[f])
  BY <1>7 DEF Counting
<1> QED BY <1>1, <1>3, <1>4, <1>5, <1>6, <1>7, <1>8 DEF CountInv

(* The parts of the next state that a step leaves alone.                     *)
LEMMA CountFrame ==
    ASSUME CountCtx
    PROVE  /\ \A x \in CachedAtStart : LaterSound(x[1]) /\ x[2] \in Resolvable => x \in graph'
           /\ UNCHANGED peers => \A b \in Base : LaterHonest(peers'[b])
           /\ UNCHANGED admin => \A m \in Admin : LaterHonest(admin'[m].row)
           /\ UNCHANGED announced => \A n \in Announcer : LaterHonest(announced'[n].row)
           /\ \A b \in Base : LaterHonest(peers[b])
           /\ \A m \in Admin : LaterHonest(admin[m].row)
           /\ \A n \in Announcer : LaterHonest(announced[n].row)
           /\ \A f \in Fetcher : LaterHonest(fetch[f].peer) /\ LaterCounting(fetch[f])
<1>1. ASSUME NEW x \in CachedAtStart, LaterSound(x[1]), x[2] \in Resolvable PROVE x \in graph'
  <2>1. x \in graph
    BY <1>1, SoundBefore DEF CountCtx, CountInv, CachedKept
  <2> QED BY <1>1, <2>1, SoundKeeps
<1>2. \A b \in Base : LaterHonest(peers[b])
  BY StaysHonest DEF CountCtx, CountInv, TypeOK
<1>3. \A m \in Admin : LaterHonest(admin[m].row)
  BY StaysHonest, AdminTypes DEF CountCtx, CountInv, TypeOK
<1>4. \A n \in Announcer : LaterHonest(announced[n].row)
  BY StaysHonest DEF CountCtx, CountInv, TypeOK
<1>5. \A f \in Fetcher : LaterHonest(fetch[f].peer)
  BY StaysHonest, FetchesTyped, FetchFields DEF CountCtx, CountInv
<1>6. \A f \in Fetcher : LaterCounting(fetch[f])
  BY StaysCounting
<1> QED BY <1>1, <1>2, <1>3, <1>4, <1>5, <1>6

LEMMA CountUpsert ==
    ASSUME CountCtx, NEW b \in Base, NEW row \in Row, LaterHonest(row), Upsert(b, row)
    PROVE  \A c \in Base : LaterHonest(peers'[c])
<1>1. /\ \A c \in Base : c # b => peers'[c] = peers[c]
      /\ Known(b) => peers'[b].id = peers[b].id /\ peers'[b].count = peers[b].count
      /\ ~Known(b) => peers'[b] = row
  BY UpsertFacts DEF CountCtx, TypeOK
<1>2. ASSUME NEW c \in Base, c # b PROVE LaterHonest(peers'[c])
  BY <1>1, <1>2, CountFrame
<1>3. LaterHonest(peers'[b])
  BY <1>1, CountFrame, SameHonest
<1> QED BY <1>2, <1>3

LEMMA CountAdmin ==
    ASSUME CountCtx, NEW m \in Admin, AdminStep(m) PROVE CountInv'
<1>1. admin[m] \in AdminType /\ admin \in [Admin -> AdminType]
  BY DEF CountCtx, TypeOK
<1>2. UNCHANGED <<announced, fetch>>
  BY DEF AdminStep, BeginAdd, BeginRemove, UpsertPeer, LookUpSuggestion, PutSuggestion, DropGraph,
         DeletePeer, AbandonAdmin
<1>3. ASSUME NEW x, admin' = [admin EXCEPT ![m] = x], LaterHonest(x.row),
             \A b \in Base : LaterHonest(peers'[b])
      PROVE  CountInv'
  <2>1. \A o \in Admin : LaterHonest(admin'[o].row)
    <3> SUFFICES ASSUME NEW o \in Admin PROVE LaterHonest(admin'[o].row)
      OBVIOUS
    <3>1. admin'[o] = IF o = m THEN x ELSE admin[o]
      BY <1>1, <1>3
    <3> QED BY <1>3, <3>1, CountFrame
  <2>2. \A n \in Announcer : LaterHonest(announced'[n].row)
    BY <1>2, CountFrame
  <2>3. \A f \in Fetcher : LaterHonest(fetch'[f].peer) /\ LaterCounting(fetch'[f])
    BY <1>2, CountFrame
  <2> QED BY <1>3, <2>1, <2>2, <2>3, CountFrame, Later
<1>4. ASSUME NEW x, admin' = [admin EXCEPT ![m] = x], LaterHonest(x.row), UNCHANGED peers
      PROVE  CountInv'
  BY <1>3, <1>4, CountFrame
<1>5. ASSUME NEW b \in Base, NEW others \in SUBSET (Base \ {b}), BeginAdd(m, b, others)
      PROVE  CountInv'
  <2> DEFINE row == IF Known(b) THEN PeerRow(peers[b].id, "active", "ok", peers[b].count)
                                ELSE PeerRow(NewId(b), "active", "ok", 0)
             x == [pc |-> "upsert", base |-> b, row |-> row, todo |-> others]
  <2>1. ASSUME Known(b) PROVE LaterHonest(row)
    <3>1. peers[b] \in Row
      BY DEF CountCtx, TypeOK
    <3>2. peers[b].id \in Id \cup {None} /\ peers[b].count \in Nat
      BY <3>1, RowFields
    <3>3. row.id = peers[b].id /\ row.count = peers[b].count
      BY <2>1, <3>2, RowMade
    <3>4. LaterHonest(peers[b])
      BY CountFrame
    <3> HIDE DEF row
    <3> QED BY <3>3, <3>4, SameHonest
  <2>2. ASSUME ~Known(b) PROVE LaterHonest(row)
    <3>1. NewId(b) \in Id
      BY <1>5, MintedId DEF BeginAdd, CountCtx
    <3>2. row.count = 0
      BY <2>2, <3>1, RowMade
    <3> HIDE DEF row
    <3> QED BY <3>2, EmptyHonest
  <2>3. admin' = [admin EXCEPT ![m] = x] /\ UNCHANGED peers
    BY <1>5 DEF BeginAdd
  <2>4. LaterHonest(row)
    BY <2>1, <2>2
  <2> HIDE DEF row
  <2>5. x.row = row
    OBVIOUS
  <2> HIDE DEF x
  <2> QED BY <1>4, <2>3, <2>4, <2>5
<1>6. CASE UpsertPeer(m) \/ PutSuggestion(m)
  <2>1. /\ OfBase(admin[m].row, admin[m].base)
        /\ Upsert(admin[m].base, admin[m].row)
        /\ admin' = [admin EXCEPT ![m] = Suggesting(admin[m].todo)]
    BY <1>6 DEF CountCtx, RowInv, UpsertPeer, PutSuggestion
  <2>2. admin[m].row \in Row /\ admin[m].base \in Base /\ admin[m].todo \in SUBSET Base
    BY <1>1, <2>1, AdminTypes DEF OfBase
  <2>3. LaterHonest(admin[m].row)
    BY CountFrame
  <2>4. \A b \in Base : LaterHonest(peers'[b])
    BY <2>1, <2>2, <2>3, CountUpsert
  <2>5. LaterHonest(Suggesting(admin[m].todo).row)
    BY <2>2, AdminTypes, NoPeerHonest
  <2> QED BY <1>3, <2>1, <2>4, <2>5
<1>7. CASE LookUpSuggestion(m)
  <2>1. PICK b \in admin[m].todo :
          IF Known(b)
          THEN /\ admin' = [admin EXCEPT ![m] = Suggesting(@.todo \ {b})]
               /\ UNCHANGED minted
          ELSE /\ Mint(b)
               /\ admin' = [admin EXCEPT ![m] =
                    [pc |-> "put", base |-> b, todo |-> @.todo \ {b},
                     row |-> PeerRow(NewId(b), "suggested", "unknown", 0)]]
    BY <1>7 DEF LookUpSuggestion
  <2>2. b \in Base /\ admin[m].todo \ {b} \in SUBSET Base /\ UNCHANGED peers
    BY <1>1, <1>7, AdminTypes DEF LookUpSuggestion
  <2>3. CASE Known(b)
    <3>1. LaterHonest(Suggesting(admin[m].todo \ {b}).row)
      BY <2>2, AdminTypes, NoPeerHonest
    <3> QED BY <1>4, <2>1, <2>2, <2>3, <3>1
  <2>4. CASE ~Known(b)
    <3> DEFINE row == PeerRow(NewId(b), "suggested", "unknown", 0)
               x == [pc |-> "put", base |-> b, todo |-> admin[m].todo \ {b}, row |-> row]
    <3>1. NewId(b) \in Id
      BY <2>1, <2>2, <2>4, MintedId DEF CountCtx
    <3>2. row.count = 0
      BY <3>1, RowMade
    <3>3. admin' = [admin EXCEPT ![m] = x]
      BY <2>1, <2>4
    <3> HIDE DEF row
    <3>4. x.row = row /\ LaterHonest(row)
      BY <3>2, EmptyHonest
    <3> HIDE DEF x
    <3> QED BY <1>4, <2>2, <3>3, <3>4
  <2> QED BY <2>3, <2>4
<1>8. ASSUME NEW b \in Base, BeginRemove(m, b) PROVE CountInv'
  <2> DEFINE x == [NoAdmin EXCEPT !.pc = "drop", !.row = peers[b]]
  <2>1. admin' = [admin EXCEPT ![m] = x] /\ UNCHANGED peers
    BY <1>8 DEF BeginRemove, sqlVars
  <2>2. peers[b] \in Row
    BY DEF CountCtx, TypeOK
  <2>3. x.row = peers[b]
    BY <2>2, AdminTypes
  <2> HIDE DEF x
  <2> QED BY <1>4, <2>1, <2>3, CountFrame
<1>9. CASE DropGraph(m)
  <2> DEFINE x == [admin[m] EXCEPT !.pc = "delete"]
  <2>1. admin' = [admin EXCEPT ![m] = x] /\ UNCHANGED peers
    BY <1>9 DEF DropGraph, sqlVars
  <2>2. x.row = admin[m].row
    BY <1>1 DEF AdminType
  <2> HIDE DEF x
  <2> QED BY <1>4, <2>1, <2>2, CountFrame
<1>10. CASE DeletePeer(m)
  <2>1. /\ peers' = [b \in Base |-> IF peers[b].id = admin[m].row.id THEN NoPeer ELSE peers[b]]
        /\ admin' = [admin EXCEPT ![m] = NoAdmin]
    BY <1>10 DEF DeletePeer
  <2>2. \A b \in Base : LaterHonest(peers'[b])
    BY <2>1, CountFrame, NoPeerHonest
  <2>3. LaterHonest(NoAdmin.row)
    BY AdminTypes, NoPeerHonest
  <2> QED BY <1>3, <2>1, <2>2, <2>3
<1>11. CASE AbandonAdmin(m)
  <2>1. admin' = [admin EXCEPT ![m] = NoAdmin] /\ UNCHANGED peers
    BY <1>11 DEF AbandonAdmin, sqlVars
  <2>2. LaterHonest(NoAdmin.row)
    BY AdminTypes, NoPeerHonest
  <2> QED BY <1>4, <2>1, <2>2
<1> QED BY <1>5, <1>6, <1>7, <1>8, <1>9, <1>10, <1>11 DEF AdminStep

LEMMA CountAnnounce ==
    ASSUME CountCtx, NEW n \in Announcer,
           (\E b \in Base : BeginAnnounce(n, b)) \/ RecordAnnouncement(n)
    PROVE  CountInv'
<1>1. UNCHANGED <<admin, fetch>>
  BY DEF BeginAnnounce, RecordAnnouncement
<1>2. ASSUME NEW x, announced' = [announced EXCEPT ![n] = x], LaterHonest(x.row),
             \A b \in Base : LaterHonest(peers'[b])
      PROVE  CountInv'
  <2>1. \A k \in Announcer : LaterHonest(announced'[k].row)
    <3> SUFFICES ASSUME NEW k \in Announcer PROVE LaterHonest(announced'[k].row)
      OBVIOUS
    <3>1. announced'[k] = IF k = n THEN x ELSE announced[k]
      BY <1>2 DEF CountCtx, TypeOK
    <3> QED BY <1>2, <3>1, CountFrame
  <2>2. \A f \in Fetcher : LaterHonest(fetch'[f].peer) /\ LaterCounting(fetch'[f])
    BY <1>1, CountFrame
  <2>3. \A m \in Admin : LaterHonest(admin'[m].row)
    BY <1>1, CountFrame
  <2> QED BY <1>2, <2>1, <2>2, <2>3, CountFrame, Later
<1>3. ASSUME NEW b \in Base, BeginAnnounce(n, b) PROVE CountInv'
  <2> DEFINE row == PeerRow(NewId(b), "suggested", "unknown", 0)
             x == [base |-> b, row |-> row]
  <2>1. NewId(b) \in Id
    BY <1>3, MintedId DEF BeginAnnounce, CountCtx
  <2>2. row.count = 0
    BY <2>1, RowMade
  <2>3. announced' = [announced EXCEPT ![n] = x] /\ UNCHANGED peers
    BY <1>3 DEF BeginAnnounce
  <2> HIDE DEF row
  <2>4. x.row = row /\ LaterHonest(row)
    BY <2>2, EmptyHonest
  <2> HIDE DEF x
  <2> QED BY <1>2, <2>3, <2>4, CountFrame
<1>4. CASE RecordAnnouncement(n)
  <2>1. /\ OfBase(announced[n].row, announced[n].base) /\ announced[n].row \in Row
        /\ Upsert(announced[n].base, announced[n].row)
        /\ announced' = [announced EXCEPT ![n] = NoAnnounce]
    BY <1>4 DEF RecordAnnouncement, CountCtx, RowInv, TypeOK
  <2>2. \A b \in Base : LaterHonest(peers'[b])
    BY <2>1, CountFrame, CountUpsert DEF OfBase
  <2>3. LaterHonest(NoAnnounce.row)
    BY NoPeerHonest DEF NoAnnounce
  <2> QED BY <1>2, <2>1, <2>2, <2>3
<1> QED BY <1>3, <1>4

LEMMA NoFetchCounts == LaterHonest(NoFetch.peer) /\ LaterCounting(NoFetch)
BY NoFetchFields, NoPeerHonest DEF LaterCounting

(* The stub was not there when it was asked for: the count does not cover it.  *)
LEMMA AskCounts ==
    ASSUME CountCtx, NEW f \in Fetcher, AskCached(f) PROVE LaterCounting(fetch'[f])
<1> DEFINE id == fetch[f].peer.id
           own == <<id, fetch[f].iri>>
<1>1. /\ SameFetch(f) /\ fetch'[f].pc = "apply" /\ fetch'[f].cached = WasCached(f)
      /\ fetch[f].pc = "leftovers"
  BY AskFacts, FetchesTyped DEF CountCtx, AskCached
<1> SUFFICES ASSUME LaterSound(id), ~WasCached(f)
             PROVE  /\ own \notin CachedAtStart
                    /\ fetch[f].peer.count + 1 <= Cardinality(LaterStubs(id) \cup {own})
  BY <1>1 DEF LaterCounting, SameFetch
<1>2. id \in Id /\ Sound(id)
  BY SoundBefore DEF LaterSound
<1>3. own \notin graph
  BY <1>2, FetchGraph DEF WasCached, CountCtx
<1>4. own[1] = id /\ own[2] = fetch[f].iri /\ fetch[f].iri \in Resolvable
  BY <1>1 DEF CountCtx, RowInv
<1>5. own \notin CachedAtStart
  <2> HIDE DEF own
  <2> QED BY <1>2, <1>3, <1>4 DEF CountCtx, CountInv, CachedKept
<1>6. own \notin LaterStubs(id)
  BY <1>3 DEF LaterStubs, AskCached
<1>7. LaterHonest(fetch[f].peer)
  BY CountFrame
<1>8. fetch[f].peer.count <= Cardinality(LaterStubs(id))
  BY <1>7 DEF LaterHonest
<1>9. IsFiniteSet(LaterStubs(id))
  BY StubsGrow
<1>10. /\ Cardinality(LaterStubs(id) \cup {own}) = Cardinality(LaterStubs(id)) + 1
       /\ Cardinality(LaterStubs(id)) \in Nat
  BY <1>6, <1>9, FS_AddElement, FS_CardinalityType
<1>11. fetch[f].peer.count \in Nat
  BY FetchesTyped, FetchFields, RowFields DEF CountCtx
<1> HIDE DEF id, own
<1> QED BY <1>5, <1>8, <1>10, <1>11 DEF id

(* What is written is the stub itself.                                       *)
LEMMA ApplyCounts ==
    ASSUME CountCtx, NEW f \in Fetcher, ApplyStub(f) PROVE LaterCounting(fetch'[f])
<1> DEFINE id == fetch[f].peer.id
           own == <<id, fetch[f].iri>>
<1>1. /\ fetch[f].pc = "apply" /\ Goto(f, "track") /\ UNCHANGED hist
      /\ ({Graph(f)} \X fetch[f].stub) \subseteq graph'
  BY DEF ApplyStub
<1>2. SameFetch(f) /\ SameFinds(f) /\ fetch'[f].pc = "track"
  BY <1>1, GotoFacts, FetchesTyped DEF CountCtx, FetchPc
<1>3. ASSUME LaterSound(id) PROVE own \in graph'
  <2>1. id \in Id /\ Sound(id)
    BY <1>3, SoundBefore DEF LaterSound
  <2>2. Graph(f) = id /\ BaseOf[fetch[f].iri] = id[1]
    BY <2>1, FetchGraph DEF CountCtx
  <2>3. fetch[f].iri \in Resolvable
    BY <1>1 DEF CountCtx, RowInv
  <2>4. fetch[f].iri \notin missed
    BY <2>1, <2>2, <2>3 DEF Sound
  <2>5. fetch[f].stub = {fetch[f].iri}
    BY <1>1, <2>4 DEF CountCtx, StubInv
  <2> QED BY <1>1, <2>2, <2>5
<1>4. LaterSound(fetch'[f].peer.id) => <<fetch'[f].peer.id, fetch'[f].iri>> \in graph'
  BY <1>2, <1>3 DEF SameFetch
<1> QED BY <1>1, <1>2, <1>4, StaysCounting DEF SameFetch, SameFinds

LEMMA MoveCounts ==
    ASSUME CountCtx, NEW f \in Fetcher, SameFetch(f) /\ SameFinds(f),
           <<fetch[f].pc, fetch'[f].pc>> \in
             {<<"failed", "failed contact">>, <<"track", "mark">>, <<"mark", "count">>}
    PROVE  LaterCounting(fetch'[f])
<1>1. \/ fetch'[f].pc = "failed contact"
      \/ fetch[f].pc \in {"track", "mark"} /\ fetch'[f].pc \in {"mark", "count"}
  OBVIOUS
<1> QED BY <1>1, StaysCounting DEF SameFetch, SameFinds

(* The count that is written covers the stub that was.                       *)
LEMMA CountWritten ==
    ASSUME CountCtx, NEW f \in Fetcher, SetRecordCount(f)
    PROVE  \A b \in Base : LaterHonest(peers'[b])
<1> SUFFICES ASSUME NEW b \in Base PROVE LaterHonest(peers'[b])
  OBVIOUS
<1> DEFINE id == fetch[f].peer.id
           own == <<id, fetch[f].iri>>
<1>1. /\ peers'[b].id = peers[b].id /\ peers'[b] \in Row
      /\ \/ peers'[b].count = peers[b].count
         \/ /\ peers[b].id = id /\ ~fetch[f].cached
            /\ peers'[b].count <= fetch[f].peer.count + 1
  BY CountFacts DEF CountCtx
<1>2. CASE peers'[b].count = peers[b].count
  BY <1>1, <1>2, CountFrame, SameHonest
<1>3. CASE /\ peers[b].id = id /\ ~fetch[f].cached
           /\ peers'[b].count <= fetch[f].peer.count + 1
  <2> SUFFICES ASSUME LaterSound(id)
               PROVE  peers'[b].count <= Cardinality(LaterStubs(id))
    BY <1>1, <1>3 DEF LaterHonest
  <2>1. LaterCounting(fetch[f])
    BY CountFrame
  <2>2. fetch[f].pc = "count"
    BY DEF SetRecordCount
  <2>3. /\ own \notin CachedAtStart /\ own \in graph'
        /\ fetch[f].peer.count + 1 <= Cardinality(LaterStubs(id) \cup {own})
    BY <1>3, <2>1, <2>2 DEF LaterCounting
  <2>4. LaterStubs(id) \cup {own} = LaterStubs(id)
    BY <2>3 DEF LaterStubs
  <2>5. Cardinality(LaterStubs(id)) \in Nat
    BY StubsGrow, FS_CardinalityType
  <2>6. fetch[f].peer.count \in Nat /\ peers'[b].count \in Nat
    BY <1>1, FetchesTyped, FetchFields, RowFields DEF CountCtx
  <2> HIDE DEF own
  <2>7. fetch[f].peer.count + 1 <= Cardinality(LaterStubs(id))
    BY <2>3, <2>4
  <2> QED BY <1>3, <2>5, <2>6, <2>7
<1> QED BY <1>1, <1>2, <1>3

LEMMA CountFetch ==
    ASSUME CountCtx, NEW f \in Fetcher,
           FetchStep(f) \/ StoreFails(f) \/ StatementFails(f)
    PROVE  CountInv'
<1>1. UNCHANGED <<admin, announced>>
  BY DEF FetchStep, GetFails, GetAnswers, MarkFailed, NoteFailure, CheckLeftover, AskCached,
         ApplyStub, Track, MarkResolved, SetRecordCount, StoreFails, StatementFails
<1>2. Fetches /\ TypeOK /\ RowInv
  BY FetchesTyped DEF CountCtx
<1>3. ASSUME OnlyMoves(f), LaterHonest(fetch'[f].peer), LaterCounting(fetch'[f]),
             \A b \in Base : LaterHonest(peers'[b])
      PROVE  CountInv'
  <2>1. \A g \in Fetcher : LaterHonest(fetch'[g].peer) /\ LaterCounting(fetch'[g])
    <3> SUFFICES ASSUME NEW g \in Fetcher
                 PROVE  LaterHonest(fetch'[g].peer) /\ LaterCounting(fetch'[g])
      OBVIOUS
    <3>1. g # f => fetch'[g] = fetch[g]
      BY <1>3 DEF OnlyMoves
    <3> QED BY <1>3, <3>1, CountFrame
  <2>2. (\A m \in Admin : LaterHonest(admin'[m].row))
        /\ \A n \in Announcer : LaterHonest(announced'[n].row)
    BY <1>1, CountFrame
  <2> QED BY <1>3, <2>1, <2>2, CountFrame, Later
<1>4. ASSUME OnlyMoves(f), SameFetch(f), LaterCounting(fetch'[f]), UNCHANGED peers
      PROVE  CountInv'
  <2>1. LaterHonest(fetch'[f].peer)
    BY <1>4, CountFrame DEF SameFetch
  <2>2. \A b \in Base : LaterHonest(peers'[b])
    BY <1>4, CountFrame
  <2> QED BY <1>3, <1>4, <2>1, <2>2
<1>5. ASSUME fetch'[f].pc \notin {"apply", "track", "mark", "count"}
      PROVE  LaterCounting(fetch'[f])
  BY <1>5 DEF LaterCounting
<1>6. ASSUME OnlyMoves(f), fetch'[f] = NoFetch, \A b \in Base : LaterHonest(peers'[b])
      PROVE  CountInv'
  BY <1>3, <1>6, NoFetchCounts
<1>7. ASSUME NEW s \in {"ok", "error"}, NoteContact(fetch[f].peer, s)
      PROVE  \A b \in Base : LaterHonest(peers'[b])
  <2>1. \A b \in Base : peers'[b].id = peers[b].id /\ peers'[b].count = peers[b].count
    BY <1>2, <1>7, NoteFacts DEF TypeOK
  <2> QED BY <2>1, CountFrame, SameHonest
<1>8. CASE GetFails(f) \/ MarkFailed(f)
  <2>1. fetch'[f].pc \in {"failed", "failed contact"} /\ UNCHANGED peers
    BY <1>2, <1>8, GotoFacts DEF GetFails, MarkFailed, Goto, FetchPc, sqlVars
  <2>2. OnlyMoves(f) /\ SameFetch(f)
    BY <1>2, <1>8, TypeMoves
  <2> QED BY <1>4, <1>5, <2>1, <2>2
<1>9. CASE Track(f) \/ MarkResolved(f)
  <2>1. /\ <<fetch[f].pc, fetch'[f].pc>> \in {<<"track", "mark">>, <<"mark", "count">>}
        /\ UNCHANGED peers
    BY <1>2, <1>9, GotoFacts DEF Track, MarkResolved, Goto, FetchPc
  <2>2. OnlyMoves(f) /\ SameFetch(f) /\ SameFinds(f)
    BY <1>2, <1>9, TypeMoves
  <2>3. LaterCounting(fetch'[f])
    BY <2>1, <2>2, MoveCounts
  <2> QED BY <1>4, <2>1, <2>2, <2>3
<1>10. CASE GetAnswers(f)
  <2>1. OnlyMoves(f) /\ SameFetch(f) /\ fetch'[f].pc \in {"failed", "leftovers"}
    BY <1>2, <1>10, TypeAnswers
  <2>2. \A b \in Base : LaterHonest(peers'[b])
    BY <1>7, <1>10 DEF GetAnswers
  <2>3. LaterHonest(fetch'[f].peer)
    BY <2>1, CountFrame DEF SameFetch
  <2> QED BY <1>3, <1>5, <2>1, <2>2, <2>3
<1>11. CASE CheckLeftover(f)
  <2>1. OnlyMoves(f) /\ SameFetch(f) /\ fetch'[f].pc = "leftovers"
    BY <1>2, <1>11, TypeLeftovers
  <2>2. UNCHANGED peers
    BY <1>11 DEF CheckLeftover, sqlVars
  <2> QED BY <1>4, <1>5, <2>1, <2>2
<1>12. CASE AskCached(f)
  <2>1. OnlyMoves(f) /\ SameFetch(f) /\ UNCHANGED peers
    BY <1>2, <1>12, AskFacts DEF AskCached, sqlVars
  <2> QED BY <1>4, <1>12, <2>1, AskCounts
<1>13. CASE ApplyStub(f)
  <2>1. OnlyMoves(f) /\ SameFetch(f)
    BY <1>2, <1>13, TypeMoves
  <2>2. UNCHANGED peers
    BY <1>13 DEF ApplyStub, sqlVars
  <2> QED BY <1>4, <1>13, <2>1, <2>2, ApplyCounts
<1>14. CASE NoteFailure(f)
  <2>1. OnlyMoves(f) /\ fetch'[f] = NoFetch
    BY <1>2, <1>14, TypeEnds
  <2> QED BY <1>6, <1>7, <1>14, <2>1 DEF NoteFailure
<1>15. CASE SetRecordCount(f)
  <2>1. OnlyMoves(f) /\ fetch'[f] = NoFetch
    BY <1>2, <1>15, TypeEnds
  <2> QED BY <1>6, <1>15, <2>1, CountWritten
<1>16. CASE StoreFails(f)
  <2>1. OnlyMoves(f) /\ fetch'[f] = NoFetch
    BY <1>2, <1>16, TypeEnds
  <2>2. UNCHANGED peers
    BY <1>16 DEF StoreFails, sqlVars
  <2> QED BY <1>6, <2>1, <2>2, CountFrame
<1>17. CASE StatementFails(f)
  <2>1. UNCHANGED peers
    BY <1>17 DEF StatementFails, sqlVars
  <2>2. OnlyMoves(f)
    BY <1>2, <1>17, TypeStatementFails
  <2>3. CASE fetch'[f] = NoFetch
    BY <1>6, <2>1, <2>2, <2>3, CountFrame
  <2>4. CASE /\ SameFetch(f) /\ SameFinds(f)
             /\ <<fetch[f].pc, fetch'[f].pc>> \in
                  {<<"failed", "failed contact">>, <<"track", "mark">>, <<"mark", "count">>}
    BY <1>4, <2>1, <2>2, <2>4, MoveCounts
  <2> QED BY <1>2, <1>17, <2>3, <2>4, TypeStatementFails
<1> QED BY <1>8, <1>9, <1>10, <1>11, <1>12, <1>13, <1>14, <1>15, <1>16, <1>17 DEF FetchStep

LEMMA CountStarts ==
    ASSUME CountCtx, NEW f \in Fetcher, NEW i \in Resolvable, Start(f, i),
           UNCHANGED <<peers, admin, announced>>
    PROVE  CountInv'
<1>1. /\ OnlyMoves(f) /\ fetch'[f].pc = "get"
      /\ fetch'[f].peer \in {NoPeer, OwningPeer(i)}
  BY StartFacts DEF CountCtx
<1>2. LaterHonest(OwningPeer(i)) /\ LaterHonest(NoPeer)
  <2>1. BaseOf[i] # None => BaseOf[i] \in Base
    BY PeerAssumption
  <2> QED BY <2>1, CountFrame, NoPeerHonest DEF OwningPeer
<1>3. LaterHonest(fetch'[f].peer) /\ LaterCounting(fetch'[f])
  BY <1>1, <1>2 DEF LaterCounting
<1>4. \A g \in Fetcher : LaterHonest(fetch'[g].peer) /\ LaterCounting(fetch'[g])
  <2> SUFFICES ASSUME NEW g \in Fetcher
               PROVE  LaterHonest(fetch'[g].peer) /\ LaterCounting(fetch'[g])
    OBVIOUS
  <2>1. g # f => fetch'[g] = fetch[g]
    BY <1>1 DEF OnlyMoves
  <2> QED BY <1>3, <2>1, CountFrame
<1> QED BY <1>4, CountFrame, Later

LEMMA CountNext == CountCtx => CountInv'
<1> SUFFICES ASSUME CountCtx PROVE CountInv'
  OBVIOUS
<1>1. ASSUME NEW f \in Reader, NEW i \in Resolvable, Resolve(f, i) PROVE CountInv'
  BY <1>1, CountStarts DEF Resolve, Fetcher, sqlVars
<1>2. ASSUME ResolveNext PROVE CountInv'
  <2>1. Head(batch) \in Resolvable /\ Worker \in Fetcher
    BY <1>2, HeadTailProperties DEF ResolveNext, CountCtx, TypeOK, Fetcher
  <2> QED BY <1>2, <2>1, CountStarts DEF ResolveNext, sqlVars
<1>3. UNCHANGED <<peers, admin, announced, fetch>> => CountInv'
  <2> SUFFICES ASSUME UNCHANGED <<peers, admin, announced, fetch>> PROVE CountInv'
    OBVIOUS
  <2> QED BY CountFrame, Later
<1>4. CASE (\E i \in Resolvable : Cite(i) \/ ComeDue(i)) \/ ResolverTick \/ UNCHANGED vars
  <2>1. UNCHANGED <<peers, admin, announced, fetch>>
    BY <1>4 DEF Cite, ComeDue, ResolverTick, vars, sqlVars
  <2> QED BY <1>3, <2>1
<1>5. CASE Crash
  <2>1. UNCHANGED peers /\ (\A m \in Admin : admin'[m] = NoAdmin)
        /\ (\A n \in Announcer : announced'[n] = NoAnnounce)
        /\ \A f \in Fetcher : fetch'[f] = NoFetch
    BY <1>5 DEF Crash, sqlVars
  <2>2. LaterHonest(NoAdmin.row) /\ LaterHonest(NoAnnounce.row)
    BY AdminTypes, NoPeerHonest DEF NoAnnounce
  <2> QED BY <2>1, <2>2, NoFetchCounts, CountFrame, Later
<1>6. ASSUME NEW f \in Fetcher, FetchStep(f) \/ StoreFails(f) \/ StatementFails(f)
      PROVE  CountInv'
  BY <1>6, CountFetch
<1>7. Worker \in Fetcher /\ Reader \subseteq Fetcher
  BY DEF Fetcher
<1> QED BY <1>1, <1>2, <1>4, <1>5, <1>6, <1>7, CountAdmin, CountAnnounce
        DEF CountCtx, Next, ResolverStep

(* "A refresh is not a new record; counting it again would inflate": however   *)
(* fetches, adds and announcements overlap, a peer that was not removed, and   *)
(* of which nothing that is asked for was missed, counts no more records than  *)
(* its graph holds stubs that were fetched.                                   *)
THEOREM RecordCountNeverInflated == Spec => []RecordCountNotInflated
<1>1. Init => StubInv /\ GraphInv /\ CountInv
  BY StubInit, GraphInit, CountInit
<1>2. TypeOK /\ RowInv /\ (StubInv /\ GraphInv /\ CountInv) /\ [Next]_vars
        => (StubInv /\ GraphInv /\ CountInv)'
  BY StubNext, GraphNext, CountNext DEF CountCtx
<1>3. TypeOK /\ RowInv /\ CountInv => RecordCountNotInflated
  <2> SUFFICES ASSUME TypeOK, RowInv, CountInv, NEW b \in Base, Countable(b)
               PROVE  peers[b].count <=
                        Cardinality({x \in graph \ CachedAtStart : x[1] = peers[b].id})
    BY DEF RecordCountNotInflated
  <2>1. Sound(peers[b].id)
    BY DEF RowInv, OfBase, Countable, Sound
  <2>2. Honest(peers[b])
    BY DEF CountInv
  <2> QED BY <2>1, <2>2 DEF Honest, Stubs
<1> QED BY <1>1, <1>2, <1>3, TypeCorrect, PTL DEF Spec
=============================================================================
