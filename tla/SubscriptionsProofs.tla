------------------------ MODULE SubscriptionsProofs ------------------------
(***************************************************************************)
(* Proofs about Subscriptions: its types, that no match is lost or queued   *)
(* twice, that a row is only buried after its attempts, that an              *)
(* acknowledgement skips nothing, that remaining is true, that the quota is  *)
(* overrun by at most the concurrent creates, and that the delivery queue    *)
(* implements Delivery.                                                     *)
(*                                                                         *)
(* RowsInv and MatchInv follow the rows and the matches, QueueInv the two    *)
(* queues and BatchInv what the worker holds; AttemptsInv, CursorInv and     *)
(* QuotaInv each strengthen one property to what every step keeps.           *)
(***************************************************************************)
EXTENDS Subscriptions, FiniteSetTheorems, SequenceTheorems, TLAPS

(* Ranks number the elements of a finite set of naturals without gaps, so    *)
(* InOrder lists each of them exactly once.                                  *)
LEMMA InOrderListsAll ==
    ASSUME NEW S \in SUBSET Nat, IsFiniteSet(S)
    PROVE  /\ InOrder(S) \in [1..Cardinality(S) -> S]
           /\ Cardinality(S) \in Nat
           /\ \A j, k \in 1..Cardinality(S) : InOrder(S)[j] = InOrder(S)[k] => j = k
           /\ \A x \in S : \E k \in 1..Cardinality(S) : InOrder(S)[k] = x
           /\ \A k \in 1..Cardinality(S) : Cardinality({m \in S : m <= InOrder(S)[k]}) = k
<1> DEFINE n == Cardinality(S)
           Upto(x) == {m \in S : m <= x}
           f == [x \in S |-> Cardinality(Upto(x))]
<1>1. n \in Nat
  BY FS_CardinalityType
<1>2. ASSUME NEW x \in S
      PROVE  IsFiniteSet(Upto(x)) /\ Cardinality(Upto(x)) \in 1..n
  <2>1. Upto(x) \in SUBSET S /\ x \in Upto(x)
    OBVIOUS
  <2>2. IsFiniteSet(Upto(x)) /\ Cardinality(Upto(x)) <= n
    BY <2>1, FS_Subset
  <2>3. Cardinality(Upto(x)) \in Nat
    BY <2>2, FS_CardinalityType
  <2>4. Cardinality(Upto(x)) # 0
    BY <2>1, <2>2, FS_EmptySet
  <2>5. QED
    BY <1>1, <2>2, <2>3, <2>4
<1>3. ASSUME NEW x \in S, NEW y \in S, x < y
      PROVE  Cardinality(Upto(x)) # Cardinality(Upto(y))
  <2>0. x \in Nat /\ y \in Nat /\ \A m \in S : m \in Nat
    OBVIOUS
  <2>1. Upto(x) \in SUBSET Upto(y) /\ y \in Upto(y) /\ y \notin Upto(x)
    <3>1. \A m \in S : m <= x => m <= y
      BY <1>3, <2>0
    <3>2. y <= y /\ ~(y <= x)
      BY <1>3, <2>0
    <3>3. QED
      BY <3>1, <3>2
  <2>2. IsFiniteSet(Upto(x)) /\ IsFiniteSet(Upto(y))
    BY <1>2
  <2> HIDE DEF Upto
  <2>3. QED
    BY <2>1, <2>2, FS_Subset
<1>4. f \in Injection(S, 1..n)
  <2>1. f \in [S -> 1..n]
    BY <1>2
  <2>2. \A x, y \in S : f[x] = f[y] => x = y
    <3> SUFFICES ASSUME NEW x \in S, NEW y \in S, f[x] = f[y], x # y
                 PROVE  FALSE
      OBVIOUS
    <3>1. x \in Nat /\ y \in Nat
      OBVIOUS
    <3>2. x < y \/ y < x
      BY <3>1
    <3>3. QED
      BY <3>2, <1>3
  <2>3. QED
    BY <2>1, <2>2 DEF Injection, IsInjective
<1>5. IsFiniteSet(1..n) /\ Cardinality(1..n) = n
  BY <1>1, FS_Interval
<1>6. f \in Surjection(S, 1..n)
  BY <1>4, <1>5, FS_Injection
<1>7. \A k \in 1..n : \E x \in S : Cardinality(Upto(x)) = k
  BY <1>6 DEF Surjection
<1>8. \A x, y \in S : Cardinality(Upto(x)) = Cardinality(Upto(y)) => x = y
  BY <1>4 DEF Injection, IsInjective
<1>9. InOrder(S) = [k \in 1..n |-> CHOOSE x \in S : Cardinality(Upto(x)) = k]
  BY DEF InOrder
<1> HIDE DEF n, Upto, f
<1>10. \A k \in 1..n : InOrder(S)[k] \in S /\ Cardinality(Upto(InOrder(S)[k])) = k
  BY <1>7, <1>9
<1>11. \A x \in S : Cardinality(Upto(x)) \in 1..n
  BY <1>2
<1>12. \A x \in S : InOrder(S)[Cardinality(Upto(x))] = x
  BY <1>8, <1>10, <1>11
<1>13. InOrder(S) \in [1..n -> S]
  BY <1>9, <1>10
<1>14. \A j, k \in 1..n : InOrder(S)[j] = InOrder(S)[k] => j = k
  BY <1>10
<1>15. \A x \in S : \E k \in 1..n : InOrder(S)[k] = x
  BY <1>11, <1>12
<1>16. \A k \in 1..n : Cardinality({m \in S : m <= InOrder(S)[k]}) = k
  BY <1>10 DEF Upto
<1>17. QED
  BY <1>1, <1>13, <1>14, <1>15, <1>16 DEF n

(* The element of the highest rank is the greatest one.                      *)
LEMMA GreatestExists ==
    ASSUME NEW S \in SUBSET Nat, IsFiniteSet(S), S # {}
    PROVE  \E x \in S : \A y \in S : y <= x
<1> DEFINE n == Cardinality(S)
           x == InOrder(S)[n]
<1>1. n \in 1..n
  BY FS_CardinalityType, FS_EmptySet
<1>2. x \in S /\ Cardinality({m \in S : m <= x}) = n
  BY <1>1, InOrderListsAll
<1>3. {m \in S : m <= x} \in SUBSET S
  OBVIOUS
<1> HIDE DEF n, x
<1>4. {m \in S : m <= x} = S
  BY <1>2, <1>3, FS_Subset DEF n
<1>5. QED
  BY <1>2, <1>4

(* What InOrder returns, as a sequence.                                      *)
LEMMA InOrderIsSequence ==
    ASSUME NEW S \in SUBSET Nat, IsFiniteSet(S)
    PROVE  InOrder(S) \in Seq(S) /\ IsInjective(InOrder(S)) /\ ToSet(InOrder(S)) = S
<1>1. InOrder(S) \in Seq(S)
  BY InOrderListsAll
<1>2. DOMAIN InOrder(S) = 1..Cardinality(S)
  BY InOrderListsAll
<1>3. IsInjective(InOrder(S))
  BY <1>2, InOrderListsAll DEF IsInjective
<1>4. ToSet(InOrder(S)) = S
  <2>1. \A k \in DOMAIN InOrder(S) : InOrder(S)[k] \in S
    BY <1>2, InOrderListsAll
  <2>2. \A x \in S : \E k \in DOMAIN InOrder(S) : x = InOrder(S)[k]
    BY <1>2, InOrderListsAll
  <2>3. QED
    BY <2>1, <2>2 DEF ToSet
<1>5. QED
  BY <1>1, <1>3, <1>4

(* Only keeps exactly the elements in the set, and repeats none.             *)
LEMMA OnlyKeeps ==
    ASSUME NEW R, NEW seq \in Seq(R), NEW S
    PROVE  /\ Only(seq, S) \in Seq(R)
           /\ ToSet(Only(seq, S)) = ToSet(seq) \cap S
           /\ IsInjective(seq) => IsInjective(Only(seq, S))
<1> DEFINE I == {i \in DOMAIN seq : seq[i] \in S}
           at == InOrder(I)
           c == Cardinality(I)
<1>1. Len(seq) \in Nat /\ DOMAIN seq = 1..Len(seq)
  OBVIOUS
<1>2. IsFiniteSet(I) /\ I \in SUBSET Nat /\ I \in SUBSET (1..Len(seq))
  <2>1. IsFiniteSet(1..Len(seq))
    BY <1>1, FS_Interval
  <2>2. I \in SUBSET (1..Len(seq))
    BY <1>1
  <2>3. QED
    BY <2>1, <2>2, FS_Subset
<1>3. /\ at \in [1..c -> I]
      /\ c \in Nat
      /\ \A j, k \in 1..c : at[j] = at[k] => j = k
      /\ \A x \in I : \E k \in 1..c : at[k] = x
  BY <1>2, InOrderListsAll
<1>4. \A i \in I : i \in DOMAIN seq /\ seq[i] \in S /\ seq[i] \in R
  BY <1>1
<1>5. Only(seq, S) = [k \in DOMAIN at |-> seq[at[k]]]
  BY DEF Only
<1>6. \A i \in DOMAIN seq : seq[i] \in S => i \in I
  OBVIOUS
<1> HIDE DEF I, at, c
<1>7. DOMAIN at = 1..c
  BY <1>3
<1>8. Only(seq, S) \in [1..c -> R]
  BY <1>3, <1>4, <1>5, <1>7
<1>9. Only(seq, S) \in Seq(R)
  BY <1>3, <1>8
<1>10. ToSet(Only(seq, S)) \subseteq ToSet(seq) \cap S
  BY <1>3, <1>4, <1>5, <1>7 DEF ToSet
<1>11. ToSet(seq) \cap S \subseteq ToSet(Only(seq, S))
  BY <1>3, <1>5, <1>6, <1>7 DEF ToSet
<1>12. IsInjective(seq) => IsInjective(Only(seq, S))
  BY <1>3, <1>4, <1>5, <1>7 DEF IsInjective
<1>13. QED
  BY <1>9, <1>10, <1>11, <1>12

LEMMA AppendKeeps ==
    ASSUME NEW R, NEW seq \in Seq(R), NEW x \in R
    PROVE  /\ Append(seq, x) \in Seq(R)
           /\ ToSet(Append(seq, x)) = ToSet(seq) \cup {x}
           /\ IsInjective(seq) /\ x \notin ToSet(seq) => IsInjective(Append(seq, x))
<1>1. /\ Append(seq, x) \in Seq(R)
      /\ Len(Append(seq, x)) = Len(seq) + 1
      /\ Len(seq) \in Nat
      /\ DOMAIN seq = 1..Len(seq)
      /\ DOMAIN Append(seq, x) = 1..(Len(seq) + 1)
      /\ \A i \in 1..Len(seq) : Append(seq, x)[i] = seq[i]
      /\ Append(seq, x)[Len(seq) + 1] = x
  BY AppendProperties, LenProperties
<1>2. ToSet(Append(seq, x)) = ToSet(seq) \cup {x}
  <2>1. \A i \in 1..(Len(seq) + 1) : i \in 1..Len(seq) \/ i = Len(seq) + 1
    BY <1>1
  <2>2. 1..Len(seq) \subseteq 1..(Len(seq) + 1) /\ Len(seq) + 1 \in 1..(Len(seq) + 1)
    BY <1>1
  <2>3. QED
    BY <1>1, <2>1, <2>2 DEF ToSet
<1>3. ASSUME IsInjective(seq), x \notin ToSet(seq)
      PROVE  IsInjective(Append(seq, x))
  BY <1>1, <1>3 DEF IsInjective, ToSet
<1>4. QED
  BY <1>1, <1>2, <1>3

LEMMA TailKeeps ==
    ASSUME NEW R, NEW seq \in Seq(R), seq # <<>>
    PROVE  /\ Head(seq) \in R /\ Head(seq) \in ToSet(seq)
           /\ Tail(seq) \in Seq(R)
           /\ ToSet(seq) = ToSet(Tail(seq)) \cup {Head(seq)}
           /\ IsInjective(seq) => IsInjective(Tail(seq)) /\ Head(seq) \notin ToSet(Tail(seq))
<1>1. /\ Len(seq) \in Nat \ {0}
      /\ DOMAIN seq = 1..Len(seq)
      /\ Head(seq) = seq[1]
      /\ Tail(seq) \in Seq(R)
      /\ DOMAIN Tail(seq) = 1..(Len(seq) - 1)
      /\ \A i \in 1..(Len(seq) - 1) : Tail(seq)[i] = seq[i + 1]
  <2>1. Len(seq) \in Nat \ {0}
    BY EmptySeq
  <2>2. /\ Tail(seq) \in Seq(R) /\ Len(Tail(seq)) = Len(seq) - 1
        /\ \A i \in 1..Len(Tail(seq)) : Tail(seq)[i] = seq[i + 1]
    BY HeadTailProperties
  <2>3. QED
    BY <2>1, <2>2, LenProperties
<1>2. Head(seq) \in R /\ Head(seq) \in ToSet(seq)
  BY <1>1 DEF ToSet
<1>3. ToSet(seq) = ToSet(Tail(seq)) \cup {Head(seq)}
  <2>1. \A i \in 1..Len(seq) : i = 1 \/ (i - 1 \in 1..(Len(seq) - 1) /\ (i - 1) + 1 = i)
    BY <1>1
  <2>2. \A i \in 1..(Len(seq) - 1) : i + 1 \in 1..Len(seq)
    BY <1>1
  <2>3. ToSet(Tail(seq)) \cup {Head(seq)} \subseteq ToSet(seq)
    BY <1>1, <1>2, <2>2 DEF ToSet
  <2>4. ASSUME NEW i \in 1..Len(seq), i # 1
        PROVE  seq[i] \in ToSet(Tail(seq))
    <3>1. seq[i] = Tail(seq)[i - 1] /\ i - 1 \in DOMAIN Tail(seq)
      BY <1>1, <2>1, <2>4
    <3>2. QED
      BY <3>1 DEF ToSet
  <2>5. ToSet(seq) \subseteq ToSet(Tail(seq)) \cup {Head(seq)}
    BY <1>1, <2>4 DEF ToSet
  <2>6. QED
    BY <2>3, <2>5
<1>4. ASSUME IsInjective(seq)
      PROVE  IsInjective(Tail(seq)) /\ Head(seq) \notin ToSet(Tail(seq))
  BY <1>1, <1>4 DEF IsInjective, ToSet
<1>5. QED
  BY <1>1, <1>2, <1>3, <1>4

LEMMA SubSeqKeeps ==
    ASSUME NEW R, NEW seq \in Seq(R), NEW m \in 1..(Len(seq) + 1), NEW n \in 0..Len(seq)
    PROVE  /\ SubSeq(seq, m, n) \in Seq(R)
           /\ ToSet(SubSeq(seq, m, n)) = {seq[i] : i \in m..n}
           /\ IsInjective(seq) => IsInjective(SubSeq(seq, m, n))
<1> DEFINE c == IF m <= n THEN n - m + 1 ELSE 0
<1>1. /\ Len(seq) \in Nat
      /\ DOMAIN seq = 1..Len(seq)
      /\ m \in Nat /\ n \in Nat /\ c \in Nat
      /\ SubSeq(seq, m, n) \in Seq(R)
      /\ DOMAIN SubSeq(seq, m, n) = 1..c
      /\ \A i \in 1..c : SubSeq(seq, m, n)[i] = seq[m + i - 1]
  OBVIOUS
<1>2. ToSet(SubSeq(seq, m, n)) = {seq[i] : i \in m..n}
  <2>1. \A i \in 1..c : m + i - 1 \in m..n
    BY <1>1
  <2>2. ToSet(SubSeq(seq, m, n)) \subseteq {seq[i] : i \in m..n}
    BY <1>1, <2>1 DEF ToSet
  <2>3. ASSUME NEW i \in m..n
        PROVE  seq[i] \in ToSet(SubSeq(seq, m, n))
    <3>1. i - m + 1 \in 1..c /\ m + (i - m + 1) - 1 = i
      BY <1>1
    <3>2. SubSeq(seq, m, n)[i - m + 1] = seq[i] /\ i - m + 1 \in DOMAIN SubSeq(seq, m, n)
      BY <1>1, <3>1
    <3>3. QED
      BY <3>2 DEF ToSet
  <2>4. QED
    BY <2>2, <2>3
<1>3. ASSUME IsInjective(seq)
      PROVE  IsInjective(SubSeq(seq, m, n))
  <2>1. \A i \in 1..c : m + i - 1 \in 1..Len(seq)
    BY <1>1
  <2>2. \A i, j \in 1..c : m + i - 1 = m + j - 1 => i = j
    BY <1>1
  <2> HIDE DEF c
  <2>3. QED
    BY <1>1, <1>3, <2>1, <2>2 DEF IsInjective
<1>4. QED
  BY <1>1, <1>2, <1>3

LEMMA ConcatKeeps ==
    ASSUME NEW R, NEW s1 \in Seq(R), NEW s2 \in Seq(R)
    PROVE  /\ s1 \o s2 \in Seq(R)
           /\ ToSet(s1 \o s2) = ToSet(s1) \cup ToSet(s2)
           /\ IsInjective(s1) /\ IsInjective(s2) /\ ToSet(s1) \cap ToSet(s2) = {}
                => IsInjective(s1 \o s2)
<1> DEFINE a == Len(s1)
           b == Len(s2)
<1>1. /\ a \in Nat /\ b \in Nat
      /\ DOMAIN s1 = 1..a /\ DOMAIN s2 = 1..b
      /\ s1 \o s2 \in Seq(R)
      /\ DOMAIN (s1 \o s2) = 1..(a + b)
      /\ \A i \in 1..(a + b) : (s1 \o s2)[i] = IF i <= a THEN s1[i] ELSE s2[i - a]
  BY ConcatProperties, LenProperties
<1> HIDE DEF a, b
<1>2. \A i \in 1..(a + b) : IF i <= a THEN i \in 1..a ELSE i - a \in 1..b
  BY <1>1
<1>3. ToSet(s1 \o s2) = ToSet(s1) \cup ToSet(s2)
  <2>1. \A i \in 1..a : i \in 1..(a + b) /\ i <= a
    BY <1>1
  <2>2. \A i \in 1..b : a + i \in 1..(a + b) /\ ~(a + i <= a) /\ (a + i) - a = i
    BY <1>1
  <2>3. ToSet(s1 \o s2) \subseteq ToSet(s1) \cup ToSet(s2)
    BY <1>1, <1>2 DEF ToSet
  <2>4. ToSet(s1) \subseteq ToSet(s1 \o s2)
    BY <1>1, <2>1 DEF ToSet
  <2>5. ToSet(s2) \subseteq ToSet(s1 \o s2)
    <3>1. ASSUME NEW i \in 1..b
          PROVE  s2[i] \in ToSet(s1 \o s2)
      <4>1. (s1 \o s2)[a + i] = s2[i] /\ a + i \in DOMAIN (s1 \o s2)
        BY <1>1, <2>2
      <4>2. QED
        BY <4>1 DEF ToSet
    <3>2. QED
      BY <1>1, <3>1 DEF ToSet
  <2>6. QED
    BY <2>3, <2>4, <2>5
<1>4. ASSUME IsInjective(s1), IsInjective(s2), ToSet(s1) \cap ToSet(s2) = {},
             NEW i \in 1..(a + b), NEW j \in 1..(a + b), (s1 \o s2)[i] = (s1 \o s2)[j]
      PROVE  i = j
  <2>1. \A k \in 1..a, l \in 1..b : s1[k] # s2[l]
    BY <1>1, <1>4 DEF ToSet
  <2>2. (\A k, l \in 1..a : s1[k] = s1[l] => k = l) /\ (\A k, l \in 1..b : s2[k] = s2[l] => k = l)
    BY <1>1, <1>4 DEF IsInjective
  <2>3. CASE i <= a /\ j <= a
    BY <1>1, <1>2, <1>4, <2>2, <2>3
  <2>4. CASE ~(i <= a) /\ ~(j <= a)
    BY <1>1, <1>2, <1>4, <2>2, <2>4
  <2>5. CASE i <= a /\ ~(j <= a)
    BY <1>1, <1>2, <1>4, <2>1, <2>5
  <2>6. CASE ~(i <= a) /\ j <= a
    BY <1>1, <1>2, <1>4, <2>1, <2>6
  <2>7. QED
    BY <2>3, <2>4, <2>5, <2>6
<1>5. QED
  BY <1>1, <1>3, <1>4 DEF IsInjective

(* A run of new elements anywhere in a sequence: the re-armed rows, or the   *)
(* one row that goes back to wait.                                           *)
LEMMA SpliceKeeps ==
    ASSUME NEW R, NEW seq \in Seq(R), NEW new \in Seq(R), NEW k \in 0..Len(seq),
           IsInjective(seq), IsInjective(new), ToSet(seq) \cap ToSet(new) = {}
    PROVE  LET all == SubSeq(seq, 1, k) \o new \o SubSeq(seq, k + 1, Len(seq))
           IN /\ all \in Seq(R)
              /\ ToSet(all) = ToSet(seq) \cup ToSet(new)
              /\ IsInjective(all)
<1> DEFINE l == SubSeq(seq, 1, k)
           r == SubSeq(seq, k + 1, Len(seq))
<1>1. Len(seq) \in Nat /\ DOMAIN seq = 1..Len(seq) /\ k \in Nat
  OBVIOUS
<1>2. /\ l \in Seq(R) /\ IsInjective(l) /\ ToSet(l) = {seq[i] : i \in 1..k}
  BY <1>1, SubSeqKeeps
<1>3. /\ r \in Seq(R) /\ IsInjective(r) /\ ToSet(r) = {seq[i] : i \in (k + 1)..Len(seq)}
  <2>1. k + 1 \in 1..(Len(seq) + 1) /\ Len(seq) \in 0..Len(seq)
    BY <1>1
  <2>2. QED
    BY <2>1, SubSeqKeeps
<1>4. ToSet(l) \cup ToSet(r) = ToSet(seq)
  <2>1. 1..Len(seq) = (1..k) \cup ((k + 1)..Len(seq))
    BY <1>1
  <2>2. QED
    BY <1>1, <1>2, <1>3, <2>1 DEF ToSet
<1>5. ToSet(l) \cap ToSet(r) = {}
  <2>1. \A i \in 1..k, j \in (k + 1)..Len(seq) : i \in DOMAIN seq /\ j \in DOMAIN seq /\ i # j
    BY <1>1
  <2>2. \A i \in 1..k, j \in (k + 1)..Len(seq) : seq[i] # seq[j]
    BY <2>1 DEF IsInjective
  <2>3. QED
    BY <1>2, <1>3, <2>2
<1> HIDE DEF l, r
<1>6. /\ l \o new \in Seq(R) /\ ToSet(l \o new) = ToSet(l) \cup ToSet(new)
      /\ IsInjective(l \o new)
  BY <1>2, <1>4, ConcatKeeps
<1>7. ToSet(l \o new) \cap ToSet(r) = {}
  BY <1>4, <1>5, <1>6
<1>8. /\ l \o new \o r \in Seq(R) /\ ToSet(l \o new \o r) = ToSet(l) \cup ToSet(new) \cup ToSet(r)
      /\ IsInjective(l \o new \o r)
  <2> DEFINE ln == l \o new
  <2> HIDE DEF ln
  <2>1. ln \in Seq(R) /\ IsInjective(ln) /\ ToSet(ln) \cap ToSet(r) = {}
    BY <1>6, <1>7 DEF ln
  <2>2. ln \o r \in Seq(R) /\ ToSet(ln \o r) = ToSet(ln) \cup ToSet(r) /\ IsInjective(ln \o r)
    BY <1>3, <2>1, ConcatKeeps
  <2>3. QED
    BY <1>6, <2>2 DEF ln
<1>9. QED
  BY <1>4, <1>8 DEF l, r

(* The last row of a page, or where it started.                              *)
LEMMA LastOfIsLast ==
    ASSUME NEW S \in SUBSET Nat, IsFiniteSet(S), NEW c \in Nat
    PROVE  /\ LastOf(S, c) \in S \cup {c}
           /\ \A q \in S : q <= LastOf(S, c)
<1>1. \E n \in S \cup {c} : \A q \in S : q <= n
  <2>1. CASE S = {}
    BY <2>1
  <2>2. CASE S # {}
    BY <2>2, GreatestExists
  <2>3. QED
    BY <2>1, <2>2
<1>2. QED
  BY <1>1 DEF LastOf

LEMMA RowsFinite ==
    ASSUME NEW S \in SUBSET Rows
    PROVE  IsFiniteSet(S) /\ S \in SUBSET Nat
<1>1. IsFiniteSet(Rows) /\ Rows \in SUBSET Nat
  <2>1. MaxSeq \in Nat /\ 1 \in Int /\ MaxSeq \in Int
    BY LimitAssumption
  <2>2. IsFiniteSet(1..MaxSeq)
    BY <2>1, FS_Interval
  <2>3. QED
    BY <2>1, <2>2 DEF Rows
<1>2. QED
  BY <1>1, FS_Subset

(***************************************************************************)
(* Types.                                                                  *)
(***************************************************************************)
SubRow == [instance : Instance \cup {None}, filter : (SUBSET Event) \cup {None},
           hook : BOOLEAN, secret : BOOLEAN, enabled : BOOLEAN, active : BOOLEAN,
           failures : Nat, cursor : Nat]
DeliveryRow == [sub : Sub \cup {None}, event : Event \cup {None},
                status : {"pending", "failed", "delivered", "dead", "none"},
                attempts : Nat]
Request == [sub : Sub \cup {None}, filter : Filters \cup {None}, stmts : Seq(Stmt)]
Pull == [pc : {"idle", "page", "latest", "ack"}, sub : Sub \cup {None}, from : Nat,
         upto : Nat, remaining : Nat, left : Nat]
Entry == [seq : Rows, sub : Sub, attempts : Nat, signed : BOOLEAN]
WorkerPC == {"idle", "post", "delivered", "reset", "failed", "mark", "count", "check",
             "suspend"}

StoreTyped ==
    /\ live \subseteq used
    /\ used \subseteq Sub
    /\ subs \in [Sub -> SubRow]
    /\ deliveries \in [Rows -> DeliveryRow]
    /\ lastSeq \in 0..MaxSeq
    /\ ready \in Seq(Rows)
    /\ waiting \in Seq(Rows)
WorkerTyped ==
    /\ wpc \in WorkerPC
    /\ batch \in Seq(Entry)
    /\ wpc = "idle" <=> batch = <<>>
    /\ value \in Nat
TasksTyped ==
    /\ creating \in [Creator -> Instance \cup {None}]
    /\ todo \in [Notifier -> SUBSET (Sub \X Event)]
    /\ doing \in [Owner -> Request]
    /\ \A o \in Owner : doing[o].stmts # <<>> => doing[o].sub \in Sub
    /\ pulling \in [Puller -> Pull]
    /\ \A u \in Puller : pulling[u].pc # "idle" => pulling[u].sub \in Sub
HistTyped ==
    /\ tries \in [Rows -> Nat]
    /\ asked \in [Sub -> Nat]
TypeOK == StoreTyped /\ WorkerTyped /\ TasksTyped /\ HistTyped

LEMMA TypeInit == Init => TypeOK
<1> SUFFICES ASSUME Init PROVE TypeOK
  OBVIOUS
<1> USE DEF Init
<1>1. subs \in [Sub -> SubRow]
  <2>1. ASSUME NEW s \in DOMAIN Existing
        PROVE  NewSub(Existing[s].instance, Existing[s].filter, Existing[s].hook) \in SubRow
    BY SubscriptionAssumption DEF NewSub, SubRow
  <2>2. NoSub \in SubRow
    BY DEF NoSub, SubRow
  <2>3. QED
    BY <2>1, <2>2
<1>2. deliveries \in [Rows -> DeliveryRow]
  BY DEF NoDelivery, DeliveryRow
<1>3. StoreTyped
  BY <1>1, <1>2, SubscriptionAssumption, LimitAssumption DEF StoreTyped
<1>4. WorkerTyped
  BY DEF WorkerTyped, WorkerPC
<1>5. TasksTyped
  <2>1. Idle \in Request /\ Idle.stmts = <<>>
    BY DEF Idle, Request
  <2>2. NoPull \in Pull /\ NoPull.pc = "idle"
    BY DEF NoPull, Pull
  <2>3. QED
    BY <2>1, <2>2 DEF TasksTyped
<1>6. HistTyped
  BY DEF HistTyped
<1>7. QED
  BY <1>3, <1>4, <1>5, <1>6 DEF TypeOK

LEMMA CreatorTyped ==
    ASSUME TypeOK, NEW c \in Creator, CreatorStep(c)
    PROVE  TypeOK'
<1> USE DEF TypeOK
<1>1. ASSUME NEW i \in Instance, CountForInstance(c, i)
      PROVE  TypeOK'
  <2>1. creating' \in [Creator -> Instance \cup {None}]
    BY <1>1 DEF CountForInstance, TasksTyped
  <2>2. QED
    BY <1>1, <2>1 DEF CountForInstance, StoreTyped, WorkerTyped, TasksTyped, HistTyped,
                      store, worker, hist
<1>2. CASE CreateSubscription(c)
  <2>1. PICK s \in Sub \ used, f \in Filters, hook \in BOOLEAN :
          /\ live' = live \cup {s}
          /\ subs' = [subs EXCEPT ![s] = NewSub(creating[c], f, hook)]
          /\ used' = used \cup {s}
    BY <1>2 DEF CreateSubscription
  <2>2. NewSub(creating[c], f, hook) \in SubRow
    BY SubscriptionAssumption DEF NewSub, SubRow, TasksTyped
  <2>3. live' \subseteq used' /\ used' \subseteq Sub /\ subs' \in [Sub -> SubRow]
    BY <2>1, <2>2 DEF StoreTyped
  <2>4. creating' \in [Creator -> Instance \cup {None}]
    BY <1>2 DEF CreateSubscription, TasksTyped
  <2>5. QED
    BY <1>2, <2>3, <2>4 DEF CreateSubscription, StoreTyped, WorkerTyped, TasksTyped,
                            HistTyped, worker
<1>3. QED
  BY <1>1, <1>2 DEF CreatorStep

LEMMA NotifierTyped ==
    ASSUME TypeOK, NEW n \in Notifier, NotifierStep(n)
    PROVE  TypeOK'
<1> USE DEF TypeOK
<1>1. ASSUME NEW events \in SUBSET Event \ {{}}, NotifyAdvertised(n, events)
      PROVE  TypeOK'
  <2>1. todo' \in [Notifier -> SUBSET (Sub \X Event)]
    BY <1>1 DEF NotifyAdvertised, TasksTyped, StoreTyped
  <2>2. QED
    BY <1>1, <2>1 DEF NotifyAdvertised, StoreTyped, WorkerTyped, TasksTyped, HistTyped,
                      store, worker
<1>2. ASSUME NEW s \in Sub, NEW e \in Event, Enqueue(n, s, e)
      PROVE  TypeOK'
  <2>1. todo' \in [Notifier -> SUBSET (Sub \X Event)]
    BY <1>2 DEF Enqueue, TasksTyped
  <2>2. CASE InsertDelivery(s, e)
    <3>1. lastSeq + 1 \in Rows /\ lastSeq' \in 0..MaxSeq
      BY <2>2, LimitAssumption DEF InsertDelivery, StoreTyped, Rows
    <3>2. deliveries' \in [Rows -> DeliveryRow]
      BY <2>2, <3>1 DEF InsertDelivery, StoreTyped, DeliveryRow
    <3>3. ready' \in Seq(Rows)
      BY <2>2, <3>1, AppendKeeps DEF InsertDelivery, StoreTyped
    <3>4. QED
      BY <1>2, <2>1, <3>1, <3>2, <3>3 DEF Enqueue, StoreTyped, WorkerTyped, TasksTyped,
                                          HistTyped, worker, hist
  <2>3. CASE UNCHANGED <<deliveries, lastSeq, ready>>
    BY <1>2, <2>1, <2>3 DEF Enqueue, StoreTyped, WorkerTyped, TasksTyped, HistTyped,
                            worker, hist
  <2>4. QED
    BY <1>2, <2>2, <2>3 DEF Enqueue
<1>3. CASE LoseMatches(n)
  <2>1. todo' \in [Notifier -> SUBSET (Sub \X Event)]
    BY <1>3 DEF LoseMatches, TasksTyped
  <2>2. QED
    BY <1>3, <2>1 DEF LoseMatches, StoreTyped, WorkerTyped, TasksTyped, HistTyped,
                      store, worker
<1>4. QED
  BY <1>1, <1>2, <1>3 DEF NotifierStep

(* The statement lists an owner's request starts with.                       *)
LEMMA StatementsTyped ==
    ASSUME NEW s, NEW p
    PROVE  Statements(s, p) \in Seq(Stmt)
<1> DEFINE a == IF p.filter # None THEN <<"filter">> ELSE <<>>
           b == CASE p.hook = "set" -> <<"hook">>
                  [] p.hook = "clear" -> <<"no hook">>
                  [] OTHER -> <<>>
           c == CASE MintsSecret(s, p) -> <<"secret">>
                  [] p.hook = "clear" -> <<"no secret">>
                  [] OTHER -> <<>>
           d == CASE p.enabled = "on" -> <<"enable">>
                  [] p.enabled = "off" -> <<"disable">>
                  [] OTHER -> <<>>
           e == IF p.resume THEN <<"resume", "rearm">> ELSE <<>>
<1>0. <<>> \in Seq(Stmt) /\ (\A x \in Stmt : <<x>> \in Seq(Stmt))
        /\ (\A x, y \in Stmt : <<x, y>> \in Seq(Stmt))
  OBVIOUS
<1>1. a \in Seq(Stmt)
  BY <1>0 DEF Stmt
<1>2. b \in Seq(Stmt)
  BY <1>0 DEF Stmt
<1>3. c \in Seq(Stmt)
  BY <1>0 DEF Stmt
<1>4. d \in Seq(Stmt)
  BY <1>0 DEF Stmt
<1>5. e \in Seq(Stmt)
  BY <1>0 DEF Stmt
<1>6. Statements(s, p) = a \o b \o c \o d \o e
  BY DEF Statements
<1> HIDE DEF a, b, c, d, e
<1>7. a \o b \in Seq(Stmt)
  BY <1>1, <1>2, ConcatProperties
<1>8. a \o b \o c \in Seq(Stmt)
  BY <1>7, <1>3, ConcatProperties
<1>9. a \o b \o c \o d \in Seq(Stmt)
  BY <1>8, <1>4, ConcatProperties
<1>10. QED
  BY <1>9, <1>5, <1>6, ConcatProperties

LEMMA RunsTyped ==
    ASSUME TypeOK, NEW o \in Owner, NEW stmt, Runs(o, stmt)
    PROVE  /\ doing' \in [Owner -> Request]
           /\ \A a \in Owner : doing'[a].stmts # <<>> => doing'[a].sub \in Sub
           /\ doing[o].sub \in Sub
<1>1. doing[o] \in Request /\ doing[o].stmts # <<>> /\ doing[o].sub \in Sub
  BY DEF Runs, TypeOK, TasksTyped
<1>2. Tail(doing[o].stmts) \in Seq(Stmt)
  BY <1>1, HeadTailProperties DEF Request
<1>3. Idle \in Request /\ Idle.stmts = <<>>
  BY DEF Idle, Request
<1> DEFINE d == IF Tail(doing[o].stmts) = <<>> THEN Idle
                ELSE [doing[o] EXCEPT !.stmts = Tail(doing[o].stmts)]
<1>4. d \in Request /\ (d.stmts # <<>> => d.sub \in Sub)
  BY <1>1, <1>2, <1>3 DEF Request
<1>5. doing' = [doing EXCEPT ![o] = d]
  BY DEF Runs
<1> HIDE DEF d
<1>6. QED
  BY <1>1, <1>4, <1>5 DEF TypeOK, TasksTyped

LEMMA BeginTyped ==
    ASSUME TypeOK, NEW o \in Owner, NEW s \in Sub, NEW filter \in Filters \cup {None},
           NEW stmts \in Seq(Stmt), Begin(o, s, filter, stmts)
    PROVE  TypeOK'
<1>1. [sub |-> s, filter |-> filter, stmts |-> stmts] \in Request
  BY DEF Request
<1>2. /\ doing' \in [Owner -> Request]
      /\ \A a \in Owner : doing'[a].stmts # <<>> => doing'[a].sub \in Sub
  BY <1>1 DEF Begin, TypeOK, TasksTyped
<1>3. QED
  BY <1>2 DEF Begin, TypeOK, StoreTyped, WorkerTyped, TasksTyped, HistTyped, store,
              worker, hist

LEMMA DropTyped ==
    ASSUME TypeOK, NEW rows, Drop(rows)
    PROVE  ready' \in Seq(Rows) /\ waiting' \in Seq(Rows)
BY OnlyKeeps DEF Drop, TypeOK, StoreTyped

(* One column of one subscription.                                           *)
LEMMA ChangedTyped ==
    ASSUME TypeOK, NEW s \in Sub, NEW filter \in Filters \cup {None},
           NEW stmt \in Stmt \ {"rearm", "delete rows", "delete"}
    PROVE  Changed(s, stmt, filter) \in SubRow
<1>1. subs[s] \in SubRow /\ filter \in (SUBSET Event) \cup {None}
  BY SubscriptionAssumption DEF TypeOK, StoreTyped
<1>2. QED
  BY <1>1 DEF Changed, SubRow, Stmt

LEMMA UpdateTyped ==
    ASSUME TypeOK, NEW o \in Owner, NEW stmt \in Stmt \ {"rearm", "delete rows", "delete"},
           UpdateSubscription(o, stmt)
    PROVE  TypeOK'
<1>1. Runs(o, stmt)
  BY DEF UpdateSubscription
<1>2. doing[o] \in Request /\ doing[o].filter \in Filters \cup {None}
  BY DEF TypeOK, TasksTyped, Request
<1>3. Changed(doing[o].sub, stmt, doing[o].filter) \in SubRow
  BY <1>1, <1>2, RunsTyped, ChangedTyped
<1>4. subs' \in [Sub -> SubRow]
  BY <1>3 DEF UpdateSubscription, TypeOK, StoreTyped
<1>5. QED
  BY <1>1, <1>4, RunsTyped DEF UpdateSubscription, TypeOK, StoreTyped, WorkerTyped, TasksTyped,
                               HistTyped, worker

LEMMA RearmTyped ==
    ASSUME TypeOK, NEW o \in Owner, RearmDeliveries(o)
    PROVE  TypeOK'
<1> DEFINE rows == Rearmable(doing[o].sub)
           rest == Only(ready, Rows \ rows)
<1>1. Runs(o, "rearm")
  BY DEF RearmDeliveries
<1>2. deliveries' \in [Rows -> DeliveryRow]
  BY DEF RearmDeliveries, TypeOK, StoreTyped, DeliveryRow
<1>3. waiting' \in Seq(Rows)
  BY OnlyKeeps DEF RearmDeliveries, TypeOK, StoreTyped
<1>4. rows \in SUBSET Rows
  BY DEF Rearmable, RowsOf
<1>5. rest \in Seq(Rows)
  BY OnlyKeeps DEF TypeOK, StoreTyped
<1>6. InOrder(rows) \in Seq(Rows)
  <2>1. InOrder(rows) \in Seq(rows)
    BY <1>4, RowsFinite, InOrderIsSequence
  <2>2. QED
    BY <1>4, <2>1, SeqMonotonic
<1>7. PICK i \in 0..Len(rest) :
        ready' = SubSeq(rest, 1, i) \o InOrder(rows) \o SubSeq(rest, i + 1, Len(rest))
  BY DEF RearmDeliveries
<1> HIDE DEF rest, rows
<1>8. ready' \in Seq(Rows)
  <2>1. Len(rest) \in Nat
    BY <1>5
  <2>2. SubSeq(rest, 1, i) \in Seq(Rows) /\ SubSeq(rest, i + 1, Len(rest)) \in Seq(Rows)
    BY <1>5, <2>1
  <2>3. QED
    BY <1>6, <1>7, <2>2, ConcatProperties
<1>9. tries' \in [Rows -> Nat]
  BY DEF RearmDeliveries, TypeOK, HistTyped
<1>10. QED
  BY <1>1, <1>2, <1>3, <1>8, <1>9, RunsTyped
     DEF RearmDeliveries, TypeOK, StoreTyped, WorkerTyped, TasksTyped, HistTyped, worker

LEMMA DeleteTyped ==
    ASSUME TypeOK, NEW o \in Owner, NEW stmt, DeleteSubscription(o, stmt)
    PROVE  TypeOK'
<1> DEFINE s == doing[o].sub
<1>1. Runs(o, stmt) /\ DeleteRows(s)
  BY DEF DeleteSubscription
<1>2. deliveries' \in [Rows -> DeliveryRow]
  <2>1. NoDelivery \in DeliveryRow
    BY DEF NoDelivery, DeliveryRow
  <2>2. QED
    BY <1>1, <2>1 DEF DeleteRows, TypeOK, StoreTyped
<1>3. ready' \in Seq(Rows) /\ waiting' \in Seq(Rows)
  BY <1>1, DropTyped DEF DeleteRows
<1>4. live' \subseteq live /\ subs' \in [Sub -> SubRow]
  <2>1. NoSub \in SubRow
    BY DEF NoSub, SubRow
  <2>2. QED
    BY <2>1 DEF DeleteSubscription, TypeOK, StoreTyped
<1>5. QED
  BY <1>1, <1>2, <1>3, <1>4, RunsTyped
     DEF DeleteSubscription, TypeOK, StoreTyped, WorkerTyped, TasksTyped, HistTyped, worker

LEMMA OwnerTyped ==
    ASSUME TypeOK, NEW o \in Owner, OwnerStep(o)
    PROVE  TypeOK'
<1>1. ASSUME NEW s \in Sub, NEW p \in Patches, BeginPatch(o, s, p)
      PROVE  TypeOK'
  <2>1. p.filter \in Filters \cup {None}
    BY SubscriptionAssumption DEF Patch
  <2>2. QED
    BY <1>1, <2>1, StatementsTyped, BeginTyped DEF BeginPatch
<1>2. ASSUME NEW s \in Sub, BeginDelete(o, s)
      PROVE  TypeOK'
  <2>1. <<"delete rows", "delete">> \in Seq(Stmt)
    BY DEF Stmt
  <2>2. QED
    BY <1>2, <2>1, BeginTyped DEF BeginDelete
<1>3. CASE AbandonRequest(o)
  <2>1. Idle \in Request /\ Idle.stmts = <<>>
    BY DEF Idle, Request
  <2>2. QED
    BY <1>3, <2>1 DEF AbandonRequest, TypeOK, StoreTyped, WorkerTyped, TasksTyped, HistTyped,
                      store, worker, hist
<1>4. QED
  BY <1>1, <1>2, <1>3, UpdateTyped, RearmTyped, DeleteTyped DEF OwnerStep

(***************************************************************************)
(* The worker and the pull path.                                           *)
(***************************************************************************)
LEMMA CurrentTyped ==
    ASSUME TypeOK, wpc # "idle"
    PROVE  /\ Current \in Entry
           /\ Tail(batch) \in Seq(Entry)
BY TailKeeps DEF TypeOK, WorkerTyped, Current

LEMMA NextDeliveryTyped ==
    ASSUME TypeOK, wpc # "idle", NextDelivery, value' = value
    PROVE  WorkerTyped'
BY CurrentTyped DEF NextDelivery, TypeOK, WorkerTyped, WorkerPC

LEMMA GotoTyped ==
    ASSUME TypeOK, wpc # "idle", NEW there \in WorkerPC \ {"idle"}, WorkerGoto(there),
           value' \in Nat
    PROVE  WorkerTyped'
BY DEF WorkerGoto, TypeOK, WorkerTyped

LEMMA SubColumnTyped ==
    ASSUME TypeOK, NEW s \in Sub, NEW n \in Nat
    PROVE  /\ [subs EXCEPT ![s].failures = n] \in [Sub -> SubRow]
           /\ [subs EXCEPT ![s].cursor = n] \in [Sub -> SubRow]
           /\ [subs EXCEPT ![s].active = FALSE] \in [Sub -> SubRow]
<1>1. subs \in [Sub -> SubRow]
  BY DEF TypeOK, StoreTyped
<1>2. /\ [subs[s] EXCEPT !.failures = n] \in SubRow
      /\ [subs[s] EXCEPT !.cursor = n] \in SubRow
      /\ [subs[s] EXCEPT !.active = FALSE] \in SubRow
  BY <1>1 DEF SubRow
<1>3. QED
  BY <1>1, <1>2

(* A tick takes rows from ready, each with its subscription.                 *)
LEMMA DueAreReady ==
    ASSUME TypeOK
    PROVE  /\ DueDeliveries \in Seq(Rows)
           /\ ToSet(DueDeliveries) \subseteq ToSet(ready)
           /\ \A q \in ToSet(DueDeliveries) : Active(deliveries[q].sub)
           /\ IsInjective(ready) => IsInjective(DueDeliveries)
<1> DEFINE due == Only(ready, {q \in Rows : Active(deliveries[q].sub)})
           n == IF Len(due) < Batch THEN Len(due) ELSE Batch
<1>1. /\ due \in Seq(Rows)
      /\ ToSet(due) = ToSet(ready) \cap {q \in Rows : Active(deliveries[q].sub)}
      /\ IsInjective(ready) => IsInjective(due)
  BY OnlyKeeps DEF TypeOK, StoreTyped
<1>2. n \in 0..Len(due) /\ 1 \in 1..(Len(due) + 1)
  BY <1>1, LimitAssumption
<1>3. DueDeliveries = SubSeq(due, 1, n)
  BY DEF DueDeliveries
<1> HIDE DEF n
<1>4. /\ SubSeq(due, 1, n) \in Seq(Rows)
      /\ ToSet(SubSeq(due, 1, n)) = {due[i] : i \in 1..n}
      /\ IsInjective(due) => IsInjective(SubSeq(due, 1, n))
  <2> HIDE DEF due
  <2>1. QED
    BY <1>1, <1>2, SubSeqKeeps
<1> HIDE DEF due
<1>5. {due[i] : i \in 1..n} \subseteq ToSet(due)
  BY <1>1, <1>2 DEF ToSet
<1>6. QED
  BY <1>1, <1>3, <1>4, <1>5

LEMMA FetchTyped ==
    ASSUME TypeOK, FetchDue
    PROVE  TypeOK'
<1>1. /\ DueDeliveries \in Seq(Rows) /\ DueDeliveries # <<>>
      /\ \A i \in DOMAIN DueDeliveries : Active(deliveries[DueDeliveries[i]].sub)
  BY DueAreReady DEF FetchDue, ToSet
<1> DEFINE due == DueDeliveries
           entry(i) == [seq |-> due[i], sub |-> deliveries[due[i]].sub,
                        attempts |-> deliveries[due[i]].attempts,
                        signed |-> subs[deliveries[due[i]].sub].secret]
<1>2. batch' = [i \in DOMAIN due |-> entry(i)]
  BY DEF FetchDue
<1>3. ASSUME NEW i \in DOMAIN due
      PROVE  entry(i) \in Entry
  <2>1. due[i] \in Rows /\ deliveries[due[i]] \in DeliveryRow
    BY <1>1 DEF TypeOK, StoreTyped
  <2>2. deliveries[due[i]].sub \in Sub
    BY <1>1 DEF Active, TypeOK, StoreTyped
  <2>3. subs[deliveries[due[i]].sub] \in SubRow
    BY <2>2 DEF TypeOK, StoreTyped
  <2>4. QED
    BY <2>1, <2>2, <2>3 DEF Entry, DeliveryRow, SubRow
<1>4. Len(due) \in Nat \ {0} /\ DOMAIN due = 1..Len(due)
  BY <1>1, EmptySeq, LenProperties
<1> HIDE DEF due
<1>5. batch' \in Seq(Entry) /\ batch' # <<>>
  <2> DEFINE b == [i \in 1..Len(due) |-> entry(i)]
  <2> HIDE DEF entry
  <2>1. b \in [1..Len(due) -> Entry]
    BY <1>3, <1>4
  <2> HIDE DEF b
  <2>2. b \in Seq(Entry) /\ b # <<>>
    BY <1>4, <2>1
  <2>3. QED
    BY <1>2, <1>4, <2>2 DEF b
<1>6. WorkerTyped'
  BY <1>5 DEF FetchDue, TypeOK, WorkerTyped, WorkerPC
<1>7. QED
  BY <1>6 DEF FetchDue, TypeOK, StoreTyped, TasksTyped, HistTyped, store, tasks, hist

LEMMA WorkerStepTyped ==
    ASSUME TypeOK, WorkerStep
    PROVE  TypeOK'
<1>1. CASE PostWebhook
  <2>1. Current.seq \in Rows
    BY <1>1, CurrentTyped DEF PostWebhook, Entry
  <2>2. tries' \in [Rows -> Nat]
    BY <1>1, <2>1 DEF PostWebhook, TypeOK, HistTyped
  <2>3. WorkerTyped'
    BY <1>1, GotoTyped DEF PostWebhook, WorkerPC, TypeOK, WorkerTyped
  <2>4. QED
    BY <1>1, <2>2, <2>3 DEF PostWebhook, TypeOK, StoreTyped, TasksTyped, HistTyped, store,
                            tasks
<1>2. CASE MarkDelivered
  <2>1. Current \in Entry
    BY <1>2, CurrentTyped DEF MarkDelivered
  <2>2. deliveries' \in [Rows -> DeliveryRow] /\ ready' \in Seq(Rows) /\ waiting' \in Seq(Rows)
    <3>1. CASE Present(Current.seq)
      <4>1. Drop({Current.seq})
        BY <1>2, <3>1 DEF MarkDelivered
      <4>2. Current.seq \in Rows /\ Current.attempts + 1 \in Nat
        BY <2>1 DEF Entry
      <4>3. [deliveries[Current.seq] EXCEPT !.status = "delivered",
                                            !.attempts = Current.attempts + 1] \in DeliveryRow
        BY <4>2 DEF TypeOK, StoreTyped, DeliveryRow
      <4>4. deliveries' \in [Rows -> DeliveryRow]
        BY <1>2, <3>1, <4>2, <4>3 DEF MarkDelivered, TypeOK, StoreTyped
      <4>5. QED
        BY <4>1, <4>4, DropTyped
    <3>2. CASE ~Present(Current.seq)
      BY <1>2, <3>2 DEF MarkDelivered, TypeOK, StoreTyped
    <3>3. QED
      BY <3>1, <3>2
  <2>3. WorkerTyped'
    BY <1>2, GotoTyped DEF MarkDelivered, WorkerPC, TypeOK, WorkerTyped
  <2>4. QED
    BY <1>2, <2>2, <2>3 DEF MarkDelivered, TypeOK, StoreTyped, TasksTyped, HistTyped, tasks,
                            hist
<1>3. CASE ResetFailures
  <2>1. Current \in Entry
    BY <1>3, CurrentTyped DEF ResetFailures
  <2>2. subs' \in [Sub -> SubRow]
    BY <1>3, <2>1, SubColumnTyped DEF ResetFailures, SetFailures, Entry, TypeOK, StoreTyped
  <2>3. WorkerTyped'
    BY <1>3, NextDeliveryTyped DEF ResetFailures
  <2>4. QED
    BY <1>3, <2>2, <2>3 DEF ResetFailures, TypeOK, StoreTyped, TasksTyped, HistTyped, tasks,
                            hist
<1>4. CASE ReadAttempts
  <2>1. Current.seq \in Rows
    BY <1>4, CurrentTyped DEF ReadAttempts, Entry
  <2>2. value' \in Nat
    BY <1>4, <2>1 DEF ReadAttempts, TypeOK, StoreTyped, DeliveryRow
  <2>3. WorkerTyped'
    BY <1>4, <2>2, GotoTyped DEF ReadAttempts, WorkerPC
  <2>4. QED
    BY <1>4, <2>3 DEF ReadAttempts, TypeOK, StoreTyped, TasksTyped, HistTyped, store, tasks,
                      hist
<1>5. CASE MarkFailed
  <2> DEFINE q == Current.seq
             rest == Only(waiting, Rows \ {q})
  <2>1. q \in Rows
    BY <1>5, CurrentTyped DEF MarkFailed, Entry
  <2>2. rest \in Seq(Rows) /\ Only(ready, Rows \ {q}) \in Seq(Rows)
    BY OnlyKeeps DEF TypeOK, StoreTyped
  <2>3. CASE Present(q)
    <3>1. PICK status \in {"dead", "failed"} :
            deliveries' = [deliveries EXCEPT ![q].status = status, ![q].attempts = value]
      BY <1>5, <2>3 DEF MarkFailed
    <3>2. [deliveries[q] EXCEPT !.status = status, !.attempts = value] \in DeliveryRow
      BY <2>1 DEF TypeOK, StoreTyped, WorkerTyped, DeliveryRow
    <3>3. deliveries' \in [Rows -> DeliveryRow]
      BY <2>1, <3>1, <3>2 DEF TypeOK, StoreTyped
    <3>4. waiting' \in Seq(Rows)
      <4>1. CASE waiting' = rest
        BY <2>2, <4>1
      <4>2. ASSUME NEW i \in 1..Len(rest) + 1, waiting' = InsertAt(rest, i, q)
            PROVE  waiting' \in Seq(Rows)
        <5> HIDE DEF rest, q
        <5>1. Len(rest) \in Nat /\ i - 1 \in 0..Len(rest) /\ i \in 1..(Len(rest) + 1)
          BY <2>2, <4>2
        <5>2. SubSeq(rest, 1, i - 1) \in Seq(Rows) /\ SubSeq(rest, i, Len(rest)) \in Seq(Rows)
          BY <2>2, <5>1
        <5>3. <<q>> \in Seq(Rows)
          BY <2>1
        <5>4. QED
          BY <4>2, <5>2, <5>3, ConcatProperties DEF InsertAt
      <4>3. QED
        BY <1>5, <2>3, <4>1, <4>2 DEF MarkFailed
    <3>5. ready' \in Seq(Rows)
      BY <1>5, <2>2, <2>3 DEF MarkFailed
    <3>6. QED
      BY <3>3, <3>4, <3>5, <1>5, GotoTyped
         DEF MarkFailed, WorkerPC, TypeOK, StoreTyped, WorkerTyped, TasksTyped, HistTyped,
             tasks, hist
  <2>4. CASE ~Present(q)
    BY <1>5, <2>4, GotoTyped
       DEF MarkFailed, WorkerPC, TypeOK, StoreTyped, WorkerTyped, TasksTyped, HistTyped,
           tasks, hist
  <2>5. QED
    BY <2>3, <2>4
<1>6. CASE CountFailure
  <2>1. Current \in Entry
    BY <1>6, CurrentTyped DEF CountFailure
  <2>2. Current.sub \in Sub /\ subs[Current.sub].failures + 1 \in Nat
    BY <2>1 DEF Entry, TypeOK, StoreTyped, SubRow
  <2>3. subs' \in [Sub -> SubRow]
    BY <1>6, <2>2, SubColumnTyped DEF CountFailure, SetFailures, TypeOK, StoreTyped
  <2>4. WorkerTyped'
    BY <1>6, GotoTyped DEF CountFailure, WorkerPC, TypeOK, WorkerTyped
  <2>5. QED
    BY <1>6, <2>3, <2>4 DEF CountFailure, TypeOK, StoreTyped, TasksTyped, HistTyped, tasks,
                            hist
<1>7. CASE CheckFailures
  <2>1. WorkerTyped'
    BY <1>7, GotoTyped, NextDeliveryTyped DEF CheckFailures, WorkerPC, TypeOK, WorkerTyped
  <2>2. QED
    BY <1>7, <2>1 DEF CheckFailures, TypeOK, StoreTyped, TasksTyped, HistTyped, store, tasks,
                      hist
<1>8. CASE Suspend
  <2>1. Current \in Entry
    BY <1>8, CurrentTyped DEF Suspend
  <2>2. subs' \in [Sub -> SubRow]
    BY <1>8, <2>1, SubColumnTyped DEF Suspend, Entry, TypeOK, StoreTyped
  <2>3. WorkerTyped'
    BY <1>8, NextDeliveryTyped DEF Suspend
  <2>4. QED
    BY <1>8, <2>2, <2>3 DEF Suspend, TypeOK, StoreTyped, TasksTyped, HistTyped, tasks, hist
<1>9. QED
  BY <1>1, <1>2, <1>3, <1>4, <1>5, <1>6, <1>7, <1>8, FetchTyped DEF WorkerStep

LEMMA LargerTyped ==
    ASSUME NEW a \in Nat, NEW b \in Nat
    PROVE  /\ Larger(a, b) \in Nat /\ Larger(a, b) >= a /\ Larger(a, b) >= b
           /\ Larger(a, b) \in {a, b}
BY DEF Larger

(* What a page and its end are made of.                                      *)
LEMMA PageTyped ==
    ASSUME NEW s, NEW c \in Nat
    PROVE  /\ Page(s, c) \in SUBSET Rows
           /\ LastOf(Page(s, c), c) \in Page(s, c) \cup {c}
           /\ LastOf(Page(s, c), c) \in Nat
           /\ \A q \in Page(s, c) : q <= LastOf(Page(s, c), c)
           /\ Latest(s) \in Nat
           /\ Latest(s) \in RowsOf(s) \cup {0}
           /\ \A q \in RowsOf(s) : q <= Latest(s)
<1>1. Page(s, c) \in SUBSET Rows /\ RowsOf(s) \in SUBSET Rows
  BY DEF Page, After, RowsOf
<1>2. /\ LastOf(Page(s, c), c) \in Page(s, c) \cup {c}
      /\ \A q \in Page(s, c) : q <= LastOf(Page(s, c), c)
  BY <1>1, RowsFinite, LastOfIsLast
<1>3. Latest(s) \in RowsOf(s) \cup {0} /\ \A q \in RowsOf(s) : q <= Latest(s)
  BY <1>1, RowsFinite, LastOfIsLast DEF Latest
<1>4. Rows \subseteq Nat
  BY RowsFinite
<1>5. LastOf(Page(s, c), c) \in Nat
  BY <1>1, <1>2, <1>4
<1>6. Latest(s) \in Nat
  <2>1. RowsOf(s) \subseteq Nat
    BY <1>1, <1>4
  <2>2. Latest(s) \in RowsOf(s) \/ Latest(s) = 0
    BY <1>3
  <2>3. QED
    BY <2>1, <2>2
<1>7. QED
  BY <1>1, <1>2, <1>3, <1>5, <1>6

LEMMA AcknowledgeTyped ==
    ASSUME TypeOK, NEW s \in Sub, NEW c \in Nat, Acknowledge(s, c)
    PROVE  subs' \in [Sub -> SubRow]
<1>1. subs[s].cursor \in Nat
  BY DEF TypeOK, StoreTyped, SubRow
<1>2. Larger(subs[s].cursor, c) \in Nat
  BY <1>1, LargerTyped
<1>3. QED
  BY <1>2, SubColumnTyped DEF Acknowledge, TypeOK, StoreTyped

LEMMA PullerTyped ==
    ASSUME TypeOK, NEW u \in Puller, PullerStep(u)
    PROVE  TypeOK'
<1>1. ASSUME NEW s \in Sub, BeginPull(u, s)
      PROVE  TypeOK'
  <2>1. ASSUME NEW c \in Nat
        PROVE  [NoPull EXCEPT !.pc = "page", !.sub = s, !.from = c] \in Pull
    BY DEF NoPull, Pull
  <2>2. subs[s].cursor \in Nat /\ Cursors \subseteq Nat /\ asked[s] \in Nat
    BY SubscriptionAssumption DEF TypeOK, StoreTyped, HistTyped, SubRow
  <2>3. /\ asked' \in [Sub -> Nat]
        /\ pulling' \in [Puller -> Pull]
        /\ pulling'[u].sub = s
        /\ \A v \in Puller \ {u} : pulling'[v] = pulling[v]
    <3>1. CASE /\ pulling' = [pulling EXCEPT ![u] =
                     [NoPull EXCEPT !.pc = "page", !.sub = s, !.from = subs[s].cursor]]
               /\ UNCHANGED asked
      BY <2>1, <2>2, <3>1 DEF TypeOK, TasksTyped, HistTyped, NoPull
    <3>2. ASSUME NEW c \in Cursors,
                 pulling' = [pulling EXCEPT ![u] =
                     [NoPull EXCEPT !.pc = "page", !.sub = s, !.from = c]],
                 asked' = [asked EXCEPT ![s] = Larger(@, c)]
          PROVE  /\ asked' \in [Sub -> Nat]
                 /\ pulling' \in [Puller -> Pull]
                 /\ pulling'[u].sub = s
                 /\ \A v \in Puller \ {u} : pulling'[v] = pulling[v]
      <4>1. Larger(asked[s], c) \in Nat
        BY <2>2, LargerTyped
      <4>2. QED
        BY <2>1, <2>2, <3>2, <4>1 DEF TypeOK, TasksTyped, HistTyped, NoPull
    <3>3. QED
      BY <1>1, <3>1, <3>2 DEF BeginPull
  <2>4. QED
    BY <1>1, <2>3 DEF BeginPull, TypeOK, StoreTyped, WorkerTyped, TasksTyped, HistTyped, store,
                      worker
<1>2. CASE ReadPage(u)
  <2>1. LastOf(Page(pulling[u].sub, pulling[u].from), pulling[u].from) \in Nat
    BY PageTyped DEF TypeOK, TasksTyped, Pull
  <2>2. pulling' \in [Puller -> Pull]
    BY <1>2, <2>1 DEF ReadPage, TypeOK, TasksTyped, Pull
  <2>3. \A v \in Puller : pulling'[v].pc # "idle" => pulling'[v].sub \in Sub
    BY <1>2, <2>1 DEF ReadPage, TypeOK, TasksTyped, Pull
  <2>4. QED
    BY <1>2, <2>2, <2>3 DEF ReadPage, TypeOK, StoreTyped, WorkerTyped, TasksTyped, HistTyped,
                            store, worker
<1>3. CASE ReadLatest(u)
  <2> DEFINE latest == Latest(pulling[u].sub)
             upto == pulling[u].upto
             more == IF latest > upto THEN latest - upto ELSE 0
             left == Cardinality(After(pulling[u].sub, upto))
  <2>1. upto \in Nat /\ latest \in Nat
    BY PageTyped DEF TypeOK, TasksTyped, Pull
  <2>2. left \in Nat
    <3>1. After(pulling[u].sub, upto) \in SUBSET Rows
      BY DEF After, RowsOf
    <3>2. QED
      BY <3>1, RowsFinite, FS_CardinalityType
  <2>3. pulling' = [pulling EXCEPT ![u].pc = "ack", ![u].remaining = more, ![u].left = left]
    BY <1>3 DEF ReadLatest
  <2>4. more \in Nat
    BY <2>1
  <2> HIDE DEF more, left, upto, latest
  <2>5. pulling' \in [Puller -> Pull]
    <3>1. [pulling[u] EXCEPT !.pc = "ack", !.remaining = more, !.left = left] \in Pull
      BY <2>2, <2>4 DEF TypeOK, TasksTyped, Pull
    <3>2. QED
      BY <2>3, <3>1 DEF TypeOK, TasksTyped
  <2>6. \A v \in Puller : pulling'[v].pc # "idle" => pulling'[v].sub \in Sub
    BY <1>3, <2>2, <2>3, <2>4 DEF ReadLatest, TypeOK, TasksTyped, Pull
  <2>7. QED
    BY <1>3, <2>5, <2>6 DEF ReadLatest, TypeOK, StoreTyped, WorkerTyped, TasksTyped, HistTyped,
                            store, worker, hist
<1>4. CASE AnswerPull(u)
  <2>1. pulling[u].sub \in Sub /\ pulling[u].upto \in Nat
    BY <1>4 DEF AnswerPull, TypeOK, TasksTyped, Pull
  <2>2. subs' \in [Sub -> SubRow]
    BY <1>4, <2>1, AcknowledgeTyped DEF AnswerPull, TypeOK, StoreTyped
  <2>3. /\ pulling' \in [Puller -> Pull]
        /\ \A v \in Puller : pulling'[v].pc # "idle" => pulling'[v].sub \in Sub
    BY <1>4 DEF AnswerPull, NoPull, TypeOK, TasksTyped, Pull
  <2>4. QED
    BY <1>4, <2>2, <2>3 DEF AnswerPull, TypeOK, StoreTyped, WorkerTyped, TasksTyped, HistTyped,
                            worker, hist
<1>5. QED
  BY <1>1, <1>2, <1>3, <1>4 DEF PullerStep

LEMMA AckTyped ==
    ASSUME TypeOK, NEW s \in Sub, NEW c \in Cursors, Ack(s, c)
    PROVE  TypeOK'
<1>1. c \in Nat /\ asked[s] \in Nat
  BY SubscriptionAssumption DEF TypeOK, HistTyped
<1>2. subs' \in [Sub -> SubRow]
  BY <1>1, AcknowledgeTyped DEF Ack
<1>3. asked' \in [Sub -> Nat]
  BY <1>1, LargerTyped DEF Ack, TypeOK, HistTyped
<1>4. QED
  BY <1>2, <1>3 DEF Ack, TypeOK, StoreTyped, WorkerTyped, TasksTyped, HistTyped, worker, tasks

LEMMA BackoffTyped ==
    ASSUME TypeOK, BackoffElapses
    PROVE  TypeOK'
<1>1. Head(waiting) \in Rows /\ Tail(waiting) \in Seq(Rows)
  BY TailKeeps DEF BackoffElapses, TypeOK, StoreTyped
<1>2. Append(ready, Head(waiting)) \in Seq(Rows)
  BY <1>1, AppendKeeps DEF TypeOK, StoreTyped
<1>3. QED
  BY <1>1, <1>2 DEF BackoffElapses, TypeOK, StoreTyped, WorkerTyped, TasksTyped, HistTyped,
                    worker, tasks, hist

LEMMA ErrorTyped ==
    ASSUME TypeOK, WorkerError
    PROVE  TypeOK'
<1>1. WorkerTyped'
  BY NextDeliveryTyped DEF WorkerError
<1>2. QED
  BY <1>1 DEF WorkerError, TypeOK, StoreTyped, TasksTyped, HistTyped, store, tasks, hist

LEMMA CrashTyped ==
    ASSUME TypeOK, Crash
    PROVE  TypeOK'
<1>1. Idle \in Request /\ Idle.stmts = <<>> /\ NoPull \in Pull /\ NoPull.pc = "idle"
  BY DEF Idle, Request, NoPull, Pull
<1>2. WorkerTyped'
  BY DEF Crash, WorkerTyped, WorkerPC
<1>3. TasksTyped'
  BY <1>1 DEF Crash, TasksTyped
<1>4. QED
  BY <1>2, <1>3 DEF Crash, TypeOK, StoreTyped, HistTyped, store

LEMMA TypeStep == TypeOK /\ [Next]_vars => TypeOK'
<1> SUFFICES ASSUME TypeOK, [Next]_vars
             PROVE  TypeOK'
  OBVIOUS
<1>1. CASE UNCHANGED vars
  BY <1>1 DEF vars, store, worker, tasks, hist, TypeOK, StoreTyped, WorkerTyped, TasksTyped,
              HistTyped
<1>2. CASE Next
  BY <1>2, CreatorTyped, NotifierTyped, OwnerTyped, PullerTyped, AckTyped, BackoffTyped,
     WorkerStepTyped, ErrorTyped, CrashTyped DEF Next
<1>3. QED
  BY <1>1, <1>2

(* Every table, every queue and every task of the process keeps its shape.   *)
THEOREM TypeCorrect == Spec => []TypeOK
BY TypeInit, TypeStep, PTL DEF Spec

(***************************************************************************)
(* The invariants.                                                         *)
(***************************************************************************)
Holds(q, s, e) == Present(q) /\ deliveries[q].sub = s /\ deliveries[q].event = e
Unsettled(q) == deliveries[q].status \in {"pending", "failed"}

(* A row was written under a number that was drawn, belongs to a live        *)
(* subscription, and is the only one for its match.                          *)
RowsInv ==
    /\ \A q \in Rows : Present(q) =>
         q <= lastSeq /\ deliveries[q].sub \in live /\ deliveries[q].event \in Event
    /\ \A p, q \in Rows :
         Present(p) /\ Holds(q, deliveries[p].sub, deliveries[p].event) => p = q

(* A row that has not been written has not been POSTed.                      *)
FreshInv == \A q \in Rows : q > lastSeq => tries[q] = 0 /\ q \notin received

(* A match is somewhere on its way, or there is a reason why it is not.       *)
MatchInv ==
    /\ matched \subseteq used \X Event
    /\ \A m \in matched :
         \/ m[1] \notin live
         \/ m \in lost
         \/ \E n \in Notifier : m \in todo[n]
         \/ \E q \in Rows : Holds(q, m[1], m[2])
    /\ \A n \in Notifier : n \notin told => todo[n] = {}

(* The unsettled rows are the ones in the queues, each in one place.          *)
QueueInv ==
    /\ IsInjective(ready) /\ IsInjective(waiting)
    /\ ToSet(ready) \cap ToSet(waiting) = {}
    /\ ToSet(ready) \cup ToSet(waiting) = {q \in Rows : Unsettled(q)}

(* The worker still has to settle its row.                                   *)
AtHand == {"post", "delivered", "failed", "mark"}

(* What the worker took with the batch stays true of the rows that are still *)
(* there, and it is the only one to settle a row.                            *)
BatchInv ==
    /\ \A i, j \in DOMAIN batch : batch[i].seq = batch[j].seq => i = j
    /\ \A i \in DOMAIN batch :
         /\ batch[i].seq <= lastSeq
         /\ Present(batch[i].seq) => deliveries[batch[i].seq].sub = batch[i].sub
         /\ Present(batch[i].seq) /\ (i > 1 \/ wpc \in AtHand) => Unsettled(batch[i].seq)
    /\ wpc = "delivered" => Current.seq \in received

(* No row claims more attempts than it was POSTed, but for those a resume    *)
(* overtook.                                                                 *)
AttemptsInv ==
    /\ \A q \in Rows : deliveries[q].sub \in raced \/
         /\ deliveries[q].status \in {"pending", "failed", "dead"}
              => tries[q] >= deliveries[q].attempts
         /\ deliveries[q].status = "dead" => deliveries[q].attempts >= MaxAttempts
    /\ wpc = "failed" /\ Present(Current.seq) /\ Current.sub \notin raced
         => tries[Current.seq] >= deliveries[Current.seq].attempts + 1
    /\ wpc = "mark" /\ Present(Current.seq) /\ Current.sub \notin raced
         => tries[Current.seq] >= value

(* A quota check that passed holds a place.                                  *)
Holders(i) == {c \in Creator : creating[c] = i}
QuotaInv ==
    /\ IsFiniteSet(live)
    /\ Creator # {} => \A i \in Instance :
         Cardinality(OfInstance(i)) + Cardinality(Holders(i))
             <= MaxPerInstance + Cardinality(Creator) - 1

(* The rows of s up to c were shown or named, and so will be the next one.    *)
Shown(s, c) ==
    /\ c <= lastSeq \/ c <= asked[s]
    /\ \A q \in RowsOf(s) : q <= c => q \in pulled \/ q <= asked[s]
CursorInv ==
    /\ \A s \in live : Shown(s, subs[s].cursor)
    /\ \A u \in Puller :
         /\ pulling[u].pc # "idle" => Shown(pulling[u].sub, pulling[u].from)
         /\ pulling[u].pc \in {"latest", "ack"} => Shown(pulling[u].sub, pulling[u].upto)

(***************************************************************************)
(* Rows and matches.                                                       *)
(***************************************************************************)
(* Most statements write at most the status and the attempts of rows.        *)
KeysKept ==
    /\ UNCHANGED <<live, used, lastSeq, told, matched, lost, todo>>
    /\ \A q \in Rows :
         /\ deliveries'[q].sub = deliveries[q].sub
         /\ deliveries'[q].event = deliveries[q].event
         /\ deliveries'[q].status = "none" <=> deliveries[q].status = "none"

LEMMA WorkerKeepsKeys ==
    ASSUME TypeOK, WorkerStep \/ WorkerError
    PROVE  KeysKept
<1> USE DEF KeysKept
<1>1. CASE MarkDelivered
  <2>1. Current.seq \in Rows
    BY <1>1, CurrentTyped DEF MarkDelivered, Entry
  <2>2. CASE Present(Current.seq)
    <3>1. deliveries' = [deliveries EXCEPT ![Current.seq].status = "delivered",
                                           ![Current.seq].attempts = Current.attempts + 1]
      BY <1>1, <2>2 DEF MarkDelivered
    <3>2. QED
      BY <1>1, <2>1, <2>2, <3>1 DEF MarkDelivered, Present, TypeOK, StoreTyped, DeliveryRow,
                                    tasks, hist
  <2>3. CASE ~Present(Current.seq)
    BY <1>1, <2>3 DEF MarkDelivered, tasks, hist
  <2>4. QED
    BY <2>2, <2>3
<1>2. CASE MarkFailed
  <2>1. Current.seq \in Rows
    BY <1>2, CurrentTyped DEF MarkFailed, Entry
  <2>2. CASE Present(Current.seq)
    <3>1. PICK status \in {"dead", "failed"} :
            deliveries' = [deliveries EXCEPT ![Current.seq].status = status,
                                             ![Current.seq].attempts = value]
      BY <1>2, <2>2 DEF MarkFailed
    <3>2. QED
      BY <1>2, <2>1, <2>2, <3>1 DEF MarkFailed, Present, TypeOK, StoreTyped, DeliveryRow,
                                    tasks, hist
  <2>3. CASE ~Present(Current.seq)
    BY <1>2, <2>3 DEF MarkFailed, tasks, hist
  <2>4. QED
    BY <2>2, <2>3
<1>3. CASE FetchDue \/ ReadAttempts \/ CheckFailures \/ WorkerError
  BY <1>3 DEF FetchDue, ReadAttempts, CheckFailures, WorkerError, store, tasks, hist
<1>4. CASE PostWebhook
  BY <1>4 DEF PostWebhook, store, tasks
<1>5. CASE ResetFailures \/ CountFailure \/ Suspend
  BY <1>5 DEF ResetFailures, CountFailure, Suspend, tasks, hist
<1>6. QED
  BY <1>1, <1>2, <1>3, <1>4, <1>5 DEF WorkerStep

LEMMA PullerKeepsKeys ==
    ASSUME TypeOK, (\E u \in Puller : PullerStep(u)) \/ (\E s \in Sub, c \in Cursors : Ack(s, c))
                   \/ BackoffElapses
    PROVE  KeysKept
BY DEF KeysKept, PullerStep, BeginPull, ReadPage, ReadLatest, AnswerPull, Ack, BackoffElapses,
       store, tasks, hist

LEMMA OwnerKeepsKeys ==
    ASSUME TypeOK, NEW o \in Owner, OwnerStep(o),
           ~ \E stmt \in {"delete rows", "delete"} : DeleteSubscription(o, stmt)
    PROVE  KeysKept
<1> USE DEF KeysKept
<1>1. CASE (\E s \in Sub, p \in Patches : BeginPatch(o, s, p)) \/ (\E s \in Sub : BeginDelete(o, s))
  BY <1>1 DEF BeginPatch, BeginDelete, Begin, store, hist
<1>2. CASE \E stmt \in Stmt \ {"rearm", "delete rows", "delete"} : UpdateSubscription(o, stmt)
  BY <1>2 DEF UpdateSubscription
<1>3. CASE RearmDeliveries(o)
  BY <1>3 DEF RearmDeliveries, Rearmable, TypeOK, StoreTyped, DeliveryRow
<1>4. CASE AbandonRequest(o)
  BY <1>4 DEF AbandonRequest, store, hist
<1>5. QED
  BY <1>1, <1>2, <1>3, <1>4 DEF OwnerStep

LEMMA KeysKeptRows ==
    ASSUME KeysKept, RowsInv
    PROVE  RowsInv'
BY DEF KeysKept, RowsInv, Holds, Present

LEMMA KeysKeptMatches ==
    ASSUME KeysKept, MatchInv
    PROVE  MatchInv'
<1>1. \A q \in Rows, m \in matched : Holds(q, m[1], m[2]) => Holds(q, m[1], m[2])'
  BY DEF KeysKept, Holds, Present
<1>2. QED
  BY <1>1 DEF KeysKept, MatchInv

LEMMA RowsInit == Init => RowsInv /\ MatchInv
BY DEF Init, RowsInv, MatchInv, Holds, Present, NoDelivery

(* The unique index: a second INSERT of a match is ignored.                  *)
LEMMA EnqueueRows ==
    ASSUME TypeOK, RowsInv, NEW n \in Notifier, NEW s \in Sub, NEW e \in Event, Enqueue(n, s, e)
    PROVE  RowsInv'
<1>1. CASE s \in live /\ ~Queued(s, e)
  <2> DEFINE r == lastSeq + 1
  <2>1. r \in Rows /\ lastSeq \in Nat
    BY <1>1, LimitAssumption DEF Enqueue, InsertDelivery, TypeOK, StoreTyped, Rows
  <2>2. /\ lastSeq' = r /\ live' = live
        /\ deliveries' = [deliveries EXCEPT ![r] =
                            [sub |-> s, event |-> e, status |-> "pending", attempts |-> 0]]
    BY <1>1 DEF Enqueue, InsertDelivery
  <2>3. \A q \in Rows : ~Holds(q, s, e)
    BY <1>1 DEF Queued, RowsOf, Holds
  <2>4. /\ deliveries'[r] = [sub |-> s, event |-> e, status |-> "pending", attempts |-> 0]
        /\ \A q \in Rows \ {r} : deliveries'[q] = deliveries[q]
    BY <2>1, <2>2 DEF TypeOK, StoreTyped
  <2>5. \A q \in Rows : q <= lastSeq => q <= r
    BY <2>1, RowsFinite
  <2>6. \A q \in Rows : Present(q)' =>
          q <= lastSeq' /\ deliveries'[q].sub \in live' /\ deliveries'[q].event \in Event
    BY <1>1, <2>1, <2>2, <2>4, <2>5 DEF RowsInv, Present
  <2>7. ASSUME NEW p \in Rows, NEW q \in Rows, Present(p)',
               Present(q)', deliveries'[q].sub = deliveries'[p].sub,
               deliveries'[q].event = deliveries'[p].event
        PROVE  p = q
    BY <2>3, <2>4, <2>7 DEF RowsInv, Holds, Present
  <2>8. QED
    BY <2>6, <2>7 DEF RowsInv, Holds
<1>2. CASE ~(s \in live /\ ~Queued(s, e))
  BY <1>2 DEF Enqueue, RowsInv, Holds, Present
<1>3. QED
  BY <1>1, <1>2

LEMMA EnqueueMatches ==
    ASSUME TypeOK, RowsInv, MatchInv,
           NEW n \in Notifier, NEW s \in Sub, NEW e \in Event, Enqueue(n, s, e)
    PROVE  MatchInv'
<1>1. /\ matched' = matched /\ used' = used /\ lost' = lost /\ live' = live
      /\ \A m \in matched : (\E k \in Notifier : m \in todo[k]) =>
            m = <<s, e>> \/ \E k \in Notifier : m \in todo'[k]
      /\ told' = told /\ \A k \in Notifier : todo'[k] \subseteq todo[k]
  BY DEF Enqueue, hist, TypeOK, TasksTyped
<1>2. CASE s \in live /\ ~Queued(s, e)
  <2>1. PICK r \in Rows : r = lastSeq + 1 /\ lastSeq \in Nat
    BY <1>2, LimitAssumption DEF Enqueue, InsertDelivery, TypeOK, StoreTyped, Rows
  <2>2. /\ deliveries'[r] = [sub |-> s, event |-> e, status |-> "pending", attempts |-> 0]
        /\ \A p \in Rows \ {r} : deliveries'[p] = deliveries[p]
    BY <1>2, <2>1 DEF Enqueue, InsertDelivery, TypeOK, StoreTyped
  <2>3. ~Present(r)
    BY <2>1 DEF RowsInv
  <2>4. Holds(r, s, e)'
    BY <2>2 DEF Holds, Present
  <2>5. \A q \in Rows, m \in matched : Holds(q, m[1], m[2]) => Holds(q, m[1], m[2])'
    BY <2>2, <2>3 DEF Holds, Present
  <2>6. \A m \in matched : m = <<s, e>> => \E q \in Rows : Holds(q, m[1], m[2])'
    BY <2>1, <2>4
  <2>7. QED
    BY <1>1, <2>5, <2>6 DEF MatchInv
<1>3. CASE ~(s \in live /\ ~Queued(s, e))
  <2>1. deliveries' = deliveries
    BY <1>3 DEF Enqueue
  <2>2. \A q \in Rows, m \in matched : Holds(q, m[1], m[2]) => Holds(q, m[1], m[2])'
    BY <2>1 DEF Holds, Present
  <2>3. \A m \in matched : m = <<s, e>> => m[1] \notin live \/ \E q \in Rows : Holds(q, m[1], m[2])
    BY <1>3 DEF Queued, RowsOf, Holds
  <2>4. QED
    BY <1>1, <2>2, <2>3 DEF MatchInv
<1>4. QED
  BY <1>2, <1>3

(* ON DELETE CASCADE: the rows go with their subscription, and are noted.    *)
LEMMA DeleteRowsAndMatches ==
    ASSUME TypeOK, RowsInv, MatchInv, NEW o \in Owner, NEW stmt, DeleteSubscription(o, stmt)
    PROVE  RowsInv' /\ MatchInv'
<1> DEFINE s == doing[o].sub
<1>1. /\ live' \subseteq live /\ lastSeq' = lastSeq /\ used' = used
      /\ matched' = matched /\ todo' = todo /\ told' = told
      /\ \A x \in live \ live' : x = s
      /\ lost' = lost \cup {<<s, deliveries[q].event>> : q \in RowsOf(s)}
  BY DEF DeleteSubscription, DeleteRows
<1>2. \A q \in Rows : IF q \in RowsOf(s) THEN deliveries'[q] = NoDelivery
                                         ELSE deliveries'[q] = deliveries[q]
  BY DEF DeleteSubscription, DeleteRows
<1> HIDE DEF s
<1>3. \A q \in Rows : Present(q)' => Present(q) /\ q \notin RowsOf(s) /\ deliveries'[q] = deliveries[q]
  BY <1>2 DEF Present, NoDelivery
<1>4. \A q \in Rows : Present(q)' => deliveries[q].sub # s
  BY <1>3 DEF RowsOf
<1>5. RowsInv'
  <2>1. \A q \in Rows : Present(q)' => q <= lastSeq' /\ deliveries'[q].sub \in live'
                                      /\ deliveries'[q].event \in Event
    BY <1>1, <1>3, <1>4 DEF RowsInv
  <2>2. ASSUME NEW p \in Rows, NEW q \in Rows, Present(p)', Present(q)',
               deliveries'[q].sub = deliveries'[p].sub,
               deliveries'[q].event = deliveries'[p].event
        PROVE  p = q
    BY <1>3, <2>2 DEF RowsInv, Holds
  <2>3. QED
    BY <2>1, <2>2 DEF RowsInv, Holds
<1>6. ASSUME NEW m \in matched, NEW q \in Rows, Holds(q, m[1], m[2])
      PROVE  m \in lost' \/ Holds(q, m[1], m[2])'
  <2>1. CASE q \in RowsOf(s)
    <3>1. m = <<s, deliveries[q].event>>
      BY <1>6, <2>1 DEF MatchInv, RowsOf, Holds
    <3>2. QED
      BY <1>1, <2>1, <3>1
  <2>2. CASE q \notin RowsOf(s)
    BY <1>2, <1>6, <2>2 DEF Holds, Present
  <2>3. QED
    BY <2>1, <2>2
<1>7. MatchInv'
  BY <1>1, <1>6 DEF MatchInv
<1>8. QED
  BY <1>5, <1>7

LEMMA RowsStep == TypeOK /\ RowsInv /\ MatchInv /\ [Next]_vars => RowsInv' /\ MatchInv'
<1> SUFFICES ASSUME TypeOK, RowsInv, MatchInv, [Next]_vars
             PROVE  RowsInv' /\ MatchInv'
  OBVIOUS
<1>1. CASE UNCHANGED vars
  BY <1>1 DEF vars, store, tasks, hist, RowsInv, MatchInv, Holds, Present
<1>2. ASSUME NEW c \in Creator, CreatorStep(c)
      PROVE  RowsInv' /\ MatchInv'
  <2>1. CASE \E i \in Instance : CountForInstance(c, i)
    BY <2>1 DEF CountForInstance, store, hist, RowsInv, MatchInv, Holds, Present
  <2>2. CASE CreateSubscription(c)
    <3>1. PICK s \in Sub \ used : live' = live \cup {s} /\ used' = used \cup {s}
      BY <2>2 DEF CreateSubscription
    <3>2. \A m \in matched : m[1] # s
      BY <3>1 DEF MatchInv
    <3>3. RowsInv'
      BY <2>2, <3>1 DEF CreateSubscription, RowsInv, Holds, Present
    <3>4. MatchInv'
      BY <2>2, <3>1, <3>2 DEF CreateSubscription, MatchInv, Holds, Present
    <3>5. QED
      BY <3>3, <3>4
  <2>3. QED
    BY <1>2, <2>1, <2>2 DEF CreatorStep
<1>3. ASSUME NEW n \in Notifier, NEW events \in SUBSET Event \ {{}}, NotifyAdvertised(n, events)
      PROVE  RowsInv' /\ MatchInv'
  <2>1. RowsInv'
    BY <1>3 DEF NotifyAdvertised, store, RowsInv, Holds, Present
  <2>2. PICK found \in SUBSET (live \X events) :
          todo' = [todo EXCEPT ![n] = found] /\ matched' = matched \cup found
    BY <1>3 DEF NotifyAdvertised
  <2>3. \A m : (\E k \in Notifier : m \in todo[k]) => \E k \in Notifier : m \in todo'[k]
    <3>1. todo[n] = {} /\ \A k \in Notifier \ {n} : todo'[k] = todo[k]
      BY <1>3, <2>2 DEF NotifyAdvertised, MatchInv, TypeOK, TasksTyped
    <3>2. QED
      BY <3>1
  <2>4. \A m \in found : \E k \in Notifier : m \in todo'[k]
    BY <2>2 DEF TypeOK, TasksTyped
  <2>5. matched' \subseteq used' \X Event
    BY <1>3, <2>2 DEF NotifyAdvertised, MatchInv, TypeOK, StoreTyped
  <2>6. \A k \in Notifier : k \notin told' => todo'[k] = {}
    BY <1>3, <2>2 DEF NotifyAdvertised, MatchInv, TypeOK, TasksTyped
  <2>7. MatchInv'
    BY <1>3, <2>2, <2>3, <2>4, <2>5, <2>6
       DEF NotifyAdvertised, store, MatchInv, Holds, Present
  <2>8. QED
    BY <2>1, <2>7
<1>4. ASSUME NEW n \in Notifier, LoseMatches(n)
      PROVE  RowsInv' /\ MatchInv'
  <2>1. PICK gone \in SUBSET todo[n] :
          todo' = [todo EXCEPT ![n] = @ \ gone] /\ lost' = lost \cup gone
    BY <1>4 DEF LoseMatches
  <2>2. \A m : (\E k \in Notifier : m \in todo[k]) =>
          m \in lost' \/ \E k \in Notifier : m \in todo'[k]
    BY <2>1 DEF TypeOK, TasksTyped
  <2>3. \A k \in Notifier : todo'[k] \subseteq todo[k]
    BY <2>1 DEF TypeOK, TasksTyped
  <2>4. RowsInv'
    BY <1>4 DEF LoseMatches, store, RowsInv, Holds, Present
  <2>5. MatchInv'
    BY <1>4, <2>1, <2>2, <2>3 DEF LoseMatches, store, MatchInv, Holds, Present
  <2>6. QED
    BY <2>4, <2>5
<1>5. CASE Crash
  <2>1. \A m : (\E k \in Notifier : m \in todo[k]) => m \in lost'
    BY <1>5 DEF Crash
  <2>2. QED
    BY <1>5, <2>1 DEF Crash, store, RowsInv, MatchInv, Holds, Present
<1>6. CASE KeysKept
  BY <1>6, KeysKeptRows, KeysKeptMatches
<1>7. QED
  BY <1>1, <1>2, <1>3, <1>4, <1>5, <1>6, EnqueueRows, EnqueueMatches, DeleteRowsAndMatches,
     WorkerKeepsKeys, PullerKeepsKeys, OwnerKeepsKeys DEF Next, NotifierStep, OwnerStep

LEMMA RowsAlways == Spec => [](RowsInv /\ MatchInv)
BY RowsInit, RowsStep, TypeCorrect, PTL DEF Spec

(* Two advertisements may insert the same match at once, and crash, fail and *)
(* be overtaken by a DELETE: for any number of them, each match of a live    *)
(* subscription ends up with one row unless one of those took it.            *)
THEOREM MatchesAlwaysQueuedOnce == Spec => []EveryMatchQueuedOnce
<1>1. RowsInv /\ MatchInv => EveryMatchQueuedOnce
  <2> SUFFICES ASSUME RowsInv, MatchInv, NEW m \in matched
               PROVE  LET rows == {q \in RowsOf(m[1]) : deliveries[q].event = m[2]}
                      IN /\ Cardinality(rows) <= 1
                         /\ rows = {} => \/ m[1] \notin live
                                         \/ m \in lost
                                         \/ \E n \in Notifier : m \in todo[n]
    BY DEF EveryMatchQueuedOnce
  <2> DEFINE rows == {q \in RowsOf(m[1]) : deliveries[q].event = m[2]}
  <2>1. \A q \in Rows : Holds(q, m[1], m[2]) <=> q \in rows
    BY DEF Holds, RowsOf
  <2>2. rows \subseteq Rows /\ \A p, q \in rows : p = q
    <3>1. rows \subseteq Rows
      BY DEF RowsOf
    <3>2. ASSUME NEW p \in rows, NEW q \in rows
          PROVE  p = q
      BY <2>1, <3>1, <3>2 DEF RowsInv, Holds
    <3>3. QED
      BY <3>1, <3>2
  <2> HIDE DEF rows
  <2>3. rows = {} \/ \E q \in rows : rows = {q}
    BY <2>2
  <2>4. Cardinality(rows) <= 1
    <3>1. CASE rows = {}
      <4>1. Cardinality(rows) = 0
        BY <3>1, FS_EmptySet
      <4>2. QED
        BY <4>1
    <3>2. ASSUME NEW q \in rows, rows = {q}
          PROVE  Cardinality(rows) <= 1
      <4>1. Cardinality({q}) = 1
        BY FS_Singleton
      <4>2. Cardinality(rows) = 1
        BY <3>2, <4>1
      <4>3. QED
        BY <4>2
    <3>3. QED
      BY <2>3, <3>1, <3>2
  <2>5. rows = {} => \/ m[1] \notin live
                     \/ m \in lost
                     \/ \E n \in Notifier : m \in todo[n]
    BY <2>1 DEF MatchInv
  <2>6. QED
    BY <2>4, <2>5 DEF rows
<1>2. QED
  BY <1>1, RowsAlways, PTL

(***************************************************************************)
(* The queues and the batch.                                               *)
(***************************************************************************)
QueueVars == <<deliveries, ready, waiting>>

LEMMA QueueInit == Init => QueueInv /\ BatchInv
<1> SUFFICES ASSUME Init PROVE QueueInv /\ BatchInv
  OBVIOUS
<1>1. ToSet(<<>>) = {} /\ IsInjective(<<>>)
  BY DEF ToSet, IsInjective
<1>2. {q \in Rows : Unsettled(q)} = {}
  BY DEF Init, Unsettled, NoDelivery
<1>3. QED
  BY <1>1, <1>2 DEF Init, QueueInv, BatchInv

LEMMA DropKeeps ==
    ASSUME TypeOK, QueueInv, NEW rows, Drop(rows)
    PROVE  /\ IsInjective(ready') /\ IsInjective(waiting')
           /\ ToSet(ready') \cap ToSet(waiting') = {}
           /\ ToSet(ready') \cup ToSet(waiting') = {q \in Rows \ rows : Unsettled(q)}
<1>1. /\ ToSet(ready') = ToSet(ready) \cap (Rows \ rows)
      /\ ToSet(waiting') = ToSet(waiting) \cap (Rows \ rows)
      /\ IsInjective(ready') /\ IsInjective(waiting')
  BY OnlyKeeps DEF Drop, TypeOK, StoreTyped, QueueInv
<1>2. QED
  BY <1>1 DEF QueueInv

LEMMA EnqueueQueue ==
    ASSUME TypeOK, RowsInv, QueueInv, NEW n \in Notifier, NEW s \in Sub, NEW e \in Event,
           Enqueue(n, s, e)
    PROVE  QueueInv'
<1>1. CASE InsertDelivery(s, e)
  <2>1. PICK r \in Rows : r = lastSeq + 1 /\ lastSeq \in Nat
    BY <1>1, LimitAssumption DEF InsertDelivery, TypeOK, StoreTyped, Rows
  <2>2. /\ deliveries' = [deliveries EXCEPT ![r] =
                            [sub |-> s, event |-> e, status |-> "pending", attempts |-> 0]]
        /\ ready' = Append(ready, r) /\ waiting' = waiting
    BY <1>1, <2>1 DEF InsertDelivery, Enqueue
  <2>3. ~Unsettled(r)
    BY <2>1 DEF RowsInv, Present, Unsettled
  <2>4. r \notin ToSet(ready) /\ r \notin ToSet(waiting)
    BY <2>3 DEF QueueInv
  <2>5. ToSet(ready') = ToSet(ready) \cup {r} /\ IsInjective(ready')
    BY <2>2, <2>4, AppendKeeps DEF QueueInv, TypeOK, StoreTyped
  <2>6. \A q \in Rows : Unsettled(q)' <=> Unsettled(q) \/ q = r
    BY <2>2 DEF Unsettled, TypeOK, StoreTyped
  <2>7. QED
    BY <2>2, <2>4, <2>5, <2>6 DEF QueueInv
<1>2. CASE UNCHANGED <<deliveries, lastSeq, ready>>
  BY <1>2 DEF Enqueue, QueueInv, Unsettled
<1>3. QED
  BY <1>1, <1>2 DEF Enqueue

LEMMA RearmQueue ==
    ASSUME TypeOK, QueueInv, NEW o \in Owner, RearmDeliveries(o)
    PROVE  QueueInv'
<1> DEFINE rows == Rearmable(doing[o].sub)
           rest == Only(ready, Rows \ rows)
           new == InOrder(rows)
<1>1. rows \in SUBSET Rows
  BY DEF Rearmable, RowsOf
<1>2. /\ waiting' = Only(waiting, Rows \ rows)
      /\ \E i \in 0..Len(rest) :
           ready' = SubSeq(rest, 1, i) \o new \o SubSeq(rest, i + 1, Len(rest))
      /\ \A q \in Rows : IF q \in rows THEN deliveries'[q].status = "pending"
                                       ELSE deliveries'[q] = deliveries[q]
  BY DEF RearmDeliveries, TypeOK, StoreTyped, DeliveryRow
<1>3. /\ rest \in Seq(Rows) /\ IsInjective(rest)
      /\ ToSet(rest) = ToSet(ready) \cap (Rows \ rows)
      /\ ToSet(waiting') = ToSet(waiting) \cap (Rows \ rows)
      /\ IsInjective(waiting')
  BY <1>2, OnlyKeeps DEF TypeOK, StoreTyped, QueueInv
<1>4. new \in Seq(Rows) /\ IsInjective(new) /\ ToSet(new) = rows
  <2>1. new \in Seq(rows) /\ IsInjective(new) /\ ToSet(new) = rows
    BY <1>1, RowsFinite, InOrderIsSequence
  <2>2. QED
    BY <1>1, <2>1, SeqMonotonic
<1> HIDE DEF rows, rest, new
<1>5. ToSet(rest) \cap ToSet(new) = {}
  BY <1>3, <1>4
<1>6. ToSet(ready') = ToSet(rest) \cup rows /\ IsInjective(ready')
  BY <1>2, <1>3, <1>4, <1>5, SpliceKeeps
<1>7. \A q \in Rows : Unsettled(q)' <=> Unsettled(q) \/ q \in rows
  BY <1>2 DEF Unsettled
<1>8. QED
  BY <1>1, <1>3, <1>6, <1>7 DEF QueueInv

LEMMA DeleteQueue ==
    ASSUME TypeOK, QueueInv, NEW o \in Owner, NEW stmt, DeleteSubscription(o, stmt)
    PROVE  QueueInv'
<1> DEFINE rows == RowsOf(doing[o].sub)
<1>1. Drop(rows) /\ \A q \in Rows : deliveries'[q] = IF q \in rows THEN NoDelivery ELSE deliveries[q]
  BY DEF DeleteSubscription, DeleteRows
<1> HIDE DEF rows
<1>2. \A q \in Rows : Unsettled(q)' <=> Unsettled(q) /\ q \notin rows
  BY <1>1 DEF Unsettled, NoDelivery
<1>3. QED
  BY <1>1, <1>2, DropKeeps DEF QueueInv

LEMMA MarkFailedQueue ==
    ASSUME TypeOK, QueueInv, BatchInv, MarkFailed
    PROVE  QueueInv'
<1>1. CASE Present(Current.seq)
  <2>1. PICK q \in Rows : q = Current.seq
    BY CurrentTyped DEF MarkFailed, Entry
  <2> DEFINE rest == Only(waiting, Rows \ {q})
  <2>2. Unsettled(q)
    BY <1>1, <2>1, TailKeeps DEF MarkFailed, BatchInv, AtHand, Current, TypeOK, WorkerTyped
  <2>3. /\ ready' = Only(ready, Rows \ {q})
        /\ \/ Exhausted /\ waiting' = rest
              /\ deliveries' = [deliveries EXCEPT ![q].status = "dead", ![q].attempts = value]
           \/ (\E i \in 1..Len(rest) + 1 : waiting' = InsertAt(rest, i, q))
              /\ deliveries' = [deliveries EXCEPT ![q].status = "failed", ![q].attempts = value]
    BY <1>1, <2>1 DEF MarkFailed
  <2>4. /\ rest \in Seq(Rows) /\ IsInjective(rest)
        /\ ToSet(rest) = ToSet(waiting) \cap (Rows \ {q})
        /\ ToSet(ready') = ToSet(ready) \cap (Rows \ {q})
        /\ IsInjective(ready')
    BY <2>3, OnlyKeeps DEF TypeOK, StoreTyped, QueueInv
  <2> HIDE DEF rest
  <2>5. CASE /\ waiting' = rest
             /\ deliveries' = [deliveries EXCEPT ![q].status = "dead", ![q].attempts = value]
    <3>1. \A p \in Rows : Unsettled(p)' <=> Unsettled(p) /\ p # q
      BY <2>5 DEF Unsettled, TypeOK, StoreTyped, DeliveryRow
    <3>2. QED
      BY <2>4, <2>5, <3>1 DEF QueueInv
  <2>6. ASSUME NEW i \in 1..Len(rest) + 1, waiting' = InsertAt(rest, i, q),
               deliveries' = [deliveries EXCEPT ![q].status = "failed", ![q].attempts = value]
        PROVE  QueueInv'
    <3>1. \A p \in Rows : Unsettled(p)' <=> Unsettled(p)
      BY <2>2, <2>6 DEF Unsettled, TypeOK, StoreTyped, DeliveryRow
    <3>2. PICK k \in 0..Len(rest) : k = i - 1 /\ k + 1 = i
      BY <2>4, <2>6
    <3> DEFINE one == <<q>>
    <3>3. waiting' = SubSeq(rest, 1, k) \o one \o SubSeq(rest, k + 1, Len(rest))
      BY <2>6, <3>2 DEF InsertAt
    <3>4. one \in Seq(Rows) /\ IsInjective(one) /\ ToSet(one) = {q}
      BY DEF IsInjective, ToSet
    <3> HIDE DEF one
    <3>5. ToSet(rest) \cap ToSet(one) = {}
      BY <2>4, <3>4
    <3>6. ToSet(waiting') = ToSet(rest) \cup {q} /\ IsInjective(waiting')
      BY <2>4, <3>3, <3>4, <3>5, SpliceKeeps
    <3>7. QED
      BY <2>2, <2>4, <3>1, <3>6 DEF QueueInv
  <2>7. QED
    BY <2>3, <2>5, <2>6
<1>2. CASE ~Present(Current.seq)
  BY <1>2 DEF MarkFailed, QueueInv, Unsettled
<1>3. QED
  BY <1>1, <1>2

LEMMA QueueStep ==
    TypeOK /\ RowsInv /\ QueueInv /\ BatchInv /\ [Next]_vars => QueueInv'
<1> SUFFICES ASSUME TypeOK, RowsInv, QueueInv, BatchInv, [Next]_vars
             PROVE  QueueInv'
  OBVIOUS
<1>1. CASE UNCHANGED QueueVars
  BY <1>1 DEF QueueVars, QueueInv, Unsettled
<1>2. CASE UNCHANGED vars
  BY <1>1, <1>2 DEF vars, store, QueueVars
<1>3. ASSUME NEW c \in Creator, CreatorStep(c)
      PROVE  UNCHANGED QueueVars
  BY <1>3 DEF CreatorStep, CountForInstance, CreateSubscription, store, QueueVars
<1>4. ASSUME NEW n \in Notifier, NotifierStep(n)
      PROVE  QueueInv'
  BY <1>1, <1>4, EnqueueQueue DEF NotifierStep, NotifyAdvertised, LoseMatches, store, QueueVars
<1>5. ASSUME NEW o \in Owner, OwnerStep(o)
      PROVE  QueueInv'
  <2>1. CASE RearmDeliveries(o)
    BY <2>1, RearmQueue
  <2>2. ASSUME NEW stmt, DeleteSubscription(o, stmt)
        PROVE  QueueInv'
    BY <2>2, DeleteQueue
  <2>3. CASE UNCHANGED QueueVars
    BY <1>1, <2>3
  <2>4. QED
    BY <1>5, <2>1, <2>2, <2>3 DEF OwnerStep, BeginPatch, BeginDelete, Begin, UpdateSubscription,
                                  AbandonRequest, store, QueueVars
<1>6. ASSUME NEW u \in Puller, PullerStep(u)
      PROVE  UNCHANGED QueueVars
  BY <1>6 DEF PullerStep, BeginPull, ReadPage, ReadLatest, AnswerPull, store, QueueVars
<1>7. ASSUME NEW s \in Sub, NEW c \in Cursors, Ack(s, c)
      PROVE  UNCHANGED QueueVars
  BY <1>7 DEF Ack, store, QueueVars
<1>8. CASE BackoffElapses
  <2>1. /\ Head(waiting) \in Rows /\ Tail(waiting) \in Seq(Rows)
        /\ ToSet(waiting) = ToSet(waiting') \cup {Head(waiting)}
        /\ IsInjective(waiting') /\ Head(waiting) \notin ToSet(waiting')
    BY <1>8, TailKeeps DEF BackoffElapses, TypeOK, StoreTyped, QueueInv
  <2>2. Head(waiting) \notin ToSet(ready)
    BY <2>1 DEF QueueInv
  <2>3. ToSet(ready') = ToSet(ready) \cup {Head(waiting)} /\ IsInjective(ready')
    BY <1>8, <2>1, <2>2, AppendKeeps DEF BackoffElapses, TypeOK, StoreTyped, QueueInv
  <2>4. deliveries' = deliveries
    BY <1>8 DEF BackoffElapses
  <2>5. QED
    BY <2>1, <2>2, <2>3, <2>4 DEF QueueInv, Unsettled
<1>9. CASE MarkDelivered
  <2>1. CASE Present(Current.seq)
    <3>1. PICK q \in Rows : q = Current.seq
      BY <1>9, CurrentTyped DEF MarkDelivered, Entry
    <3>2. Drop({q}) /\ deliveries' = [deliveries EXCEPT ![q].status = "delivered",
                                                        ![q].attempts = Current.attempts + 1]
      BY <1>9, <2>1, <3>1 DEF MarkDelivered
    <3>3. \A p \in Rows : Unsettled(p)' <=> Unsettled(p) /\ p # q
      BY <3>2 DEF Unsettled, TypeOK, StoreTyped, DeliveryRow
    <3>4. QED
      BY <3>2, <3>3, DropKeeps DEF QueueInv
  <2>2. CASE ~Present(Current.seq)
    BY <1>1, <1>9, <2>2 DEF MarkDelivered, QueueVars
  <2>3. QED
    BY <2>1, <2>2
<1>10. CASE FetchDue \/ PostWebhook \/ ResetFailures \/ ReadAttempts \/ CountFailure
            \/ CheckFailures \/ Suspend \/ WorkerError \/ Crash
  BY <1>1, <1>10 DEF FetchDue, PostWebhook, ResetFailures, ReadAttempts, CountFailure,
                     CheckFailures, Suspend, WorkerError, Crash, store, QueueVars
<1>11. QED
  BY <1>1, <1>2, <1>3, <1>4, <1>5, <1>6, <1>7, <1>8, <1>9, <1>10, MarkFailedQueue
     DEF Next, WorkerStep

(* The other steps write no row's subscription and settle no row; they may   *)
(* delete rows, add rows and put dead ones back.                             *)
LEMMA BatchFramed ==
    ASSUME BatchInv, UNCHANGED worker, lastSeq <= lastSeq', lastSeq \in Nat, lastSeq' \in Nat,
           received \subseteq received',
           \A i \in DOMAIN batch : batch[i].seq \in Nat,
           \A i \in DOMAIN batch : Present(batch[i].seq)' =>
               /\ Present(batch[i].seq)
               /\ deliveries'[batch[i].seq].sub = deliveries[batch[i].seq].sub
               /\ Unsettled(batch[i].seq) => Unsettled(batch[i].seq)'
    PROVE  BatchInv'
<1>1. batch' = batch /\ wpc' = wpc /\ Current' = Current
  BY DEF worker, Current
<1>2. \A i \in DOMAIN batch : batch[i].seq <= lastSeq'
  BY DEF BatchInv
<1>3. \A i \in DOMAIN batch : (Present(batch[i].seq))' => deliveries'[batch[i].seq].sub = batch[i].sub
  BY <1>1 DEF BatchInv, Present
<1>4. QED
  BY <1>1, <1>2, <1>3 DEF BatchInv, Present, Unsettled

LEMMA BatchIndexed ==
    ASSUME TypeOK
    PROVE  /\ DOMAIN batch = 1..Len(batch) /\ Len(batch) \in Nat
           /\ \A i \in DOMAIN batch : batch[i] \in Entry /\ batch[i].seq \in Rows /\ batch[i].seq \in Nat
           /\ wpc # "idle" => 1 \in DOMAIN batch /\ Current = batch[1]
<1>1. batch \in Seq(Entry) /\ (wpc # "idle" => batch # <<>>)
  BY DEF TypeOK, WorkerTyped
<1>2. DOMAIN batch = 1..Len(batch) /\ Len(batch) \in Nat
  BY <1>1, LenProperties
<1>3. \A i \in DOMAIN batch : batch[i] \in Entry
  BY <1>1, <1>2, ElementOfSeq
<1>4. \A i \in DOMAIN batch : batch[i].seq \in Rows /\ batch[i].seq \in Nat
  BY <1>3, RowsFinite DEF Entry
<1>5. wpc # "idle" => 1 \in DOMAIN batch /\ Current = batch[1]
  <2>1. ASSUME wpc # "idle"
        PROVE  Len(batch) \in Nat \ {0} /\ Head(batch) = batch[1]
    BY <1>1, <2>1, EmptySeq, HeadTailProperties
  <2>2. QED
    BY <1>2, <2>1 DEF Current
<1>6. QED
  BY <1>2, <1>3, <1>4, <1>5

LEMMA EnqueueBatch ==
    ASSUME TypeOK, RowsInv, BatchInv, NEW n \in Notifier, NEW s \in Sub, NEW e \in Event,
           Enqueue(n, s, e)
    PROVE  BatchInv'
<1>1. UNCHANGED worker /\ received' = received
  BY DEF Enqueue, hist
<1>2. CASE InsertDelivery(s, e)
  <2>1. lastSeq \in Nat /\ lastSeq' = lastSeq + 1
    BY <1>2, LimitAssumption DEF InsertDelivery, TypeOK, StoreTyped
  <2>2. \A q \in Rows : q <= lastSeq => deliveries'[q] = deliveries[q]
    BY <1>2, <2>1 DEF InsertDelivery, TypeOK, StoreTyped
  <2>3. \A i \in DOMAIN batch : deliveries'[batch[i].seq] = deliveries[batch[i].seq]
    BY <2>2, BatchIndexed DEF BatchInv
  <2>4. batch' = batch
    BY <1>1 DEF worker
  <2>5. \A i \in DOMAIN batch : Present(batch[i].seq)' =>
               /\ Present(batch[i].seq)
               /\ deliveries'[batch[i].seq].sub = deliveries[batch[i].seq].sub
               /\ Unsettled(batch[i].seq) => Unsettled(batch[i].seq)'
    BY <2>3, <2>4 DEF Present, Unsettled
  <2>6. lastSeq <= lastSeq' /\ lastSeq' \in Nat
    BY <2>1
  <2>7. QED
    BY <1>1, <2>1, <2>5, <2>6, BatchIndexed, BatchFramed
<1>3. CASE UNCHANGED <<deliveries, lastSeq, ready>>
  BY <1>1, <1>3 DEF BatchInv, Present, Unsettled, Current, worker
<1>4. QED
  BY <1>2, <1>3 DEF Enqueue

LEMMA OwnerBatch ==
    ASSUME TypeOK, BatchInv, NEW o \in Owner, OwnerStep(o)
    PROVE  BatchInv'
<1>1. UNCHANGED worker /\ received' = received /\ lastSeq' = lastSeq
  BY DEF OwnerStep, BeginPatch, BeginDelete, Begin, UpdateSubscription, RearmDeliveries,
         DeleteSubscription, DeleteRows, AbandonRequest, store, hist
<1>2. \A q \in Rows : Present(q)' => /\ Present(q)
                                     /\ deliveries'[q].sub = deliveries[q].sub
                                     /\ Unsettled(q) => Unsettled(q)'
  <2>1. CASE RearmDeliveries(o)
    BY <2>1 DEF RearmDeliveries, Rearmable, RowsOf, Present, Unsettled, TypeOK, StoreTyped,
                DeliveryRow
  <2>2. ASSUME NEW stmt, DeleteSubscription(o, stmt)
        PROVE  \A q \in Rows : Present(q)' => deliveries'[q] = deliveries[q]
    BY <2>2 DEF DeleteSubscription, DeleteRows, Present, NoDelivery
  <2>3. CASE deliveries' = deliveries
    BY <2>3 DEF Present, Unsettled
  <2>4. CASE \E stmt : DeleteSubscription(o, stmt)
    BY <2>2, <2>4 DEF Present, Unsettled
  <2>5. QED
    BY <2>1, <2>3, <2>4 DEF OwnerStep, BeginPatch, BeginDelete, Begin, UpdateSubscription,
                            AbandonRequest, store
<1>3. batch' = batch
  BY <1>1 DEF worker
<1>4. \A i \in DOMAIN batch : Present(batch[i].seq)' =>
               /\ Present(batch[i].seq)
               /\ deliveries'[batch[i].seq].sub = deliveries[batch[i].seq].sub
               /\ Unsettled(batch[i].seq) => Unsettled(batch[i].seq)'
  BY <1>2, <1>3, BatchIndexed DEF Present, Unsettled
<1>5. lastSeq \in Nat /\ lastSeq <= lastSeq
  BY LimitAssumption DEF TypeOK, StoreTyped
<1>6. QED
  BY <1>1, <1>4, <1>5, BatchIndexed, BatchFramed

LEMMA FetchBatch ==
    ASSUME TypeOK, RowsInv, QueueInv, BatchInv, FetchDue
    PROVE  BatchInv'
<1> DEFINE due == DueDeliveries
<1>1. /\ due \in Seq(Rows) /\ ToSet(due) \subseteq ToSet(ready) /\ IsInjective(due)
  BY DueAreReady DEF QueueInv
<1>2. /\ wpc' = "post" /\ DOMAIN batch' = DOMAIN due
      /\ \A i \in DOMAIN due : batch'[i].seq = due[i] /\ batch'[i].sub = deliveries[due[i]].sub
      /\ UNCHANGED <<deliveries, lastSeq, received>>
  BY DEF FetchDue, store, hist
<1> HIDE DEF due
<1>3. \A i \in DOMAIN due : due[i] \in Rows /\ Unsettled(due[i])
  BY <1>1 DEF QueueInv, ToSet
<1>4. \A q \in Rows : Unsettled(q) => q <= lastSeq
  BY DEF RowsInv, Unsettled, Present
<1>5. \A i, j \in DOMAIN due : due[i] = due[j] => i = j
  BY <1>1 DEF IsInjective
<1>6. \A i, j \in DOMAIN batch' : batch'[i].seq = batch'[j].seq => i = j
  BY <1>2, <1>5
<1>7. \A i \in DOMAIN batch' :
         /\ batch'[i].seq <= lastSeq'
         /\ Present(batch[i].seq)' => deliveries'[batch'[i].seq].sub = batch'[i].sub
         /\ Unsettled(batch[i].seq)'
  BY <1>2, <1>3, <1>4 DEF Unsettled
<1>8. QED
  BY <1>2, <1>6, <1>7 DEF BatchInv, AtHand

(* On to the next row: what holds of the tail holds of the new batch.        *)
LEMMA NextBatch ==
    ASSUME TypeOK, BatchInv, wpc # "idle", NextDelivery, UNCHANGED <<deliveries, lastSeq, received>>
    PROVE  BatchInv'
<1>1. /\ batch \in Seq(Entry) /\ batch # <<>>
      /\ batch' = Tail(batch) /\ wpc' \in {"idle", "post"}
  BY DEF NextDelivery, TypeOK, WorkerTyped
<1>2. /\ Len(batch) \in Nat \ {0} /\ DOMAIN batch = 1..Len(batch)
      /\ DOMAIN batch' = 1..(Len(batch) - 1)
      /\ \A i \in 1..(Len(batch) - 1) : batch'[i] = batch[i + 1]
  BY <1>1
<1>3. \A i \in 1..(Len(batch) - 1) : i + 1 \in DOMAIN batch /\ i + 1 > 1
  BY <1>2
<1>4. \A i, j \in DOMAIN batch' : batch'[i].seq = batch'[j].seq => i = j
  <2> SUFFICES ASSUME NEW i \in DOMAIN batch', NEW j \in DOMAIN batch',
                      batch'[i].seq = batch'[j].seq
               PROVE  i = j
    OBVIOUS
  <2>1. i + 1 = j + 1
    BY <1>2, <1>3 DEF BatchInv
  <2>2. QED
    BY <1>2, <2>1
<1>5. \A i \in DOMAIN batch' :
         /\ batch'[i].seq <= lastSeq'
         /\ Present(batch[i].seq)' =>
              deliveries'[batch'[i].seq].sub = batch'[i].sub /\ Unsettled(batch[i].seq)'
  BY <1>2, <1>3 DEF BatchInv, Present, Unsettled
<1>6. QED
  BY <1>1, <1>4, <1>5 DEF BatchInv

(* A row is settled only after the rows behind it were told apart from it.   *)
LEMMA SettleBatch ==
    ASSUME TypeOK, BatchInv, wpc # "idle", batch' = batch, wpc' \notin AtHand \cup {"idle"},
           UNCHANGED <<lastSeq, received>>,
           \A q \in Rows \ {Current.seq} : deliveries'[q] = deliveries[q],
           deliveries'[Current.seq].sub = deliveries[Current.seq].sub,
           Present(Current.seq)' => Present(Current.seq)
    PROVE  BatchInv'
<1>1. 1 \in DOMAIN batch /\ Current = batch[1]
  BY BatchIndexed
<1>2. Current' = Current
  BY DEF Current
<1>3. \A i \in DOMAIN batch : i # 1 => batch[i].seq # Current.seq
  BY <1>1 DEF BatchInv
<1>4. \A i \in DOMAIN batch : i # 1 => deliveries'[batch[i].seq] = deliveries[batch[i].seq]
  BY <1>3, BatchIndexed
<1>5. \A i \in DOMAIN batch : i > 1 => i # 1
  BY BatchIndexed
<1>6. ASSUME NEW i \in DOMAIN batch'
      PROVE  /\ batch'[i].seq <= lastSeq'
             /\ Present(batch[i].seq)' => deliveries'[batch'[i].seq].sub = batch'[i].sub
             /\ Present(batch[i].seq)' /\ i > 1 => Unsettled(batch[i].seq)'
  <2>1. CASE i = 1
    BY <1>1, <1>2, <1>5, <2>1 DEF BatchInv, Present
  <2>2. CASE i # 1
    BY <1>4, <2>2 DEF BatchInv, Present, Unsettled
  <2>3. QED
    BY <2>1, <2>2
<1>7. QED
  BY <1>6 DEF BatchInv, AtHand

LEMMA BatchStep ==
    TypeOK /\ RowsInv /\ QueueInv /\ BatchInv /\ [Next]_vars => BatchInv'
<1> SUFFICES ASSUME TypeOK, RowsInv, QueueInv, BatchInv, [Next]_vars
             PROVE  BatchInv'
  OBVIOUS
<1>1. CASE UNCHANGED <<worker, deliveries, lastSeq, received>>
  BY <1>1 DEF worker, BatchInv, Present, Unsettled, Current
<1>2. CASE UNCHANGED vars
  BY <1>1, <1>2 DEF vars, store, hist
<1>3. ASSUME NEW c \in Creator, CreatorStep(c)
      PROVE  UNCHANGED <<worker, deliveries, lastSeq, received>>
  BY <1>3 DEF CreatorStep, CountForInstance, CreateSubscription, store, hist
<1>4. ASSUME NEW n \in Notifier, NotifierStep(n)
      PROVE  BatchInv'
  BY <1>1, <1>4, EnqueueBatch DEF NotifierStep, NotifyAdvertised, LoseMatches, store
<1>5. ASSUME NEW u \in Puller, PullerStep(u)
      PROVE  UNCHANGED <<worker, deliveries, lastSeq, received>>
  BY <1>5 DEF PullerStep, BeginPull, ReadPage, ReadLatest, AnswerPull, store, hist
<1>6. (\E s \in Sub, c \in Cursors : Ack(s, c)) \/ BackoffElapses
        => UNCHANGED <<worker, deliveries, lastSeq, received>>
  BY DEF Ack, BackoffElapses, hist
<1>7. CASE PostWebhook
  <2>1. /\ batch' = batch /\ Current' = Current /\ UNCHANGED <<deliveries, lastSeq>>
        /\ wpc = "post" /\ wpc' \in {"delivered", "failed"}
        /\ received \subseteq received'
        /\ wpc' = "delivered" => Current.seq \in received'
    BY <1>7 DEF PostWebhook, WorkerGoto, store, Current
  <2>2. QED
    BY <2>1 DEF BatchInv, AtHand, Present, Unsettled
<1>8. CASE MarkDelivered
  <2>1. /\ wpc # "idle" /\ batch' = batch /\ wpc' = "reset" /\ UNCHANGED <<lastSeq, received>>
    BY <1>8 DEF MarkDelivered, WorkerGoto, hist
  <2>2. Current.seq \in Rows
    BY <2>1, BatchIndexed
  <2>3. /\ \A q \in Rows \ {Current.seq} : deliveries'[q] = deliveries[q]
        /\ deliveries'[Current.seq].sub = deliveries[Current.seq].sub
        /\ Present(Current.seq)' => Present(Current.seq)
    <3>1. CASE Present(Current.seq)
      <4>1. deliveries' = [deliveries EXCEPT ![Current.seq].status = "delivered",
                                             ![Current.seq].attempts = Current.attempts + 1]
        BY <1>8, <3>1 DEF MarkDelivered
      <4>2. QED
        BY <2>2, <3>1, <4>1 DEF TypeOK, StoreTyped, DeliveryRow
    <3>2. CASE ~Present(Current.seq)
      <4>1. deliveries' = deliveries
        BY <1>8, <3>2 DEF MarkDelivered
      <4>2. QED
        BY <2>1, <4>1 DEF Present, Current
    <3>3. QED
      BY <3>1, <3>2
  <2>4. QED
    BY <2>1, <2>3, SettleBatch DEF AtHand
<1>9. CASE MarkFailed
  <2>1. /\ wpc # "idle" /\ batch' = batch /\ wpc' = "count" /\ UNCHANGED <<lastSeq, received>>
    BY <1>9 DEF MarkFailed, WorkerGoto, hist
  <2>2. Current.seq \in Rows
    BY <2>1, BatchIndexed
  <2>3. /\ \A q \in Rows \ {Current.seq} : deliveries'[q] = deliveries[q]
        /\ deliveries'[Current.seq].sub = deliveries[Current.seq].sub
        /\ Present(Current.seq)' => Present(Current.seq)
    <3>1. CASE Present(Current.seq)
      <4>1. PICK status \in {"dead", "failed"} :
              deliveries' = [deliveries EXCEPT ![Current.seq].status = status,
                                               ![Current.seq].attempts = value]
        BY <1>9, <3>1 DEF MarkFailed
      <4>2. QED
        BY <2>2, <3>1, <4>1 DEF TypeOK, StoreTyped, DeliveryRow
    <3>2. CASE ~Present(Current.seq)
      <4>1. deliveries' = deliveries
        BY <1>9, <3>2 DEF MarkFailed
      <4>2. QED
        BY <2>1, <4>1 DEF Present, Current
    <3>3. QED
      BY <3>1, <3>2
  <2>4. QED
    BY <2>1, <2>3, SettleBatch DEF AtHand
<1>10. CASE ReadAttempts \/ CountFailure \/ (CheckFailures /\ WorkerGoto("suspend"))
  <2>1. /\ batch' = batch /\ Current' = Current /\ UNCHANGED <<deliveries, lastSeq, received>>
        /\ wpc' # "delivered" /\ (wpc' \in AtHand => wpc \in AtHand)
    BY <1>10 DEF ReadAttempts, CountFailure, CheckFailures, WorkerGoto, AtHand, store, hist,
                 Current
  <2>2. QED
    BY <2>1 DEF BatchInv, Present, Unsettled
<1>11. CASE ResetFailures \/ Suspend \/ WorkerError \/ (CheckFailures /\ NextDelivery)
  <2>1. wpc # "idle" /\ NextDelivery /\ UNCHANGED <<deliveries, lastSeq, received>>
    BY <1>11 DEF ResetFailures, Suspend, WorkerError, CheckFailures, store, hist
  <2>2. QED
    BY <2>1, NextBatch
<1>12. CASE CheckFailures
  BY <1>10, <1>11, <1>12 DEF CheckFailures
<1>13. CASE Crash
  BY <1>13 DEF Crash, BatchInv
<1>14. QED
  BY <1>1, <1>2, <1>3, <1>4, <1>5, <1>6, <1>7, <1>8, <1>9, <1>10, <1>11, <1>12, <1>13,
     OwnerBatch, FetchBatch DEF Next, WorkerStep

LEMMA QueueAlways == Spec => [](QueueInv /\ BatchInv)
BY QueueInit, QueueStep, BatchStep, TypeCorrect, RowsAlways, PTL DEF Spec

(***************************************************************************)
(* Attempts.                                                               *)
(***************************************************************************)
LEMMA AttemptsInit == Init => AttemptsInv
BY DEF Init, AttemptsInv, NoDelivery

LEMMA AttemptsFramed ==
    ASSUME AttemptsInv, UNCHANGED <<deliveries, tries, wpc, batch, value>>, raced \subseteq raced'
    PROVE  AttemptsInv'
BY DEF AttemptsInv, Present, Current

LEMMA RearmAttempts ==
    ASSUME TypeOK, BatchInv, AttemptsInv, NEW o \in Owner, RearmDeliveries(o)
    PROVE  AttemptsInv'
<1> DEFINE s == doing[o].sub
           rows == Rearmable(s)
<1>1. /\ \A q \in Rows : IF q \in rows
            THEN deliveries'[q].sub = s /\ deliveries'[q].attempts = 0 /\ tries'[q] = 0
                 /\ deliveries'[q].status = "pending"
            ELSE deliveries'[q] = deliveries[q] /\ tries'[q] = tries[q]
      /\ UNCHANGED worker /\ raced' = Overtakes(s, {"failed", "mark"})
  BY DEF RearmDeliveries, Rearmable, RowsOf, TypeOK, StoreTyped, DeliveryRow
<1>2. \A q \in Rows : q \in rows => deliveries[q].sub = s
  BY DEF Rearmable, RowsOf
<1> HIDE DEF s, rows
<1>3. raced \subseteq raced'
  BY <1>1 DEF Overtakes
<1>4. \A q \in Rows : deliveries'[q].sub \in raced' \/
         /\ deliveries'[q].status \in {"pending", "failed", "dead"}
              => tries'[q] >= deliveries'[q].attempts
         /\ deliveries'[q].status = "dead" => deliveries'[q].attempts >= MaxAttempts
  BY <1>1, <1>3 DEF AttemptsInv
<1>5. wpc' = wpc /\ value' = value /\ Current' = Current
  BY <1>1 DEF worker, Current
<1>6. ASSUME wpc \in {"failed", "mark"}, Present(Current.seq)', Current.sub \notin raced'
      PROVE  /\ deliveries'[Current.seq] = deliveries[Current.seq]
             /\ tries'[Current.seq] = tries[Current.seq]
  <2>1. Current.seq \in Rows /\ 1 \in DOMAIN batch /\ Current = batch[1]
    BY <1>6, BatchIndexed
  <2>2. Current.sub # s
    BY <1>1, <1>6 DEF Overtakes, Current
  <2>3. CASE Current.seq \in rows
    <3>1. Present(Current.seq) /\ deliveries[Current.seq].sub = s
      BY <2>3 DEF rows, Rearmable, RowsOf
    <3>2. QED
      BY <2>1, <2>2, <3>1 DEF BatchInv
  <2>4. QED
    BY <1>1, <2>1, <2>3
<1>7. /\ wpc' = "failed" /\ Present(Current.seq)' /\ Current'.sub \notin raced'
           => tries'[Current'.seq] >= deliveries'[Current'.seq].attempts + 1
      /\ wpc' = "mark" /\ Present(Current.seq)' /\ Current'.sub \notin raced'
           => tries'[Current'.seq] >= value'
  BY <1>3, <1>5, <1>6 DEF AttemptsInv, Present
<1>8. QED
  BY <1>4, <1>7 DEF AttemptsInv

LEMMA RowGoneOrNew ==
    ASSUME TypeOK, AttemptsInv, UNCHANGED <<wpc, batch, value, tries, raced>>,
           \A q \in Rows : \/ deliveries'[q] = deliveries[q]
                           \/ deliveries'[q].status = "none"
                           \/ deliveries'[q].status = "pending" /\ deliveries'[q].attempts = 0
                              /\ (wpc # "idle" => q # Current.seq)
    PROVE  AttemptsInv'
<1>1. \A q \in Rows : deliveries'[q].sub \in raced' \/
         /\ deliveries'[q].status \in {"pending", "failed", "dead"}
              => tries'[q] >= deliveries'[q].attempts
         /\ deliveries'[q].status = "dead" => deliveries'[q].attempts >= MaxAttempts
  BY DEF AttemptsInv, TypeOK, HistTyped
<1>2. Current' = Current
  BY DEF Current
<1>3. wpc # "idle" /\ Present(Current.seq)' => deliveries'[Current.seq] = deliveries[Current.seq]
  BY <1>2, BatchIndexed DEF Present
<1>4. QED
  BY <1>1, <1>2, <1>3 DEF AttemptsInv, Present

LEMMA PostAttempts ==
    ASSUME TypeOK, BatchInv, AttemptsInv, PostWebhook
    PROVE  AttemptsInv'
<1>1. /\ Current.seq \in Rows /\ 1 \in DOMAIN batch /\ Current = batch[1]
  BY BatchIndexed DEF PostWebhook
<1>2. /\ wpc' \in {"delivered", "failed"} /\ batch' = batch /\ Current' = Current
      /\ UNCHANGED <<deliveries, raced, value>>
      /\ tries' = [tries EXCEPT ![Current.seq] = @ + 1]
  BY DEF PostWebhook, WorkerGoto, store, Current
<1>3. \A q \in Rows : tries'[q] \in Nat /\ tries[q] \in Nat /\ tries'[q] >= tries[q]
                      /\ deliveries[q].attempts \in Nat
  BY <1>1, <1>2 DEF TypeOK, HistTyped, StoreTyped, DeliveryRow
<1>4. tries'[Current.seq] = tries[Current.seq] + 1
  BY <1>1, <1>2 DEF TypeOK, HistTyped
<1>5. \A q \in Rows : deliveries'[q].sub \in raced' \/
         /\ deliveries'[q].status \in {"pending", "failed", "dead"}
              => tries'[q] >= deliveries'[q].attempts
         /\ deliveries'[q].status = "dead" => deliveries'[q].attempts >= MaxAttempts
  BY <1>2, <1>3 DEF AttemptsInv
<1>6. Present(Current.seq) /\ Current.sub \notin raced
        => tries'[Current.seq] >= deliveries[Current.seq].attempts + 1
  <2>1. Present(Current.seq) => Unsettled(Current.seq) /\ deliveries[Current.seq].sub = Current.sub
    BY <1>1 DEF BatchInv, AtHand, PostWebhook
  <2>2. QED
    BY <1>1, <1>3, <1>4, <2>1 DEF AttemptsInv, Unsettled
<1>7. QED
  BY <1>2, <1>5, <1>6 DEF AttemptsInv, Present

LEMMA MarkFailedAttempts ==
    ASSUME TypeOK, BatchInv, AttemptsInv, MarkFailed
    PROVE  AttemptsInv'
<1>1. /\ Current.seq \in Rows /\ 1 \in DOMAIN batch /\ Current = batch[1]
  BY BatchIndexed DEF MarkFailed
<1>2. wpc = "mark" /\ wpc' = "count" /\ UNCHANGED <<raced, tries>>
  BY DEF MarkFailed, WorkerGoto, hist
<1>3. CASE Present(Current.seq)
  <2>1. deliveries' = [deliveries EXCEPT
                         ![Current.seq].status = IF Exhausted THEN "dead" ELSE "failed",
                         ![Current.seq].attempts = value]
    BY <1>3 DEF MarkFailed
  <2>2. /\ \A q \in Rows \ {Current.seq} : deliveries'[q] = deliveries[q]
        /\ deliveries'[Current.seq].sub = Current.sub
        /\ deliveries'[Current.seq].attempts = value
        /\ deliveries'[Current.seq].status = "dead" => value >= MaxAttempts
    BY <1>1, <1>3, <2>1 DEF TypeOK, StoreTyped, DeliveryRow, BatchInv, Exhausted
  <2>3. Current.sub \notin raced => tries[Current.seq] >= value
    BY <1>2, <1>3 DEF AttemptsInv
  <2>4. QED
    BY <1>2, <2>2, <2>3 DEF AttemptsInv
<1>4. CASE ~Present(Current.seq)
  BY <1>2, <1>4 DEF MarkFailed, AttemptsInv
<1>5. QED
  BY <1>3, <1>4

LEMMA AttemptsStep ==
    TypeOK /\ RowsInv /\ BatchInv /\ AttemptsInv /\ [Next]_vars => AttemptsInv'
<1> SUFFICES ASSUME TypeOK, RowsInv, BatchInv, AttemptsInv, [Next]_vars
             PROVE  AttemptsInv'
  OBVIOUS
<1> DEFINE Frame == UNCHANGED <<deliveries, tries, wpc, batch, value>> /\ raced \subseteq raced'
<1>1. CASE Frame
  BY <1>1, AttemptsFramed
<1>2. CASE UNCHANGED vars
  BY <1>1, <1>2 DEF vars, store, worker, hist
<1>3. ASSUME NEW c \in Creator, CreatorStep(c)
      PROVE  Frame
  BY <1>3 DEF CreatorStep, CountForInstance, CreateSubscription, store, worker, hist
<1>4. ASSUME NEW n \in Notifier, NotifierStep(n)
      PROVE  AttemptsInv'
  <2>1. ASSUME NEW s \in Sub, NEW e \in Event, Enqueue(n, s, e), InsertDelivery(s, e)
        PROVE  AttemptsInv'
    <3>1. PICK r \in Rows : r = lastSeq + 1 /\ lastSeq \in Nat
      BY <2>1, LimitAssumption DEF InsertDelivery, TypeOK, StoreTyped, Rows
    <3>2. UNCHANGED <<wpc, batch, value, tries, raced>>
      BY <2>1 DEF Enqueue, worker, hist
    <3>3. wpc # "idle" => r # Current.seq
      BY <3>1, BatchIndexed DEF BatchInv
    <3>4. \A q \in Rows : \/ deliveries'[q] = deliveries[q]
                          \/ q = r /\ deliveries'[q].status = "pending"
                                   /\ deliveries'[q].attempts = 0
      BY <2>1, <3>1 DEF InsertDelivery, TypeOK, StoreTyped
    <3>5. QED
      BY <3>2, <3>3, <3>4, RowGoneOrNew
  <2>2. ASSUME NEW s \in Sub, NEW e \in Event, Enqueue(n, s, e), ~InsertDelivery(s, e)
        PROVE  Frame
    BY <2>2 DEF Enqueue, worker, hist
  <2>3. (\E events \in SUBSET Event \ {{}} : NotifyAdvertised(n, events)) \/ LoseMatches(n)
          => Frame
    BY DEF NotifyAdvertised, LoseMatches, store, worker
  <2>4. QED
    BY <1>1, <1>4, <2>1, <2>2, <2>3 DEF NotifierStep
<1>5. ASSUME NEW o \in Owner, OwnerStep(o)
      PROVE  AttemptsInv'
  <2>1. ASSUME NEW stmt, DeleteSubscription(o, stmt)
        PROVE  AttemptsInv'
    <3>1. \A q \in Rows : deliveries'[q] = deliveries[q] \/ deliveries'[q].status = "none"
      BY <2>1 DEF DeleteSubscription, DeleteRows, NoDelivery
    <3>2. UNCHANGED <<wpc, batch, value, tries, raced>>
      BY <2>1 DEF DeleteSubscription, worker
    <3>3. QED
      BY <3>1, <3>2, RowGoneOrNew
  <2>2. ASSUME NEW stmt, UpdateSubscription(o, stmt)
        PROVE  Frame
    BY <2>2 DEF UpdateSubscription, Overtakes, worker
  <2>3. CASE Frame
    BY <1>1, <2>3
  <2>4. QED
    BY <1>5, <2>1, <2>2, <2>3, RearmAttempts DEF OwnerStep, BeginPatch, BeginDelete, Begin,
       AbandonRequest, store, worker, hist
<1>6. ASSUME NEW u \in Puller, PullerStep(u)
      PROVE  Frame
  BY <1>6 DEF PullerStep, BeginPull, ReadPage, ReadLatest, AnswerPull, store, worker, hist
<1>7. (\E s \in Sub, c \in Cursors : Ack(s, c)) \/ BackoffElapses => Frame
  BY DEF Ack, BackoffElapses, worker, hist
<1>8. CASE MarkDelivered
  <2>1. Current.seq \in Rows /\ wpc' = "reset" /\ UNCHANGED <<tries, raced>>
    BY <1>8, BatchIndexed DEF MarkDelivered, WorkerGoto, hist
  <2>2. CASE Present(Current.seq)
    <3>1. deliveries' = [deliveries EXCEPT ![Current.seq].status = "delivered",
                                           ![Current.seq].attempts = Current.attempts + 1]
      BY <1>8, <2>2 DEF MarkDelivered
    <3>2. /\ \A q \in Rows \ {Current.seq} : deliveries'[q] = deliveries[q]
          /\ deliveries'[Current.seq].status = "delivered"
      BY <2>1, <3>1 DEF TypeOK, StoreTyped, DeliveryRow
    <3>3. QED
      BY <2>1, <3>2 DEF AttemptsInv
  <2>3. CASE ~Present(Current.seq)
    BY <1>8, <2>1, <2>3 DEF MarkDelivered, AttemptsInv
  <2>4. QED
    BY <2>2, <2>3
<1>9. CASE ReadAttempts
  <2>1. /\ Current' = Current /\ wpc = "failed" /\ wpc' = "mark"
        /\ value' = deliveries[Current.seq].attempts + 1
        /\ UNCHANGED <<deliveries, tries, raced>>
    BY <1>9 DEF ReadAttempts, WorkerGoto, store, hist, Current
  <2>2. QED
    BY <2>1 DEF AttemptsInv, Present
<1>10. CASE FetchDue \/ ResetFailures \/ CountFailure \/ CheckFailures \/ Suspend \/ WorkerError
            \/ Crash
  <2>1. wpc' \notin {"failed", "mark"} /\ UNCHANGED <<deliveries, tries, raced>>
    BY <1>10 DEF FetchDue, ResetFailures, CountFailure, CheckFailures, Suspend, WorkerError,
                 Crash, NextDelivery, WorkerGoto, store, hist
  <2>2. QED
    BY <2>1 DEF AttemptsInv
<1>11. QED
  BY <1>1, <1>2, <1>3, <1>4, <1>5, <1>6, <1>7, <1>8, <1>9, <1>10, PostAttempts,
     MarkFailedAttempts DEF Next, WorkerStep

(* Crashes, failed statements and the rearming of rows lose no attempt that  *)
(* was not made: a buried row was POSTed MaxAttempts times, unless a resume  *)
(* overtook mark_failed for its subscription.                                *)
THEOREM DeadAlwaysEarned == Spec => []DeadIsEarned
<1>1. TypeOK /\ AttemptsInv => DeadIsEarned
  <2> SUFFICES ASSUME TypeOK, AttemptsInv, NEW q \in Rows, deliveries[q].status = "dead",
                      deliveries[q].sub \notin raced
               PROVE  tries[q] >= MaxAttempts
    BY DEF DeadIsEarned
  <2>1. tries[q] >= deliveries[q].attempts /\ deliveries[q].attempts >= MaxAttempts
    BY DEF AttemptsInv
  <2>2. tries[q] \in Nat /\ deliveries[q].attempts \in Nat /\ MaxAttempts \in Nat
    BY LimitAssumption DEF TypeOK, HistTyped, StoreTyped, DeliveryRow
  <2>3. QED
    BY <2>1, <2>2
<1>2. QED
  BY <1>1, AttemptsInit, AttemptsStep, TypeCorrect, RowsAlways, QueueAlways, PTL DEF Spec

(***************************************************************************)
(* The queue implements Delivery.                                          *)
(***************************************************************************)
RowAt(q) == [match |-> <<deliveries[q].sub, deliveries[q].event>>,
             status |-> StatusOf(deliveries[q]), posts |-> tries[q], got |-> q \in received]
Queue == {RowAt(q) : q \in {r \in Rows : Present(r)}}

LEMMA RowsAreQueue == AsDelivery!vars = <<live, Queue>>
BY DEF AsDelivery!vars, Queue, RowAt

(* Two rows of one match would be one row to Delivery.                       *)
LEMMA RowAtTellsApart ==
    ASSUME RowsInv, NEW p \in Rows, NEW q \in Rows, Present(p), Present(q), RowAt(p) = RowAt(q)
    PROVE  p = q
<1>1. RowAt(p).match = RowAt(q).match
  OBVIOUS
<1>2. deliveries[p].sub = deliveries[q].sub /\ deliveries[p].event = deliveries[q].event
  BY <1>1 DEF RowAt
<1>3. QED
  BY <1>2 DEF RowsInv, Holds

LEMMA QueueStutters ==
    ASSUME live' = live,
           \A q \in Rows : Present(q)' <=> Present(q),
           \A q \in Rows : Present(q) => RowAt(q)' = RowAt(q)
    PROVE  UNCHANGED AsDelivery!vars
<1>1. Queue' = Queue
  BY DEF Queue
<1>2. QED
  BY <1>1, RowsAreQueue DEF AsDelivery!vars, Queue, RowAt

LEMMA UnchangedStutters ==
    ASSUME UNCHANGED <<live, deliveries, tries, received>>
    PROVE  UNCHANGED AsDelivery!vars
BY DEF AsDelivery!vars, Present

(* One row changes and the others stay.                                      *)
LEMMA OneRowChanges ==
    ASSUME RowsInv, NEW q \in Rows, Present(q), Present(q)',
           \A p \in Rows \ {q} : Present(p)' <=> Present(p),
           \A p \in Rows \ {q} : Present(p) => RowAt(p)' = RowAt(p)
    PROVE  /\ RowAt(q) \in Queue
           /\ Queue' = (Queue \ {RowAt(q)}) \cup {RowAt(q)'}
<1>1. RowAt(q) \in Queue
  BY DEF Queue
<1>2. \A p \in Rows \ {q} : Present(p) => RowAt(p) # RowAt(q)
  BY RowAtTellsApart
<1>3. Queue' \subseteq (Queue \ {RowAt(q)}) \cup {RowAt(q)'}
  BY <1>2 DEF Queue
<1>4. (Queue \ {RowAt(q)}) \cup {RowAt(q)'} \subseteq Queue'
  BY DEF Queue
<1>5. QED
  BY <1>1, <1>3, <1>4

LEMMA RowPosts == \A r \in Queue : AsDelivery!Post(r) => AsDelivery!Next
BY DEF AsDelivery!Next, Queue, RowAt

LEMMA RowDelivers == \A r \in Queue : AsDelivery!Deliver(r) => AsDelivery!Next
BY DEF AsDelivery!Next, Queue, RowAt

LEMMA RowBuried == \A r \in Queue : AsDelivery!Bury(r) => AsDelivery!Next
BY DEF AsDelivery!Next, Queue, RowAt

LEMMA PostMaps ==
    ASSUME TypeOK, RowsInv, BatchInv, PostWebhook
    PROVE  AsDelivery!Next \/ UNCHANGED AsDelivery!vars
<1>1. PICK q \in Rows : q = Current.seq /\ 1 \in DOMAIN batch /\ Current = batch[1]
  BY BatchIndexed DEF PostWebhook
<1>2. /\ live' = live /\ deliveries' = deliveries
      /\ tries' = [tries EXCEPT ![q] = @ + 1]
      /\ received' \in {received, received \cup {q}}
  BY <1>1 DEF PostWebhook, store
<1>3. \A p \in Rows : Present(p)' <=> Present(p)
  BY <1>2 DEF Present
<1>4. \A p \in Rows \ {q} : RowAt(p)' = RowAt(p)
  <2>1. \A p \in Rows \ {q} : tries'[p] = tries[p] /\ (p \in received' <=> p \in received)
    BY <1>2 DEF TypeOK, HistTyped
  <2>2. QED
    BY <1>2, <2>1 DEF RowAt
<1>5. CASE Present(q)
  <2>1. RowAt(q).status = "queued"
    BY <1>1, <1>5 DEF BatchInv, AtHand, PostWebhook, Unsettled, RowAt, StatusOf, Settled
  <2>2. RowAt(q) \in Queue /\ Queue' = (Queue \ {RowAt(q)}) \cup {RowAt(q)'}
    BY <1>3, <1>4, <1>5, OneRowChanges
  <2>3. tries'[q] = tries[q] + 1
    BY <1>2 DEF TypeOK, HistTyped
  <2>4. PICK got \in {RowAt(q).got, TRUE} : got = (q \in received')
    <3>1. (q \in received') = (q \in received) \/ (q \in received') = TRUE
      BY <1>2
    <3>2. RowAt(q).got = (q \in received)
      BY DEF RowAt
    <3>3. QED
      BY <3>1, <3>2
  <2>5. PICK r \in Queue : r = RowAt(q)
    BY <2>2
  <2>6. PICK m, st, n, g : /\ m = <<deliveries[q].sub, deliveries[q].event>>
                           /\ st = StatusOf(deliveries[q]) /\ n = tries[q]
                           /\ g = (q \in received)
    OBVIOUS
  <2>7. r = [match |-> m, status |-> st, posts |-> n, got |-> g]
    BY <2>5, <2>6, Zenon DEF RowAt
  <2>8. RowAt(q)' = [match |-> m, status |-> st, posts |-> n + 1, got |-> got]
    BY <1>2, <2>3, <2>4, <2>6 DEF RowAt
  <2>9. RowAt(q)' = [r EXCEPT !.posts = @ + 1, !.got = got]
    <3> DEFINE x == [r EXCEPT !.posts = @ + 1]
    <3>1. x = [match |-> m, status |-> st, posts |-> n + 1, got |-> g]
      BY <2>7
    <3> HIDE DEF x
    <3>2. [x EXCEPT !.got = got] = [match |-> m, status |-> st, posts |-> n + 1, got |-> got]
      BY <3>1
    <3>3. QED
      BY <2>8, <3>2, Zenon DEF x
  <2>10. AsDelivery!Post(r)
    BY <1>2, <2>1, <2>2, <2>4, <2>5, <2>9 DEF AsDelivery!Post, AsDelivery!Becomes, Queue, RowAt
  <2>11. QED
    BY <2>10, RowPosts
<1>6. CASE ~Present(q)
  BY <1>2, <1>3, <1>4, <1>6, QueueStutters
<1>7. QED
  BY <1>5, <1>6

LEMMA MarkDeliveredMaps ==
    ASSUME TypeOK, RowsInv, BatchInv, MarkDelivered
    PROVE  AsDelivery!Next \/ UNCHANGED AsDelivery!vars
<1>1. PICK q \in Rows : q = Current.seq /\ 1 \in DOMAIN batch /\ Current = batch[1]
  BY BatchIndexed DEF MarkDelivered
<1>2. live' = live /\ tries' = tries /\ received' = received
  BY DEF MarkDelivered, hist
<1>3. CASE Present(q)
  <2>1. deliveries' = [deliveries EXCEPT ![q].status = "delivered",
                                         ![q].attempts = Current.attempts + 1]
    BY <1>1, <1>3 DEF MarkDelivered
  <2>2. /\ deliveries'[q].sub = deliveries[q].sub /\ deliveries'[q].event = deliveries[q].event
        /\ deliveries'[q].status = "delivered"
        /\ \A p \in Rows \ {q} : deliveries'[p] = deliveries[p]
    BY <2>1 DEF TypeOK, StoreTyped, DeliveryRow
  <2>3. RowAt(q).status = "queued" /\ RowAt(q).got
    BY <1>1, <1>3 DEF BatchInv, AtHand, MarkDelivered, Unsettled, RowAt, StatusOf, Settled
  <2>4. RowAt(q) \in Queue /\ Queue' = (Queue \ {RowAt(q)}) \cup {RowAt(q)'}
    <3>1. Present(q)' /\ \A p \in Rows \ {q} : (Present(p)' <=> Present(p)) /\ RowAt(p)' = RowAt(p)
      BY <1>2, <2>2 DEF Present, RowAt
    <3>2. QED
      BY <1>3, <3>1, OneRowChanges
  <2>5. RowAt(q)' = [RowAt(q) EXCEPT !.status = "delivered"]
    BY <1>2, <2>2 DEF RowAt, StatusOf, Settled
  <2>6. PICK r \in Queue : r = RowAt(q)
    BY <2>4
  <2>7. AsDelivery!Deliver(r)
    BY <1>2, <2>3, <2>4, <2>5, <2>6 DEF AsDelivery!Deliver, AsDelivery!Becomes, Queue, RowAt
  <2>8. QED
    BY <2>7, RowDelivers
<1>4. CASE ~Present(q)
  BY <1>1, <1>2, <1>4, UnchangedStutters DEF MarkDelivered
<1>5. QED
  BY <1>3, <1>4

LEMMA MarkFailedMaps ==
    ASSUME TypeOK, RowsInv, BatchInv, MarkFailed
    PROVE  AsDelivery!Next \/ UNCHANGED AsDelivery!vars
<1>1. PICK q \in Rows : q = Current.seq /\ 1 \in DOMAIN batch /\ Current = batch[1]
  BY BatchIndexed DEF MarkFailed
<1>2. live' = live /\ tries' = tries /\ received' = received
  BY DEF MarkFailed, hist
<1>3. CASE Present(q)
  <2>1. PICK status \in {"dead", "failed"} :
          deliveries' = [deliveries EXCEPT ![q].status = status, ![q].attempts = value]
    BY <1>1, <1>3 DEF MarkFailed
  <2>2. /\ deliveries'[q].sub = deliveries[q].sub /\ deliveries'[q].event = deliveries[q].event
        /\ deliveries'[q].status = status
        /\ \A p \in Rows \ {q} : deliveries'[p] = deliveries[p]
    BY <2>1 DEF TypeOK, StoreTyped, DeliveryRow
  <2>3. RowAt(q).status = "queued"
    BY <1>1, <1>3 DEF BatchInv, AtHand, MarkFailed, Unsettled, RowAt, StatusOf, Settled
  <2>4. Present(q)' /\ \A p \in Rows \ {q} : (Present(p)' <=> Present(p)) /\ RowAt(p)' = RowAt(p)
    BY <1>2, <2>2 DEF Present, RowAt
  <2>5. CASE status = "dead"
    <3>1. RowAt(q) \in Queue /\ Queue' = (Queue \ {RowAt(q)}) \cup {RowAt(q)'}
      BY <1>3, <2>4, OneRowChanges
    <3>2. RowAt(q)' = [RowAt(q) EXCEPT !.status = "dead"]
      BY <1>2, <2>2, <2>5 DEF RowAt, StatusOf, Settled
    <3>3. PICK r \in Queue : r = RowAt(q)
      BY <3>1
    <3>4. AsDelivery!Bury(r)
      BY <1>2, <2>3, <3>1, <3>2, <3>3 DEF AsDelivery!Bury, AsDelivery!Becomes, Queue, RowAt
    <3>5. QED
      BY <3>4, RowBuried
  <2>6. CASE status = "failed"
    <3>1. StatusOf(deliveries'[q]) = "queued" /\ StatusOf(deliveries[q]) = "queued"
      BY <2>2, <2>3, <2>6 DEF StatusOf, Settled, RowAt
    <3>2. RowAt(q)' = RowAt(q)
      BY <1>2, <2>2, <3>1 DEF RowAt
    <3>3. QED
      BY <1>2, <1>3, <2>4, <3>2, QueueStutters
  <2>7. QED
    BY <2>1, <2>5, <2>6
<1>4. CASE ~Present(q)
  BY <1>1, <1>2, <1>4, UnchangedStutters DEF MarkFailed
<1>5. QED
  BY <1>3, <1>4

LEMMA EnqueueMaps ==
    ASSUME TypeOK, RowsInv, FreshInv, NEW n \in Notifier, NEW s \in Sub, NEW e \in Event,
           Enqueue(n, s, e)
    PROVE  AsDelivery!Next \/ UNCHANGED AsDelivery!vars
<1>1. live' = live /\ tries' = tries /\ received' = received
  BY DEF Enqueue, hist
<1>2. CASE s \in live /\ ~Queued(s, e)
  <2>1. PICK r \in Rows : r = lastSeq + 1 /\ lastSeq \in Nat
    BY <1>2, LimitAssumption DEF Enqueue, InsertDelivery, TypeOK, StoreTyped, Rows
  <2> DEFINE m == <<s, e>>
  <2>2. /\ deliveries'[r] = [sub |-> s, event |-> e, status |-> "pending", attempts |-> 0]
        /\ \A p \in Rows \ {r} : deliveries'[p] = deliveries[p]
    BY <1>2, <2>1 DEF Enqueue, InsertDelivery, TypeOK, StoreTyped
  <2>3. ~Present(r) /\ tries[r] = 0 /\ r \notin received
    BY <2>1 DEF RowsInv, FreshInv
  <2>4. Present(r)' /\ \A p \in Rows \ {r} : (Present(p)' <=> Present(p)) /\ RowAt(p)' = RowAt(p)
    BY <1>1, <2>2 DEF Present, RowAt
  <2>5. RowAt(r)' = AsDelivery!NewRow(m)
    <3>1. RowAt(r)' = [match |-> m, status |-> "queued", posts |-> 0, got |-> r \in received']
      BY <1>1, <2>2, <2>3 DEF RowAt, StatusOf, Settled
    <3>2. (r \in received') = FALSE
      BY <1>1, <2>3
    <3>3. RowAt(r)' = [match |-> m, status |-> "queued", posts |-> 0, got |-> FALSE]
      BY <3>1, <3>2, Zenon
    <3>4. QED
      BY <3>3 DEF AsDelivery!NewRow
  <2>6. Queue' = Queue \cup {RowAt(r)'}
    BY <2>3, <2>4 DEF Queue
  <2>7. \A row \in Queue : row.match # m
    BY <1>2 DEF Queue, RowAt, Queued, RowsOf
  <2>8. m \in Sub \X Event /\ m[1] = s
    OBVIOUS
  <2> HIDE DEF m
  <2>9. AsDelivery!Queue(m)
    BY <1>1, <1>2, <2>5, <2>6, <2>7, <2>8 DEF AsDelivery!Queue, Queue, RowAt
  <2>10. QED
    BY <2>8, <2>9 DEF AsDelivery!Next
<1>3. CASE ~(s \in live /\ ~Queued(s, e))
  BY <1>1, <1>3, UnchangedStutters DEF Enqueue
<1>4. QED
  BY <1>2, <1>3

LEMMA RearmMaps ==
    ASSUME TypeOK, RowsInv, NEW o \in Owner, RearmDeliveries(o)
    PROVE  AsDelivery!Next \/ UNCHANGED AsDelivery!vars
<1>1. live' = live /\ received' = received /\ doing[o].sub \in Sub
  BY RunsTyped DEF RearmDeliveries
<1>2. PICK s \in Sub : s = doing[o].sub
  BY <1>1
<1> DEFINE rows == Rearmable(s)
           again == {RowAt(q) : q \in rows}
<1>3. /\ \A q \in rows : /\ deliveries'[q].sub = deliveries[q].sub
                         /\ deliveries'[q].event = deliveries[q].event
                         /\ deliveries'[q].status = "pending"
                         /\ tries'[q] = 0
      /\ \A q \in Rows \ rows : deliveries'[q] = deliveries[q] /\ tries'[q] = tries[q]
  BY <1>2 DEF RearmDeliveries, TypeOK, StoreTyped, DeliveryRow, HistTyped, Rearmable, RowsOf
<1>4. \A q \in rows : /\ q \in Rows /\ Present(q) /\ deliveries[q].sub = s
                      /\ StatusOf(deliveries[q]) # "delivered"
  BY DEF Rearmable, RowsOf, StatusOf, Settled
<1> HIDE DEF rows
<1>5. \A q \in Rows : Present(q)' <=> Present(q)
  BY <1>3, <1>4 DEF Present
<1>6. \A q \in rows : RowAt(q)' = [RowAt(q) EXCEPT !.status = "queued", !.posts = 0]
  <2> SUFFICES ASSUME NEW q \in rows
               PROVE  RowAt(q)' = [RowAt(q) EXCEPT !.status = "queued", !.posts = 0]
    OBVIOUS
  <2>1. PICK r, m, st, n, g : /\ r = RowAt(q) /\ m = <<deliveries[q].sub, deliveries[q].event>>
                             /\ st = StatusOf(deliveries[q]) /\ n = tries[q]
                             /\ g = (q \in received)
    OBVIOUS
  <2>2. r = [match |-> m, status |-> st, posts |-> n, got |-> g]
    BY <2>1, Zenon DEF RowAt
  <2>3. RowAt(q)' = [match |-> m, status |-> "queued", posts |-> 0, got |-> g]
    BY <1>1, <1>3, <2>1 DEF RowAt, StatusOf, Settled
  <2>4. RowAt(q)' = [r EXCEPT !.status = "queued", !.posts = 0]
    <3> DEFINE x == [r EXCEPT !.status = "queued"]
    <3>1. x = [match |-> m, status |-> "queued", posts |-> n, got |-> g]
      BY <2>2
    <3> HIDE DEF x
    <3>2. [x EXCEPT !.posts = 0] = [match |-> m, status |-> "queued", posts |-> 0, got |-> g]
      BY <3>1
    <3>3. QED
      BY <2>3, <3>2, Zenon DEF x
  <2>5. QED
    BY <2>1, <2>4
<1>7. \A q \in Rows \ rows : RowAt(q)' = RowAt(q)
  BY <1>1, <1>3 DEF RowAt
<1>8. again \in SUBSET {r \in Queue : r.match[1] = s /\ r.status # "delivered"}
  BY <1>4 DEF Queue, RowAt
<1>9. \A q \in Rows : Present(q) /\ q \notin rows => RowAt(q) \notin again
  BY <1>4, RowAtTellsApart
<1>10. Queue' = (Queue \ again) \cup {[r EXCEPT !.status = "queued", !.posts = 0] : r \in again}
  <2> DEFINE Again(r) == [r EXCEPT !.status = "queued", !.posts = 0]
  <2>1. \A q \in rows : RowAt(q)' = Again(RowAt(q))
    BY <1>6
  <2> HIDE DEF Again
  <2>2. Queue' \subseteq (Queue \ again) \cup {Again(r) : r \in again}
    BY <1>4, <1>5, <1>7, <1>9, <2>1 DEF Queue
  <2>3. {Again(r) : r \in again} \subseteq Queue'
    BY <1>4, <1>5, <2>1 DEF Queue
  <2>4. Queue \ again \subseteq Queue'
    BY <1>5, <1>7 DEF Queue
  <2>5. QED
    BY <2>2, <2>3, <2>4 DEF Again
<1> HIDE DEF again
<1>11. AsDelivery!Rearm(s)
  BY <1>1, <1>8, <1>10 DEF AsDelivery!Rearm, Queue, RowAt
<1>12. QED
  BY <1>11 DEF AsDelivery!Next

LEMMA DeleteMaps ==
    ASSUME TypeOK, RowsInv, NEW o \in Owner, NEW stmt \in Stmt, DeleteSubscription(o, stmt)
    PROVE  AsDelivery!Next \/ UNCHANGED AsDelivery!vars
<1>1. UNCHANGED <<received, tries>> /\ doing[o].sub \in Sub
  BY RunsTyped DEF DeleteSubscription
<1>2. PICK s \in Sub : s = doing[o].sub
  BY <1>1
<1>3. live' \in {live, live \ {s}}
  BY <1>2 DEF DeleteSubscription
<1>4. \A q \in Rows : deliveries'[q] = IF q \in RowsOf(s) THEN NoDelivery ELSE deliveries[q]
  BY <1>2 DEF DeleteSubscription, DeleteRows
<1>5. /\ \A q \in Rows : Present(q)' <=> Present(q) /\ deliveries[q].sub # s
      /\ \A q \in Rows : Present(q)' => RowAt(q)' = RowAt(q)
  BY <1>1, <1>4 DEF Present, RowsOf, RowAt, NoDelivery
<1>6. \A q \in Rows : RowAt(q).match[1] = deliveries[q].sub
  BY DEF RowAt
<1>7. Queue' = {r \in Queue : r.match[1] # s}
  BY <1>5, <1>6 DEF Queue
<1>8. AsDelivery!Forget(s)
  BY <1>3, <1>7 DEF AsDelivery!Forget, Queue, RowAt
<1>9. QED
  BY <1>8 DEF AsDelivery!Next

LEMMA CreateMaps ==
    ASSUME TypeOK, NEW c \in Creator, CreateSubscription(c)
    PROVE  AsDelivery!Next \/ UNCHANGED AsDelivery!vars
<1>1. PICK s \in Sub \ used : live' = live \cup {s}
  BY DEF CreateSubscription
<1>2. s \notin live
  BY <1>1 DEF TypeOK, StoreTyped
<1>3. UNCHANGED <<deliveries, tries, received>>
  BY DEF CreateSubscription
<1>4. AsDelivery!Create(s)
  BY <1>1, <1>2, <1>3 DEF AsDelivery!Create, Present
<1>5. QED
  BY <1>4 DEF AsDelivery!Next

LEMMA FreshInit == Init => FreshInv
BY DEF Init, FreshInv

LEMMA FreshStep == TypeOK /\ RowsInv /\ BatchInv /\ FreshInv /\ [Next]_vars => FreshInv'
<1> SUFFICES ASSUME TypeOK, RowsInv, BatchInv, FreshInv, [Next]_vars
             PROVE  FreshInv'
  OBVIOUS
<1>1. CASE UNCHANGED <<lastSeq, tries, received>>
  BY <1>1 DEF FreshInv
<1>2. CASE UNCHANGED vars
  BY <1>1, <1>2 DEF vars, store, hist
<1>3. ASSUME NEW c \in Creator, CreatorStep(c)
      PROVE  UNCHANGED <<lastSeq, tries, received>>
  BY <1>3 DEF CreatorStep, CountForInstance, CreateSubscription, store, hist
<1>4. ASSUME NEW n \in Notifier, NotifierStep(n)
      PROVE  FreshInv'
  <2>1. CASE \E s \in Sub, e \in Event : Enqueue(n, s, e)
    <3>1. UNCHANGED <<tries, received>> /\ lastSeq' \in {lastSeq, lastSeq + 1} /\ lastSeq \in Nat
      BY <2>1, LimitAssumption DEF Enqueue, InsertDelivery, hist, TypeOK, StoreTyped
    <3>2. \A q \in Rows : q > lastSeq' => q > lastSeq
      BY <3>1, RowsFinite
    <3>3. QED
      BY <3>1, <3>2 DEF FreshInv
  <2>2. QED
    BY <1>1, <1>4, <2>1 DEF NotifierStep, NotifyAdvertised, LoseMatches, store
<1>5. ASSUME NEW o \in Owner, OwnerStep(o)
      PROVE  FreshInv'
  <2>1. CASE RearmDeliveries(o)
    BY <2>1 DEF RearmDeliveries, FreshInv
  <2>2. QED
    BY <1>1, <1>5, <2>1 DEF OwnerStep, BeginPatch, BeginDelete, Begin, UpdateSubscription,
                            DeleteSubscription, AbandonRequest, store, hist
<1>6. ASSUME NEW u \in Puller, PullerStep(u)
      PROVE  UNCHANGED <<lastSeq, tries, received>>
  BY <1>6 DEF PullerStep, BeginPull, ReadPage, ReadLatest, AnswerPull, store, hist
<1>7. (\E s \in Sub, c \in Cursors : Ack(s, c)) \/ BackoffElapses
        => UNCHANGED <<lastSeq, tries, received>>
  BY DEF Ack, BackoffElapses, hist
<1>8. CASE PostWebhook
  <2>1. PICK q \in Rows : q = Current.seq /\ q <= lastSeq
    BY <1>8, BatchIndexed DEF PostWebhook, BatchInv
  <2>2. /\ lastSeq' = lastSeq /\ tries' = [tries EXCEPT ![q] = @ + 1]
        /\ received' \in {received, received \cup {q}}
    BY <1>8, <2>1 DEF PostWebhook, store
  <2>3. \A p \in Rows : p > lastSeq => p # q
    <3>1. lastSeq \in Nat
      BY LimitAssumption DEF TypeOK, StoreTyped
    <3>2. \A p \in Rows : p \in Nat
      BY RowsFinite
    <3>3. QED
      BY <2>1, <3>1, <3>2
  <2>4. QED
    BY <2>2, <2>3 DEF FreshInv, TypeOK, HistTyped
<1>9. CASE FetchDue \/ MarkDelivered \/ ResetFailures \/ ReadAttempts \/ MarkFailed \/ CountFailure
            \/ CheckFailures \/ Suspend \/ WorkerError \/ Crash
  BY <1>1, <1>9 DEF FetchDue, MarkDelivered, ResetFailures, ReadAttempts, MarkFailed,
     CountFailure, CheckFailures, Suspend, WorkerError, Crash, store, hist
<1>10. QED
  BY <1>1, <1>2, <1>3, <1>4, <1>5, <1>6, <1>7, <1>8, <1>9 DEF Next, WorkerStep

LEMMA QueueMaps ==
    TypeOK /\ RowsInv /\ BatchInv /\ FreshInv /\ [Next]_vars => [AsDelivery!Next]_(AsDelivery!vars)
<1> SUFFICES ASSUME TypeOK, RowsInv, BatchInv, FreshInv, [Next]_vars
             PROVE  AsDelivery!Next \/ UNCHANGED AsDelivery!vars
  OBVIOUS
<1> DEFINE Stutter == UNCHANGED <<live, deliveries, tries, received>>
<1>1. CASE Stutter
  BY <1>1, UnchangedStutters
<1>2. CASE UNCHANGED vars
  BY <1>1, <1>2 DEF vars, store, hist
<1>4. ASSUME NEW c \in Creator, CreatorStep(c)
      PROVE  AsDelivery!Next \/ UNCHANGED AsDelivery!vars
  <2>1. (\E i \in Instance : CountForInstance(c, i)) => Stutter
    BY DEF CountForInstance, store, hist
  <2>2. QED
    BY <1>1, <1>4, <2>1, CreateMaps DEF CreatorStep
<1>5. ASSUME NEW n \in Notifier, NotifierStep(n)
      PROVE  AsDelivery!Next \/ UNCHANGED AsDelivery!vars
  <2>1. (\E events \in SUBSET Event \ {{}} : NotifyAdvertised(n, events)) \/ LoseMatches(n)
          => Stutter
    BY DEF NotifyAdvertised, LoseMatches, store
  <2>2. QED
    BY <1>1, <1>5, <2>1, EnqueueMaps DEF NotifierStep
<1>6. ASSUME NEW o \in Owner, OwnerStep(o)
      PROVE  AsDelivery!Next \/ UNCHANGED AsDelivery!vars
  <2>1. ASSUME NEW stmt, UpdateSubscription(o, stmt)
        PROVE  Stutter
    BY <2>1 DEF UpdateSubscription
  <2>2. (\E s \in Sub, p \in Patches : BeginPatch(o, s, p)) \/ (\E s \in Sub : BeginDelete(o, s))
          \/ AbandonRequest(o) => Stutter
    BY DEF BeginPatch, BeginDelete, Begin, AbandonRequest, store, hist
  <2>3. {"delete rows", "delete"} \subseteq Stmt
    BY DEF Stmt
  <2>4. QED
    BY <1>1, <1>6, <2>1, <2>2, <2>3, RearmMaps, DeleteMaps DEF OwnerStep
<1>7. ASSUME NEW u \in Puller, PullerStep(u)
      PROVE  Stutter
  BY <1>7 DEF PullerStep, BeginPull, ReadPage, ReadLatest, AnswerPull, store, hist
<1>8. (\E s \in Sub, c \in Cursors : Ack(s, c)) \/ BackoffElapses \/ WorkerError \/ Crash => Stutter
  BY DEF Ack, BackoffElapses, WorkerError, Crash, store, hist
<1>9. FetchDue \/ ResetFailures \/ ReadAttempts \/ CountFailure \/ CheckFailures \/ Suspend
        => Stutter
  BY DEF FetchDue, ResetFailures, ReadAttempts, CountFailure, CheckFailures, Suspend, store, hist
<1>10. QED
  BY <1>1, <1>2, <1>4, <1>5, <1>6, <1>7, <1>8, <1>9, PostMaps, MarkDeliveredMaps, MarkFailedMaps
     DEF Next, WorkerStep

LEMMA QueueMapsInit == Init => AsDelivery!Init
<1> SUFFICES ASSUME Init PROVE AsDelivery!Init
  OBVIOUS
<1>1. live \subseteq Sub
  BY SubscriptionAssumption DEF Init
<1>2. \A q \in Rows : ~Present(q)
  BY DEF Init, Present, NoDelivery
<1>3. QED
  BY <1>1, <1>2 DEF AsDelivery!Init

(* The queue of statements, batches, backoffs, resumes and deletes is the    *)
(* queue of Delivery: a row is queued once and only while its subscription   *)
(* is live, POSTed only while queued, delivered only if it was received, and *)
(* never touched again once delivered, until its subscription takes it away. *)
THEOREM QueueIsDelivery == Spec => ImplementsDelivery
<1>1. Spec => [](TypeOK /\ RowsInv /\ BatchInv /\ FreshInv)
  BY FreshInit, FreshStep, TypeCorrect, RowsAlways, QueueAlways, PTL DEF Spec
<1>2. QED
  BY <1>1, QueueMapsInit, QueueMaps, PTL DEF Spec, ImplementsDelivery, AsDelivery!Spec

(***************************************************************************)
(* Pages and cursors.                                                      *)
(***************************************************************************)
(* Rows are only added at the end; what was handed out stays so.             *)
OnlyGrow ==
    /\ lastSeq <= lastSeq' /\ pulled \subseteq pulled'
    /\ \A s \in Sub : asked[s] <= asked'[s]
    /\ \A q \in Rows : Present(q)' =>
         (Present(q) /\ deliveries'[q].sub = deliveries[q].sub) \/ q > lastSeq

LEMMA PullTyped ==
    ASSUME TypeOK
    PROVE  /\ lastSeq \in Nat
           /\ \A s \in Sub : asked[s] \in Nat /\ subs[s].cursor \in Nat
           /\ \A u \in Puller : /\ pulling[u] \in Pull
                                /\ pulling[u].from \in Nat /\ pulling[u].upto \in Nat
                                /\ pulling[u].pc # "idle" => pulling[u].sub \in Sub
           /\ live \subseteq Sub
           /\ \A q \in Rows : q \in Nat /\ q > 0
<1>1. \A q \in Rows : q \in Nat
  BY RowsFinite
<1>2. \A q \in Rows : q > 0
  BY <1>1 DEF Rows
<1>3. QED
  BY <1>1, <1>2, LimitAssumption
     DEF TypeOK, StoreTyped, TasksTyped, HistTyped, SubRow, Pull

LEMMA ShownKept ==
    ASSUME TypeOK, OnlyGrow, lastSeq' \in Nat, NEW s \in Sub, asked'[s] \in Nat, NEW c \in Nat,
           Shown(s, c)
    PROVE  Shown(s, c)'
<1>1. /\ lastSeq \in Nat /\ asked[s] \in Nat /\ lastSeq <= lastSeq' /\ asked[s] <= asked'[s]
      /\ pulled \subseteq pulled'
  BY PullTyped DEF OnlyGrow
<1>2. c <= lastSeq' \/ c <= asked'[s]
  BY <1>1 DEF Shown
<1>3. ASSUME NEW q \in Rows, q \in RowsOf(s)', q <= c
      PROVE  q \in pulled' \/ q <= asked'[s]
  <2>1. q \in Nat
    BY PullTyped
  <2>2. CASE q \in RowsOf(s)
    BY <1>1, <1>3, <2>1, <2>2 DEF Shown
  <2>3. CASE q > lastSeq
    <3>1. c <= asked[s]
      BY <1>1, <1>3, <2>1, <2>3 DEF Shown
    <3>2. QED
      BY <1>1, <1>3, <2>1, <3>1
  <2>4. QED
    BY <1>3, <2>2, <2>3 DEF OnlyGrow, RowsOf
<1>4. \A q \in RowsOf(s)' : q \in Rows
  BY DEF RowsOf
<1>5. QED
  BY <1>2, <1>3, <1>4 DEF Shown

LEMMA WorkerKeepsShown ==
    ASSUME TypeOK, WorkerStep \/ WorkerError
    PROVE  UNCHANGED <<asked, pulled, pulling>>
<1>1. WorkerStep => UNCHANGED <<asked, pulled, pulling>>
  BY DEF WorkerStep, FetchDue, PostWebhook, MarkDelivered, ResetFailures, ReadAttempts,
         MarkFailed, CountFailure, CheckFailures, Suspend, tasks, hist
<1>2. WorkerError => UNCHANGED <<asked, pulled, pulling>>
  BY DEF WorkerError, tasks, hist
<1>3. QED
  BY <1>1, <1>2

LEMMA OwnerKeepsShown ==
    ASSUME NEW o \in Owner, OwnerStep(o)
    PROVE  UNCHANGED <<asked, pulled, pulling, lastSeq>>
BY DEF OwnerStep, BeginPatch, BeginDelete, Begin, UpdateSubscription, RearmDeliveries,
       DeleteSubscription, AbandonRequest, store, hist

LEMMA PullerAsks ==
    ASSUME TypeOK, NEW u \in Puller, PullerStep(u)
    PROVE  pulled \subseteq pulled' /\ \A s \in Sub : asked[s] <= asked'[s]
<1>1. \A s \in Sub : asked[s] \in Nat
  BY PullTyped
<1>2. ASSUME NEW s \in Sub, BeginPull(u, s)
      PROVE  pulled \subseteq pulled' /\ \A x \in Sub : asked[x] <= asked'[x]
  <2>1. pulled' = pulled
    BY <1>2 DEF BeginPull
  <2>2. CASE asked' = asked
    BY <1>1, <2>1, <2>2
  <2>3. ASSUME NEW c \in Cursors, asked' = [asked EXCEPT ![s] = Larger(@, c)]
        PROVE  \A x \in Sub : asked[x] <= asked'[x]
    <3>1. asked[s] <= Larger(asked[s], c)
      BY <1>1, SubscriptionAssumption, LargerTyped
    <3>2. QED
      BY <1>1, <2>3, <3>1 DEF TypeOK, HistTyped
  <2>4. QED
    BY <1>2, <2>1, <2>2, <2>3 DEF BeginPull
<1>3. CASE ReadPage(u) \/ ReadLatest(u) \/ AnswerPull(u)
  <2>1. asked' = asked /\ pulled \subseteq pulled'
    BY <1>3 DEF ReadPage, ReadLatest, AnswerPull, hist
  <2>2. QED
    BY <1>1, <2>1
<1>4. QED
  BY <1>2, <1>3, <1>1 DEF PullerStep

LEMMA KeysKeptGrow ==
    ASSUME TypeOK, KeysKept, pulled \subseteq pulled', \A s \in Sub : asked[s] <= asked'[s]
    PROVE  OnlyGrow
<1>1. lastSeq \in Nat /\ lastSeq' = lastSeq
  BY PullTyped DEF KeysKept
<1>2. lastSeq <= lastSeq'
  BY <1>1
<1>3. QED
  BY <1>2 DEF KeysKept, OnlyGrow, Present

LEMMA GrowStep == TypeOK /\ RowsInv /\ Next => OnlyGrow
<1> SUFFICES ASSUME TypeOK, RowsInv, Next PROVE OnlyGrow
  OBVIOUS
<1>0. lastSeq \in Nat /\ lastSeq <= lastSeq /\ \A s \in Sub : asked[s] \in Nat /\ asked[s] <= asked[s]
  BY PullTyped
<1>1. CASE UNCHANGED <<deliveries, lastSeq, pulled, asked>>
  BY <1>0, <1>1 DEF OnlyGrow, Present
<1>2. ASSUME NEW c \in Creator, CreatorStep(c)
      PROVE  UNCHANGED <<deliveries, lastSeq, pulled, asked>>
  BY <1>2 DEF CreatorStep, CountForInstance, CreateSubscription, store, hist
<1>3. ASSUME NEW n \in Notifier, NotifierStep(n)
      PROVE  OnlyGrow
  <2>1. ASSUME NEW s \in Sub, NEW e \in Event, Enqueue(n, s, e), InsertDelivery(s, e)
        PROVE  OnlyGrow
    <3>1. PICK r \in Rows : r = lastSeq + 1 /\ lastSeq' = r /\ r > lastSeq
      BY <2>1, <1>0, LimitAssumption DEF InsertDelivery, TypeOK, StoreTyped, Rows
    <3>2. \A q \in Rows \ {r} : deliveries'[q] = deliveries[q]
      BY <2>1, <3>1 DEF InsertDelivery, TypeOK, StoreTyped
    <3>3. UNCHANGED <<pulled, asked>> /\ lastSeq <= lastSeq'
      BY <2>1, <1>0, <3>1 DEF Enqueue, hist
    <3>4. QED
      BY <1>0, <3>1, <3>2, <3>3 DEF OnlyGrow, Present
  <2>2. ASSUME NEW s \in Sub, NEW e \in Event, Enqueue(n, s, e), ~InsertDelivery(s, e)
        PROVE  UNCHANGED <<deliveries, lastSeq, pulled, asked>>
    BY <2>2 DEF Enqueue, hist
  <2>3. (\E events \in SUBSET Event \ {{}} : NotifyAdvertised(n, events)) \/ LoseMatches(n)
          => UNCHANGED <<deliveries, lastSeq, pulled, asked>>
    BY DEF NotifyAdvertised, LoseMatches, store
  <2>4. QED
    BY <1>1, <1>3, <2>1, <2>2, <2>3 DEF NotifierStep
<1>4. ASSUME NEW o \in Owner, OwnerStep(o)
      PROVE  OnlyGrow
  <2>1. UNCHANGED <<asked, pulled, lastSeq>>
    BY <1>4, OwnerKeepsShown
  <2>2. CASE KeysKept
    BY <1>0, <2>1, <2>2, KeysKeptGrow
  <2>3. ASSUME NEW stmt, DeleteSubscription(o, stmt)
        PROVE  \A q \in Rows : Present(q)' => Present(q) /\ deliveries'[q] = deliveries[q]
    BY <2>3 DEF DeleteSubscription, DeleteRows, Present, NoDelivery
  <2>4. CASE \E stmt \in {"delete rows", "delete"} : DeleteSubscription(o, stmt)
    BY <1>0, <2>1, <2>3, <2>4 DEF OnlyGrow
  <2>5. QED
    BY <1>4, <2>2, <2>4, OwnerKeepsKeys
<1>5. ASSUME NEW u \in Puller, PullerStep(u)
      PROVE  OnlyGrow
  BY <1>5, PullerKeepsKeys, PullerAsks, KeysKeptGrow
<1>6. ASSUME NEW s \in Sub, NEW c \in Cursors, Ack(s, c)
      PROVE  OnlyGrow
  <2>1. asked[s] <= Larger(asked[s], c)
    BY <1>0, SubscriptionAssumption, LargerTyped
  <2>2. pulled' = pulled /\ asked' = [asked EXCEPT ![s] = Larger(@, c)]
    BY <1>6 DEF Ack
  <2>3. \A x \in Sub : asked[x] <= asked'[x]
    BY <1>0, <2>1, <2>2 DEF TypeOK, HistTyped
  <2>4. QED
    BY <1>6, <2>2, <2>3, PullerKeepsKeys, KeysKeptGrow
<1>7. CASE BackoffElapses
  BY <1>1, <1>7 DEF BackoffElapses, hist
<1>8. CASE WorkerStep \/ WorkerError
  <2>1. UNCHANGED <<asked, pulled>>
    BY <1>8, WorkerKeepsShown
  <2>2. QED
    BY <1>0, <1>8, <2>1, WorkerKeepsKeys, KeysKeptGrow
<1>9. CASE Crash
  BY <1>1, <1>9 DEF Crash, store
<1>10. QED
  BY <1>1, <1>2, <1>3, <1>4, <1>5, <1>6, <1>7, <1>8, <1>9 DEF Next

(* What was shown of one subscription and one pull stays shown.              *)
PullShown(u) ==
    /\ pulling[u].pc # "idle" => Shown(pulling[u].sub, pulling[u].from)
    /\ pulling[u].pc \in {"latest", "ack"} => Shown(pulling[u].sub, pulling[u].upto)

LEMMA ShownStays ==
    ASSUME TypeOK, TypeOK', OnlyGrow, CursorInv
    PROVE  /\ \A s \in Sub, c \in Nat : Shown(s, c) => Shown(s, c)'
           /\ \A s \in Sub : Shown(s, 0)'
           /\ \A s \in live : subs'[s].cursor = subs[s].cursor => Shown(s, subs[s].cursor)'
           /\ \A u \in Puller : pulling'[u] = pulling[u] => PullShown(u)'
<1>0. lastSeq' \in Nat /\ \A s \in Sub : asked'[s] \in Nat
  BY LimitAssumption DEF TypeOK, StoreTyped, HistTyped
<1>1. \A s \in Sub, c \in Nat : Shown(s, c) => Shown(s, c)'
  BY <1>0, ShownKept
<1>2. \A s \in Sub : Shown(s, 0)'
  <2>1. \A q \in Rows : ~(q <= 0)
    BY PullTyped
  <2>2. 0 <= lastSeq'
    BY <1>0
  <2>3. QED
    BY <2>1, <2>2 DEF Shown, RowsOf
<1>3. ASSUME NEW s \in live, subs'[s].cursor = subs[s].cursor
      PROVE  Shown(s, subs[s].cursor)'
  <2>1. PICK c \in Nat : c = subs[s].cursor /\ c = subs'[s].cursor /\ s \in Sub
    BY <1>3, PullTyped
  <2>2. Shown(s, c)'
    BY <1>1, <2>1 DEF CursorInv
  <2>3. QED
    BY <2>1, <2>2 DEF Shown, RowsOf
<1>4. ASSUME NEW u \in Puller, pulling'[u] = pulling[u]
      PROVE  PullShown(u)'
  <2>1. CASE pulling[u].pc = "idle"
    BY <1>4, <2>1 DEF PullShown
  <2>2. CASE pulling[u].pc # "idle"
    <3>1. PICK s \in Sub, from \in Nat, upto \in Nat :
            s = pulling[u].sub /\ from = pulling[u].from /\ upto = pulling[u].upto
      BY <2>2, PullTyped
    <3>2. Shown(s, from)' /\ (pulling[u].pc \in {"latest", "ack"} => Shown(s, upto)')
      BY <1>1, <2>2, <3>1 DEF CursorInv
    <3>3. QED
      BY <1>4, <3>1, <3>2 DEF PullShown, Shown, RowsOf
  <2>3. QED
    BY <2>1, <2>2
<1>5. QED
  BY <1>1, <1>2, <1>3, <1>4

(* No statement but an acknowledgement moves a cursor.                       *)
CursorsKept == \A s \in live' :
    subs'[s].cursor = 0 \/ (s \in live /\ subs'[s].cursor = subs[s].cursor)

LEMMA CursorsShown ==
    ASSUME TypeOK, TypeOK', OnlyGrow, CursorInv, CursorsKept
    PROVE  \A s \in live' : Shown(s, subs[s].cursor)'
<1> SUFFICES ASSUME NEW s \in live'
             PROVE  Shown(s, subs[s].cursor)'
  OBVIOUS
<1>1. s \in Sub
  BY DEF TypeOK, StoreTyped
<1>2. CASE subs'[s].cursor = 0
  <2>1. Shown(s, 0)'
    BY <1>1, ShownStays
  <2>2. QED
    BY <1>2, <2>1 DEF Shown, RowsOf
<1>3. CASE s \in live /\ subs'[s].cursor = subs[s].cursor
  BY <1>3, ShownStays
<1>4. QED
  BY <1>2, <1>3 DEF CursorsKept

LEMMA CursorFramed ==
    ASSUME TypeOK, TypeOK', OnlyGrow, CursorInv, CursorsKept,
           \A u \in Puller : pulling'[u] = pulling[u] \/ pulling'[u].pc = "idle"
    PROVE  CursorInv'
<1>1. \A u \in Puller : PullShown(u)'
  BY ShownStays DEF PullShown
<1>2. QED
  BY <1>1, CursorsShown DEF CursorInv, PullShown

(* Up to its end, a page that started at a shown cursor leaves nothing out.  *)
LEMMA PageShows ==
    ASSUME TypeOK, RowsInv, NEW s \in Sub, NEW c \in Nat, Shown(s, c)
    PROVE  /\ LastOf(Page(s, c), c) <= lastSeq \/ LastOf(Page(s, c), c) <= asked[s]
           /\ \A q \in RowsOf(s) : q <= LastOf(Page(s, c), c) =>
                q \in pulled \cup Page(s, c) \/ q <= asked[s]
<1> DEFINE upto == LastOf(Page(s, c), c)
<1>1. /\ Page(s, c) \in SUBSET Rows /\ upto \in Page(s, c) \cup {c} /\ upto \in Nat
  BY PageTyped
<1>2. \A q \in Page(s, c) : q <= lastSeq
  BY DEF Page, After, RowsOf, RowsInv
<1> HIDE DEF upto
<1>3. upto <= lastSeq \/ upto <= asked[s]
  BY <1>1, <1>2 DEF Shown
<1>4. ASSUME NEW q \in RowsOf(s), q <= upto
      PROVE  q \in pulled \cup Page(s, c) \/ q <= asked[s]
  <2>1. q \in Rows /\ q \in Nat
    BY PullTyped DEF RowsOf
  <2>2. CASE q <= c
    BY <2>2 DEF Shown
  <2>3. CASE ~(q <= c)
    <3>1. upto \in Page(s, c) /\ q \in After(s, c)
      BY <1>1, <1>4, <2>1, <2>3 DEF After
    <3> DEFINE A == {p \in After(s, c) : p < upto}
               B == {p \in After(s, c) : p < q}
    <3>2. Cardinality(A) < PageLimit
      BY <3>1 DEF Page
    <3>3. A \in SUBSET Rows /\ \A p \in After(s, c) : p \in Nat
      BY PullTyped DEF After, RowsOf
    <3>4. B \in SUBSET A
      BY <1>1, <1>4, <2>1, <3>3
    <3>5. Cardinality(B) <= Cardinality(A) /\ Cardinality(A) \in Nat /\ Cardinality(B) \in Nat
      BY <3>3, <3>4, RowsFinite, FS_Subset, FS_CardinalityType
    <3> HIDE DEF A
    <3>6. Cardinality(B) < PageLimit
      BY <3>2, <3>5, LimitAssumption
    <3>7. QED
      BY <3>1, <3>6 DEF Page
  <2>4. QED
    BY <2>2, <2>3
<1>5. QED
  BY <1>3, <1>4 DEF upto

LEMMA BeginPullCursor ==
    ASSUME TypeOK, TypeOK', OnlyGrow, CursorInv, NEW u \in Puller, NEW s \in Sub, BeginPull(u, s)
    PROVE  CursorInv'
<1>1. /\ s \in live /\ live' = live /\ subs' = subs /\ lastSeq' = lastSeq
  BY DEF BeginPull, store
<1>2. PICK c \in Nat : /\ pulling' = [pulling EXCEPT ![u] =
                              [NoPull EXCEPT !.pc = "page", !.sub = s, !.from = c]]
                       /\ c = subs[s].cursor \/ asked' = [asked EXCEPT ![s] = Larger(@, c)]
  BY PullTyped, SubscriptionAssumption DEF BeginPull
<1>3. /\ pulling'[u].pc = "page" /\ pulling'[u].sub = s /\ pulling'[u].from = c
      /\ \A v \in Puller \ {u} : pulling'[v] = pulling[v]
  BY <1>2 DEF TypeOK, TasksTyped, NoPull
<1>4. \A x \in Sub : asked'[x] \in Nat /\ asked[x] \in Nat
  BY DEF TypeOK, HistTyped
<1>5. Shown(s, c)'
  <2>1. CASE c = subs[s].cursor
    <3>1. Shown(s, c)
      BY <1>1, <2>1 DEF CursorInv
    <3>2. QED
      BY <3>1, ShownStays
  <2>2. CASE asked' = [asked EXCEPT ![s] = Larger(@, c)]
    <3>1. c <= asked'[s]
      BY <1>4, <2>2, LargerTyped DEF TypeOK, HistTyped
    <3>2. \A q \in Rows : q \in Nat
      BY PullTyped
    <3>3. \A q \in Rows : q <= c => q <= asked'[s]
      BY <1>4, <3>1, <3>2
    <3>4. QED
      BY <3>1, <3>3 DEF Shown, RowsOf
  <2>3. QED
    BY <1>2, <2>1, <2>2
<1>6. \A x \in live' : Shown(x, subs[x].cursor)'
  BY <1>1, CursorsShown DEF CursorsKept
<1>7. \A v \in Puller : PullShown(v)'
  <2>1. PullShown(u)'
    BY <1>3, <1>5 DEF PullShown, Shown, RowsOf
  <2>2. QED
    BY <1>3, <2>1, ShownStays
<1>8. QED
  BY <1>6, <1>7 DEF CursorInv, PullShown

LEMMA ReadPageCursor ==
    ASSUME TypeOK, TypeOK', RowsInv, OnlyGrow, CursorInv, NEW u \in Puller, ReadPage(u)
    PROVE  CursorInv'
<1>1. UNCHANGED <<live, subs, deliveries, lastSeq, asked>>
  BY DEF ReadPage, store
<1>2. PICK s \in Sub, c \in Nat : s = pulling[u].sub /\ c = pulling[u].from
  BY PullTyped DEF ReadPage
<1>3. Shown(s, c)
  BY <1>2 DEF CursorInv, ReadPage
<1>4. PICK upto \in Nat : upto = LastOf(Page(s, c), c)
  BY PageTyped
<1>5. pulled' = pulled \cup Page(s, c)
  BY <1>2 DEF ReadPage
<1>6. /\ pulling'[u].sub = s /\ pulling'[u].from = c /\ pulling'[u].upto = upto
      /\ \A v \in Puller \ {u} : pulling'[v] = pulling[v]
  BY <1>2, <1>4 DEF ReadPage, TypeOK, TasksTyped, Pull
<1>7. Shown(s, c)'
  BY <1>3, ShownStays
<1>8. Shown(s, upto)'
  <2>1. /\ upto <= lastSeq \/ upto <= asked[s]
        /\ \A q \in RowsOf(s) : q <= upto => q \in pulled \cup Page(s, c) \/ q <= asked[s]
    BY <1>3, <1>4, PageShows
  <2>2. QED
    BY <1>1, <1>5, <2>1 DEF Shown, RowsOf, Present
<1>9. PullShown(u)'
  BY <1>6, <1>7, <1>8 DEF PullShown, Shown, RowsOf
<1>10. \A x \in live' : Shown(x, subs[x].cursor)'
  BY <1>1, CursorsShown DEF CursorsKept
<1>11. QED
  BY <1>6, <1>9, <1>10, ShownStays DEF CursorInv, PullShown

LEMMA ReadLatestCursor ==
    ASSUME TypeOK, TypeOK', OnlyGrow, CursorInv, NEW u \in Puller, ReadLatest(u)
    PROVE  CursorInv'
<1>1. UNCHANGED <<live, subs>>
  BY DEF ReadLatest, store
<1>2. PICK s \in Sub, c \in Nat, upto \in Nat :
        s = pulling[u].sub /\ c = pulling[u].from /\ upto = pulling[u].upto
  BY PullTyped DEF ReadLatest
<1>3. Shown(s, c) /\ Shown(s, upto)
  BY <1>2 DEF CursorInv, ReadLatest
<1>4. Shown(s, c)' /\ Shown(s, upto)'
  BY <1>3, ShownStays
<1>5. /\ pulling'[u].sub = s /\ pulling'[u].from = c /\ pulling'[u].upto = upto
      /\ \A v \in Puller \ {u} : pulling'[v] = pulling[v]
  <2> DEFINE latest == Latest(pulling[u].sub)
             more == IF latest > pulling[u].upto THEN latest - pulling[u].upto ELSE 0
             left == Cardinality(After(pulling[u].sub, pulling[u].upto))
  <2>1. pulling' = [pulling EXCEPT ![u].pc = "ack", ![u].remaining = more, ![u].left = left]
    BY DEF ReadLatest
  <2> HIDE DEF more, left
  <2>2. QED
    BY <1>2, <2>1 DEF TypeOK, TasksTyped, Pull
<1>6. PullShown(u)'
  BY <1>4, <1>5 DEF PullShown, Shown, RowsOf
<1>7. \A x \in live' : Shown(x, subs[x].cursor)'
  BY <1>1, CursorsShown DEF CursorsKept
<1>8. QED
  BY <1>5, <1>6, <1>7, ShownStays DEF CursorInv, PullShown

(* An acknowledgement up to a cursor that was shown.                         *)
LEMMA AcknowledgeShown ==
    ASSUME TypeOK, TypeOK', OnlyGrow, CursorInv, NEW s \in Sub, NEW c \in Nat,
           Acknowledge(s, c) \/ subs' = subs, Shown(s, c)', live' = live
    PROVE  \A x \in live' : Shown(x, subs[x].cursor)'
<1> SUFFICES ASSUME NEW x \in live
             PROVE  Shown(x, subs[x].cursor)'
  OBVIOUS
<1>1. x \in Sub /\ subs[x].cursor \in Nat
  BY PullTyped
<1>2. CASE subs'[x].cursor = subs[x].cursor
  BY <1>2, ShownStays
<1>3. CASE subs'[x].cursor # subs[x].cursor
  <2>1. subs' = [subs EXCEPT ![s].cursor = Larger(@, c)]
    BY <1>3 DEF Acknowledge
  <2>2. x = s /\ subs'[s].cursor = Larger(subs[s].cursor, c)
    BY <1>1, <1>3, <2>1 DEF TypeOK, StoreTyped, SubRow
  <2>3. subs'[s].cursor = c
    BY <1>1, <1>3, <2>2, LargerTyped
  <2>4. QED
    BY <2>2, <2>3 DEF Shown, RowsOf
<1>4. QED
  BY <1>2, <1>3

LEMMA AnswerPullCursor ==
    ASSUME TypeOK, TypeOK', OnlyGrow, CursorInv, NEW u \in Puller, AnswerPull(u)
    PROVE  CursorInv'
<1>1. live' = live
  BY DEF AnswerPull
<1>2. PICK s \in Sub, upto \in Nat : s = pulling[u].sub /\ upto = pulling[u].upto
  BY PullTyped DEF AnswerPull
<1>3. Shown(s, upto)
  BY <1>2 DEF CursorInv, AnswerPull
<1>4. Shown(s, upto)'
  BY <1>3, ShownStays
<1>5. Acknowledge(s, upto) \/ subs' = subs
  BY <1>2 DEF AnswerPull
<1>6. \A x \in live' : Shown(x, subs[x].cursor)'
  BY <1>1, <1>4, <1>5, AcknowledgeShown
<1>7. \A v \in Puller : PullShown(v)'
  <2>1. pulling'[u].pc = "idle" /\ \A v \in Puller \ {u} : pulling'[v] = pulling[v]
    BY DEF AnswerPull, NoPull, TypeOK, TasksTyped
  <2>2. QED
    BY <2>1, ShownStays DEF PullShown
<1>8. QED
  BY <1>6, <1>7 DEF CursorInv, PullShown

LEMMA AckCursor ==
    ASSUME TypeOK, TypeOK', OnlyGrow, CursorInv, NEW s \in Sub, NEW c \in Cursors, Ack(s, c)
    PROVE  CursorInv'
<1>1. /\ live' = live /\ pulling' = pulling /\ Acknowledge(s, c) /\ c \in Nat
      /\ asked' = [asked EXCEPT ![s] = Larger(@, c)]
  BY SubscriptionAssumption DEF Ack, tasks
<1>2. asked[s] \in Nat /\ asked'[s] \in Nat
  BY DEF TypeOK, HistTyped
<1>3. c <= asked'[s]
  BY <1>1, <1>2, LargerTyped DEF TypeOK, HistTyped
<1>4. \A q \in Rows : q \in Nat
  BY PullTyped
<1>5. \A q \in Rows : q <= c => q <= asked'[s]
  BY <1>1, <1>2, <1>3, <1>4
<1>6. Shown(s, c)'
  BY <1>3, <1>5 DEF Shown, RowsOf
<1>7. \A x \in live' : Shown(x, subs[x].cursor)'
  BY <1>1, <1>6, AcknowledgeShown
<1>8. QED
  BY <1>1, <1>7, ShownStays DEF CursorInv, PullShown

LEMMA WorkerKeepsCursors ==
    ASSUME TypeOK, WorkerStep \/ WorkerError
    PROVE  CursorsKept
<1>1. CASE UNCHANGED <<live, subs>>
  BY <1>1 DEF CursorsKept
<1>2. ASSUME live' = live, NEW n, subs' = [subs EXCEPT ![Current.sub].failures = n]
      PROVE  CursorsKept
  BY <1>2, PullTyped DEF CursorsKept, TypeOK, StoreTyped, SubRow
<1>3. ASSUME live' = live, subs' = [subs EXCEPT ![Current.sub].active = FALSE]
      PROVE  CursorsKept
  BY <1>3, PullTyped DEF CursorsKept, TypeOK, StoreTyped, SubRow
<1>4. CASE ResetFailures
  BY <1>1, <1>2, <1>4 DEF ResetFailures, SetFailures
<1>5. CASE CountFailure
  BY <1>1, <1>2, <1>5 DEF CountFailure, SetFailures
<1>6. CASE Suspend
  BY <1>1, <1>3, <1>6 DEF Suspend
<1>7. CASE FetchDue \/ PostWebhook \/ MarkDelivered \/ ReadAttempts \/ MarkFailed \/ CheckFailures
           \/ WorkerError
  BY <1>1, <1>7 DEF FetchDue, PostWebhook, MarkDelivered, ReadAttempts, MarkFailed,
                    CheckFailures, WorkerError, store
<1>8. QED
  BY <1>4, <1>5, <1>6, <1>7 DEF WorkerStep

LEMMA OwnerKeepsCursors ==
    ASSUME TypeOK, NEW o \in Owner, OwnerStep(o)
    PROVE  CursorsKept
<1>1. CASE UNCHANGED <<live, subs>>
  BY <1>1 DEF CursorsKept
<1>2. ASSUME NEW stmt \in Stmt \ {"rearm", "delete rows", "delete"}, UpdateSubscription(o, stmt)
      PROVE  CursorsKept
  <2> DEFINE s == doing[o].sub
             new == Changed(s, stmt, doing[o].filter)
  <2>1. s \in Sub
    BY <1>2, RunsTyped DEF UpdateSubscription
  <2>2. new.cursor = subs[s].cursor
    <3>1. subs[s] \in SubRow
      BY <2>1 DEF TypeOK, StoreTyped
    <3>2. QED
      BY <3>1 DEF Changed, SubRow, Stmt
  <2>3. live' = live /\ (subs' = subs \/ subs' = [subs EXCEPT ![s] = new])
    BY <1>2 DEF UpdateSubscription
  <2> HIDE DEF s, new
  <2>4. QED
    BY <1>1, <2>1, <2>2, <2>3, PullTyped DEF CursorsKept, TypeOK, StoreTyped
<1>3. ASSUME NEW stmt, DeleteSubscription(o, stmt)
      PROVE  CursorsKept
  <2> DEFINE s == doing[o].sub
  <2>1. UNCHANGED <<live, subs>> \/ (live' = live \ {s} /\ subs' = [subs EXCEPT ![s] = NoSub])
    BY <1>3 DEF DeleteSubscription
  <2> HIDE DEF s
  <2>2. QED
    BY <1>1, <2>1, PullTyped DEF CursorsKept, TypeOK, StoreTyped
<1>4. QED
  BY <1>1, <1>2, <1>3 DEF OwnerStep, BeginPatch, BeginDelete, Begin, RearmDeliveries,
                          AbandonRequest, store

LEMMA CursorInit == Init => CursorInv
<1> SUFFICES ASSUME Init PROVE CursorInv
  OBVIOUS
<1>1. TypeOK
  BY TypeInit
<1>2. \A s \in Sub : Shown(s, 0)
  BY <1>1, PullTyped DEF Init, Shown, RowsOf, Present, NoDelivery
<1>3. \A s \in live : s \in Sub /\ subs[s].cursor = 0
  BY SubscriptionAssumption DEF Init, NewSub
<1>4. QED
  BY <1>2, <1>3 DEF Init, CursorInv, NoPull

LEMMA CursorStep == TypeOK /\ TypeOK' /\ RowsInv /\ CursorInv /\ [Next]_vars => CursorInv'
<1> SUFFICES ASSUME TypeOK, TypeOK', RowsInv, CursorInv, [Next]_vars
             PROVE  CursorInv'
  OBVIOUS
<1>1. CASE UNCHANGED vars
  BY <1>1 DEF vars, store, tasks, hist, CursorInv, Shown, RowsOf, Present
<1>2. Next => OnlyGrow
  BY GrowStep
<1>3. CASE OnlyGrow /\ CursorsKept /\ (UNCHANGED pulling \/ \A u \in Puller : pulling'[u].pc = "idle")
  BY <1>3, CursorFramed
<1>4. ASSUME NEW c \in Creator, CreatorStep(c)
      PROVE  CursorsKept /\ UNCHANGED pulling
  <2>1. CASE \E i \in Instance : CountForInstance(c, i)
    BY <2>1 DEF CountForInstance, store, CursorsKept
  <2>2. CASE CreateSubscription(c)
    <3>1. PICK s \in Sub, f \in Filters, hook \in BOOLEAN :
            /\ live' = live \cup {s}
            /\ subs' = [subs EXCEPT ![s] = NewSub(creating[c], f, hook)]
      BY <2>2 DEF CreateSubscription
    <3>2. subs'[s].cursor = 0 /\ \A x \in live \ {s} : subs'[x] = subs[x]
      BY <3>1, PullTyped DEF TypeOK, StoreTyped, NewSub
    <3>3. QED
      BY <2>2, <3>1, <3>2 DEF CreateSubscription, CursorsKept
  <2>3. QED
    BY <1>4, <2>1, <2>2 DEF CreatorStep
<1>5. ASSUME NEW n \in Notifier, NotifierStep(n)
      PROVE  CursorsKept /\ UNCHANGED pulling
  BY <1>5 DEF NotifierStep, NotifyAdvertised, Enqueue, LoseMatches, store, CursorsKept
<1>6. ASSUME NEW o \in Owner, OwnerStep(o)
      PROVE  CursorsKept /\ UNCHANGED pulling
  BY <1>6, OwnerKeepsCursors, OwnerKeepsShown
<1>7. ASSUME NEW u \in Puller, PullerStep(u), OnlyGrow
      PROVE  CursorInv'
  BY <1>7, BeginPullCursor, ReadPageCursor, ReadLatestCursor, AnswerPullCursor DEF PullerStep
<1>8. ASSUME NEW s \in Sub, NEW c \in Cursors, Ack(s, c), OnlyGrow
      PROVE  CursorInv'
  BY <1>8, AckCursor
<1>9. BackoffElapses => CursorsKept /\ UNCHANGED pulling
  BY DEF BackoffElapses, tasks, CursorsKept
<1>10. WorkerStep \/ WorkerError => CursorsKept /\ UNCHANGED pulling
  BY WorkerKeepsCursors, WorkerKeepsShown
<1>11. Crash => CursorsKept /\ \A u \in Puller : pulling'[u].pc = "idle"
  BY DEF Crash, store, NoPull, CursorsKept
<1>12. QED
  BY <1>1, <1>2, <1>3, <1>4, <1>5, <1>6, <1>7, <1>8, <1>9, <1>10, <1>11 DEF Next

(* An acknowledgement never skips a row nobody read, however many rows are   *)
(* written, deleted and acknowledged between the page and its ack, and       *)
(* whatever page size is in use.                                             *)
THEOREM AckNeverSkips == Spec => []PulledBeforeAcked
<1>1. CursorInv => PulledBeforeAcked
  BY DEF CursorInv, Shown, RowsOf, PulledBeforeAcked
<1>2. Spec => [](TypeOK /\ RowsInv)
  BY TypeCorrect, RowsAlways, PTL
<1>3. QED
  BY <1>1, <1>2, CursorInit, CursorStep, PTL DEF Spec

(***************************************************************************)
(* remaining.                                                              *)
(***************************************************************************)
LEMMA ReadLatestTells ==
    ASSUME TypeOK, RemainingTellsMore, NEW u \in Puller, ReadLatest(u)
    PROVE  RemainingTellsMore'
<1> DEFINE latest == Latest(pulling[u].sub)
           upto == pulling[u].upto
           after == After(pulling[u].sub, upto)
           more == IF latest > upto THEN latest - upto ELSE 0
           left == Cardinality(after)
<1>1. /\ upto \in Nat /\ latest \in Nat /\ latest \in RowsOf(pulling[u].sub) \cup {0}
      /\ \A q \in RowsOf(pulling[u].sub) : q \in Nat /\ q <= latest
  BY PullTyped, PageTyped DEF RowsOf
<1>2. latest > upto <=> after # {}
  BY <1>1 DEF After
<1>3. more = 0 <=> ~(latest > upto)
  BY <1>1
<1>4. left = 0 <=> after = {}
  <2>1. after \in SUBSET Rows
    BY DEF After, RowsOf
  <2>2. QED
    BY <2>1, RowsFinite, FS_EmptySet
<1>5. pulling' = [pulling EXCEPT ![u].pc = "ack", ![u].remaining = more, ![u].left = left]
  BY DEF ReadLatest
<1> HIDE DEF more, left, latest, upto, after
<1>6. /\ pulling'[u].remaining = more /\ pulling'[u].left = left
      /\ \A v \in Puller \ {u} : pulling'[v] = pulling[v]
  BY <1>5 DEF TypeOK, TasksTyped, Pull
<1>7. QED
  BY <1>2, <1>3, <1>4, <1>6 DEF RemainingTellsMore

(* remaining = 0 is told exactly when there is no match after the page, for  *)
(* any number of subscriptions sharing the table.                            *)
THEOREM RemainingAlwaysTrue == Spec => []RemainingTellsMore
<1>1. Init => RemainingTellsMore
  BY DEF Init, NoPull, RemainingTellsMore
<1>2. TypeOK /\ RemainingTellsMore /\ [Next]_vars => RemainingTellsMore'
  <2> SUFFICES ASSUME TypeOK, RemainingTellsMore, [Next]_vars
               PROVE  RemainingTellsMore'
    OBVIOUS
  <2>1. CASE \A u \in Puller : pulling'[u] = pulling[u] \/ pulling'[u].pc # "ack"
    BY <2>1 DEF RemainingTellsMore
  <2>2. CASE UNCHANGED pulling
    BY <2>1, <2>2
  <2>3. CASE UNCHANGED vars
    BY <2>2, <2>3 DEF vars, tasks
  <2>4. (\E c \in Creator : CreatorStep(c)) \/ (\E n \in Notifier : NotifierStep(n))
          => UNCHANGED pulling
    BY DEF CreatorStep, CountForInstance, CreateSubscription, NotifierStep, NotifyAdvertised,
           Enqueue, LoseMatches
  <2>5. ASSUME NEW u \in Puller, PullerStep(u)
        PROVE  RemainingTellsMore'
    <3>1. ASSUME NEW s \in Sub, BeginPull(u, s)
          PROVE  \A v \in Puller : pulling'[v] = pulling[v] \/ pulling'[v].pc # "ack"
      BY <3>1 DEF BeginPull, NoPull, TypeOK, TasksTyped
    <3>2. CASE ReadPage(u) \/ AnswerPull(u)
      BY <2>1, <3>2 DEF ReadPage, AnswerPull, NoPull, TypeOK, TasksTyped, Pull
    <3>3. QED
      BY <2>1, <2>5, <3>1, <3>2, ReadLatestTells DEF PullerStep
  <2>6. (\E o \in Owner : OwnerStep(o)) \/ WorkerStep \/ WorkerError => UNCHANGED pulling
    BY OwnerKeepsShown, WorkerKeepsShown
  <2>7. (\E s \in Sub, c \in Cursors : Ack(s, c)) \/ BackoffElapses => UNCHANGED pulling
    BY DEF Ack, BackoffElapses, tasks
  <2>8. Crash => \A u \in Puller : pulling'[u].pc # "ack"
    BY DEF Crash, NoPull
  <2>9. QED
    BY <2>1, <2>2, <2>3, <2>4, <2>5, <2>6, <2>7, <2>8 DEF Next
<1>3. QED
  BY <1>1, <1>2, TypeCorrect, PTL DEF Spec

(***************************************************************************)
(* The quota.                                                              *)
(***************************************************************************)
LEMMA QuotaFinite ==
    ASSUME IsFiniteSet(live)
    PROVE  \A i : /\ IsFiniteSet(OfInstance(i)) /\ Cardinality(OfInstance(i)) \in Nat
                  /\ IsFiniteSet(Holders(i)) /\ Cardinality(Holders(i)) \in Nat
                  /\ Cardinality(Holders(i)) <= Cardinality(Creator)
                  /\ Cardinality(Creator) \in Nat
<1> TAKE i
<1>1. OfInstance(i) \in SUBSET live /\ Holders(i) \in SUBSET Creator /\ IsFiniteSet(Creator)
  BY QuotaAssumption DEF OfInstance, Holders
<1>2. QED
  BY <1>1, FS_Subset, FS_CardinalityType

LEMMA QuotaFramed ==
    ASSUME QuotaInv, live' \subseteq live,
           \A s \in live' : subs'[s].instance = subs[s].instance,
           \A i \in Instance, c \in Creator : creating'[c] = i => creating[c] = i
    PROVE  QuotaInv'
<1>1. IsFiniteSet(live')
  BY FS_Subset DEF QuotaInv
<1>2. ASSUME Creator # {}, NEW i \in Instance
      PROVE  Cardinality(OfInstance(i))' + Cardinality(Holders(i))'
                <= MaxPerInstance + Cardinality(Creator) - 1
  <2> DEFINE of == OfInstance(i)
             of2 == {s \in live' : subs'[s].instance = i}
             hold == Holders(i)
             hold2 == {c \in Creator : creating'[c] = i}
  <2>1. of2 \in SUBSET of /\ hold2 \in SUBSET hold
    BY DEF OfInstance, Holders
  <2>2. /\ IsFiniteSet(of) /\ IsFiniteSet(hold)
        /\ Cardinality(of) + Cardinality(hold) <= MaxPerInstance + Cardinality(Creator) - 1
    BY <1>2, QuotaFinite DEF QuotaInv
  <2>3. Cardinality(Creator) \in Nat
    BY QuotaAssumption, FS_CardinalityType
  <2> HIDE DEF of, of2, hold, hold2
  <2>4. /\ Cardinality(of2) <= Cardinality(of) /\ Cardinality(hold2) <= Cardinality(hold)
        /\ Cardinality(of) \in Nat /\ Cardinality(hold) \in Nat
        /\ Cardinality(of2) \in Nat /\ Cardinality(hold2) \in Nat
    BY <2>1, <2>2, FS_Subset, FS_CardinalityType
  <2>5. Cardinality(of2) + Cardinality(hold2) <= MaxPerInstance + Cardinality(Creator) - 1
    BY <2>2, <2>3, <2>4, LimitAssumption
  <2>6. QED
    BY <2>5 DEF of2, hold2, OfInstance, Holders
<1>3. QED
  BY <1>1, <1>2 DEF QuotaInv

LEMMA CountQuota ==
    ASSUME TypeOK, QuotaInv, NEW c \in Creator, NEW i \in Instance, CountForInstance(c, i)
    PROVE  QuotaInv'
<1>1. UNCHANGED <<live, subs>> /\ creating' = [creating EXCEPT ![c] = i]
  BY DEF CountForInstance, store
<1>2. \A j : OfInstance(j)' = OfInstance(j)
  BY <1>1 DEF OfInstance
<1>3. ASSUME NEW j \in Instance
      PROVE  Cardinality(OfInstance(j)) + Cardinality({x \in Creator : creating'[x] = j})
                <= MaxPerInstance + Cardinality(Creator) - 1
  <2> DEFINE hold2 == {x \in Creator : creating'[x] = j}
  <2>1. /\ Cardinality(OfInstance(j)) \in Nat /\ Cardinality(Holders(j)) \in Nat
        /\ Cardinality(Creator) \in Nat /\ IsFiniteSet(Holders(j))
    BY QuotaFinite DEF QuotaInv
  <2>2. Cardinality(hold2) \in Nat /\ Cardinality(hold2) <= Cardinality(Creator)
    <3>1. hold2 \in SUBSET Creator
      OBVIOUS
    <3>2. QED
      BY <3>1, QuotaAssumption, FS_Subset, FS_CardinalityType
  <2>3. CASE j = i
    <3>1. Cardinality(OfInstance(j)) < MaxPerInstance
      BY <2>3 DEF CountForInstance, HasRoom
    <3> HIDE DEF hold2
    <3>2. Cardinality(OfInstance(j)) + Cardinality(hold2) <= MaxPerInstance + Cardinality(Creator) - 1
      BY <2>1, <2>2, <3>1, LimitAssumption
    <3>3. QED
      BY <3>2 DEF hold2
  <2>4. CASE j # i
    <3>1. hold2 = Holders(j)
      <4>1. creating[c] # j
        BY SubscriptionAssumption DEF CountForInstance
      <4>2. QED
        BY <1>1, <2>4, <4>1 DEF Holders, TypeOK, TasksTyped
    <3>2. QED
      BY <3>1 DEF QuotaInv
  <2>5. QED
    BY <2>3, <2>4
<1>4. QED
  BY <1>1, <1>2, <1>3 DEF QuotaInv, Holders

LEMMA CreateQuota ==
    ASSUME TypeOK, QuotaInv, NEW c \in Creator, CreateSubscription(c)
    PROVE  QuotaInv'
<1>1. PICK s \in Sub \ used, i \in Instance, f \in Filters, hook \in BOOLEAN :
        /\ i = creating[c]
        /\ live' = live \cup {s}
        /\ subs' = [subs EXCEPT ![s] = NewSub(i, f, hook)]
        /\ creating' = [creating EXCEPT ![c] = None]
  BY DEF CreateSubscription, TypeOK, TasksTyped
<1>2. /\ s \notin live /\ subs'[s].instance = i
      /\ \A x \in live : subs'[x] = subs[x]
  BY <1>1, PullTyped DEF TypeOK, StoreTyped, NewSub
<1>3. IsFiniteSet(live')
  BY <1>1, FS_AddElement DEF QuotaInv
<1>4. ASSUME NEW j \in Instance
      PROVE  Cardinality({x \in live' : subs'[x].instance = j})
               + Cardinality({x \in Creator : creating'[x] = j})
                <= MaxPerInstance + Cardinality(Creator) - 1
  <2> DEFINE of2 == {x \in live' : subs'[x].instance = j}
             hold2 == {x \in Creator : creating'[x] = j}
             of == OfInstance(j)
             hold == Holders(j)
  <2>1. /\ Cardinality(of) \in Nat /\ Cardinality(hold) \in Nat
        /\ Cardinality(Creator) \in Nat /\ IsFiniteSet(of) /\ IsFiniteSet(hold)
        /\ Cardinality(of) + Cardinality(hold) <= MaxPerInstance + Cardinality(Creator) - 1
    BY QuotaFinite DEF QuotaInv
  <2>2. j # None
    BY SubscriptionAssumption
  <2>3. CASE j = i
    <3>1. of2 = of \cup {s} /\ s \notin of
      BY <1>1, <1>2, <2>3 DEF OfInstance
    <3>2. hold2 = hold \ {c} /\ c \in hold
      BY <1>1, <2>2, <2>3 DEF Holders, TypeOK, TasksTyped
    <3> HIDE DEF of, hold, of2, hold2
    <3>3. Cardinality(of2) = Cardinality(of) + 1
      BY <2>1, <3>1, FS_AddElement
    <3>4. Cardinality(hold2) = Cardinality(hold) - 1
      BY <2>1, <3>2, FS_RemoveElement
    <3>5. Cardinality(of2) + Cardinality(hold2) <= MaxPerInstance + Cardinality(Creator) - 1
      BY <2>1, <3>3, <3>4, LimitAssumption
    <3>6. QED
      BY <3>5 DEF of2, hold2
  <2>4. CASE j # i
    <3>1. of2 = of
      BY <1>1, <1>2, <2>4 DEF OfInstance
    <3>2. hold2 = hold
      BY <1>1, <2>2, <2>4 DEF Holders, TypeOK, TasksTyped
    <3>3. QED
      BY <2>1, <3>1, <3>2
  <2>5. QED
    BY <2>3, <2>4
<1>5. QED
  BY <1>3, <1>4 DEF QuotaInv, OfInstance, Holders

LEMMA QuotaInit == Init => QuotaInv
<1> SUFFICES ASSUME Init PROVE QuotaInv
  OBVIOUS
<1>1. live = DOMAIN Existing /\ \A s \in live : subs[s].instance = Existing[s].instance
  BY SubscriptionAssumption DEF Init, NewSub
<1>2. ASSUME Creator # {}, NEW i \in Instance
      PROVE  Cardinality(OfInstance(i)) + Cardinality(Holders(i))
                <= MaxPerInstance + Cardinality(Creator) - 1
  <2>1. Holders(i) = {}
    BY SubscriptionAssumption DEF Init, Holders
  <2>2. OfInstance(i) = {s \in DOMAIN Existing : Existing[s].instance = i}
    BY <1>1 DEF OfInstance
  <2>3. /\ Cardinality(Holders(i)) = 0 /\ Cardinality(Creator) \in Nat
        /\ Cardinality(OfInstance(i)) \in Nat
    BY <1>1, <2>1, FS_EmptySet, QuotaAssumption, QuotaFinite
  <2>4. Cardinality(OfInstance(i)) < MaxPerInstance + Cardinality(Creator)
    BY <1>2, <2>2, QuotaAssumption
  <2>5. QED
    BY <2>3, <2>4, LimitAssumption
<1>3. QED
  BY <1>1, <1>2, QuotaAssumption DEF QuotaInv

(* The instance of a subscription is written once.                           *)
InstancesKept == live' \subseteq live /\ \A s \in live' : subs'[s].instance = subs[s].instance

LEMMA WorkerKeepsInstances ==
    ASSUME TypeOK, WorkerStep \/ WorkerError
    PROVE  InstancesKept /\ UNCHANGED creating
<1>1. CASE UNCHANGED <<live, subs, creating>>
  BY <1>1 DEF InstancesKept
<1>2. ASSUME UNCHANGED <<live, creating>>, NEW n, subs' = [subs EXCEPT ![Current.sub].failures = n]
      PROVE  InstancesKept /\ UNCHANGED creating
  BY <1>2, PullTyped DEF InstancesKept, TypeOK, StoreTyped, SubRow
<1>3. ASSUME UNCHANGED <<live, creating>>, subs' = [subs EXCEPT ![Current.sub].active = FALSE]
      PROVE  InstancesKept /\ UNCHANGED creating
  BY <1>3, PullTyped DEF InstancesKept, TypeOK, StoreTyped, SubRow
<1>4. CASE ResetFailures
  BY <1>1, <1>2, <1>4 DEF ResetFailures, SetFailures, tasks
<1>5. CASE CountFailure
  BY <1>1, <1>2, <1>5 DEF CountFailure, SetFailures, tasks
<1>6. CASE Suspend
  BY <1>1, <1>3, <1>6 DEF Suspend, tasks
<1>7. CASE FetchDue \/ PostWebhook \/ MarkDelivered \/ ReadAttempts \/ MarkFailed \/ CheckFailures
           \/ WorkerError
  BY <1>1, <1>7 DEF FetchDue, PostWebhook, MarkDelivered, ReadAttempts, MarkFailed,
                    CheckFailures, WorkerError, store, tasks
<1>8. QED
  BY <1>4, <1>5, <1>6, <1>7 DEF WorkerStep

LEMMA OwnerKeepsInstances ==
    ASSUME TypeOK, NEW o \in Owner, OwnerStep(o)
    PROVE  InstancesKept /\ UNCHANGED creating
<1>0. UNCHANGED creating
  BY DEF OwnerStep, BeginPatch, BeginDelete, Begin, UpdateSubscription, RearmDeliveries,
         DeleteSubscription, AbandonRequest
<1>1. CASE UNCHANGED <<live, subs>>
  BY <1>0, <1>1 DEF InstancesKept
<1>2. ASSUME NEW stmt \in Stmt \ {"rearm", "delete rows", "delete"}, UpdateSubscription(o, stmt)
      PROVE  InstancesKept
  <2> DEFINE s == doing[o].sub
             new == Changed(s, stmt, doing[o].filter)
  <2>1. s \in Sub
    BY <1>2, RunsTyped DEF UpdateSubscription
  <2>2. new.instance = subs[s].instance
    <3>1. subs[s] \in SubRow
      BY <2>1 DEF TypeOK, StoreTyped
    <3>2. QED
      BY <3>1 DEF Changed, SubRow, Stmt
  <2>3. live' = live /\ (subs' = subs \/ subs' = [subs EXCEPT ![s] = new])
    BY <1>2 DEF UpdateSubscription
  <2> HIDE DEF s, new
  <2>4. QED
    BY <2>1, <2>2, <2>3, PullTyped DEF InstancesKept, TypeOK, StoreTyped
<1>3. ASSUME NEW stmt, DeleteSubscription(o, stmt)
      PROVE  InstancesKept
  <2> DEFINE s == doing[o].sub
  <2>1. UNCHANGED <<live, subs>> \/ (live' = live \ {s} /\ subs' = [subs EXCEPT ![s] = NoSub])
    BY <1>3 DEF DeleteSubscription
  <2> HIDE DEF s
  <2>2. QED
    BY <2>1, PullTyped DEF InstancesKept, TypeOK, StoreTyped
<1>4. QED
  BY <1>0, <1>1, <1>2, <1>3 DEF OwnerStep, BeginPatch, BeginDelete, Begin, RearmDeliveries,
                                AbandonRequest, store

LEMMA PullerKeepsInstances ==
    ASSUME TypeOK, (\E u \in Puller : PullerStep(u)) \/ (\E s \in Sub, c \in Cursors : Ack(s, c))
    PROVE  InstancesKept /\ UNCHANGED creating
<1>1. ASSUME UNCHANGED <<live, creating>>, NEW s, NEW c, Acknowledge(s, c) \/ subs' = subs
      PROVE  InstancesKept /\ UNCHANGED creating
  <2>1. ASSUME NEW n, subs' = [subs EXCEPT ![s].cursor = n]
        PROVE  \A x \in live : subs'[x].instance = subs[x].instance
    BY <2>1, PullTyped DEF TypeOK, StoreTyped, SubRow
  <2>2. subs' = subs \/ \E n : subs' = [subs EXCEPT ![s].cursor = n]
    BY <1>1 DEF Acknowledge
  <2>3. \A x \in live : subs'[x].instance = subs[x].instance
    BY <2>1, <2>2
  <2>4. QED
    BY <1>1, <2>3 DEF InstancesKept
<1>2. ASSUME NEW u \in Puller, AnswerPull(u)
      PROVE  InstancesKept /\ UNCHANGED creating
  BY <1>1, <1>2 DEF AnswerPull
<1>3. ASSUME NEW s \in Sub, NEW c \in Cursors, Ack(s, c)
      PROVE  InstancesKept /\ UNCHANGED creating
  BY <1>1, <1>3 DEF Ack, tasks
<1>4. QED
  BY <1>2, <1>3 DEF PullerStep, BeginPull, ReadPage, ReadLatest, store, InstancesKept

LEMMA QuotaStep == TypeOK /\ QuotaInv /\ [Next]_vars => QuotaInv'
<1> SUFFICES ASSUME TypeOK, QuotaInv, [Next]_vars
             PROVE  QuotaInv'
  OBVIOUS
<1>1. CASE InstancesKept /\ UNCHANGED creating
  BY <1>1, QuotaFramed DEF InstancesKept
<1>2. CASE UNCHANGED <<live, subs, creating>>
  BY <1>1, <1>2 DEF InstancesKept
<1>3. CASE UNCHANGED vars
  BY <1>2, <1>3 DEF vars, store, tasks
<1>4. ASSUME NEW c \in Creator, CreatorStep(c)
      PROVE  QuotaInv'
  BY <1>4, CountQuota, CreateQuota DEF CreatorStep
<1>5. ASSUME NEW n \in Notifier, NotifierStep(n)
      PROVE  UNCHANGED <<live, subs, creating>>
  BY <1>5 DEF NotifierStep, NotifyAdvertised, Enqueue, LoseMatches, store
<1>6. BackoffElapses => UNCHANGED <<live, subs, creating>>
  BY DEF BackoffElapses, tasks
<1>7. CASE Crash
  <2>1. UNCHANGED <<live, subs>> /\ \A c \in Creator : creating'[c] = None
    BY <1>7 DEF Crash, store
  <2>2. QED
    BY <2>1, QuotaFramed, SubscriptionAssumption
<1>8. QED
  BY <1>1, <1>2, <1>3, <1>4, <1>5, <1>6, <1>7, OwnerKeepsInstances, WorkerKeepsInstances,
     PullerKeepsInstances DEF Next

(* However many creates run at once, and whatever is created and deleted     *)
(* meanwhile, the check that is not atomic with the insert lets at most one  *)
(* subscription past the limit per further concurrent create.                *)
THEOREM QuotaOverrun == Spec => [](Creator # {} => QuotaOverrunBounded)
<1>1. QuotaInv => (Creator # {} => QuotaOverrunBounded)
  <2> SUFFICES ASSUME QuotaInv, Creator # {}, NEW i \in Instance
               PROVE  Cardinality(OfInstance(i)) <= MaxPerInstance + Cardinality(Creator) - 1
    BY DEF QuotaOverrunBounded
  <2>1. /\ Cardinality(OfInstance(i)) \in Nat /\ Cardinality(Holders(i)) \in Nat
        /\ Cardinality(Creator) \in Nat
    BY QuotaFinite DEF QuotaInv
  <2>2. Cardinality(OfInstance(i)) + Cardinality(Holders(i))
            <= MaxPerInstance + Cardinality(Creator) - 1
    BY DEF QuotaInv
  <2>3. QED
    BY <2>1, <2>2, LimitAssumption
<1>2. QED
  BY <1>1, QuotaInit, QuotaStep, TypeCorrect, PTL DEF Spec
=============================================================================
