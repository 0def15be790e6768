------------------------ MODULE NotifyDeliveryProofs ------------------------
(***************************************************************************)
(* Theorems about NotifyDelivery, for every policy, every events and every *)
(* interleaving of the loop with the digests: how a digest is sorted, what *)
(* is in the queues and in the messages, what leaves the operator's own    *)
(* relays, and that the service implements NotifyPromise.                  *)
(***************************************************************************)
EXTENDS NotifyDelivery, FiniteSetTheorems, TLAPS

(***************************************************************************)
(* The least-number principle, from the well-foundedness of the strict     *)
(* inclusion of finite sets.  An induction over a sequence is then an      *)
(* argument about the least index where the claim fails.                   *)
(***************************************************************************)
LEMMA StrictSubsetIs ==
  ASSUME NEW S, NEW A \in SUBSET S, NEW B \in SUBSET S, A \subseteq B, A # B
  PROVE  <<A, B>> \in StrictSubsetOrdering(S)
BY DEF StrictSubsetOrdering

LEMMA Least ==
  ASSUME NEW T \in SUBSET Nat, T # {}
  PROVE  \E m \in T : \A n \in T : m <= n
<1> DEFINE Below == {0..n : n \in T}
<1>1. Below \subseteq FiniteSubsetsOf(Nat)
  <2> SUFFICES ASSUME NEW n \in T PROVE 0..n \in SUBSET Nat /\ IsFiniteSet(0..n)
    BY DEF FiniteSubsetsOf
  <2>1. 0 \in Int /\ n \in Int
    OBVIOUS
  <2>2. IsFiniteSet(0..n)
    BY <2>1, FS_Interval
  <2> QED BY <2>2
<1>0. Below # {}
  OBVIOUS
<1>2. PICK low \in Below : \A x \in Below : ~(<<x, low>> \in StrictSubsetOrdering(Nat))
  BY <1>0, <1>1, FS_StrictSubsetOrderingWellFounded, WFMin
<1>3. PICK m \in T : low = 0..m
  OBVIOUS
<1>4. ASSUME NEW n \in T PROVE m <= n
  <2>1. ~(0..n \subseteq 0..m /\ 0..n # 0..m)
    <3>1. 0..n \in Below /\ 0..n \in SUBSET Nat /\ 0..m \in SUBSET Nat
      OBVIOUS
    <3>2. ~(<<0..n, 0..m>> \in StrictSubsetOrdering(Nat))
      BY <1>2, <1>3, <3>1
    <3> QED BY <3>1, <3>2, StrictSubsetIs
  <2> SUFFICES ASSUME n < m PROVE FALSE
    OBVIOUS
  <2>2. 0..n \subseteq 0..m /\ m \in 0..m /\ m \notin 0..n
    OBVIOUS
  <2> QED BY <2>1, <2>2
<1> QED BY <1>4

(***************************************************************************)
(* sortBySeverityDesc: after each turn of the outer loop the items it went *)
(* through are a permutation of what they were, in the order of a digest.  *)
(***************************************************************************)
\* No item is twice in s.
Injective(s) == \A j, k \in DOMAIN s : s[j] = s[k] => j = k

LEMMA RankType == \A s : Rank(s) \in Nat
BY DEF Rank

\* The equation that defines SortedPrefixes; a function solves it.
IsPrefixes(f, items, n) ==
  f = [m \in 0..n |-> IF m = 0 THEN <<>> ELSE MoveLeft(f[m - 1], items[m])]

LEMMA PrefixesExist == ASSUME NEW items, NEW n \in Nat PROVE \E f : IsPrefixes(f, items, n)
<1> DEFINE T == {k \in Nat : ~ \E f : IsPrefixes(f, items, k)}
<1> SUFFICES T = {}
  OBVIOUS
<1> SUFFICES ASSUME T # {} PROVE FALSE
  OBVIOUS
<1>1. PICK m \in T : \A k \in T : m <= k
  BY Least
<1>2. m # 0
  <2>1. IsPrefixes([k \in 0..0 |-> <<>>], items, 0)
    BY DEF IsPrefixes
  <2> QED BY <2>1
<1>3. m - 1 \in Nat /\ m - 1 \notin T
  BY <1>1, <1>2
<1>4. PICK g : IsPrefixes(g, items, m - 1)
  BY <1>3
<1> DEFINE h == [k \in 0..m |-> IF k = m THEN MoveLeft(g[m - 1], items[m]) ELSE g[k]]
<1>5. IsPrefixes(h, items, m)
  <2> SUFFICES ASSUME NEW k \in 0..m
               PROVE  h[k] = IF k = 0 THEN <<>> ELSE MoveLeft(h[k - 1], items[k])
    BY DEF IsPrefixes
  <2>1. \A j \in 0..(m - 1) : h[j] = g[j] /\ g[j] = IF j = 0 THEN <<>> ELSE MoveLeft(g[j - 1], items[j])
    BY <1>2, <1>4 DEF IsPrefixes
  <2>2. CASE k = m
    BY <1>2, <1>3, <2>1, <2>2
  <2>3. CASE k \in 0..(m - 1) /\ k # 0
    <3>1. k - 1 \in 0..(m - 1)
      BY <2>3
    <3> QED BY <2>1, <2>3, <3>1
  <2>4. CASE k = 0
    <3>1. 0 \in 0..(m - 1) /\ k # m
      BY <1>2, <1>3, <2>4
    <3> QED BY <2>1, <2>4, <3>1
  <2> QED BY <1>3, <2>2, <2>3, <2>4
<1> QED BY <1>5

LEMMA SortedPrefixesDef ==
  ASSUME NEW items, Len(items) \in Nat
  PROVE  IsPrefixes(SortedPrefixes(items), items, Len(items))
<1>1. \E f : IsPrefixes(f, items, Len(items))
  BY PrefixesExist
<1> QED BY <1>1 DEF IsPrefixes, SortedPrefixes

LEMMA InsertionPoint ==
  ASSUME NEW s, NEW x, Len(s) \in Nat
  PROVE  \E p \in 1..(Len(s) + 1) : \A q \in 1..(Len(s) + 1) : Passes(x, s, q) <=> p <= q
<1> DEFINE T == {q \in 1..(Len(s) + 1) : Passes(x, s, q)}
<1>1. Len(s) + 1 \in T
  <2>1. \A k \in (Len(s) + 1)..Len(s) : FALSE
    OBVIOUS
  <2> QED BY <2>1 DEF Passes
<1>2. PICK p \in T : \A q \in T : p <= q
  <2>1. T \in SUBSET Nat /\ T # {}
    BY <1>1
  <2> HIDE DEF T
  <2> QED BY <2>1, Least
<1>3. ASSUME NEW q \in 1..(Len(s) + 1), p <= q PROVE Passes(x, s, q)
  BY <1>2, <1>3 DEF Passes
<1>4. ASSUME NEW q \in 1..(Len(s) + 1), Passes(x, s, q) PROVE p <= q
  BY <1>2, <1>4
<1> QED BY <1>2, <1>3, <1>4

LEMMA MoveLeftIs ==
  ASSUME NEW s, NEW x, Len(s) \in Nat, NEW p \in 1..(Len(s) + 1),
         \A q \in 1..(Len(s) + 1) : Passes(x, s, q) <=> p <= q
  PROVE  MoveLeft(s, x) = [j \in 1..(Len(s) + 1) |->
                             IF j < p THEN s[j] ELSE IF j = p THEN x ELSE s[j - 1]]
<1> SUFFICES ASSUME NEW j \in 1..(Len(s) + 1)
             PROVE  (IF ~Passes(x, s, j) THEN s[j]
                     ELSE IF j > 1 /\ Passes(x, s, j - 1) THEN s[j - 1] ELSE x)
                    = IF j < p THEN s[j] ELSE IF j = p THEN x ELSE s[j - 1]
  BY DEF MoveLeft
<1>1. Passes(x, s, j) <=> ~(j < p)
  OBVIOUS
<1>2. ASSUME j > 1 PROVE Passes(x, s, j - 1) <=> ~(j - 1 < p)
  <2>1. j - 1 \in 1..(Len(s) + 1)
    BY <1>2
  <2> QED BY <2>1
<1> QED BY <1>1, <1>2

\* The item queued j-th comes before the one queued k-th in a digest.
Precedes(items, j, k) ==
  \/ Rank(items[j].severity) > Rank(items[k].severity)
  \/ Rank(items[j].severity) = Rank(items[k].severity) /\ j < k

\* s has the first n items, each at its place.
Placed(items, n, s, pos) ==
  /\ s \in [1..n -> Range(items)]
  /\ pos \in [1..n -> 1..n]
  /\ \A a \in 1..n : \E j \in 1..n : pos[j] = a
  /\ \A j \in 1..n : s[pos[j]] = items[j]
  /\ \A j, k \in 1..n : Precedes(items, j, k) => pos[j] < pos[k]

LEMMA PlacedStep ==
  ASSUME NEW items, NEW n \in Nat, n + 1 \in DOMAIN items,
         NEW s, NEW pos, Placed(items, n, s, pos)
  PROVE  \E to : Placed(items, n + 1, MoveLeft(s, items[n + 1]), to)
<1> DEFINE x == items[n + 1]
           N == n + 1
<1>0. Len(s) = n /\ N \in Nat /\ 1..n \subseteq 1..N /\ \A j \in 1..N : j \in 1..n \/ j = N
  BY DEF Placed
<1>1. PICK p \in 1..N : \A q \in 1..N : Passes(x, s, q) <=> p <= q
  <2>1. Len(s) \in Nat
    BY <1>0
  <2> QED BY <1>0, <2>1, InsertionPoint
<1> DEFINE t == MoveLeft(s, x)
           to == [j \in 1..N |-> IF j = N THEN p
                                 ELSE IF pos[j] < p THEN pos[j] ELSE pos[j] + 1]
<1>2. t = [j \in 1..N |-> IF j < p THEN s[j] ELSE IF j = p THEN x ELSE s[j - 1]]
  <2>1. Len(s) \in Nat /\ Len(s) + 1 = N
    BY <1>0
  <2> HIDE DEF x, N
  <2> QED BY <1>1, <2>1, MoveLeftIs
<1>3. t \in [1..N -> Range(items)]
  <2>1. x \in Range(items)
    BY DEF Range
  <2>2. ASSUME NEW j \in 1..N
        PROVE  (IF j < p THEN s[j] ELSE IF j = p THEN x ELSE s[j - 1]) \in Range(items)
    BY <2>1 DEF Placed
  <2> QED BY <1>2, <2>2
<1>4. \A j \in 1..n : pos[j] \in 1..n
  BY DEF Placed
<1>5. to \in [1..N -> 1..N]
  BY <1>4
<1>6. ASSUME NEW a \in 1..N PROVE \E j \in 1..N : to[j] = a
  <2>1. CASE a < p
    <3>0. a \in 1..n
      BY <2>1
    <3>1. PICK j \in 1..n : pos[j] = a
      BY <3>0 DEF Placed
    <3>2. to[j] = a /\ j \in 1..N
      BY <2>1, <3>1
    <3> QED BY <3>2
  <2>2. CASE a = p
    <3>1. to[N] = a /\ N \in 1..N
      BY <2>2
    <3> QED BY <3>1
  <2>3. CASE a > p
    <3>1. a - 1 \in 1..n
      BY <2>3
    <3>2. PICK j \in 1..n : pos[j] = a - 1
      BY <3>1 DEF Placed
    <3>3. to[j] = a /\ j \in 1..N
      BY <2>3, <3>2
    <3> QED BY <3>3
  <2> QED BY <2>1, <2>2, <2>3
<1>7. ASSUME NEW j \in 1..N PROVE t[to[j]] = items[j]
  <2>1. CASE j = N
    BY <1>2, <2>1
  <2>2. CASE j \in 1..n
    <3>1. s[pos[j]] = items[j] /\ pos[j] \in 1..n
      BY <2>2, <1>4 DEF Placed
    <3>2. CASE pos[j] < p
      BY <1>2, <2>2, <3>1, <3>2
    <3>3. CASE ~(pos[j] < p)
      <4>1. to[j] = pos[j] + 1 /\ pos[j] + 1 \in 1..N
        BY <2>2, <3>1, <3>3
      <4> QED BY <1>2, <3>1, <3>3, <4>1
    <3> QED BY <3>2, <3>3
  <2> QED BY <1>0, <2>1, <2>2
<1>8. ASSUME NEW j \in 1..n PROVE Passes(x, s, pos[j]) <=> p <= pos[j]
  BY <1>0, <1>1, <1>4
<1>9. ASSUME NEW j \in 1..N, NEW k \in 1..N, Precedes(items, j, k) PROVE to[j] < to[k]
  <2>1. CASE j \in 1..n /\ k \in 1..n
    <3>1. pos[j] < pos[k] /\ pos[j] \in 1..n /\ pos[k] \in 1..n
      BY <1>4, <1>9, <2>1 DEF Placed
    <3> QED BY <2>1, <3>1
  <2>2. CASE j \in 1..n /\ k = N
    <3>1. ~(Rank(items[j].severity) < Rank(x.severity))
      BY <1>9, <2>2, RankType DEF Precedes
    <3>2. s[pos[j]] = items[j] /\ pos[j] \in pos[j]..Len(s)
      BY <1>0, <1>4, <2>2 DEF Placed
    <3>3. ~Passes(x, s, pos[j])
      BY <3>1, <3>2 DEF Passes
    <3>4. pos[j] < p /\ pos[j] \in 1..n
      BY <1>4, <1>8, <2>2, <3>3
    <3> QED BY <2>2, <3>4
  <2>3. CASE j = N /\ k \in 1..n
    <3>1. Rank(items[k].severity) < Rank(x.severity)
      BY <1>9, <2>3, RankType DEF Precedes
    <3>2. ASSUME NEW a \in pos[k]..Len(s) PROVE Rank(s[a].severity) < Rank(x.severity)
      <4>1. a \in 1..n /\ pos[k] \in 1..n /\ pos[k] <= a
        BY <1>0, <1>4, <2>3
      <4>2. PICK l \in 1..n : pos[l] = a
        BY <4>1 DEF Placed
      <4>3. s[a] = items[l]
        BY <4>2 DEF Placed
      <4>4. ~Precedes(items, l, k)
        BY <2>3, <4>1, <4>2 DEF Placed
      <4>5. Rank(items[l].severity) <= Rank(items[k].severity)
        BY <4>4, RankType DEF Precedes
      <4> QED BY <3>1, <4>3, <4>5, RankType
    <3>3. p <= pos[k] /\ pos[k] \in 1..n
      BY <1>4, <1>8, <2>3, <3>2 DEF Passes
    <3> QED BY <2>3, <3>3
  <2>4. CASE j = N /\ k = N
    BY <1>9, <2>4, RankType DEF Precedes
  <2> QED BY <1>0, <2>1, <2>2, <2>3, <2>4
<1>10. Placed(items, N, t, to)
  <2> HIDE DEF t, to, N
  <2> QED BY <1>3, <1>5, <1>6, <1>7, <1>9 DEF Placed
<1> QED BY <1>10

LEMMA SortPlaced ==
  ASSUME NEW S, NEW items \in Seq(S)
  PROVE  \E pos : Placed(items, Len(items), SortBySeverityDesc(items), pos)
<1> DEFINE f == SortedPrefixes(items)
           Good(n) == \E pos : Placed(items, n, f[n], pos)
           T == {n \in 0..Len(items) : ~Good(n)}
<1>0. Len(items) \in Nat /\ DOMAIN items = 1..Len(items)
  OBVIOUS
<1>1. IsPrefixes(f, items, Len(items))
  BY <1>0, SortedPrefixesDef
<1>2. SUFFICES ASSUME T # {} PROVE FALSE
  BY <1>0 DEF SortBySeverityDesc
<1>3. PICK m \in T : \A k \in T : m <= k
  <2>1. T \in SUBSET Nat
    BY <1>0
  <2> HIDE DEF T
  <2> QED BY <1>2, <2>1, Least
<1>4. m # 0
  <2>1. f[0] = <<>>
    BY <1>0, <1>1 DEF IsPrefixes
  <2>2. Placed(items, 0, <<>>, <<>>)
    BY DEF Placed
  <2> QED BY <2>1, <2>2
<1>5. m - 1 \in 0..Len(items) /\ m - 1 \in Nat /\ m \in 1..Len(items) /\ ~(m <= m - 1)
      /\ (m - 1) + 1 = m
  BY <1>0, <1>4
<1>6. PICK pos : Placed(items, m - 1, f[m - 1], pos)
  BY <1>3, <1>5
<1>7. f[m] = MoveLeft(f[m - 1], items[m])
  BY <1>0, <1>1, <1>4, <1>5 DEF IsPrefixes
<1>8. Good(m)
  <2> HIDE DEF f
  <2> QED BY <1>0, <1>5, <1>6, <1>7, PlacedStep
<1> QED BY <1>8

\* sortBySeverityDesc, for a queue of any length: a permutation of the items in
\* which none ranks higher than one in front of it, and items of one rank keep
\* their order.
THEOREM SortIsStable ==
  ASSUME NEW S, NEW items \in Seq(S)
  PROVE  LET sorted == SortBySeverityDesc(items)
         IN /\ DOMAIN sorted = DOMAIN items
            /\ \A a, b \in DOMAIN sorted :
                 a < b => Rank(sorted[a].severity) >= Rank(sorted[b].severity)
            /\ \E pos \in [DOMAIN items -> DOMAIN sorted] :
                 /\ Injective(pos) /\ Range(pos) = DOMAIN sorted
                 /\ \A j \in DOMAIN items : sorted[pos[j]] = items[j]
                 /\ \A j, k \in DOMAIN items :
                      j < k /\ Rank(items[j].severity) = Rank(items[k].severity)
                        => pos[j] < pos[k]
<1> DEFINE sorted == SortBySeverityDesc(items)
           n == Len(items)
<1>1. PICK pos : Placed(items, n, sorted, pos)
  BY SortPlaced
<1>2. n \in Nat /\ DOMAIN items = 1..n
  OBVIOUS
<1> HIDE DEF sorted, n
<1>3. DOMAIN sorted = 1..n /\ pos \in [1..n -> 1..n]
  BY <1>1 DEF Placed
<1>4. ASSUME NEW a \in 1..n, NEW b \in 1..n, a < b
      PROVE  Rank(sorted[a].severity) >= Rank(sorted[b].severity)
  <2>1. PICK j \in 1..n : pos[j] = a
    BY <1>1 DEF Placed
  <2>2. PICK k \in 1..n : pos[k] = b
    BY <1>1 DEF Placed
  <2>3. sorted[a] = items[j] /\ sorted[b] = items[k]
    BY <1>1, <2>1, <2>2 DEF Placed
  <2>4. ~Precedes(items, k, j)
    BY <1>1, <1>4, <2>1, <2>2 DEF Placed
  <2> QED BY <2>3, <2>4, RankType DEF Precedes
<1>5. Injective(pos)
  <2> SUFFICES ASSUME NEW j \in 1..n, NEW k \in 1..n, pos[j] = pos[k], j # k PROVE FALSE
    BY <1>3 DEF Injective
  <2>1. Precedes(items, j, k) \/ Precedes(items, k, j)
    BY RankType DEF Precedes
  <2>2. pos[j] < pos[k] \/ pos[k] < pos[j]
    BY <1>1, <2>1 DEF Placed
  <2>3. pos[j] \in 1..n /\ pos[k] \in 1..n
    BY <1>3
  <2> QED BY <2>2, <2>3
<1>6. Range(pos) = 1..n
  BY <1>1, <1>3 DEF Placed, Range
<1>7. \A j, k \in 1..n :
        j < k /\ Rank(items[j].severity) = Rank(items[k].severity) => pos[j] < pos[k]
  BY <1>1 DEF Placed, Precedes
<1>8. \A j \in 1..n : sorted[pos[j]] = items[j]
  BY <1>1 DEF Placed
<1> QED BY <1>2, <1>3, <1>4, <1>5, <1>6, <1>7, <1>8 DEF sorted

\* The same as DigestOrdered states it.
LEMMA SortedOrder ==
  ASSUME NEW S, NEW items \in Seq(S)
  PROVE  LET sorted == SortBySeverityDesc(items)
         IN /\ sorted \in Seq(S)
            /\ Len(sorted) = Len(items) /\ Range(sorted) = Range(items)
            /\ \A j, k \in DOMAIN items :
                 Precedes(items, j, k) =>
                   \E a, b \in DOMAIN sorted :
                     a < b /\ sorted[a] = items[j] /\ sorted[b] = items[k]
<1> DEFINE sorted == SortBySeverityDesc(items)
           n == Len(items)
<1>1. PICK pos : Placed(items, n, sorted, pos)
  BY SortPlaced
<1>2. n \in Nat /\ DOMAIN items = 1..n /\ Range(items) \subseteq S
  BY DEF Range
<1>3. DOMAIN sorted = 1..n /\ sorted \in Seq(S) /\ Len(sorted) = n
  <2> HIDE DEF sorted, n
  <2> QED BY <1>1, <1>2 DEF Placed
<1>4. \A j \in 1..n : pos[j] \in 1..n /\ sorted[pos[j]] = items[j]
  BY <1>1 DEF Placed
<1>5. Range(sorted) = Range(items)
  <2> HIDE DEF sorted, n
  <2>1. Range(sorted) \subseteq Range(items)
    BY <1>1, <1>3 DEF Placed, Range
  <2>2. Range(items) \subseteq Range(sorted)
    BY <1>2, <1>3, <1>4 DEF Range
  <2> QED BY <2>1, <2>2
<1>6. ASSUME NEW j \in DOMAIN items, NEW k \in DOMAIN items, Precedes(items, j, k)
      PROVE  \E a, b \in DOMAIN sorted :
               a < b /\ sorted[a] = items[j] /\ sorted[b] = items[k]
  <2> HIDE DEF sorted, n
  <2>1. pos[j] < pos[k]
    BY <1>1, <1>2, <1>6 DEF Placed
  <2> QED BY <1>2, <1>3, <1>4, <2>1
<1> QED BY <1>3, <1>5, <1>6

LEMMA SortedInjective ==
  ASSUME NEW S, NEW items \in Seq(S), Injective(items)
  PROVE  Injective(SortBySeverityDesc(items))
<1> DEFINE sorted == SortBySeverityDesc(items)
           n == Len(items)
<1>1. PICK pos : Placed(items, n, sorted, pos)
  BY SortPlaced
<1>2. n \in Nat /\ DOMAIN items = 1..n /\ DOMAIN sorted = 1..n
  BY <1>1 DEF Placed
<1> SUFFICES ASSUME NEW a \in 1..n, NEW b \in 1..n, sorted[a] = sorted[b] PROVE a = b
  BY <1>2 DEF Injective
<1> HIDE DEF sorted, n
<1>3. PICK j \in 1..n : pos[j] = a
  BY <1>1 DEF Placed
<1>4. PICK k \in 1..n : pos[k] = b
  BY <1>1 DEF Placed
<1>5. items[j] = items[k]
  BY <1>1, <1>3, <1>4 DEF Placed
<1> QED BY <1>2, <1>3, <1>4, <1>5 DEF Injective

(***************************************************************************)
(* Queues                                                                  *)
(***************************************************************************)
LEMMA EmptyQueue == Range(<<>>) = {} /\ Injective(<<>>)
BY DEF Range, Injective

LEMMA AppendQueue ==
  ASSUME NEW S, NEW s \in Seq(S), NEW x \in S
  PROVE  /\ Range(Append(s, x)) = Range(s) \cup {x}
         /\ Injective(s) /\ x \notin Range(s) => Injective(Append(s, x))
<1> DEFINE t == Append(s, x)
           n == Len(s)
<1>1. n \in Nat /\ DOMAIN s = 1..n /\ DOMAIN t = 1..(n + 1)
      /\ t[n + 1] = x /\ \A j \in 1..n : t[j] = s[j]
  OBVIOUS
<1>2. \A j \in 1..(n + 1) : j \in 1..n \/ j = n + 1
  BY <1>1
<1>3. 1..n \subseteq 1..(n + 1) /\ n + 1 \in 1..(n + 1)
  BY <1>1
<1> HIDE DEF t, n
<1>4. Range(t) = Range(s) \cup {x}
  BY <1>1, <1>2, <1>3 DEF Range
<1>5. ASSUME Injective(s), x \notin Range(s) PROVE Injective(t)
  BY <1>1, <1>2, <1>5 DEF Injective, Range
<1> QED BY <1>4, <1>5 DEF t

\* How often an item is in a queue without repetitions.
LEMMA Occurrences ==
  ASSUME NEW S, NEW s \in Seq(S), Injective(s), NEW x
  PROVE  Cardinality({j \in DOMAIN s : s[j] = x}) = IF x \in Range(s) THEN 1 ELSE 0
<1>1. CASE x \in Range(s)
  <2>1. PICK k \in DOMAIN s : s[k] = x
    BY <1>1 DEF Range
  <2>2. {j \in DOMAIN s : s[j] = x} = {k}
    BY <2>1 DEF Injective
  <2> QED BY <1>1, <2>2, FS_Singleton
<1>2. CASE x \notin Range(s)
  <2>1. {j \in DOMAIN s : s[j] = x} = {}
    BY <1>2 DEF Range
  <2> QED BY <1>2, <2>1, FS_EmptySet
<1> QED BY <1>1, <1>2

(***************************************************************************)
(* The inductive invariant                                                 *)
(***************************************************************************)
\* The event e and the rule i of the policy belong together.
Meant(e, i) ==
  /\ e \in Events /\ i \in DOMAIN policy.rules
  /\ Notified(Content[e])
  /\ Meets(Classify(Content[e]), policy.rules[i])

IsMeant(x) == Meant(x.event, x.rule) /\ x = ItemOf(x.event, x.rule)

LoopInv ==
  /\ \A i \in matches : Meant(current, i) /\ current \notin untaken
  /\ loop \in {"wait", "ended"} => matches = {}
  /\ flusher \in {"idle", "done"} => batch = Empty

QueuedFor(r) == Range(pending[r]) \cup Range(batch[r])

\* Nothing is queued twice, and nothing that the loop still has to act on.
QueueInv(r) ==
  /\ \A x \in QueuedFor(r) :
       IsMeant(x) /\ x.event \notin untaken /\ policy.rules[x.rule].recipient = r
  /\ Injective(pending[r]) /\ Injective(batch[r])
  /\ Range(pending[r]) \cap Range(batch[r]) = {}
  /\ \A i \in matches : ItemOf(current, i) \notin QueuedFor(r)

QueuesInv == \A r \in Recipients : QueueInv(r)

SentInv == \A m \in messages : \A x \in Range(m.body) : IsMeant(x)

IInv ==
  /\ TypeOK
  /\ ValidPolicy(policy)
  /\ LoopInv
  /\ QueuesInv
  /\ SentInv
  /\ ExternalOnlyByRule

LEMMA PolicyRules ==
  ASSUME TypeOK, ValidPolicy(policy), NEW i \in DOMAIN policy.rules
  PROVE  /\ i \in RuleIds
         /\ policy.rules[i].recipient \in Recipients
         /\ policy.rules[i].scope \in Scopes
         /\ policy.rules[i].min \in Severities
<1>1. policy \in Policies /\ policy.rules[i] \in RuleType
  BY DeliveryAssumption DEF TypeOK
<1> QED BY <1>1 DEF RuleIds, RuleType, ValidPolicy

LEMMA ItemOfType ==
  ASSUME NEW e \in Events, NEW i \in RuleIds
  PROVE  ItemOf(e, i) \in ItemType
<1>1. Content[e] \in EventType
  BY DeliveryAssumption
<1>2. Classify(Content[e]).severity \in SeverityNames
  <2>1. {"info", "warning"} \subseteq SeverityNames
    BY DeliveryAssumption DEF Severities
  <2> QED BY <1>1, <2>1 DEF Classify, EventType, Or
<1> QED BY <1>2 DEF ItemOf, ItemType

LEMMA ItemsDiffer ==
  ASSUME NEW e, NEW i, NEW f, NEW k, ItemOf(e, i) = ItemOf(f, k)
  PROVE  e = f /\ i = k
BY DEF ItemOf

LEMMA EmptyType == Empty \in [Recipients -> Seq(ItemType)] /\ \A r \in Recipients : Empty[r] = <<>>
BY DEF Empty

LEMMA InitInv == Init => IInv
<1> SUFFICES ASSUME Init PROVE IInv
  OBVIOUS
<1>1. TypeOK
  BY EmptyType DEF Init, TypeOK
<1>2. ValidPolicy(policy) /\ LoopInv /\ SentInv /\ ExternalOnlyByRule
  BY DEF Init, LoopInv, SentInv, ExternalOnlyByRule
<1>3. QueuesInv
  BY EmptyType, EmptyQueue DEF Init, QueuesInv, QueueInv, QueuedFor
<1> QED BY <1>1, <1>2, <1>3 DEF IInv

(***************************************************************************)
(* Messages                                                                *)
(***************************************************************************)
ByRule(m) ==
  \E e \in Events, i \in DOMAIN policy.rules :
    /\ m.body = <<ItemOf(e, i)>>
    /\ LET rule == policy.rules[i]
       IN /\ rule.recipient = m.to
          /\ rule.delivery = "immediate" /\ rule.scope = "external"
          /\ Meets(Classify(Content[e]), rule)

LEMMA ExternalIs == ExternalOnlyByRule <=> \A m \in messages : m.scope = "external" => ByRule(m)
BY DEF ExternalOnlyByRule, ByRule

LEMMA NothingSent ==
  ASSUME SentInv, ExternalOnlyByRule, UNCHANGED <<policy, messages>>
  PROVE  SentInv' /\ ExternalOnlyByRule'
<1>1. SentInv'
  BY DEF SentInv, IsMeant, Meant
<1>2. ExternalOnlyByRule'
  BY ExternalIs DEF ExternalOnlyByRule
<1> QED BY <1>1, <1>2

LEMMA OneMessage ==
  ASSUME SentInv, ExternalOnlyByRule, UNCHANGED policy, NEW m, messages' = messages \cup {m},
         \A x \in Range(m.body) : IsMeant(x),
         m.scope = "external" => ByRule(m)
  PROVE  SentInv' /\ ExternalOnlyByRule'
<1>1. SentInv'
  BY DEF SentInv, IsMeant, Meant
<1>2. ExternalOnlyByRule'
  BY DEF ExternalOnlyByRule, ByRule
<1> QED BY <1>1, <1>2

\* Send keeps the history variables in their types.
LEMMA SendType ==
  ASSUME TypeOK, NEW npub \in Recipients, NEW items \in Seq(ItemType), NEW scope \in Scopes,
         Send(npub, items, scope)
  PROVE  messages' \subseteq MessageType /\ attempts' \in [Events \X RuleIds -> Nat]
<1>1. [to |-> npub, body |-> items, scope |-> scope] \in MessageType
  BY DEF MessageType
<1>2. ASSUME NEW o \in Events \X RuleIds
      PROVE  attempts[o] + Cardinality({j \in DOMAIN items : items[j] = ItemOf(o[1], o[2])}) \in Nat
  <2> DEFINE J == {j \in DOMAIN items : items[j] = ItemOf(o[1], o[2])}
  <2>1. IsFiniteSet(1..Len(items))
    BY FS_Interval
  <2>2. J \subseteq 1..Len(items)
    OBVIOUS
  <2>3. Cardinality(J) \in Nat
    <3> HIDE DEF J
    <3> QED BY <2>1, <2>2, FS_Subset, FS_CardinalityType
  <2>4. attempts[o] \in Nat
    BY DEF TypeOK
  <2> QED BY <2>3, <2>4
<1>3. messages' \subseteq MessageType
  BY <1>1 DEF Send, TypeOK
<1>4. attempts' \in [Events \X RuleIds -> Nat]
  BY <1>2 DEF Send
<1> QED BY <1>3, <1>4

(***************************************************************************)
(* Every step keeps the invariant                                          *)
(***************************************************************************)
LEMMA ReceiveInv == ASSUME IInv, NEW e \in Events, Receive(e) PROVE IInv'
<1> USE DEF IInv
<1>1. /\ UNCHANGED <<policy, cancelled, pending, batch, flusher, messages, attempts>>
      /\ matches = {} /\ e \in untaken /\ untaken' = untaken \ {e}
  BY DEF Receive, LoopInv
<1>2. \/ Notified(Content[e]) /\ loop' = "handle" /\ current' = e
           /\ matches' = Match(policy, Classify(Content[e]))
      \/ UNCHANGED <<loop, current, matches>>
  BY DEF Receive
<1>3. ASSUME NEW i \in matches' PROVE Meant(current, i)' /\ current' = e
  BY <1>1, <1>2, <1>3 DEF Match, Meant
<1>4. TypeOK'
  <2>1. matches' \in SUBSET RuleIds
    BY <1>1, <1>3, PolicyRules DEF Meant
  <2>2. loop' \in {"wait", "handle", "ended", "exited"} /\ current' \in Events \cup {NoEvent}
    BY <1>2 DEF TypeOK
  <2> QED BY <1>1, <2>1, <2>2 DEF TypeOK
<1>5. LoopInv'
  <2>1. loop' \in {"wait", "ended"} => matches' = {}
    BY <1>1, <1>2
  <2> QED BY <1>1, <1>3, <2>1 DEF LoopInv, Empty
<1>6. ASSUME NEW r \in Recipients PROVE QueueInv(r)'
  <2>1. QueueInv(r) /\ QueuedFor(r)' = QueuedFor(r)
    BY <1>1 DEF QueuesInv, QueuedFor
  <2>2. \A x \in QueuedFor(r) : x.event \notin untaken
    BY <2>1 DEF QueueInv
  <2>3. \A i \in matches' : ItemOf(current', i) \notin QueuedFor(r)
    <3>1. \A i \in matches' : ItemOf(current', i).event \in untaken
      BY <1>1, <1>3 DEF ItemOf
    <3> QED BY <2>2, <3>1
  <2>4. \A i : ItemOf(current, i)' = ItemOf(current', i)
    BY DEF ItemOf
  <2> QED BY <1>1, <2>1, <2>3, <2>4 DEF QueueInv, IsMeant, Meant, ItemOf
<1> QED BY <1>1, <1>4, <1>5, <1>6, NothingSent DEF QueuesInv

\* What HandleEvent finds and leaves at a rule.
LEMMA AtRuleFacts ==
  ASSUME IInv, NEW i \in matches, NEW delivery, AtRule(i, delivery)
  PROVE  /\ Meant(current, i) /\ IsMeant(ItemOf(current, i)) /\ current \notin untaken
         /\ i \in RuleIds /\ ItemOf(current, i) \in ItemType
         /\ matches' = matches \ {i} /\ policy.rules[i].delivery = delivery
         /\ UNCHANGED <<policy, untaken, current, loop, cancelled, batch, flusher>>
         /\ LoopInv'
<1>1. /\ matches' = matches \ {i} /\ policy.rules[i].delivery = delivery
      /\ UNCHANGED <<policy, untaken, current, loop, cancelled, batch, flusher>>
  BY DEF AtRule
<1>2. Meant(current, i) /\ current \notin untaken
  BY DEF IInv, LoopInv
<1>3. i \in RuleIds /\ current \in Events
  BY <1>2, PolicyRules DEF IInv, Meant
<1>4. LoopInv'
  BY <1>1 DEF IInv, LoopInv, Meant, Empty
<1>5. IsMeant(ItemOf(current, i))
  BY <1>2 DEF IsMeant, ItemOf
<1> QED BY <1>1, <1>2, <1>3, <1>4, <1>5, ItemOfType

LEMMA SendImmediateInv == ASSUME IInv, NEW i \in matches, SendImmediate(i) PROVE IInv'
<1> DEFINE rule == policy.rules[i]
           body == <<ItemOf(current, i)>>
           m == [to |-> rule.recipient, body |-> body, scope |-> rule.scope]
<1>1. AtRule(i, "immediate") /\ Send(rule.recipient, body, rule.scope) /\ UNCHANGED pending
  BY DEF SendImmediate
<1>2. /\ Meant(current, i) /\ IsMeant(ItemOf(current, i))
      /\ i \in RuleIds /\ ItemOf(current, i) \in ItemType
      /\ matches' = matches \ {i} /\ rule.delivery = "immediate"
      /\ UNCHANGED <<policy, untaken, current, loop, cancelled, batch, flusher>>
      /\ LoopInv'
  BY <1>1, AtRuleFacts
<1>3. rule.recipient \in Recipients /\ rule.scope \in Scopes
  BY <1>2, PolicyRules DEF IInv, Meant
<1>4. TypeOK'
  <2>1. body \in Seq(ItemType)
    BY <1>2
  <2>2. messages' \subseteq MessageType /\ attempts' \in [Events \X RuleIds -> Nat]
    <3> HIDE DEF rule, body
    <3> QED BY <1>1, <1>3, <2>1, SendType DEF IInv
  <2> QED BY <1>1, <1>2, <2>2 DEF IInv, TypeOK
<1>5. SentInv' /\ ExternalOnlyByRule'
  <2>1. messages' = messages \cup {m}
    BY <1>1 DEF Send
  <2>2. \A x \in Range(m.body) : IsMeant(x)
    BY <1>2 DEF Range
  <2>3. m.scope = "external" => ByRule(m)
    BY <1>2 DEF ByRule, Meant
  <2> HIDE DEF m
  <2> QED BY <1>2, <2>1, <2>2, <2>3, OneMessage DEF IInv
<1>6. QueuesInv'
  BY <1>1, <1>2 DEF IInv, QueuesInv, QueueInv, QueuedFor, IsMeant, Meant, ItemOf
<1> QED BY <1>2, <1>4, <1>5, <1>6 DEF IInv

LEMMA AddInv == ASSUME IInv, NEW i \in matches, Add(i) PROVE IInv'
<1> DEFINE npub == policy.rules[i].recipient
           x == ItemOf(current, i)
<1>1. AtRule(i, "summary") /\ UNCHANGED <<messages, attempts>>
      /\ pending' = [pending EXCEPT ![npub] = Append(@, x)]
  BY DEF Add, NoSend
<1>2. /\ Meant(current, i) /\ IsMeant(x) /\ current \notin untaken
      /\ i \in RuleIds /\ x \in ItemType /\ matches' = matches \ {i}
      /\ UNCHANGED <<policy, untaken, current, loop, cancelled, batch, flusher>>
      /\ LoopInv'
  BY <1>1, AtRuleFacts
<1>3. npub \in Recipients /\ pending \in [Recipients -> Seq(ItemType)]
  BY <1>2, PolicyRules DEF IInv, Meant, TypeOK
<1>4. /\ pending' \in [Recipients -> Seq(ItemType)]
      /\ pending'[npub] = Append(pending[npub], x)
      /\ \A r \in Recipients \ {npub} : pending'[r] = pending[r]
  <2> HIDE DEF x, npub
  <2> QED BY <1>1, <1>2, <1>3
<1>5. TypeOK'
  BY <1>1, <1>2, <1>4 DEF IInv, TypeOK
<1>6. x.event = current /\ x.rule = i /\ \A k \in matches \ {i} : ItemOf(current, k) # x
  BY DEF ItemOf
<1>7. ASSUME NEW r \in Recipients PROVE QueueInv(r)'
  <2>1. QueueInv(r)
    BY DEF IInv, QueuesInv
  <2>2. CASE r # npub
    <3>1. pending'[r] = pending[r]
      BY <1>4, <2>2
    <3> QED BY <1>2, <2>1, <3>1 DEF QueueInv, QueuedFor, IsMeant, Meant, ItemOf
  <2>3. CASE r = npub
    <3>1. x \notin QueuedFor(r)
      BY <2>1 DEF QueueInv
    <3>2. Range(pending'[r]) = Range(pending[r]) \cup {x} /\ Injective(pending'[r])
      <4>1. pending[r] \in Seq(ItemType) /\ Injective(pending[r]) /\ x \notin Range(pending[r])
        BY <1>3, <2>1, <3>1 DEF QueueInv, QueuedFor
      <4>2. pending'[r] = Append(pending[r], x) /\ x \in ItemType
        BY <1>2, <1>4, <2>3
      <4> HIDE DEF x, npub
      <4> QED BY <4>1, <4>2, AppendQueue
    <3>3. QueuedFor(r)' = QueuedFor(r) \cup {x}
      BY <1>2, <3>2 DEF QueuedFor
    <3>4. \A y \in QueuedFor(r) \cup {x} :
            IsMeant(y) /\ y.event \notin untaken /\ policy.rules[y.rule].recipient = r
      BY <1>2, <1>6, <2>1, <2>3 DEF QueueInv
    <3>5. \A y \in QueuedFor(r)' :
            IsMeant(y)' /\ y.event \notin untaken' /\ policy'.rules[y.rule].recipient = r
      BY <1>2, <3>3, <3>4 DEF IsMeant, Meant, ItemOf
    <3>6. Injective(batch'[r]) /\ Range(pending'[r]) \cap Range(batch'[r]) = {}
      BY <1>2, <2>1, <3>1, <3>2 DEF QueueInv, QueuedFor
    <3>7. \A k \in matches' : ItemOf(current', k) \notin QueuedFor(r)'
      BY <1>2, <1>6, <2>1, <3>3 DEF QueueInv
    <3> QED BY <3>2, <3>5, <3>6, <3>7 DEF QueueInv, ItemOf
  <2> QED BY <2>2, <2>3
<1>8. QueuesInv'
  BY <1>7 DEF QueuesInv
<1> QED BY <1>1, <1>2, <1>5, <1>8, NothingSent DEF IInv

LEMMA TakePendingInv ==
  ASSUME IInv, NEW from, NEW to \in {"flush", "final"}, TakePending(from, to)
  PROVE  IInv'
<1>1. /\ flusher' = to /\ batch' = pending /\ pending' = Empty
      /\ UNCHANGED <<policy, untaken, current, matches, loop, cancelled, messages, attempts>>
  BY DEF TakePending
<1>2. TypeOK'
  BY <1>1, EmptyType DEF IInv, TypeOK
<1>3. LoopInv'
  BY <1>1 DEF IInv, LoopInv, Meant
<1>4. ASSUME NEW r \in Recipients PROVE QueueInv(r)'
  <2>1. pending'[r] = <<>> /\ batch'[r] = pending[r] /\ QueueInv(r)
    BY <1>1, EmptyType DEF IInv, QueuesInv
  <2>2. Range(pending'[r]) = {} /\ Injective(pending'[r])
    BY <2>1, EmptyQueue
  <2> QED BY <1>1, <2>1, <2>2 DEF QueueInv, QueuedFor, IsMeant, Meant, ItemOf
<1>5. QueuesInv'
  BY <1>4 DEF QueuesInv
<1> QED BY <1>1, <1>2, <1>3, <1>5, NothingSent DEF IInv

LEMMA SendDigestInv == ASSUME IInv, NEW npub \in Recipients, SendDigest(npub) PROVE IInv'
<1> DEFINE body == SortBySeverityDesc(batch[npub])
           m == [to |-> npub, body |-> body, scope |-> "local-only"]
<1>1. /\ flusher \in {"flush", "final"} /\ Send(npub, body, "local-only")
      /\ batch' = [batch EXCEPT ![npub] = <<>>]
      /\ UNCHANGED <<policy, untaken, current, matches, loop, cancelled, pending, flusher>>
  BY DEF SendDigest
<1>2. batch \in [Recipients -> Seq(ItemType)]
  BY DEF IInv, TypeOK
<1>3. body \in Seq(ItemType) /\ Range(body) = Range(batch[npub])
  BY <1>2, SortedOrder
<1>4. TypeOK'
  <2>1. messages' \subseteq MessageType /\ attempts' \in [Events \X RuleIds -> Nat]
    <3>1. "local-only" \in Scopes
      BY DEF Scopes
    <3> HIDE DEF body
    <3> QED BY <1>1, <1>3, <3>1, SendType DEF IInv
  <2>2. batch' \in [Recipients -> Seq(ItemType)]
    BY <1>1, <1>2
  <2> QED BY <1>1, <2>1, <2>2 DEF IInv, TypeOK
<1>5. LoopInv'
  BY <1>1 DEF IInv, LoopInv, Meant
<1>6. ASSUME NEW r \in Recipients PROVE QueueInv(r)'
  <2>1. QueueInv(r)
    BY DEF IInv, QueuesInv
  <2>2. Range(batch'[r]) \subseteq Range(batch[r]) /\ Injective(batch'[r])
    BY <1>1, <1>2, <2>1, EmptyQueue DEF QueueInv
  <2>3. QueuedFor(r)' \subseteq QueuedFor(r) /\ pending'[r] = pending[r]
    BY <1>1, <2>2 DEF QueuedFor
  <2> QED BY <1>1, <2>1, <2>2, <2>3 DEF QueueInv, IsMeant, Meant, ItemOf
<1>7. SentInv' /\ ExternalOnlyByRule'
  <2>1. messages' = messages \cup {m} /\ m.scope # "external"
    BY <1>1 DEF Send
  <2>2. \A x \in Range(m.body) : IsMeant(x)
    <3>1. \A x \in Range(batch[npub]) : IsMeant(x)
      BY DEF IInv, QueuesInv, QueueInv, QueuedFor
    <3> QED BY <1>3, <3>1
  <2> HIDE DEF m
  <2> QED BY <1>1, <2>1, <2>2, OneMessage DEF IInv
<1>8. QueuesInv'
  BY <1>6 DEF QueuesInv
<1> QED BY <1>1, <1>4, <1>5, <1>7, <1>8 DEF IInv

\* The other steps move only the goroutines' positions.
LEMMA ControlInv ==
  ASSUME IInv,
         HandleReturns \/ FlushReturns \/ Signal \/ LoopEnds \/ Exit \/ UNCHANGED vars
  PROVE  IInv'
<1> USE DEF HandleReturns, FlushReturns, Signal, LoopEnds, Exit, vars
<1>1. UNCHANGED <<policy, untaken, matches, pending, batch, messages, attempts>>
  OBVIOUS
<1>2. \/ UNCHANGED current
      \/ current' = NoEvent /\ matches = {}
  OBVIOUS
<1>3. TypeOK'
  <2>1. /\ current' \in Events \cup {NoEvent} /\ cancelled' \in BOOLEAN
        /\ loop' \in {"wait", "handle", "ended", "exited"}
        /\ flusher' \in {"idle", "flush", "final", "done"}
    BY DEF IInv, TypeOK
  <2> QED BY <1>1, <2>1 DEF IInv, TypeOK
<1>4. LoopInv'
  <2>1. loop' \in {"wait", "ended"} => matches = {}
    BY DEF IInv, LoopInv
  <2>2. flusher' \in {"idle", "done"} => batch = Empty
    BY DEF IInv, LoopInv
  <2> QED BY <1>1, <1>2, <2>1, <2>2 DEF IInv, LoopInv, Meant, Empty
<1>5. QueuesInv'
  BY <1>1, <1>2 DEF IInv, QueuesInv, QueueInv, QueuedFor, IsMeant, Meant, ItemOf
<1> QED BY <1>1, <1>3, <1>4, <1>5, NothingSent DEF IInv

LEMMA StepInv == IInv /\ [Next]_vars => IInv'
<1> SUFFICES ASSUME IInv, [Next]_vars PROVE IInv'
  OBVIOUS
<1>1. CASE \E e \in Events : Receive(e)
  BY <1>1, ReceiveInv
<1>2. CASE \E i \in matches : SendImmediate(i)
  BY <1>2, SendImmediateInv
<1>3. CASE \E i \in matches : Add(i)
  BY <1>3, AddInv
<1>4. CASE Tick \/ StopRun
  BY <1>4, TakePendingInv DEF Tick, StopRun
<1>5. CASE \E npub \in Recipients : SendDigest(npub)
  BY <1>5, SendDigestInv
<1>6. CASE HandleReturns \/ FlushReturns \/ Signal \/ LoopEnds \/ Exit \/ UNCHANGED vars
  BY <1>6, ControlInv
<1> QED BY <1>1, <1>2, <1>3, <1>4, <1>5, <1>6 DEF Next, LoopStep, FlushStep

\* The invariant holds of the service, whatever the interleaving of its two
\* goroutines.
THEOREM InvHolds == Spec => []IInv
BY InitInv, StepInv, PTL DEF Spec

\* Every variable of the notification service keeps its type: what is queued
\* are items of events and rules, what is sent goes to a recipient.
THEOREM DeliveryTypes == Spec => []TypeOK
<1>1. IInv => TypeOK
  BY DEF IInv
<1> QED BY <1>1, InvHolds, PTL

\* A digest never leaves the operator's own relays, and an immediate message
\* does only where a rule that its event meets says so.
THEOREM ExternalMessagesByRule == Spec => []ExternalOnlyByRule
<1>1. IInv => ExternalOnlyByRule
  BY DEF IInv
<1> QED BY <1>1, InvHolds, PTL

\* severityRank puts every unknown severity lowest, so that Match holds a
\* notice with a mistyped one back from every rule for warnings or worse.
THEOREM UnknownNeverOverMatches == Spec => []NoOverMatch
<1>1. ASSUME IInv, NEW m \in messages, NEW j \in DOMAIN m.body,
             Content[m.body[j].event].kind \in NoticeKinds,
             Content[m.body[j].event].severity \notin Severities \cup {Unset}
      PROVE  policy.rules[m.body[j].rule].min = "info"
  <2> DEFINE x == m.body[j]
             event == Content[x.event]
             rule == policy.rules[x.rule]
  <2>1. Meets(Classify(event), rule) /\ x.rule \in DOMAIN policy.rules
    <3>1. x \in Range(m.body)
      BY DEF Range
    <3> QED BY <1>1, <3>1 DEF IInv, SentInv, IsMeant, Meant
  <2>2. Classify(event).severity = event.severity
    BY <1>1 DEF Classify, Or, NoticeKinds
  <2>3. Rank(Classify(event).severity) = 0
    BY <1>1, <2>2 DEF Rank, Severities
  <2>4. Rank(rule.min) = 0
    BY <2>1, <2>3, RankType DEF Meets
  <2>5. rule.min \in Severities
    BY <1>1, <2>1, PolicyRules DEF IInv
  <2> QED BY <2>4, <2>5 DEF Rank, Severities
<1>2. IInv => NoOverMatch
  BY <1>1 DEF NoOverMatch
<1> QED BY <1>2, InvHolds, PTL

\* Whatever was queued, the digest that sendDigest hands to Send has every item
\* of the batch, the most severe first and those of one severity in the order
\* they were queued.
THEOREM DigestsOrdered == Spec => DigestOrdered
<1>1. ASSUME IInv, NEW r \in Recipients, SendDigest(r), NEW m \in messages' \ messages
      PROVE  /\ Len(m.body) = Len(batch[r]) /\ Range(m.body) = Range(batch[r])
             /\ \A j, k \in DOMAIN batch[r] :
                  Precedes(batch[r], j, k) =>
                    \E a, b \in DOMAIN m.body :
                      a < b /\ m.body[a] = batch[r][j] /\ m.body[b] = batch[r][k]
  <2>1. m.body = SortBySeverityDesc(batch[r])
    BY <1>1 DEF SendDigest, Send
  <2>2. batch[r] \in Seq(ItemType)
    BY <1>1 DEF IInv, TypeOK
  <2> QED BY <2>1, <2>2, SortedOrder
<1>2. IInv => \A r \in Recipients :
        SendDigest(r) =>
          \A m \in messages' \ messages :
            /\ Len(m.body) = Len(batch[r]) /\ Range(m.body) = Range(batch[r])
            /\ \A j, k \in DOMAIN batch[r] :
                 LET x == batch[r][j]
                     y == batch[r][k]
                     precedes == \/ Rank(x.severity) > Rank(y.severity)
                                 \/ Rank(x.severity) = Rank(y.severity) /\ j < k
                 IN precedes => \E a, b \in DOMAIN m.body :
                                  a < b /\ m.body[a] = x /\ m.body[b] = y
  BY <1>1 DEF Precedes
<1> QED BY <1>2, InvHolds, PTL DEF DigestOrdered

(***************************************************************************)
(* NotifyDelivery implements NotifyPromise                                 *)
(***************************************************************************)
Obligation(x) == <<x.event, x.rule>>
Obligations(items) == {Obligation(x) : x \in Range(items)}

LEMMA OwedIs ==
  \A o : o \in Owed <=> \/ \E i \in matches : o = <<current, i>>
                        \/ \E r \in Recipients : \E x \in QueuedFor(r) : o = Obligation(x)
BY DEF Owed, ItemsIn, QueuedFor, Obligation

LEMMA SamePromise ==
  ASSUME UNCHANGED policy
  PROVE  UNCHANGED Due
BY DEF Due

\* What a message adds to the attempts.
LEMMA SendDischarges ==
  ASSUME NEW items \in Seq(ItemType), Injective(items), \A x \in Range(items) : IsMeant(x),
         NEW npub, NEW scope, Send(npub, items, scope)
  PROVE  attempts' = [o \in Events \X RuleIds |->
                        attempts[o] + (IF o \in Obligations(items) THEN 1 ELSE 0)]
<1>1. ASSUME NEW o \in Events \X RuleIds
      PROVE  Cardinality({j \in DOMAIN items : items[j] = ItemOf(o[1], o[2])})
               = IF o \in Obligations(items) THEN 1 ELSE 0
  <2>1. ItemOf(o[1], o[2]) \in Range(items) <=> o \in Obligations(items)
    <3>1. ASSUME ItemOf(o[1], o[2]) \in Range(items) PROVE o \in Obligations(items)
      <4>1. o = Obligation(ItemOf(o[1], o[2]))
        BY DEF Obligation, ItemOf
      <4> QED BY <3>1, <4>1 DEF Obligations
    <3>2. ASSUME o \in Obligations(items) PROVE ItemOf(o[1], o[2]) \in Range(items)
      <4>1. PICK x \in Range(items) : o = Obligation(x)
        BY <3>2 DEF Obligations
      <4>2. o[1] = x.event /\ o[2] = x.rule /\ x = ItemOf(x.event, x.rule)
        BY <4>1 DEF Obligation, IsMeant
      <4> QED BY <4>1, <4>2
    <3> QED BY <3>1, <3>2
  <2> QED BY <2>1, Occurrences
<1> QED BY <1>1 DEF Send

LEMMA PromiseInit == Init => Promise!Init
<1> SUFFICES ASSUME Init PROVE Promise!Init
  OBVIOUS
<1>1. policy \in Policies /\ matches = {} /\ pending = Empty /\ batch = Empty
  BY DEF Init
<1>2. Due \in [Events -> SUBSET RuleIds]
  BY <1>1 DEF Due, RuleIds
<1>3. \A r \in Recipients : QueuedFor(r) = {}
  BY <1>1, EmptyType, EmptyQueue DEF QueuedFor
<1>4. Owed = {}
  BY <1>1, <1>3, OwedIs
<1> QED BY <1>2, <1>4 DEF Init, Promise!Init, Running

LEMMA ReceiveTakes ==
  ASSUME IInv, NEW e \in Events, Receive(e)
  PROVE  Promise!TakeEvent(e)
<1>1. /\ UNCHANGED <<policy, pending, batch, attempts>>
      /\ matches = {} /\ e \in untaken /\ untaken' = untaken \ {e} /\ Running /\ Running'
  BY DEF IInv, LoopInv, Receive, Running
<1>2. \A i : (\E k \in matches' : <<e, i>> = <<current', k>>) <=> i \in Due[e]
  BY <1>1 DEF Receive, Match, Due
<1>3. \A k \in matches' : current' = e
  BY <1>1 DEF Receive
<1>4. \A r \in Recipients : QueuedFor(r)' = QueuedFor(r)
  BY <1>1 DEF QueuedFor
<1>5. \A o : o \in Owed' <=> \/ \E k \in matches' : o = <<current', k>>
                             \/ \E r \in Recipients : \E x \in QueuedFor(r) : o = Obligation(x)
  BY <1>4, OwedIs DEF Owed, ItemsIn, QueuedFor, Obligation
<1>6. Owed' = Owed \cup ({e} \X Due[e])
  <2>1. \A o : o \in {e} \X Due[e] <=> \E k \in matches' : o = <<current', k>>
    BY <1>2, <1>3
  <2> QED BY <1>1, <1>5, <2>1, OwedIs
<1> QED BY <1>1, <1>6, SamePromise DEF Promise!TakeEvent

LEMMA SendImmediateDischarges ==
  ASSUME IInv, NEW i \in matches, SendImmediate(i)
  PROVE  Promise!Discharge({<<current, i>>})
<1> DEFINE x == ItemOf(current, i)
           O == {<<current, i>>}
<1>1. /\ IsMeant(x) /\ x \in ItemType /\ matches' = matches \ {i}
      /\ UNCHANGED <<policy, untaken, current, loop, pending, batch>>
      /\ Send(policy.rules[i].recipient, <<x>>, policy.rules[i].scope)
      /\ loop = "handle"
  BY AtRuleFacts DEF SendImmediate, AtRule
<1>2. attempts' = [o \in Events \X RuleIds |-> attempts[o] + (IF o \in O THEN 1 ELSE 0)]
  <2>1. <<x>> \in Seq(ItemType) /\ Injective(<<x>>) /\ Range(<<x>>) = {x}
    BY <1>1 DEF Injective, Range
  <2>2. Obligations(<<x>>) = O
    BY <2>1 DEF Obligations, Obligation, ItemOf
  <2>3. \A y \in Range(<<x>>) : IsMeant(y)
    BY <1>1, <2>1
  <2> HIDE DEF x, O
  <2> QED BY <1>1, <2>1, <2>2, <2>3, SendDischarges
<1>3. \A r \in Recipients : QueuedFor(r)' = QueuedFor(r)
  BY <1>1 DEF QueuedFor
<1>4. \A r \in Recipients : \A y \in QueuedFor(r) : Obligation(y) # <<current, i>>
  BY DEF IInv, QueuesInv, QueueInv, IsMeant, Obligation
<1>5. Owed' = Owed \ O /\ O \subseteq Owed
  <2>1. \A o : o \in Owed' <=>
           \/ \E k \in matches \ {i} : o = <<current, k>>
           \/ \E r \in Recipients : \E y \in QueuedFor(r) : o = Obligation(y)
    BY <1>1, <1>3 DEF Owed, ItemsIn, QueuedFor, Obligation
  <2>2. \A k \in matches \ {i} : <<current, k>> # <<current, i>>
    OBVIOUS
  <2> QED BY <1>4, <2>1, <2>2, OwedIs
<1> QED BY <1>1, <1>2, <1>5, SamePromise DEF Promise!Discharge, Running

LEMMA SendDigestDischarges ==
  ASSUME IInv, NEW npub \in Recipients, SendDigest(npub)
  PROVE  Promise!Discharge(Obligations(batch[npub]))
<1> DEFINE items == batch[npub]
           body == SortBySeverityDesc(items)
           O == Obligations(items)
<1>1. /\ Send(npub, body, "local-only") /\ items # <<>> /\ Running
      /\ batch' = [batch EXCEPT ![npub] = <<>>]
      /\ UNCHANGED <<policy, untaken, current, matches, loop, pending>>
  BY DEF SendDigest
<1>2. batch \in [Recipients -> Seq(ItemType)] /\ QueuesInv
  BY DEF IInv, TypeOK
<1>3. body \in Seq(ItemType) /\ Range(body) = Range(items)
  BY <1>2, SortedOrder
<1>4. Injective(body)
  BY <1>2, SortedInjective DEF QueuesInv, QueueInv
<1>5. \A x \in Range(items) : IsMeant(x)
  BY <1>2 DEF QueuesInv, QueueInv, QueuedFor
<1>6. attempts' = [o \in Events \X RuleIds |-> attempts[o] + (IF o \in O THEN 1 ELSE 0)]
  <2>1. Obligations(body) = O
    BY <1>3 DEF Obligations
  <2> HIDE DEF body, O, items
  <2> QED BY <1>1, <1>3, <1>4, <1>5, <2>1, SendDischarges
<1>7. O # {}
  <2>1. items \in Seq(ItemType)
    BY <1>2
  <2>2. 1 \in DOMAIN items
    <3> HIDE DEF items
    <3> QED BY <1>1, <2>1
  <2> QED BY <2>2 DEF Obligations, Range
<1>8. \A r \in Recipients : QueuedFor(r)' = IF r = npub THEN QueuedFor(r) \ Range(items)
                                            ELSE QueuedFor(r)
  BY <1>1, <1>2, EmptyQueue DEF QueuedFor, QueuesInv, QueueInv
<1>9. ASSUME NEW r \in Recipients, NEW y \in QueuedFor(r), NEW x \in Range(items),
             Obligation(y) = Obligation(x)
      PROVE  y = x /\ r = npub
  <2>1. IsMeant(y) /\ policy.rules[y.rule].recipient = r
    BY <1>2 DEF QueuesInv, QueueInv
  <2>2. IsMeant(x) /\ policy.rules[x.rule].recipient = npub
    BY <1>2 DEF QueuesInv, QueueInv, QueuedFor
  <2>3. y.event = x.event /\ y.rule = x.rule
    BY <1>9 DEF Obligation
  <2> QED BY <2>1, <2>2, <2>3 DEF IsMeant
<1>10. ASSUME NEW i \in matches, NEW x \in Range(items), <<current, i>> = Obligation(x)
       PROVE  FALSE
  <2>1. x \in QueuedFor(npub) /\ IsMeant(x) /\ ItemOf(current, i) \notin QueuedFor(npub)
    BY <1>2 DEF QueuesInv, QueueInv, QueuedFor
  <2> QED BY <1>10, <2>1 DEF IsMeant, Obligation
<1>11. Owed' = Owed \ O /\ O \subseteq Owed
  <2>1. \A o : o \in Owed' <=>
           \/ \E i \in matches : o = <<current, i>>
           \/ \E r \in Recipients : \E y \in QueuedFor(r)' : o = Obligation(y)
    BY <1>1 DEF Owed, ItemsIn, QueuedFor, Obligation
  <2>2. \A o : o \in O <=> \E x \in Range(items) : o = Obligation(x)
    BY DEF Obligations
  <2>3. Range(items) \subseteq QueuedFor(npub)
    BY DEF QueuedFor
  <2>4. ASSUME NEW o \in Owed' PROVE o \in Owed /\ o \notin O
    <3>1. CASE \E i \in matches : o = <<current, i>>
      BY <1>10, <2>2, <3>1, OwedIs
    <3>2. CASE \E r \in Recipients : \E y \in QueuedFor(r)' : o = Obligation(y)
      <4>0. PICK r \in Recipients : \E y \in QueuedFor(r)' : o = Obligation(y)
        BY <3>2
      <4>1. PICK y \in QueuedFor(r)' : o = Obligation(y)
        BY <4>0
      <4>2. y \in QueuedFor(r) /\ (r = npub => y \notin Range(items))
        BY <1>8, <4>1
      <4> QED BY <1>9, <2>2, <4>1, <4>2, OwedIs
    <3> QED BY <2>1, <2>4, <3>1, <3>2
  <2>5. ASSUME NEW o \in Owed, o \notin O PROVE o \in Owed'
    <3>1. CASE \E i \in matches : o = <<current, i>>
      BY <2>1, <3>1
    <3>2. CASE \E r \in Recipients : \E y \in QueuedFor(r) : o = Obligation(y)
      <4>0. PICK r \in Recipients : \E y \in QueuedFor(r) : o = Obligation(y)
        BY <3>2
      <4>1. PICK y \in QueuedFor(r) : o = Obligation(y)
        BY <4>0
      <4>2. y \in QueuedFor(r)'
        BY <1>8, <2>2, <2>5, <4>1
      <4> QED BY <2>1, <4>1, <4>2
    <3> QED BY <2>5, <3>1, <3>2, OwedIs
  <2>6. O \subseteq Owed
    BY <2>2, <2>3, OwedIs
  <2> HIDE DEF O
  <2> QED BY <2>4, <2>5, <2>6
<1>12. Running' = Running
  BY <1>1 DEF Running
<1> HIDE DEF O
<1> QED BY <1>1, <1>6, <1>7, <1>11, <1>12, SamePromise DEF Promise!Discharge, O

\* An append and the exchange of the map move an obligation and change none.
LEMMA OwedSame ==
  ASSUME UNCHANGED <<policy, untaken, attempts, loop>>, Owed' = Owed
  PROVE  UNCHANGED Promise!promiseVars
BY SamePromise DEF Promise!promiseVars, Running

LEMMA AddStutters ==
  ASSUME IInv, NEW i \in matches, Add(i)
  PROVE  UNCHANGED Promise!promiseVars
<1> DEFINE npub == policy.rules[i].recipient
           x == ItemOf(current, i)
<1>1. /\ Meant(current, i) /\ x \in ItemType /\ matches' = matches \ {i}
      /\ UNCHANGED <<policy, untaken, current, loop, batch, attempts>>
      /\ pending' = [pending EXCEPT ![npub] = Append(@, x)]
  BY AtRuleFacts DEF Add, NoSend
<1>2. npub \in Recipients /\ pending \in [Recipients -> Seq(ItemType)]
  BY <1>1, PolicyRules DEF IInv, Meant, TypeOK
<1>3. Range(pending'[npub]) = Range(pending[npub]) \cup {x}
      /\ \A r \in Recipients \ {npub} : pending'[r] = pending[r]
  <2>1. pending'[npub] = Append(pending[npub], x) /\ pending[npub] \in Seq(ItemType)
        /\ \A r \in Recipients \ {npub} : pending'[r] = pending[r]
    <3> HIDE DEF npub, x
    <3> QED BY <1>1, <1>2
  <2> HIDE DEF npub, x
  <2> QED BY <1>1, <2>1, AppendQueue
<1>4. \A r \in Recipients : QueuedFor(r)' = IF r = npub THEN QueuedFor(r) \cup {x}
                                            ELSE QueuedFor(r)
  BY <1>1, <1>2, <1>3 DEF QueuedFor
<1>5. Obligation(x) = <<current, i>>
  BY DEF Obligation, ItemOf
<1>6. Owed' = Owed
  <2>1. \A o : o \in Owed' <=>
           \/ \E k \in matches \ {i} : o = <<current, k>>
           \/ \E r \in Recipients : \E y \in QueuedFor(r)' : o = Obligation(y)
    BY <1>1 DEF Owed, ItemsIn, QueuedFor, Obligation
  <2> HIDE DEF npub, x
  <2>2. \A o : (\E r \in Recipients : \E y \in QueuedFor(r)' : o = Obligation(y))
               <=> \/ o = <<current, i>>
                   \/ \E r \in Recipients : \E y \in QueuedFor(r) : o = Obligation(y)
    <3> SUFFICES ASSUME NEW o
                 PROVE  (\E r \in Recipients : \E y \in QueuedFor(r)' : o = Obligation(y))
                        <=> \/ o = Obligation(x)
                            \/ \E r \in Recipients : \E y \in QueuedFor(r) : o = Obligation(y)
      BY <1>5
    <3>1. \E r \in Recipients : x \in QueuedFor(r)'
      BY <1>2, <1>4
    <3>2. \A r \in Recipients : /\ QueuedFor(r) \subseteq QueuedFor(r)'
                                /\ \A y \in QueuedFor(r)' : y \in QueuedFor(r) \/ y = x
      BY <1>4
    <3> QED BY <3>1, <3>2
  <2>3. \A o : o \in Owed' <=> o \in Owed
    BY <2>1, <2>2, OwedIs
  <2> QED BY <2>3
<1> QED BY <1>1, <1>6, OwedSame

LEMMA TakePendingStutters ==
  ASSUME IInv, NEW to, TakePending("idle", to)
  PROVE  UNCHANGED Promise!promiseVars
<1>1. /\ batch = Empty /\ batch' = pending /\ pending' = Empty
      /\ UNCHANGED <<policy, untaken, current, matches, loop, attempts>>
  BY DEF IInv, LoopInv, TakePending
<1>2. \A r \in Recipients : QueuedFor(r)' = QueuedFor(r)
  BY <1>1, EmptyType, EmptyQueue DEF QueuedFor
<1>3. Owed' = Owed
  <2>1. \A o : o \in Owed' <=>
           \/ \E k \in matches : o = <<current, k>>
           \/ \E r \in Recipients : \E y \in QueuedFor(r)' : o = Obligation(y)
    BY <1>1 DEF Owed, ItemsIn, QueuedFor, Obligation
  <2> QED BY <1>2, <2>1, OwedIs
<1> QED BY <1>1, <1>3, OwedSame

LEMMA ControlStutters ==
  ASSUME IInv, HandleReturns \/ FlushReturns \/ Signal \/ LoopEnds \/ Exit \/ UNCHANGED vars
  PROVE  [Promise!Next]_(Promise!promiseVars)
<1> USE DEF HandleReturns, FlushReturns, Signal, LoopEnds, Exit, vars
<1>1. UNCHANGED <<policy, untaken, matches, pending, batch, attempts>>
  OBVIOUS
<1>2. UNCHANGED current \/ matches = {}
  OBVIOUS
<1>3. Owed' = Owed
  BY <1>1, <1>2 DEF Owed, ItemsIn
<1>4. CASE Exit
  BY <1>1, <1>3, <1>4, SamePromise DEF Promise!Next, Promise!End, Running
<1>5. CASE ~Exit
  <2>1. Running' = Running
    BY <1>5 DEF Running
  <2> QED BY <1>1, <1>3, <2>1, SamePromise DEF Promise!promiseVars
<1> QED BY <1>4, <1>5

LEMMA PromiseStep == IInv /\ [Next]_vars => [Promise!Next]_(Promise!promiseVars)
<1> SUFFICES ASSUME IInv, [Next]_vars PROVE [Promise!Next]_(Promise!promiseVars)
  OBVIOUS
<1>1. CASE \E e \in Events : Receive(e)
  BY <1>1, ReceiveTakes DEF Promise!Next
<1>2. CASE \E i \in matches : SendImmediate(i)
  <2>1. PICK i \in matches : Promise!Discharge({<<current, i>>})
    BY <1>2, SendImmediateDischarges
  <2>2. {<<current, i>>} \in SUBSET Owed
    BY OwedIs
  <2> QED BY <2>1, <2>2 DEF Promise!Next
<1>3. CASE \E i \in matches : Add(i)
  BY <1>3, AddStutters
<1>4. CASE Tick \/ StopRun
  BY <1>4, TakePendingStutters DEF Tick, StopRun
<1>5. CASE \E npub \in Recipients : SendDigest(npub)
  <2>1. PICK npub \in Recipients : Promise!Discharge(Obligations(batch[npub]))
    BY <1>5, SendDigestDischarges
  <2>2. Obligations(batch[npub]) \in SUBSET Owed
    BY <2>1 DEF Promise!Discharge
  <2> QED BY <2>1, <2>2 DEF Promise!Next
<1>6. CASE HandleReturns \/ FlushReturns \/ Signal \/ LoopEnds \/ Exit \/ UNCHANGED vars
  BY <1>6, ControlStutters
<1> QED BY <1>1, <1>2, <1>3, <1>4, <1>5, <1>6 DEF Next, LoopStep, FlushStep

\* The service keeps its promise: an event that meets a rule is handed to Send
\* exactly once for it, alone or in one digest, and nothing else is.
THEOREM DeliveryImplementsPromise == Spec => ImplementsPromise
BY PromiseInit, InvHolds, PromiseStep, PTL DEF Spec, ImplementsPromise, Promise!Spec

\* What the promise says of one obligation.
OnceInv ==
  \A o \in Events \X RuleIds :
    /\ attempts[o] \in {0, 1}
    /\ o \in Owed => o[1] \notin untaken
    /\ o \in Owed \/ o[1] \in untaken => attempts[o] = 0

LEMMA OnceStep == OnceInv /\ [Promise!Next]_(Promise!promiseVars) => OnceInv'
<1> SUFFICES ASSUME OnceInv, [Promise!Next]_(Promise!promiseVars) PROVE OnceInv'
  OBVIOUS
<1>1. CASE \E e \in Events : Promise!TakeEvent(e)
  BY <1>1 DEF OnceInv, Promise!TakeEvent
<1>2. CASE \E O \in SUBSET Owed : Promise!Discharge(O)
  BY <1>2 DEF OnceInv, Promise!Discharge
<1>3. CASE Promise!End \/ UNCHANGED Promise!promiseVars
  BY <1>3 DEF OnceInv, Promise!End, Promise!promiseVars
<1> QED BY <1>1, <1>2, <1>3 DEF Promise!Next

\* What is owed stays owed until it is attempted, whichever sends fail: the part
\* of EveryMatchAttempted that needs no fairness.
THEOREM OwedUntilAttempted ==
  Spec => [][\A o \in Owed \cap (Events \X RuleIds) : o \in Owed' \/ attempts'[o] = 1]_vars
<1>1. Promise!Init => OnceInv
  BY DEF Promise!Init, OnceInv
<1>2. OnceInv /\ [Promise!Next]_(Promise!promiseVars)
        => \A o \in Owed \cap (Events \X RuleIds) : o \in Owed' \/ attempts'[o] = 1
  <2> SUFFICES ASSUME OnceInv, [Promise!Next]_(Promise!promiseVars),
                      NEW o \in Owed \cap (Events \X RuleIds), o \notin Owed'
               PROVE  attempts'[o] = 1
    OBVIOUS
  <2>1. PICK O \in SUBSET Owed : Promise!Discharge(O)
    BY DEF Promise!Next, Promise!TakeEvent, Promise!End, Promise!promiseVars
  <2>2. o \in O /\ attempts[o] = 0
    BY <2>1 DEF Promise!Discharge, OnceInv
  <2> QED BY <2>1, <2>2 DEF Promise!Discharge
<1> QED BY <1>1, <1>2, OnceStep, DeliveryImplementsPromise, InvHolds, PromiseStep, PTL
        DEF ImplementsPromise, Promise!Spec, Spec
=============================================================================
