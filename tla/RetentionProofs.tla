--------------------------- MODULE RetentionProofs ---------------------------
(***************************************************************************)
(* Theorems of Retention: for any events, times, limits and settings, the  *)
(* pruner deletes nothing that is not past its keep_for, and the store     *)
(* holds what the classes say, where the storage layer agrees with them.   *)
(***************************************************************************)
EXTENDS Retention, FiniteSetTheorems, WellFoundedInduction, TLAPS

(***************************************************************************)
(* Types                                                                   *)
(***************************************************************************)
LEMMA Bounds ==
  /\ IsFiniteSet(Events) /\ Kind \in [Events -> Nat] /\ Created \in [Events -> Nat]
  /\ Hour \in Nat \ {0} /\ QueryLimit \in Nat /\ MaxTime \in Nat /\ MaxStops \in Nat
  /\ {} \subseteq Events /\ Cardinality({}) <= QueryLimit
<1>1. Cardinality({}) = 0
  BY FS_EmptySet
<1> QED BY <1>1, RetentionAssumption

\* The last of some positions of a sequence.
LEMMA LastPosition ==
  ASSUME NEW n \in Nat, NEW P \in SUBSET (1..n), P # {}
  PROVE  \E i \in P : \A j \in (i + 1)..n : j \notin P
<1> DEFINE T == {m \in Nat : n - m \in P}
<1>1. T # {}
  <2>1. PICK i \in P : TRUE
    OBVIOUS
  <2>2. n - i \in T
    BY <2>1
  <2> QED BY <2>2
<1>2. PICK x \in T : \A y \in T : ~(<<y, x>> \in OpToRel(<, Nat))
  BY <1>1, NatLessThanWellFounded, WFMin
<1>3. \A y \in T : ~(y < x)
  BY <1>2 DEF OpToRel
<1>4. ASSUME NEW j \in (n - x + 1)..n, j \in P PROVE FALSE
  <2>1. n - j \in T
    BY <1>4
  <2> QED BY <1>3, <1>4, <2>1
<1> QED BY <1>4

LEMMA DurationsTyped ==
  ASSUME NEW c \in Configs, Loads(c)
  PROVE  /\ DOMAIN PruneDurations(c) = {c[i].kind : i \in DOMAIN c}
         /\ DOMAIN PruneDurations(c) \subseteq Nat
         /\ \A k \in DOMAIN PruneDurations(c) : PruneDurations(c)[k] \in Int
<1> DEFINE Last(k, i) == c[i].kind = k /\ \A j \in (i + 1)..Len(c) : c[j].kind # k
<1>1. c \in Seq([kind : Nat, keepFor : Int \cup {Malformed}])
  BY RetentionAssumption
<1> DEFINE Entry == [kind : Nat, keepFor : Int \cup {Malformed}]
<1> HIDE DEF Last, Entry
<1>2. Len(c) \in Nat /\ DOMAIN c = 1..Len(c)
  BY <1>1
<1>3. \A i \in DOMAIN c : c[i].kind \in Nat /\ c[i].keepFor \in Int
  <2> SUFFICES ASSUME NEW i \in DOMAIN c PROVE c[i].kind \in Nat /\ c[i].keepFor \in Int
    OBVIOUS
  <2>1. c \in Seq(Entry)
    BY <1>1 DEF Entry
  <2>2. c[i] \in Entry
    BY <2>1, <1>2
  <2> QED BY <2>2 DEF Loads, Entry
<1>4. ASSUME NEW k \in {c[i].kind : i \in DOMAIN c}
      PROVE  c[CHOOSE i \in DOMAIN c : Last(k, i)].keepFor \in Int
  <2> DEFINE P == {i \in DOMAIN c : c[i].kind = k}
  <2>1. P # {} /\ P \in SUBSET (1..Len(c))
    BY <1>2
  <2>2. \E i \in P : \A j \in (i + 1)..Len(c) : j \notin P
    BY <2>1, <1>2, LastPosition
  <2>3. \E i \in DOMAIN c : Last(k, i)
    BY <2>2, <1>2 DEF Last
  <2>4. (CHOOSE i \in DOMAIN c : Last(k, i)) \in DOMAIN c
    BY <2>3
  <2> QED BY <2>4, <1>3
<1> QED BY <1>3, <1>4 DEF PruneDurations, Last

LEMMA NewestBounded ==
  ASSUME NEW S \in SUBSET Events, NEW top \in Newest(S)
  PROVE  top \subseteq S /\ Cardinality(top) <= QueryLimit
BY Bounds DEF Newest

LEMMA QueriedBounded ==
  ASSUME TypeOK, NEW k, NEW top \in Queried(k)
  PROVE  top \subseteq OfKind(k) /\ top \subseteq Events /\ Cardinality(top) <= QueryLimit
<1>1. OfKind(k) \subseteq Events
  BY DEF TypeOK, OfKind
<1>2. CASE phase = "closing"
  BY <1>2, Bounds DEF Queried
<1>3. CASE phase # "closing"
  BY <1>1, <1>3, NewestBounded DEF Queried
<1> QED BY <1>1, <1>2, <1>3

LEMMA BatchShrinks ==
  ASSUME TypeOK, NEW e
  PROVE  batch \ {e} \subseteq Events /\ Cardinality(batch \ {e}) <= QueryLimit
<1>1. IsFiniteSet(batch) /\ Cardinality(batch) <= QueryLimit
  BY Bounds, FS_Subset DEF TypeOK
<1>2. IsFiniteSet(batch \ {e}) /\ Cardinality(batch \ {e}) <= Cardinality(batch)
  BY <1>1, FS_Subset
<1>3. Cardinality(batch) \in Nat /\ Cardinality(batch \ {e}) \in Nat
  BY <1>1, <1>2, FS_CardinalityType
<1> QED BY <1>1, <1>2, <1>3, Bounds DEF TypeOK

THEOREM RetentionTypeCorrect == Spec => []TypeOK
<1>1. Init => TypeOK
  <2> SUFFICES ASSUME Init PROVE TypeOK
    OBVIOUS
  <2>1. left = {} /\ batch = {}
    BY DEF Init
  <2>4. pruners = [k \in {} |-> 0]
    BY DEF Init
  <2>7. DOMAIN pruners = {}
    BY <2>4
  <2>2. since \in 0..(Hour - 1) /\ now \in 0..MaxTime /\ stops \in 0..MaxStops
    BY Bounds DEF Init
  <2>3. Cardinality(batch) <= QueryLimit
    BY <2>1, Bounds
  <2>8. DOMAIN pruners \subseteq Nat /\ \A k \in DOMAIN pruners : pruners[k] \in Int
    BY <2>7
  <2>5. cutoff \in Int /\ phase \in {"down", "up", "closing"}
    BY DEF Init
  <2>9. due \in BOOLEAN
    BY Zenon DEF Init
  <2>6. stored = {} /\ standing = {}
    BY DEF Init
  <2> QED BY <2>1, <2>2, <2>3, <2>5, <2>6, <2>8, <2>9, Zenon DEF TypeOK
<1>2. TypeOK /\ [Next]_vars => TypeOK'
  <2> SUFFICES ASSUME TypeOK, [Next]_vars PROVE TypeOK'
    OBVIOUS
  <2> USE Bounds DEF TypeOK
  <2>1. ASSUME NEW c \in Configs, Start(c) PROVE TypeOK'
    <3> DEFINE d == PruneDurations(c)
    <3>1. DOMAIN d \subseteq Nat /\ \A k \in DOMAIN d : d[k] \in Int
      BY <2>1, DurationsTyped DEF Start
    <3>2. pruners' = d
      BY <2>1 DEF Start
    <3> HIDE DEF d
    <3>3. left' = {} /\ batch' = {} /\ cutoff' = cutoff
      BY <2>1 DEF Start
    <3>4. Cardinality(batch') <= QueryLimit
      BY <3>3
    <3>5. since' = 0 /\ due' \in BOOLEAN
      BY <2>1 DEF Start
    <3>6. since' \in 0..(Hour - 1)
      BY <3>5
    <3> QED BY <2>1, <3>1, <3>2, <3>3, <3>4, <3>5, <3>6 DEF Start, storeVars
  <2>2. CASE Shutdown
    BY <2>2 DEF Shutdown, pruneVars, tickVars, storeVars
  <2>3. CASE Exit
    BY <2>3 DEF Exit, pruneVars, tickVars, storeVars
  <2>4. CASE Crash
    BY <2>4 DEF Crash, pruneVars, tickVars, storeVars
  <2>5. CASE TimePasses
    <3>1. since' \in 0..(Hour - 1)
      <4>1. (since + 1) % Hour \in 0..(Hour - 1)
        OBVIOUS
      <4> QED BY <2>5, <4>1 DEF TimePasses, tickVars
    <3>3. due' \in BOOLEAN
      BY <2>5, Zenon DEF TimePasses, tickVars
    <3>2. now' \in 0..MaxTime
      BY <2>5 DEF TimePasses
    <3> QED BY <2>5, <3>1, <3>2, <3>3 DEF TimePasses, pruneVars, storeVars
  <2>6. ASSUME NEW e \in Events, Submit(e) PROVE TypeOK'
    BY <2>6 DEF Submit, AfterSaving, With, pruneVars, tickVars
  <2>7. ASSUME NEW e \in Events, Withdraw(e) PROVE TypeOK'
    BY <2>7 DEF Withdraw, pruneVars, tickVars
  <2>8. CASE Wake
    BY <2>8 DEF Wake, storeVars
  <2>9. ASSUME NEW k \in DOMAIN pruners, PruneKind(k) PROVE TypeOK'
    BY <2>9, QueriedBounded DEF PruneKind, Cutoff, tickVars, storeVars
  <2>10. ASSUME NEW e \in Events, DeleteOld(e) PROVE TypeOK'
    BY <2>10, BatchShrinks DEF DeleteOld, tickVars
  <2>11. ASSUME NEW e \in Events, PassOver(e) PROVE TypeOK'
    BY <2>11, BatchShrinks DEF PassOver, BatchAfter, tickVars, storeVars
  <2>12. CASE UNCHANGED vars
    BY <2>12 DEF vars, pruneVars, tickVars, storeVars
  <2> QED BY <2>1, <2>2, <2>3, <2>4, <2>5, <2>6, <2>7, <2>8, <2>9, <2>10, <2>11, <2>12 DEF Next
<1> QED BY <1>1, <1>2, PTL DEF Spec

(***************************************************************************)
(* The pruner.  While it goes through a batch time passes and clients      *)
(* write, but its settings stay: what is older than its cutoff is past its *)
(* keep_for until the process ends.                                        *)
(***************************************************************************)
PrunersInv ==
  /\ \A k \in DOMAIN pruners : \E c \in Configs : \E i \in DOMAIN c : c[i].kind = k
  /\ \A e \in batch : Kind[e] \in DOMAIN pruners /\ cutoff <= now - pruners[Kind[e]]

LEMMA PrunersInvariant == Spec => []PrunersInv
<1>1. Init => PrunersInv
  BY DEF Init, PrunersInv
<1>2. TypeOK /\ PrunersInv /\ [Next]_vars => PrunersInv'
  <2> SUFFICES ASSUME TypeOK, PrunersInv, [Next]_vars PROVE PrunersInv'
    OBVIOUS
  <2>1. ASSUME NEW c \in Configs, Start(c) PROVE PrunersInv'
    <3>1. \A k \in DOMAIN pruners' : \E i \in DOMAIN c : c[i].kind = k
      BY <2>1, DurationsTyped DEF Start
    <3> QED BY <2>1, <3>1 DEF Start, PrunersInv
  <2>2. CASE Shutdown \/ Exit \/ Crash
    BY <2>2 DEF Shutdown, Exit, Crash, PrunersInv, pruneVars
  <2>3. CASE TimePasses
    <3>1. now' \in Int /\ now \in Int /\ now' >= now /\ cutoff \in Int
      BY <2>3, Bounds DEF TimePasses, TypeOK
    <3>2. ASSUME NEW e \in batch PROVE cutoff <= now' - pruners[Kind[e]]
      <4>1. pruners[Kind[e]] \in Int /\ cutoff <= now - pruners[Kind[e]]
        BY DEF PrunersInv, TypeOK
      <4> QED BY <3>1, <4>1
    <3> QED BY <2>3, <3>2 DEF TimePasses, PrunersInv, pruneVars
  <2>4. ASSUME NEW e \in Events, Submit(e) \/ Withdraw(e) PROVE PrunersInv'
    BY <2>4 DEF Submit, Withdraw, PrunersInv, pruneVars
  <2>5. CASE Wake
    BY <2>5 DEF Wake, PrunersInv
  <2>6. ASSUME NEW k \in DOMAIN pruners, PruneKind(k) PROVE PrunersInv'
    <3>1. \A e \in batch' : Kind[e] = k
      BY <2>6, QueriedBounded DEF PruneKind, OfKind
    <3>2. pruners[k] \in Int /\ now \in Int /\ cutoff' = now - pruners[k]
      BY <2>6 DEF PruneKind, Cutoff, TypeOK
    <3> QED BY <2>6, <3>1, <3>2 DEF PruneKind, PrunersInv
  <2>7. ASSUME NEW e \in Events, DeleteOld(e) \/ PassOver(e) PROVE PrunersInv'
    BY <2>7 DEF DeleteOld, PassOver, BatchAfter, PrunersInv
  <2>8. CASE UNCHANGED vars
    BY <2>8 DEF vars, PrunersInv, pruneVars
  <2> QED BY <2>1, <2>2, <2>3, <2>4, <2>5, <2>6, <2>7, <2>8 DEF Next
<1> QED BY <1>1, <1>2, RetentionTypeCorrect, PTL DEF Spec

\* pruneKind deletes nothing that is not past its keep_for at that moment.
THEOREM EventsKeptUntilAged == Spec => KeptUntilAged
<1>1. ASSUME TypeOK, PrunersInv, [Next]_vars, NEW e \in stored \ stored'
      PROVE  e \notin standing' \/ (\E f \in stored' : Replaces(f, e)) \/ Expired(e)
  <2>1. CASE \E x \in Events : Submit(x)
    <3>1. PICK x \in Events : Submit(x)
      BY <2>1
    <3> QED BY <1>1, <3>1 DEF Submit, AfterSaving, With
  <2>2. CASE \E x \in Events : Withdraw(x)
    BY <1>1, <2>2 DEF Withdraw
  <2>3. CASE \E x \in Events : DeleteOld(x)
    <3>1. e \in batch /\ Created[e] < cutoff
      BY <1>1, <2>3 DEF DeleteOld, IsNext, IsOld
    <3>2. Kind[e] \in DOMAIN pruners /\ cutoff <= now - pruners[Kind[e]]
      BY <1>1, <3>1 DEF PrunersInv
    <3>3. Created[e] \in Int /\ cutoff \in Int /\ now \in Int /\ pruners[Kind[e]] \in Int
      BY <1>1, <3>2, Bounds DEF TypeOK
    <3> QED BY <3>1, <3>2, <3>3 DEF Expired
  <2>4. CASE UNCHANGED stored
    BY <1>1, <2>4
  <2> QED BY <1>1, <2>1, <2>2, <2>3, <2>4
          DEF Next, Start, Shutdown, Exit, Crash, TimePasses, Wake, PruneKind, PassOver,
              storeVars, vars
<1>2. TypeOK /\ PrunersInv /\ [Next]_vars
        => [\A e \in stored \ stored' :
              \/ e \notin standing'
              \/ \E f \in stored' : Replaces(f, e)
              \/ Expired(e)]_vars
  BY <1>1
<1> QED BY <1>2, RetentionTypeCorrect, PrunersInvariant, PTL DEF Spec, KeptUntilAged

(***************************************************************************)
(* The reach of a round.                                                   *)
(***************************************************************************)
\* What the newest events of a set leave out has QueryLimit others before it.
LEMMA LeftOutIsCrowded ==
  ASSUME TypeOK, NEW k, NEW top \in Newest(OfKind(k)), NEW e \in OfKind(k), e \notin top
  PROVE  Crowded(e)
<1> DEFINE Crowd == {f \in stored : Kind[f] = Kind[e] /\ Created[f] >= Created[e] /\ f # e}
<1>1. /\ top \subseteq OfKind(k) /\ Cardinality(top) = QueryLimit
      /\ \A f \in top : Created[f] >= Created[e]
  BY DEF Newest
<1>2. top \subseteq Crowd
  BY <1>1 DEF OfKind
<1>3. IsFiniteSet(Crowd) /\ Cardinality(top) <= Cardinality(Crowd)
  <2>1. IsFiniteSet(Crowd)
    BY Bounds, FS_Subset DEF TypeOK
  <2> QED BY <1>2, <2>1, FS_Subset
<1> QED BY <1>1, <1>3 DEF Crowded

\* pruneKind's query and its cutoff reach what is expired, but for what is behind
\* QueryLimit newer events: the part of EventuallyAgedOut that needs no fairness.
THEOREM ExpiredAreReached == Spec => RoundsReachExpired
<1> DEFINE Reaches(k) ==
      PruneKind(k) /\ phase = "up"
        => \A e \in OfKind(k) : Expired(e) /\ ~Crowded(e) => e \in batch' /\ IsOld(e)'
<1>1. ASSUME TypeOK, NEW k \in DOMAIN pruners PROVE Reaches(k)
  <2> SUFFICES ASSUME PruneKind(k), phase = "up",
                      NEW e \in OfKind(k), Expired(e), ~Crowded(e)
               PROVE  e \in batch' /\ IsOld(e)'
    OBVIOUS
  <2>1. batch' \in Newest(OfKind(k))
    BY DEF PruneKind, Queried
  <2>2. e \in batch'
    BY <1>1, <2>1, LeftOutIsCrowded
  <2>3. cutoff' = now - pruners[Kind[e]] /\ Created[e] < now - pruners[Kind[e]]
    BY DEF PruneKind, Cutoff, OfKind, Expired
  <2> QED BY <2>2, <2>3 DEF IsOld
<1>2. TypeOK => [\A k \in DOMAIN pruners : Reaches(k)]_vars
  BY <1>1
<1> QED BY <1>2, RetentionTypeCorrect, PTL DEF Spec, RoundsReachExpired

\* Where the storage layer and eventmodel agree, what no configuration makes
\* prunable is in the store exactly while it counts, and the ephemeral never is.
Agreed(e) ==
  /\ ~SometimesPrunable(e)
  /\ ~InEphemeralRange(Kind[e])
  /\ Kind[e] \notin {ProfileMetadata, FollowList}

StoredInv ==
  \A e \in Events :
    /\ Agreed(e) => (e \in stored <=> e \in standing)
    /\ InEphemeralRange(Kind[e]) => e \notin stored

\* Replaces and Supersedes are one relation there.
LEMMA RelationsAgree ==
  ASSUME NEW e \in Events, Agreed(e), NEW f \in Events
  PROVE  Replaces(f, e) <=> Supersedes(f, e)
<1> DEFINE k == Kind[e]
<1>1. k \in Nat /\ k \notin 20000..29999 /\ k # 0 /\ k # 3
  <2>1. k \in Nat
    BY Bounds
  <2>2. k \notin 20000..29999 /\ k # 0 /\ k # 3
    BY DEF Agreed, InEphemeralRange, ProfileMetadata, FollowList
  <2> QED BY <2>1, <2>2
<1>2. k # Delegation /\ k # DelegationRevocation /\ ~InEphemeralRange(k)
  BY <1>1 DEF Delegation, DelegationRevocation, InEphemeralRange
<1>3. Class(k) = "replaceable" <=> InReplaceableRange(k)
  BY <1>2 DEF Class
<1> QED BY <1>1, <1>3 DEF Replaces, Supersedes, ProfileMetadata, FollowList

LEMMA StoredInvariant == Spec => []StoredInv
<1>1. Init => StoredInv
  BY DEF Init, StoredInv
<1>2. TypeOK /\ PrunersInv /\ StoredInv /\ [Next]_vars => StoredInv'
  <2> SUFFICES ASSUME TypeOK, PrunersInv, StoredInv, [Next]_vars, NEW e \in Events
               PROVE  /\ Agreed(e) => (e \in stored' <=> e \in standing')
                      /\ InEphemeralRange(Kind[e]) => e \notin stored'
    BY DEF StoredInv, Agreed, SometimesPrunable
  <2>1. ASSUME NEW x \in Events, Submit(x), Agreed(e)
        PROVE  e \in stored' <=> e \in standing'
    <3>1. CASE Kind[x] # Kind[e]
      BY <2>1, <3>1 DEF Submit, AfterSaving, With, Replaces, Supersedes, IsNewer, StoredInv
    <3>2. CASE Kind[x] = Kind[e]
      <4>1. Agreed(x)
        BY <2>1, <3>2 DEF Agreed, SometimesPrunable
      <4>2. \A f \in Events : Supersedes(f, x) => (f \in stored <=> f \in standing)
        BY <2>1, <3>2 DEF Agreed, SometimesPrunable, Supersedes, IsNewer, StoredInv
      <4>3. (\E f \in stored : Supersedes(f, x)) <=> (\E f \in standing : Supersedes(f, x))
        BY <4>2 DEF TypeOK
      <4>4. e \in stored <=> e \in standing
        BY <2>1 DEF StoredInv
      <4>5. /\ \A f \in stored : Replaces(f, x) <=> Supersedes(f, x)
            /\ Replaces(x, e) <=> Supersedes(x, e)
        BY <2>1, <4>1, RelationsAgree DEF TypeOK
      <4>6. ~InEphemeralRange(Kind[x])
        BY <4>1 DEF Agreed
      <4> QED BY <2>1, <4>3, <4>4, <4>5, <4>6 DEF Submit, AfterSaving, With
    <3> QED BY <3>1, <3>2
  <2>2. ASSUME NEW x \in Events, Submit(x), InEphemeralRange(Kind[e])
        PROVE  e \notin stored'
    <3>1. CASE x = e
      BY <2>2, <3>1 DEF Submit, AfterSaving, StoredInv
    <3>2. CASE x # e
      BY <2>2, <3>2 DEF Submit, AfterSaving, With, StoredInv
    <3> QED BY <3>1, <3>2
  <2>3. CASE \E x \in Events : Withdraw(x)
    BY <2>3 DEF Withdraw, StoredInv
  <2>4. ASSUME NEW x \in Events, DeleteOld(x), Agreed(e)
        PROVE  e \in stored' <=> e \in standing'
    <3>1. x # e
      BY <2>4 DEF DeleteOld, IsNext, PrunersInv, Agreed, SometimesPrunable
    <3> QED BY <2>4, <3>1 DEF DeleteOld, StoredInv
  <2>5. ASSUME NEW x \in Events, DeleteOld(x), InEphemeralRange(Kind[e])
        PROVE  e \notin stored'
    BY <2>5 DEF DeleteOld, StoredInv
  <2>6. CASE UNCHANGED storeVars
    BY <2>6 DEF StoredInv, storeVars
  <2> QED BY <2>1, <2>2, <2>3, <2>4, <2>5, <2>6
          DEF Next, Start, Shutdown, Exit, Crash, TimePasses, Wake, PruneKind, PassOver, vars
<1> QED BY <1>1, <1>2, RetentionTypeCorrect, PrunersInvariant, PTL DEF Spec

\* The storage layer holds what eventmodel.Class says, whatever the pruner, the
\* withdrawals and the restarts do, of every kind but the four of which the two
\* disagree.
THEOREM StoredByClass == Spec => []StoredAsClassed
<1>1. TypeOK /\ StoredInv => StoredAsClassed
  <2> SUFFICES ASSUME TypeOK, StoredInv, NEW e \in Events,
                      ~SometimesPrunable(e), Kind[e] \notin Misclassed
               PROVE  e \in stored <=> e \in standing /\ Class(Kind[e]) # "ephemeral"
    BY DEF StoredAsClassed
  <2>1. Class(Kind[e]) = "ephemeral" <=> InEphemeralRange(Kind[e])
    BY DEF Class, Misclassed
  <2> QED BY <2>1 DEF StoredInv, Agreed, Misclassed
<1> QED BY <1>1, RetentionTypeCorrect, StoredInvariant, PTL
=============================================================================
