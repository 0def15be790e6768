-------------------------- MODULE KindPolicyProofs --------------------------
(***************************************************************************)
(* Proofs about KindPolicy, for any number of kinds, configurations and    *)
(* concurrent evaluations of KindAllowed.                                  *)
(***************************************************************************)
EXTENDS KindPolicy, TLAPS

\* KindAllowed and the management calls keep the types and the program
\* counters consistent with the kinds under evaluation.
THEOREM KindTypeCorrect == Spec => []TypeOK
<1>1. Init => TypeOK
  BY KindAssumption DEF Init, TypeOK, KindsTypeOK, All
<1>2. TypeOK /\ [Next]_vars => TypeOK'
  <2> SUFFICES ASSUME TypeOK, [Next]_vars PROVE TypeOK'
    OBVIOUS
  <2> USE KindAssumption DEF TypeOK, KindsTypeOK
  <2>1. ASSUME NEW c \in KindConfigs, Open(c) PROVE TypeOK'
    BY <2>1 DEF Open, kindVars, checkVars, KindConfigType
  <2>2. ASSUME NEW k \in Kinds, SeedKind(k) PROVE TypeOK'
    BY <2>2 DEF SeedKind, AllowKind, kindVars, checkVars
  <2>3. CASE Serve
    BY <2>3 DEF Serve, kindVars, checkVars
  <2>4. CASE ClosePolicy \/ Exit \/ Crash
    <3>1. CASE ClosePolicy
      BY <3>1 DEF ClosePolicy, kindVars, checkVars
    <3>2. CASE Exit \/ Crash
      <4>1. Gone /\ stops' \in 0..MaxStops
        BY <3>2 DEF Exit, Crash
      <4>2. wasDenied' \in [Checks -> BOOLEAN]
        BY <4>1 DEF Gone, All
      <4> QED
        BY <4>1, <4>2 DEF Gone, All, kindVars
    <3> QED
      BY <2>4, <3>1, <3>2
  <2>5. ASSUME NEW k \in Kinds, ManageKind(k) PROVE TypeOK'
    BY <2>5 DEF ManageKind, AllowKind, DenyKind, checkVars
  <2>6. ASSUME NEW c \in Checks, NEW k \in Kinds, Begin(c, k) PROVE TypeOK'
    <3>1. KindDenied(k) \in BOOLEAN
      BY DEF KindDenied
    <3>2. wasDenied' \in [Checks -> BOOLEAN]
      BY <2>6, <3>1 DEF Begin, CanBegin
    <3> QED
      BY <2>6, <3>2 DEF Begin, CanBegin, kindVars, Reading, Answered
  <2>7. ASSUME NEW c \in Checks, NEW at \in Reading, NEW next \in Reading \cup Answered,
               Read(c, at, next)
        PROVE  TypeOK'
    BY <2>7 DEF Read, kindVars, Reading, Answered
  <2>8. ASSUME NEW c \in Checks, ReadDenied(c) \/ ReadList(c) \/ ReadListed(c)
        PROVE  TypeOK'
    <3>1. CASE ReadDenied(c)
      BY <3>1, <2>7 DEF ReadDenied, Reading, Answered
    <3>2. CASE ReadList(c)
      BY <3>2, <2>7 DEF ReadList, Reading, Answered
    <3>3. CASE ReadListed(c)
      BY <3>3, <2>7 DEF ReadListed, Reading, Answered
    <3> QED
      BY <2>8, <3>1, <3>2, <3>3
  <2>9. CASE UNCHANGED vars
    BY <2>9 DEF vars, kindVars, checkVars
  <2> QED
    BY <2>1, <2>2, <2>3, <2>4, <2>5, <2>6, <2>8, <2>9 DEF Next
<1> QED
  BY <1>1, <1>2, PTL DEF Spec

\* What a read transaction has seen in the buckets stays true until the call
\* of KindAllowed ends.
LEMMA ReadInvariant == Spec => []ReadInv
<1>1. Init => ReadInv
  BY DEF Init, ReadInv, All
<1>2. TypeOK /\ ReadInv /\ [Next]_vars => ReadInv'
  <2> SUFFICES ASSUME TypeOK, ReadInv, [Next]_vars, NEW d \in Checks
               PROVE  /\ wasDenied'[d] => /\ kind'[d] \in kindsDenied'
                                          /\ pc'[d] \in {"denied?", "no"} \/ d \in sawClosed'
                      /\ pc'[d] = "listed?" => kindsAllowed' # {}
    BY DEF ReadInv
  <2> DEFINE Goal == /\ wasDenied'[d] => /\ kind'[d] \in kindsDenied'
                                         /\ pc'[d] \in {"denied?", "no"} \/ d \in sawClosed'
                     /\ pc'[d] = "listed?" => kindsAllowed' # {}
  <2> USE DEF TypeOK, KindsTypeOK, ReadInv
  <2>1. ASSUME NEW c \in KindConfigs, Open(c) PROVE Goal
    BY <2>1 DEF Open, kindVars, checkVars
  <2>2. ASSUME NEW k \in Kinds, SeedKind(k) PROVE Goal
    BY <2>2 DEF SeedKind, AllowKind, kindVars, checkVars
  <2>3. CASE Serve
    BY <2>3 DEF Serve, kindVars, checkVars
  <2>4. CASE ClosePolicy \/ Exit \/ Crash
    BY <2>4 DEF ClosePolicy, Exit, Crash, Gone, All, kindVars, checkVars
  <2>5. ASSUME NEW k \in Kinds, ManageKind(k) PROVE Goal
    BY <2>5 DEF ManageKind, AllowKind, DenyKind, checkVars
  <2>6. ASSUME NEW c \in Checks, NEW k \in Kinds, Begin(c, k) PROVE Goal
    BY <2>6 DEF Begin, CanBegin, KindDenied, kindVars
  <2>7. ASSUME NEW c \in Checks, ReadDenied(c) PROVE Goal
    BY <2>7 DEF ReadDenied, Read, Found, KindDenied, kindVars
  <2>8. ASSUME NEW c \in Checks, ReadList(c) PROVE Goal
    BY <2>8 DEF ReadList, Read, Found, NoAllowlist, kindVars
  <2>9. ASSUME NEW c \in Checks, ReadListed(c) PROVE Goal
    BY <2>9 DEF ReadListed, Read, kindVars
  <2>10. CASE UNCHANGED vars
    BY <2>10 DEF vars, kindVars, checkVars
  <2> QED
    BY <2>1, <2>2, <2>3, <2>4, <2>5, <2>6, <2>7, <2>8, <2>9, <2>10 DEF Next
<1> QED
  BY <1>1, <1>2, KindTypeCorrect, PTL DEF Spec

\* A call of KindAllowed that began when the kind was denied permits it only
\* if it has read the closed database, whatever allowkind calls commit between
\* its reads.
THEOREM DenialsAreFinal == Spec => []DenialIsFinal
<1>1. ReadInv => DenialIsFinal
  BY DEF ReadInv, DenialIsFinal
<1> QED
  BY <1>1, ReadInvariant, PTL

\* A refusal is justified by the buckets at the moment it is given, or given
\* by a call that has read the closed database.
THEOREM RefusalsAreJustified == Spec => RefusalJustified
<1> DEFINE Justified == \A c \in Checks :
                          (pc[c] \in Reading /\ pc'[c] = "no") =>
                            ~KindPermitted(kind[c]) \/ c \in sawClosed'
<1>1. TypeOK /\ ReadInv /\ [Next]_vars => [Justified]_vars
  <2> SUFFICES ASSUME TypeOK, ReadInv, Next, NEW d \in Checks,
                      pc[d] \in Reading, pc'[d] = "no"
               PROVE  ~KindPermitted(kind[d]) \/ d \in sawClosed'
    OBVIOUS
  <2> USE DEF TypeOK, Reading, Answered
  <2>1. ASSUME NEW c \in KindConfigs, Open(c) PROVE FALSE
    BY <2>1 DEF Open, checkVars
  <2>2. ASSUME NEW k \in Kinds, SeedKind(k) PROVE FALSE
    BY <2>2 DEF SeedKind, checkVars
  <2>3. CASE Serve
    BY <2>3 DEF Serve, checkVars
  <2>4. CASE ClosePolicy \/ Exit \/ Crash
    BY <2>4 DEF ClosePolicy, Exit, Crash, Gone, All, kindVars, checkVars
  <2>5. ASSUME NEW k \in Kinds, ManageKind(k) PROVE FALSE
    BY <2>5 DEF ManageKind, checkVars
  <2>6. ASSUME NEW c \in Checks, NEW k \in Kinds, Begin(c, k) PROVE FALSE
    BY <2>6 DEF Begin, CanBegin
  <2>7. ASSUME NEW c \in Checks, ReadDenied(c) PROVE ~KindPermitted(kind[d])
    BY <2>7 DEF ReadDenied, Read, Found, KindPermitted
  <2>8. ASSUME NEW c \in Checks, ReadList(c) PROVE FALSE
    BY <2>8 DEF ReadList, Read
  <2>9. ASSUME NEW c \in Checks, ReadListed(c)
        PROVE  ~KindPermitted(kind[d]) \/ d \in sawClosed'
    BY <2>9 DEF ReadListed, Read, Found, ReadInv, KindPermitted, NoAllowlist
  <2> QED
    BY <2>1, <2>2, <2>3, <2>4, <2>5, <2>6, <2>7, <2>8, <2>9 DEF Next
<1>2. RefusalJustified <=> [][Justified]_vars
  BY PTL DEF RefusalJustified
<1> QED
  BY <1>1, <1>2, ReadInvariant, KindTypeCorrect, PTL DEF Spec

=============================================================================
