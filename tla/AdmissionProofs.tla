-------------------------- MODULE AdmissionProofs --------------------------
(***************************************************************************)
(* Proofs about Admission, for any events, keys, kinds and configuration.  *)
(***************************************************************************)
EXTENDS Admission, TLAPS

(***************************************************************************)
(* The hooks, seen together.                                               *)
(***************************************************************************)

\* Every hook but the store: event e goes from one hook to another or is
\* refused, and at most sawClosed changes beside it.
HookStep(e) ==
  \E at \in Hooks \ {"store"}, next \in Hooks \cup {"refused"} :
    /\ Hook(e, at, next)
    /\ sawClosed' = sawClosed \/ (sawClosed' = sawClosed \cup {e} /\ ~policyOpen)

\* The steps of an event's goroutine are the hooks and the store.
LEMMA AdvanceIsHookOrStore ==
  ASSUME NEW e \in Events, Advance(e)
  PROVE  HookStep(e) \/ Store(e)
<1> USE DEF HookStep, Hooks
<1>1. CASE CheckShape(e) \/ CheckContent(e) \/ CheckModel(e)
  BY <1>1 DEF CheckShape, CheckContent, CheckModel, Check
<1>2. CASE ReadKindDenied(e) \/ ReadKindList(e) \/ ReadKindListed(e)
  BY <1>2 DEF ReadKindDenied, ReadKindList, ReadKindListed, PolicyRead
<1>3. CASE ReadBanned(e) \/ ReadAllowed(e)
  BY <1>3 DEF ReadBanned, ReadAllowed, PolicyRead
<1>4. CASE CheckAuth(e)
  BY <1>4 DEF CheckAuth
<1>5. CASE CheckAuthor(e)
  BY <1>5 DEF CheckAuthor, PolicyRead
<1> QED
  BY <1>1, <1>2, <1>3, <1>4, <1>5 DEF Advance

(***************************************************************************)
(* Type correctness.                                                       *)
(***************************************************************************)

\* Every state of the write path is well typed.
THEOREM AdmissionTypeCorrect == Spec => []TypeOK
<1>1. Init => TypeOK
  BY ReasonAssumption DEF Init, TypeOK, PolicyTypeOK, KindsTypeOK
<1>2. TypeOK /\ [Next]_vars => TypeOK'
  <2> SUFFICES ASSUME TypeOK, [Next]_vars PROVE TypeOK'
    OBVIOUS
  <2> USE DEF TypeOK, PolicyTypeOK, KindsTypeOK, policyVars, kindVars, lifeVars,
              historyVars, Hooks, Ended
  <2>1. ASSUME NEW e \in Events, Submit(e) \/ Authenticate(e) PROVE TypeOK'
    BY <2>1 DEF Submit, Authenticate
  <2>2. ASSUME NEW e \in Events, HookStep(e) PROVE TypeOK'
    BY <2>2 DEF HookStep, Hook
  <2>3. ASSUME NEW e \in Events, Store(e) PROVE TypeOK'
    BY <2>3 DEF Store
  <2>4. ASSUME NEW pk \in Pubkeys, ManageKey(pk) PROVE TypeOK'
    <3>1. PolicyTypeOK'
      BY <2>4, ReasonAssumption DEF ManageKey, GrantAdmin, RevokeAdmin, Ban, Allow
    <3> QED
      BY <2>4, <3>1 DEF ManageKey, Watch
  <2>5. ASSUME NEW k \in Kinds, ManageKind(k) PROVE TypeOK'
    BY <2>5 DEF ManageKind, AllowKind, DenyKind
  <2>6. CASE ShutdownRelay \/ CloseStore \/ ClosePolicy
    BY <2>6 DEF ShutdownRelay, CloseStore, ClosePolicy
  <2>7. CASE Exit
    BY <2>7 DEF Exit
  <2>8. CASE UNCHANGED vars
    BY <2>8 DEF vars
  <2> QED
    BY <2>1, <2>2, <2>3, <2>4, <2>5, <2>6, <2>7, <2>8, AdvanceIsHookOrStore DEF Next
<1> QED BY <1>1, <1>2, PTL DEF Spec

(***************************************************************************)
(* Shutdown                                                                *)
(***************************************************************************)

\* The order in which the databases are closed, and where stored events are.
LEMMA ShutdownInvariant == Spec => []ShutdownInv
<1>1. Init => ShutdownInv
  BY DEF Init, ShutdownInv
<1>2. TypeOK /\ ShutdownInv /\ [Next]_vars => ShutdownInv'
  <2> SUFFICES ASSUME TypeOK, ShutdownInv, [Next]_vars PROVE ShutdownInv'
    OBVIOUS
  <2> USE DEF ShutdownInv, lifeVars, historyVars
  <2>1. ASSUME NEW e \in Events, Submit(e) \/ Authenticate(e) PROVE ShutdownInv'
    BY <2>1 DEF Submit, Authenticate, TypeOK
  <2>2. ASSUME NEW e \in Events, HookStep(e) PROVE ShutdownInv'
    <3>1. e \notin stored
      BY <2>2 DEF HookStep, Hook, Hooks
    <3> QED
      BY <2>2, <3>1 DEF HookStep, Hook, TypeOK
  <2>3. ASSUME NEW e \in Events, Store(e) PROVE ShutdownInv'
    BY <2>3 DEF Store, TypeOK
  <2>4. ASSUME NEW pk \in Pubkeys, ManageKey(pk) PROVE ShutdownInv'
    BY <2>4 DEF ManageKey
  <2>5. ASSUME NEW k \in Kinds, ManageKind(k) PROVE ShutdownInv'
    BY <2>5 DEF ManageKind
  <2>6. CASE ShutdownRelay \/ CloseStore \/ ClosePolicy
    BY <2>6 DEF ShutdownRelay, CloseStore, ClosePolicy
  <2>7. CASE Exit
    BY <2>7 DEF Exit, InFlight, Hooks, TypeOK
  <2>8. CASE UNCHANGED vars
    BY <2>8 DEF vars
  <2> QED
    BY <2>1, <2>2, <2>3, <2>4, <2>5, <2>6, <2>7, <2>8, AdvanceIsHookOrStore DEF Next
<1> QED BY <1>1, <1>2, AdmissionTypeCorrect, PTL DEF Spec

\* Shutdown closes the event store before the policy database, so nothing that
\* was checked against the closed policy database is stored.
THEOREM NothingUncheckedStored == Spec => []ShutdownStoresNothingUnchecked
<1>1. ShutdownInv => ShutdownStoresNothingUnchecked
  BY DEF ShutdownInv, ShutdownStoresNothingUnchecked
<1> QED BY <1>1, ShutdownInvariant, PTL

(***************************************************************************)
(* Kinds                                                                   *)
(***************************************************************************)

\* An event of a kind that is denied already stays in front of the first read.
LEMMA DeniedInvariant == Spec => []DeniedInv
<1>1. Init => DeniedInv
  BY DEF Init, DeniedInv
<1>2. TypeOK /\ ShutdownInv /\ DeniedInv /\ [Next]_vars => DeniedInv'
  <2> SUFFICES ASSUME TypeOK, ShutdownInv, DeniedInv, [Next]_vars PROVE DeniedInv'
    OBVIOUS
  <2> USE DEF DeniedInv, KindDenied, kindVars, lifeVars, historyVars
  <2>1. ASSUME NEW e \in Events, Submit(e) \/ Authenticate(e) PROVE DeniedInv'
    BY <2>1 DEF Submit, Authenticate, TypeOK, ShutdownInv
  <2>2. ASSUME NEW e \in Events, Advance(e), ~Store(e) PROVE DeniedInv'
    <3>1. HookStep(e)
      BY <2>2, AdvanceIsHookOrStore
    <3>2. UNCHANGED <<kindsDenied, deniedBefore, stored, policyOpen>>
      BY <3>1 DEF HookStep, Hook
    <3>3. \A f \in Events \ {e} : pc'[f] = pc[f]
      BY <3>1 DEF HookStep, Hook, TypeOK
    <3>4. CASE e \notin deniedBefore \/ ~policyOpen
      BY <3>2, <3>3, <3>4 DEF TypeOK
    <3>5. CASE e \in deniedBefore /\ policyOpen
      <4>1. pc[e] \in {"shape", "content", "denied?"}
        BY <3>1, <3>5 DEF HookStep, Hook, Hooks
      <4>2. pc'[e] \in {"content", "denied?", "refused"}
        BY <2>2, <3>5, <4>1
           DEF Advance, CheckShape, CheckContent, CheckModel, Check, ReadKindDenied,
               ReadKindList, ReadKindListed, ReadBanned, ReadAllowed, CheckAuth,
               CheckAuthor, PolicyRead, Hook, Found, TypeOK
      <4> QED BY <3>2, <3>3, <4>2 DEF TypeOK
    <3> QED BY <3>4, <3>5
  <2>3. ASSUME NEW e \in Events, Store(e) PROVE DeniedInv'
    BY <2>3 DEF Store, TypeOK, ShutdownInv
  <2>4. ASSUME NEW pk \in Pubkeys, ManageKey(pk) PROVE DeniedInv'
    BY <2>4 DEF ManageKey
  <2>5. ASSUME NEW k \in Kinds, ManageKind(k) PROVE DeniedInv'
    BY <2>5 DEF ManageKind, AllowKind, DenyKind
  <2>6. CASE ShutdownRelay \/ CloseStore \/ ClosePolicy
    BY <2>6 DEF ShutdownRelay, CloseStore, ClosePolicy
  <2>7. CASE Exit
    BY <2>7 DEF Exit, TypeOK
  <2>8. CASE UNCHANGED vars
    BY <2>8 DEF vars
  <2> QED
    BY <2>1, <2>2, <2>3, <2>4, <2>5, <2>6, <2>7, <2>8 DEF Next
<1> QED BY <1>1, <1>2, AdmissionTypeCorrect, ShutdownInvariant, PTL DEF Spec

\* A kind denied before the event was sent is not stored, whatever allowkind
\* and disallowkind calls come between the three reads.
THEOREM DeniedKindsStayOut == Spec => []DeniedKindNotStored
<1>1. DeniedInv => DeniedKindNotStored
  BY DEF DeniedInv, DeniedKindNotStored
<1> QED BY <1>1, DeniedInvariant, PTL

(***************************************************************************)
(* Authority                                                               *)
(***************************************************************************)

\* A hook leaves what is known about the author's rights alone.
LEMMA HookKeepsRights ==
  ASSUME NEW e \in Events, HookStep(e), TypeOK
  PROVE  /\ UNCHANGED <<authorized, welcome, admins, banned, allowed, stored, policyOpen>>
         /\ \A f \in Events : HasAuthority(f)' <=> HasAuthority(f)
         /\ \A f \in Events : MayWrite(f)' <=> MayWrite(f)
         /\ \A f \in Events \ {e} : pc'[f] = pc[f]
         /\ InFlight(e)
<1>1. /\ UNCHANGED <<authorized, welcome, admins, banned, allowed, stored, policyOpen>>
      /\ \A f \in Events \ {e} : pc'[f] = pc[f]
      /\ InFlight(e)
  BY DEF HookStep, Hook, policyVars, lifeVars, TypeOK, InFlight
<1> QED
  BY <1>1 DEF HasAuthority, MayWrite, IsAdmin, IsBanned, IsAllowed, Exempt

\* authorized follows the authority of the authors of events in flight, and an
\* event gets past rejectUnauthorizedAuthorPolicy only with authority.
LEMMA AuthorityInvariant == Spec => []AuthorityInv
<1>1. Init => AuthorityInv
  BY DEF Init, AuthorityInv, InFlight, Hooks, PastAuthor
<1>2. TypeOK /\ ShutdownInv /\ AuthorityInv /\ [Next]_vars => AuthorityInv'
  <2> SUFFICES ASSUME TypeOK, ShutdownInv, AuthorityInv, [Next]_vars PROVE AuthorityInv'
    OBVIOUS
  <2> USE DEF AuthorityInv, InFlight, PastAuthor, policyVars, historyVars
  <2>1. ASSUME NEW e \in Events, Submit(e) \/ Authenticate(e) PROVE AuthorityInv'
    BY <2>1 DEF Submit, Authenticate, TypeOK, HasAuthority, IsAdmin, Hooks
  <2>2. ASSUME NEW e \in Events, Advance(e), ~Store(e) PROVE AuthorityInv'
    <3>1. HookStep(e)
      BY <2>2, AdvanceIsHookOrStore
    <3>2. pc'[e] \in PastAuthor => e \in authorized
      <4>1. CASE pc[e] \in PastAuthor
        BY <4>1
      <4>2. CASE CheckAuthor(e)
        BY <4>2, HookKeepsRights, <3>1
           DEF CheckAuthor, PolicyRead, Hook, Found, HasAuthority, TypeOK, Hooks
      <4>3. CASE pc[e] \notin PastAuthor /\ ~CheckAuthor(e)
        BY <2>2, <4>3
           DEF Advance, CheckShape, CheckContent, CheckModel, Check, ReadKindDenied,
               ReadKindList, ReadKindListed, ReadBanned, ReadAllowed, CheckAuth,
               PolicyRead, Hook, TypeOK
      <4> QED BY <4>1, <4>2, <4>3
    <3> QED BY <3>1, <3>2, HookKeepsRights
  <2>3. ASSUME NEW e \in Events, Store(e) PROVE AuthorityInv'
    BY <2>3 DEF Store, TypeOK, HasAuthority, IsAdmin, Hooks
  <2>4. ASSUME NEW pk \in Pubkeys, ManageKey(pk) PROVE AuthorityInv'
    BY <2>4 DEF ManageKey, Watch
  <2>5. ASSUME NEW k \in Kinds, ManageKind(k) PROVE AuthorityInv'
    BY <2>5 DEF ManageKind, HasAuthority, IsAdmin
  <2>6. CASE ShutdownRelay \/ CloseStore \/ ClosePolicy
    BY <2>6 DEF ShutdownRelay, CloseStore, ClosePolicy, HasAuthority, IsAdmin
  <2>7. CASE Exit
    BY <2>7 DEF Exit, TypeOK, HasAuthority, IsAdmin, Hooks
  <2>8. CASE UNCHANGED vars
    BY <2>8 DEF vars, HasAuthority, IsAdmin
  <2> QED
    BY <2>1, <2>2, <2>3, <2>4, <2>5, <2>6, <2>7, <2>8 DEF Next
<1> QED BY <1>1, <1>2, AdmissionTypeCorrect, ShutdownInvariant, PTL DEF Spec

\* A stored definition or execution event is by a key that had the authority
\* for it at one moment of the check.
THEOREM StoredWithAuthority == Spec => []StoredAuthorHadAuthority
<1>1. TypeOK /\ ShutdownInv /\ AuthorityInv => StoredAuthorHadAuthority
  BY DEF TypeOK, ShutdownInv, AuthorityInv, PastAuthor, StoredAuthorHadAuthority
<1> QED BY <1>1, AdmissionTypeCorrect, ShutdownInvariant, AuthorityInvariant, PTL

(***************************************************************************)
(* Writers                                                                 *)
(***************************************************************************)

\* The store's writes over NIP-86 never leave a key banned and allowed.
LEMMA ManagementKeepsDisjoint ==
  ASSUME TypeOK, NEW key \in Pubkeys, ManageKey(key),
         \A pk \in Pubkeys : ~(IsBanned(pk) /\ IsAllowed(pk))
  PROVE  \A pk \in Pubkeys : ~(IsBanned(pk) /\ IsAllowed(pk))'
BY ReasonAssumption
   DEF ManageKey, GrantAdmin, RevokeAdmin, Ban, Allow, IsBanned, IsAllowed, TypeOK, PolicyTypeOK

\* welcome follows the authors of events in flight, and an event gets past
\* rejectWriterPolicy over an open database only if its author was welcome.
LEMMA WelcomeInvariant == Spec => []WelcomeInv
<1>1. Init => WelcomeInv
  BY DEF Init, WelcomeInv, InFlight, Hooks, PastWriter, PastAuthor, IsBanned, IsAllowed
<1>2. TypeOK /\ ShutdownInv /\ WelcomeInv /\ [Next]_vars => WelcomeInv'
  <2> SUFFICES ASSUME TypeOK, ShutdownInv, WelcomeInv, [Next]_vars PROVE WelcomeInv'
    OBVIOUS
  <2> USE DEF WelcomeInv, InFlight, PastWriter, PastAuthor, policyVars, lifeVars, historyVars
  <2>1. ASSUME NEW e \in Events, Submit(e) \/ Authenticate(e) PROVE WelcomeInv'
    BY <2>1 DEF Submit, Authenticate, TypeOK, MayWrite, Exempt, IsBanned, IsAllowed, Hooks
  <2>2. ASSUME NEW e \in Events, Advance(e), ~Store(e) PROVE WelcomeInv'
    <3>1. HookStep(e)
      BY <2>2, AdvanceIsHookOrStore
    <3>2. pc'[e] \in PastWriter => e \in welcome \/ ~policyOpen
      <4>1. CASE pc[e] \in PastWriter
        BY <4>1
      <4>2. CASE ReadBanned(e) \/ ReadAllowed(e)
        <5>1. Author[e] \in Pubkeys
          BY AdmissionAssumption
        <5> QED
          BY <4>2, <5>1 DEF ReadBanned, ReadAllowed, PolicyRead, Hook, Found, MayWrite, TypeOK, Hooks
      <4>3. CASE pc[e] \notin PastWriter /\ ~ReadBanned(e) /\ ~ReadAllowed(e)
        BY <2>2, <4>3
           DEF Advance, CheckShape, CheckContent, CheckModel, Check, ReadKindDenied,
               ReadKindList, ReadKindListed, CheckAuth, CheckAuthor, PolicyRead, Hook, TypeOK
      <4> QED BY <4>1, <4>2, <4>3
    <3>3. \A pk \in Pubkeys : ~(IsBanned(pk) /\ IsAllowed(pk))'
      BY <3>1, HookKeepsRights DEF IsBanned, IsAllowed
    <3> QED BY <3>1, <3>2, <3>3, HookKeepsRights
  <2>3. ASSUME NEW e \in Events, Store(e) PROVE WelcomeInv'
    BY <2>3 DEF Store, TypeOK, ShutdownInv, MayWrite, Exempt, IsBanned, IsAllowed, Hooks
  <2>4. ASSUME NEW pk \in Pubkeys, ManageKey(pk) PROVE WelcomeInv'
    BY <2>4, ManagementKeepsDisjoint DEF ManageKey, Watch
  <2>5. ASSUME NEW k \in Kinds, ManageKind(k) PROVE WelcomeInv'
    BY <2>5 DEF ManageKind, MayWrite, Exempt, IsBanned, IsAllowed
  <2>6. CASE ShutdownRelay \/ CloseStore \/ ClosePolicy
    BY <2>6 DEF ShutdownRelay, CloseStore, ClosePolicy, MayWrite, Exempt, IsBanned, IsAllowed
  <2>7. CASE Exit
    BY <2>7 DEF Exit, TypeOK, MayWrite, Exempt, IsBanned, IsAllowed, Hooks
  <2>8. CASE UNCHANGED vars
    BY <2>8 DEF vars, MayWrite, Exempt, IsBanned, IsAllowed
  <2> QED
    BY <2>1, <2>2, <2>3, <2>4, <2>5, <2>6, <2>7, <2>8 DEF Next
<1> QED BY <1>1, <1>2, AdmissionTypeCorrect, ShutdownInvariant, PTL DEF Spec

\* A stored event's author could write it at one moment of the check, although
\* the ban and the allow entry are looked up in two transactions.
THEOREM StoredByWelcomeAuthor == Spec => []StoredAuthorWasWelcome
<1>1. TypeOK /\ WelcomeInv => StoredAuthorWasWelcome
  BY DEF TypeOK, WelcomeInv, StoredAuthorWasWelcome
<1> QED BY <1>1, AdmissionTypeCorrect, WelcomeInvariant, PTL

=============================================================================
