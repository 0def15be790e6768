-------------------------- MODULE RelayBootProofs --------------------------
(***************************************************************************)
(* Proofs about RelayBoot, for any keys, configurations and number of      *)
(* requests and restarts.                                                  *)
(***************************************************************************)
EXTENDS RelayBoot, TLAPS

(***************************************************************************)
(* What each transaction of the store does to the types of the buckets.    *)
(***************************************************************************)

\* Every write method of store.go leaves well-formed buckets when it is given
\* keys of the instance and a reason: the obligation common to all its callers.
LEMMA TransactionsTyped ==
  ASSUME PolicyTypeOK,
         NEW pk \in Pubkeys, NEW keys \in SUBSET Pubkeys, NEW reason \in Reasons,
         \/ GrantAdmin(pk) \/ RevokeAdmin(pk) \/ Ban(pk) \/ Allow(pk, reason)
         \/ SyncAdmins(keys) \/ SyncAllowed(keys, reason)
  PROVE  PolicyTypeOK'
<1> USE ReasonAssumption DEF PolicyTypeOK
<1>1. CASE GrantAdmin(pk) \/ RevokeAdmin(pk)
  BY <1>1 DEF GrantAdmin, RevokeAdmin
<1>2. CASE Ban(pk) \/ Allow(pk, reason)
  BY <1>2 DEF Ban, Allow
<1>3. CASE SyncAdmins(keys)
  BY <1>3 DEF SyncAdmins
<1>4. CASE SyncAllowed(keys, reason)
  BY <1>4 DEF SyncAllowed
<1> QED BY <1>1, <1>2, <1>3, <1>4

\* A transaction that leaves the buckets alone keeps them well formed.
LEMMA UnchangedTyped ==
  ASSUME PolicyTypeOK, UNCHANGED policyVars
  PROVE  PolicyTypeOK'
BY DEF PolicyTypeOK, policyVars

\* The keys New takes from a configuration are keys of the instance.
LEMMA ConfigTyped ==
  ASSUME NEW c \in Configs
  PROVE  /\ AdminsFrom(c) \in SUBSET Pubkeys
         /\ c.agents \in SUBSET Pubkeys
         /\ \A key \in {c.server, c.notice, c.publisher} : key = NoKey \/ key \in Pubkeys
BY BootAssumption DEF ConfigType, AdminsFrom

(***************************************************************************)
(* Type correctness.                                                       *)
(***************************************************************************)

\* Every state the relay process reaches is well typed.
THEOREM TypeCorrect == Spec => []TypeOK
<1>1. Init => TypeOK
  <2>1. Init => failed \in BOOLEAN
    BY Zenon DEF Init
  <2> QED
    BY <2>1, BootAssumption, ReasonAssumption
       DEF Init, TypeOK, PolicyInit, PolicyTypeOK, Phases
<1>2. TypeOK /\ [Next]_vars => TypeOK'
  <2> SUFFICES ASSUME TypeOK, [Next]_vars PROVE TypeOK'
    OBVIOUS
  <2> USE BootAssumption, ReasonAssumption DEF Phases
  <2>1. ASSUME NEW c \in Configs, Open(c) PROVE TypeOK'
    BY <2>1, UnchangedTyped, ConfigTyped DEF Open, TypeOK
  <2>2. ASSUME NEW pk \in Pubkeys, SeedGrant(pk) PROVE TypeOK'
    <3>1. PolicyTypeOK'
      BY <2>2, UnchangedTyped, TransactionsTyped DEF SeedGrant, Attempt, TypeOK
    <3>2. failed' \in BOOLEAN
      BY <2>2 DEF SeedGrant, Attempt, TypeOK
    <3> QED BY <2>2, <3>1, <3>2 DEF SeedGrant, TypeOK
  <2>3. CASE SeedAllow
    <3>1. PolicyTypeOK'
      BY <2>3, UnchangedTyped DEF SeedAllow, Attempt, Allow, TypeOK, PolicyTypeOK
    <3>2. failed' \in BOOLEAN
      BY <2>3 DEF SeedAllow, Attempt, TypeOK
    <3> QED BY <2>3, <3>1, <3>2 DEF SeedAllow, TypeOK
  <2>4. CASE OpenReturns \/ Serve
    BY <2>4, UnchangedTyped DEF OpenReturns, Serve, Step, TypeOK
  <2>5. CASE AllowServer \/ AllowNotice \/ AllowPublisher
    <3>1. PolicyTypeOK'
      BY <2>5, UnchangedTyped, TransactionsTyped, ConfigTyped
         DEF AllowServer, AllowNotice, AllowPublisher, AllowWriter, Attempt, TypeOK
    <3>2. failed' \in BOOLEAN
      BY <2>5 DEF AllowServer, AllowNotice, AllowPublisher, AllowWriter, Attempt, TypeOK
    <3> QED BY <2>5, <3>1, <3>2
         DEF AllowServer, AllowNotice, AllowPublisher, Step, TypeOK
  <2>6. CASE ReconcileAdmins
    <3>1. PolicyTypeOK'
      BY <2>6, TransactionsTyped, ConfigTyped DEF ReconcileAdmins, SyncAdmins, TypeOK, PolicyTypeOK
    <3> QED BY <2>6, <3>1 DEF ReconcileAdmins, Step, TypeOK
  <2>7. CASE ReconcileAgents
    <3>1. PolicyTypeOK'
      BY <2>7, ConfigTyped DEF ReconcileAgents, SyncAllowed, TypeOK, PolicyTypeOK
    <3> QED BY <2>7, <3>1 DEF ReconcileAgents, Step, TypeOK
  <2>8. CASE Abort \/ Stop
    BY <2>8, UnchangedTyped DEF Abort, Stop, Die, TypeOK
  <2>9. ASSUME NEW r \in Requests, NEW call \in CallType, Authorize(r, call)
        PROVE  TypeOK'
    BY <2>9, UnchangedTyped DEF Authorize, TypeOK, CallType
  <2>10. ASSUME NEW by \in Pubkeys, Reject(by) PROVE TypeOK'
    BY <2>10, UnchangedTyped DEF Reject, TypeOK, vars, bootVars
  <2>11. ASSUME NEW r \in Requests, Execute(r) PROVE TypeOK'
    <3>1. calls[r] \in CallType
      BY <2>11 DEF Execute, TypeOK
    <3>2. PolicyTypeOK'
      BY <2>11, <3>1, TransactionsTyped DEF Execute, Transaction, TypeOK, CallType
    <3> QED BY <2>11, <3>1, <3>2 DEF Execute, TypeOK, CallType
  <2>12. ASSUME NEW r \in Requests, ExecuteFails(r) PROVE TypeOK'
    BY <2>12, UnchangedTyped DEF ExecuteFails, TypeOK
  <2>13. CASE UNCHANGED vars
    BY <2>13, UnchangedTyped DEF vars, bootVars, TypeOK
  <2> QED
    BY <2>1, <2>2, <2>3, <2>4, <2>5, <2>6, <2>7, <2>8, <2>9, <2>10, <2>11, <2>12, <2>13
       DEF Next, BootStep
<1> QED BY <1>1, <1>2, PTL DEF Spec

(***************************************************************************)
(* Authority: what is in the admins bucket, and the agent labels.          *)
(***************************************************************************)

\* The admins bucket after SyncAdmins, step by step.
LEMMA AdminInvariant == Spec => []AdminInv
<1>1. Init => AdminInv
  BY DEF Init, AdminInv
<1>2. AdminInv /\ [Next]_vars => AdminInv'
  <2> SUFFICES ASSUME AdminInv, [Next]_vars PROVE AdminInv'
    OBVIOUS
  <2>1. ASSUME NEW c \in Configs, Open(c) PROVE AdminInv'
    BY <2>1 DEF Open, AdminInv
  <2>2. ASSUME NEW pk \in Pubkeys, SeedGrant(pk) PROVE AdminInv'
    BY <2>2 DEF SeedGrant, AdminInv
  <2>3. CASE SeedAllow \/ OpenReturns \/ AllowServer
    BY <2>3 DEF SeedAllow, OpenReturns, AllowServer, Step, AdminInv
  <2>4. CASE ReconcileAdmins
    BY <2>4 DEF ReconcileAdmins, SyncAdmins, Step, AdminInv, AdminsFrom
  <2>5. CASE AllowNotice \/ AllowPublisher
    BY <2>5 DEF AllowNotice, AllowPublisher, AllowWriter, Attempt, Allow, Step,
                policyVars, AdminInv, AdminsFrom
  <2>6. CASE ReconcileAgents
    BY <2>6 DEF ReconcileAgents, SyncAllowed, Step, AdminInv, AdminsFrom
  <2>7. CASE Serve
    BY <2>7 DEF Serve, Step, policyVars, AdminInv, AdminsFrom
  <2>8. CASE Abort \/ Stop
    BY <2>8 DEF Abort, Stop, Die, AdminInv
  <2>9. ASSUME NEW r \in Requests, NEW call \in CallType, Authorize(r, call)
        PROVE  AdminInv'
    BY <2>9 DEF Authorize, policyVars, AdminInv, AdminsFrom
  <2>10. ASSUME NEW r \in Requests, Execute(r) PROVE AdminInv'
    <3>1. admins' \subseteq admins \cup granted'
      BY <2>10 DEF Execute, Transaction, GrantAdmin, RevokeAdmin, Ban, Allow
    <3>2. granted \subseteq granted'
      BY <2>10 DEF Execute
    <3> QED BY <2>10, <3>1, <3>2 DEF Execute, AdminInv, AdminsFrom
  <2>11. ASSUME NEW r \in Requests, ExecuteFails(r) PROVE AdminInv'
    BY <2>11 DEF ExecuteFails, policyVars, AdminInv, AdminsFrom
  <2>12. CASE UNCHANGED vars \/ \E by \in Pubkeys : Reject(by)
    BY <2>12 DEF Reject, vars, bootVars, policyVars, AdminInv, AdminsFrom
  <2> QED
    BY <2>1, <2>2, <2>3, <2>4, <2>5, <2>6, <2>7, <2>8, <2>9, <2>10, <2>11, <2>12
       DEF Next, BootStep
<1> QED BY <1>1, <1>2, PTL DEF Spec

\* From the end of SyncAdmins on, every admin is configured or was granted to
\* this process, whatever policy.db held and whichever transactions failed.
THEOREM AdminsHaveProvenance == Spec => []AdminProvenance
<1>1. AdminInv => AdminProvenance
  BY DEF AdminInv, AdminProvenance
<1> QED BY <1>1, AdminInvariant, PTL

\* SyncAllowed is the last transaction of New, and it leaves the label
\* "agent" on the configured agents and on no other key.
LEMMA AgentInvariant == Spec => []AgentInv
<1>1. Init => AgentInv
  BY DEF Init, AgentInv
<1>2. TypeOK /\ AgentInv /\ [Next]_vars => AgentInv'
  <2> SUFFICES ASSUME TypeOK, AgentInv, [Next]_vars, phase' = "ready" PROVE AgentInv'
    BY DEF AgentInv
  <2>1. CASE ReconcileAgents
    BY <2>1, ReasonAssumption, BootAssumption
       DEF ReconcileAgents, SyncAllowed, Step, AgentInv, TypeOK, PolicyTypeOK
  <2>2. CASE UNCHANGED vars \/ \E by \in Pubkeys : Reject(by)
    BY <2>2 DEF Reject, vars, bootVars, policyVars, AgentInv
  <2>3. ASSUME ~ReconcileAgents, ~UNCHANGED vars, ~(\E by \in Pubkeys : Reject(by))
        PROVE  phase' # "ready"
    BY <2>3 DEF Next, BootStep, Open, SeedGrant, SeedAllow, OpenReturns, AllowServer,
                ReconcileAdmins, AllowNotice, AllowPublisher, Serve, Step, Abort, Stop,
                Die, Authorize, Execute, ExecuteFails
  <2> QED BY <2>1, <2>2, <2>3
<1> QED BY <1>1, <1>2, TypeCorrect, PTL DEF Spec

\* When New returns, the admins bucket and the agent entries are exactly the
\* configuration's.
THEOREM ReadyIsReconciled == Spec => []ReadyReconciled
<1>1. AdminInv /\ AgentInv => ReadyReconciled
  BY DEF AdminInv, AgentInv, ReadyReconciled
<1> QED BY <1>1, AdminInvariant, AgentInvariant, PTL

(***************************************************************************)
(* Ban and allow exclude each other while no transaction has failed.       *)
(***************************************************************************)

\* Open's loop unbans each admin, which is what makes SyncAdmins, which does
\* not look at the banned bucket, safe to run.
LEMMA SeedAndDisjoint == Spec => [](SeedInv /\ AllowBanDisjoint)
<1> DEFINE Inv == SeedInv /\ AllowBanDisjoint
<1>1. Init => Inv
  BY DEF Init, PolicyInit, SeedInv, AllowBanDisjoint, IsBanned
<1>2. TypeOK /\ Inv /\ [Next]_vars => Inv'
  <2> SUFFICES ASSUME TypeOK, Inv, [Next]_vars PROVE SeedInv' /\ AllowBanDisjoint'
    OBVIOUS
  <2> USE ReasonAssumption DEF AllowBanDisjoint, IsBanned, IsAllowed, SeedInv
  <2>1. ASSUME NEW c \in Configs, Open(c) PROVE SeedInv' /\ AllowBanDisjoint'
    BY <2>1 DEF Open, policyVars, AdminsFrom
  <2>2. ASSUME NEW pk \in Pubkeys, SeedGrant(pk) PROVE SeedInv' /\ AllowBanDisjoint'
    BY <2>2 DEF SeedGrant, Attempt, GrantAdmin, policyVars, AdminsFrom
  <2>3. CASE SeedAllow
    BY <2>3 DEF SeedAllow, Attempt, Allow, AdminsFrom, TypeOK, PolicyTypeOK
  <2>4. CASE OpenReturns \/ Serve
    BY <2>4 DEF OpenReturns, Serve, Step, policyVars, AdminsFrom
  <2>5. CASE AllowServer \/ AllowNotice \/ AllowPublisher
    BY <2>5 DEF AllowServer, AllowNotice, AllowPublisher, AllowWriter, Attempt, Allow,
                Step, policyVars, AdminsFrom, TypeOK, PolicyTypeOK
  <2>6. CASE ReconcileAdmins
    BY <2>6 DEF ReconcileAdmins, SyncAdmins, Step, TypeOK, PolicyTypeOK
  <2>7. CASE ReconcileAgents
    BY <2>7 DEF ReconcileAgents, SyncAllowed, Step, TypeOK, PolicyTypeOK
  <2>8. CASE Abort \/ Stop
    BY <2>8 DEF Abort, Stop, Die, policyVars
  <2>9. ASSUME NEW r \in Requests, NEW call \in CallType, Authorize(r, call)
        PROVE  SeedInv' /\ AllowBanDisjoint'
    BY <2>9 DEF Authorize, policyVars
  <2>10. ASSUME NEW r \in Requests, Execute(r) PROVE SeedInv' /\ AllowBanDisjoint'
    <3>1. calls[r] \in CallType
      BY <2>10 DEF Execute, TypeOK
    <3> QED
      BY <2>10, <3>1 DEF Execute, Transaction, GrantAdmin, RevokeAdmin, Ban, Allow,
                         CallType, TypeOK, PolicyTypeOK
  <2>11. ASSUME NEW r \in Requests, ExecuteFails(r) PROVE SeedInv' /\ AllowBanDisjoint'
    BY <2>11 DEF ExecuteFails, policyVars
  <2>12. CASE UNCHANGED vars \/ \E by \in Pubkeys : Reject(by)
    BY <2>12 DEF Reject, vars, bootVars, policyVars, AdminsFrom
  <2> QED
    BY <2>1, <2>2, <2>3, <2>4, <2>5, <2>6, <2>7, <2>8, <2>9, <2>10, <2>11, <2>12
       DEF Next, BootStep
<1> QED BY <1>1, <1>2, TypeCorrect, PTL DEF Spec

\* The admins Open has dealt with are not banned.
LEMMA SeedInvariant == Spec => []SeedInv
BY SeedAndDisjoint, PTL

\* No key is both banned and allowed, as long as no discarded transaction has
\* failed.
THEOREM AllowAndBanDisjoint == Spec => []AllowBanDisjoint
BY SeedAndDisjoint, PTL

(***************************************************************************)
(* The writers of the configuration.                                       *)
(***************************************************************************)

\* Step by step, New adds the keys it settles and keeps the earlier ones.
LEMMA WriterInvariant == Spec => []WriterInv
<1>1. Init => WriterInv
  BY DEF Init, WriterInv, Settled
<1>2. TypeOK /\ SeedInv /\ WriterInv /\ [Next]_vars => WriterInv'
  <2> SUFFICES ASSUME TypeOK, SeedInv, WriterInv, [Next]_vars PROVE WriterInv'
    OBVIOUS
  <2> USE ReasonAssumption DEF WriterInv, Settled, AdminsFrom
  <2>1. ASSUME NEW c \in Configs, Open(c) PROVE WriterInv'
    BY <2>1 DEF Open
  <2>2. CASE SeedAllow \/ OpenReturns \/ AllowServer \/ \E pk \in Pubkeys : SeedGrant(pk)
    BY <2>2 DEF SeedGrant, SeedAllow, OpenReturns, AllowServer, Step
  <2>3. CASE ReconcileAdmins
    <3>1. \A pk \in AdminsFrom(cfg) : pk \in Pubkeys
      BY ConfigTyped DEF TypeOK
    <3>2. ~failed => \A pk \in AdminsFrom(cfg) : pk \notin banned
      BY <2>3 DEF SeedInv, ReconcileAdmins, Step
    <3> QED
      BY <2>3, <3>1, <3>2 DEF ReconcileAdmins, SyncAdmins, Step
  <2>4. CASE AllowNotice
    BY <2>4, ConfigTyped
       DEF AllowNotice, AllowWriter, Attempt, Allow, Step, policyVars, TypeOK, PolicyTypeOK
  <2>5. CASE AllowPublisher
    BY <2>5, ConfigTyped
       DEF AllowPublisher, AllowWriter, Attempt, Allow, Step, policyVars, TypeOK, PolicyTypeOK
  <2>6. CASE ReconcileAgents
    <3>1. \A pk \in Settled' \ {NoKey} : pk \in Pubkeys
      BY <2>6, ConfigTyped DEF ReconcileAgents, Step, TypeOK
    <3> QED
      BY <2>6, <3>1 DEF ReconcileAgents, SyncAllowed, Step
  <2>7. CASE Serve \/ Abort \/ Stop
    BY <2>7 DEF Serve, Step, Abort, Stop, Die
  <2>8. CASE \E r \in Requests : \/ \E call \in CallType : Authorize(r, call)
                                 \/ Execute(r) \/ ExecuteFails(r)
    BY <2>8 DEF Authorize, Execute, ExecuteFails
  <2>9. CASE UNCHANGED vars \/ \E by \in Pubkeys : Reject(by)
    BY <2>9 DEF Reject, vars, bootVars, policyVars
  <2> QED
    BY <2>1, <2>2, <2>3, <2>4, <2>5, <2>6, <2>7, <2>8, <2>9 DEF Next, BootStep
<1> QED BY <1>1, <1>2, TypeCorrect, SeedInvariant, PTL DEF Spec

\* When New returns, every configured writer but the server key is allowed and
\* not banned, as long as no discarded transaction has failed.
THEOREM WritersAreReady == Spec => []ReadyWriters
<1>1. TypeOK /\ WriterInv => ReadyWriters
  BY ConfigTyped, BootAssumption
     DEF TypeOK, WriterInv, Settled, ReadyWriters, IsAllowed, IsBanned, AdminsFrom
<1> QED BY <1>1, TypeCorrect, WriterInvariant, PTL

(***************************************************************************)
(* What a decision of the operator outlives.                               *)
(***************************************************************************)

\* Open seeds the admins of the configuration it was given and no other key.
LEMMA LoopInvariant == Spec => []LoopInv
<1>1. Init => LoopInv
  BY DEF Init, LoopInv
<1>2. LoopInv /\ [Next]_vars => LoopInv'
  <2> SUFFICES ASSUME LoopInv, [Next]_vars PROVE LoopInv'
    OBVIOUS
  <2> USE DEF LoopInv, AdminsFrom
  <2>1. ASSUME NEW c \in Configs, Open(c) PROVE LoopInv'
    BY <2>1 DEF Open
  <2>2. CASE SeedAllow \/ \E pk \in Pubkeys : SeedGrant(pk)
    BY <2>2 DEF SeedGrant, SeedAllow
  <2>3. CASE OpenReturns \/ AllowServer \/ ReconcileAdmins \/ AllowNotice
             \/ AllowPublisher \/ ReconcileAgents \/ Serve
    BY <2>3 DEF OpenReturns, AllowServer, ReconcileAdmins, AllowNotice, AllowPublisher,
                ReconcileAgents, Serve, Step
  <2>4. CASE Abort \/ Stop
    BY <2>4 DEF Abort, Stop, Die
  <2>5. CASE \E r \in Requests : \/ \E call \in CallType : Authorize(r, call)
                                 \/ Execute(r) \/ ExecuteFails(r)
    BY <2>5 DEF Authorize, Execute, ExecuteFails
  <2>6. CASE UNCHANGED vars \/ \E by \in Pubkeys : Reject(by)
    BY <2>6 DEF Reject, vars, bootVars
  <2> QED
    BY <2>1, <2>2, <2>3, <2>4, <2>5, <2>6 DEF Next, BootStep
<1> QED BY <1>1, <1>2, PTL DEF Spec

\* A ban is lifted by allowpubkey on the key, or by a start that is configured
\* with the key as a writer, and in no other way.
THEOREM BansLast == Spec => BanLiftedOnlyByDecision
<1> DEFINE Lifted(pk) == pk \in banned /\ pk \notin banned'
           Decided(pk) == \/ Executes("allowpubkey", pk)
                          \/ phase # "serving" /\ pk \in ConfiguredWriters(cfg)
<1>1. LoopInv /\ [Next]_vars => [\A pk \in Pubkeys : Lifted(pk) => Decided(pk)]_vars
  <2> SUFFICES ASSUME LoopInv, Next, NEW pk \in Pubkeys, Lifted(pk) PROVE Decided(pk)
    OBVIOUS
  <2>1. CASE SeedAllow
    BY <2>1 DEF SeedAllow, Attempt, Allow, policyVars, LoopInv, ConfiguredWriters
  <2>2. CASE AllowServer \/ AllowNotice \/ AllowPublisher
    BY <2>2 DEF AllowServer, AllowNotice, AllowPublisher, AllowWriter, Attempt, Allow,
                Step, policyVars, ConfiguredWriters
  <2>3. CASE ReconcileAgents
    BY <2>3 DEF ReconcileAgents, SyncAllowed, Step, ConfiguredWriters
  <2>4. ASSUME NEW r \in Requests, Execute(r) PROVE Decided(pk)
    BY <2>4 DEF Execute, Transaction, GrantAdmin, RevokeAdmin, Ban, Allow, Executes
  <2>5. ASSUME ~SeedAllow, ~AllowServer, ~AllowNotice, ~AllowPublisher, ~ReconcileAgents,
               ~(\E r \in Requests : Execute(r))
        PROVE  UNCHANGED banned
    BY <2>5 DEF Next, BootStep, Open, SeedGrant, Attempt, GrantAdmin, OpenReturns,
                ReconcileAdmins, SyncAdmins, Serve, Abort, Stop, Die, Authorize, Reject,
                ExecuteFails, policyVars, vars
  <2> QED
    BY <2>1, <2>2, <2>3, <2>4, <2>5
<1> QED BY <1>1, LoopInvariant, PTL DEF Spec, BanLiftedOnlyByDecision

\* An operator's own allow entry is replaced or removed by a call on the key,
\* or by a start that is configured with the key or finds it an admin.
THEOREM OperatorEntriesLast == Spec => OperatorEntryLasts
<1> DEFINE Dropped(pk) == allowed[pk] = "operator" /\ allowed'[pk] # "operator"
           Decided(pk) == \/ Executes("banpubkey", pk) \/ Executes("allowpubkey", pk)
                          \/ phase # "serving" /\ pk \in ConfiguredWriters(cfg) \cup admins
<1>1. TypeOK /\ LoopInv /\ [Next]_vars
        => [\A pk \in Pubkeys : Dropped(pk) => Decided(pk)]_vars
  <2> SUFFICES ASSUME TypeOK, LoopInv, Next, NEW pk \in Pubkeys, Dropped(pk)
               PROVE  Decided(pk)
    OBVIOUS
  <2> USE DEF TypeOK, PolicyTypeOK
  <2>1. CASE SeedAllow
    BY <2>1 DEF SeedAllow, Attempt, Allow, policyVars, LoopInv, ConfiguredWriters
  <2>2. CASE AllowServer \/ AllowNotice \/ AllowPublisher
    BY <2>2, BootAssumption
       DEF AllowServer, AllowNotice, AllowPublisher, AllowWriter, Attempt, Allow,
           Step, policyVars, ConfiguredWriters
  <2>3. CASE ReconcileAdmins
    BY <2>3 DEF ReconcileAdmins, SyncAdmins, Step, ConfiguredWriters
  <2>4. CASE ReconcileAgents
    BY <2>4 DEF ReconcileAgents, SyncAllowed, Step, ConfiguredWriters
  <2>5. ASSUME NEW r \in Requests, Execute(r) PROVE Decided(pk)
    <3>1. calls[r] \in CallType
      BY <2>5 DEF Execute
    <3> QED
      BY <2>5, <3>1 DEF Execute, Transaction, GrantAdmin, RevokeAdmin, Ban, Allow,
                        Executes, CallType
  <2>6. ASSUME ~SeedAllow, ~AllowServer, ~AllowNotice, ~AllowPublisher, ~ReconcileAdmins,
               ~ReconcileAgents, ~(\E r \in Requests : Execute(r))
        PROVE  UNCHANGED allowed
    BY <2>6 DEF Next, BootStep, Open, SeedGrant, Attempt, GrantAdmin, OpenReturns,
                Serve, Abort, Stop, Die, Authorize, Reject, ExecuteFails, policyVars, vars
  <2> QED
    BY <2>1, <2>2, <2>3, <2>4, <2>5, <2>6
<1> QED BY <1>1, TypeCorrect, LoopInvariant, PTL DEF Spec, OperatorEntryLasts

(***************************************************************************)
(* Who changes the policy of a serving relay.                              *)
(***************************************************************************)
\* A call is by a key that was an admin when it was checked, and every admin is
\* of the configuration or was granted to this process (AdminInv).
LEMMA CallersInvariant == Spec => []CallersInv
<1>1. Init => CallersInv
  BY DEF Init, CallersInv
<1>2. TypeOK /\ AdminInv /\ CallersInv /\ [Next]_vars => CallersInv'
  <2> SUFFICES ASSUME TypeOK, AdminInv, CallersInv, [Next]_vars PROVE CallersInv'
    OBVIOUS
  <2> USE DEF CallersInv, TypeOK, AdminsFrom
  <2>1. ASSUME NEW c \in Configs, Open(c) PROVE CallersInv'
    BY <2>1 DEF Open
  <2>2. CASE BootStep
    BY <2>2 DEF BootStep, SeedGrant, SeedAllow, OpenReturns, AllowServer, ReconcileAdmins,
                AllowNotice, AllowPublisher, ReconcileAgents, Serve, Step
  <2>3. CASE Abort \/ Stop
    BY <2>3 DEF Abort, Stop, Die
  <2>4. ASSUME NEW r \in Requests, NEW call \in CallType, Authorize(r, call)
        PROVE  CallersInv'
    BY <2>4 DEF Authorize, IsAdmin, AdminInv
  <2>5. ASSUME NEW r \in Requests, Execute(r) \/ ExecuteFails(r) PROVE CallersInv'
    BY <2>5 DEF Execute, ExecuteFails
  <2>6. CASE UNCHANGED vars \/ \E by \in Pubkeys : Reject(by)
    BY <2>6 DEF Reject, vars, bootVars
  <2> QED
    BY <2>1, <2>2, <2>3, <2>4, <2>5, <2>6 DEF Next
<1> QED BY <1>1, <1>2, TypeCorrect, AdminInvariant, PTL DEF Spec

\* While the relay serves, the buckets of the keys change only by a call whose
\* caller this configuration or a grant to this process has appointed, although
\* callers are revoked between the check of a call and its transaction.
THEOREM ChangesAreByAppointed == Spec => ChangedByAppointed
<1> DEFINE Serving == phase = "serving" /\ phase' = "serving"
           ByAppointed == \E r \in Requests :
                            /\ calls[r] # Idle /\ calls'[r] = Idle
                            /\ calls[r].by \in AdminsFrom(cfg) \cup granted
<1>1. TypeOK /\ CallersInv /\ [Next]_vars
        => [(Serving /\ policyVars' # policyVars) => ByAppointed]_vars
  <2> SUFFICES ASSUME TypeOK, CallersInv, Next, Serving, policyVars' # policyVars
               PROVE  ByAppointed
    OBVIOUS
  <2>1. ASSUME NEW r \in Requests, Execute(r) PROVE ByAppointed
    BY <2>1 DEF Execute, CallersInv, TypeOK
  <2>2. ~BootStep /\ ~Abort /\ ~Stop /\ \A c \in Configs : ~Open(c)
    BY DEF BootStep, SeedGrant, SeedAllow, OpenReturns, AllowServer, ReconcileAdmins,
           AllowNotice, AllowPublisher, ReconcileAgents, Serve, Step, Abort, Stop, Die, Open
  <2>3. /\ \A r \in Requests : ~ExecuteFails(r) /\ \A call \in CallType : ~Authorize(r, call)
        /\ \A by \in Pubkeys : ~Reject(by)
    BY DEF Authorize, ExecuteFails, Reject, vars
  <2> QED
    BY <2>1, <2>2, <2>3 DEF Next
<1> QED BY <1>1, TypeCorrect, CallersInvariant, PTL DEF Spec, ChangedByAppointed

(***************************************************************************)
(* A start ends with an admin.                                             *)
(***************************************************************************)
\* Open only goes on with a configuration that names an operator.
LoadedInv == phase # "down" => Loads(cfg)

LEMMA LoadedInvariant == Spec => []LoadedInv
<1>1. Init => LoadedInv
  BY DEF Init, LoadedInv
<1>2. LoadedInv /\ [Next]_vars => LoadedInv'
  <2> SUFFICES ASSUME LoadedInv, [Next]_vars PROVE LoadedInv'
    OBVIOUS
  <2> USE DEF LoadedInv, Loads
  <2>1. ASSUME NEW c \in Configs, Open(c) PROVE LoadedInv'
    BY <2>1 DEF Open
  <2>2. CASE Abort \/ Stop
    BY <2>2 DEF Abort, Stop, Die
  <2>3. CASE UNCHANGED cfg /\ phase # "down"
    BY <2>3
  <2>4. CASE UNCHANGED vars
    BY <2>4 DEF vars, bootVars
  <2> QED
    BY <2>1, <2>2, <2>3, <2>4
       DEF Next, BootStep, SeedGrant, SeedAllow, OpenReturns, AllowServer,
           ReconcileAdmins, AllowNotice, AllowPublisher, ReconcileAgents, Serve, Step,
           Authorize, Reject, Execute, ExecuteFails
<1> QED BY <1>1, <1>2, PTL DEF Spec

\* A relay that begins to serve has an admin, whatever policy.db held, whichever
\* seeding transactions failed and whichever admins were revoked before: a lockout
\* never outlasts the process.  The part of StartsAgain that needs no fairness.
THEOREM ServesWithAnAdmin ==
  Spec => [][phase # "serving" /\ phase' = "serving" => admins' # {}]_vars
<1>1. AdminInv /\ LoadedInv /\ [Next]_vars
        => [phase # "serving" /\ phase' = "serving" => admins' # {}]_vars
  <2> SUFFICES ASSUME AdminInv, LoadedInv, Next, phase # "serving", phase' = "serving"
               PROVE  admins' # {}
    OBVIOUS
  <2>1. Serve
    BY DEF Next, BootStep, Open, SeedGrant, SeedAllow, OpenReturns, AllowServer,
           ReconcileAdmins, AllowNotice, AllowPublisher, ReconcileAgents, Step, Abort,
           Stop, Die, Authorize, Reject, Execute, ExecuteFails, vars, bootVars
  <2>2. admins = AdminsFrom(cfg) /\ cfg.operator # NoKey
    BY <2>1 DEF Serve, Step, AdminInv, LoadedInv, Loads
  <2>3. cfg.operator \in AdminsFrom(cfg)
    BY <2>2 DEF AdminsFrom
  <2> QED BY <2>1, <2>2, <2>3 DEF Serve, policyVars
<1> QED BY <1>1, AdminInvariant, LoadedInvariant, PTL DEF Spec

=============================================================================
