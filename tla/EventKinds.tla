----------------------------- MODULE EventKinds -----------------------------
(***************************************************************************)
(* The event kinds of the control plane (internal/eventmodel): their       *)
(* numbers, which of them are NostrHost's own, and the retention class the *)
(* package gives to a kind.                                                *)
(***************************************************************************)
EXTENDS Integers

\* The operation chain.
OperationRequest   == 2200
OperationApproval  == 2201
OperationRejection == 2202
ExecutionStarted   == 2203
ExecutionResult    == 2204
ChainSteps == {OperationApproval, OperationRejection, ExecutionStarted, ExecutionResult}
ChainKinds == {OperationRequest} \cup ChainSteps

\* Notices.
SystemEvent   == 2210
ServiceEvent  == 2211
BackupEvent   == 2212
SecurityEvent == 2213
NoticeKindNumbers == {SystemEvent, ServiceEvent, BackupEvent, SecurityEvent}

\* Delegations, numbered next to NIP-98.
Delegation           == 27236
DelegationRevocation == 27237

\* Definitions.
Capability         == 31100
TrustPolicy        == 31101
IdentityDefinition == 31102
BuildAttestation   == 31300

CustomKinds ==
  ChainKinds \cup NoticeKindNumbers
    \cup {Delegation, DelegationRevocation,
          Capability, TrustPolicy, IdentityDefinition, BuildAttestation}

IsCustomKind(kind) == kind \in CustomKinds

InEphemeralRange(kind) == kind \in 20000..29999
InReplaceableRange(kind) == kind \in 10000..19999 \/ kind \in 30000..39999

Class(kind) ==
  IF kind \in {Delegation, DelegationRevocation} THEN "immutable"
  ELSE IF InEphemeralRange(kind) THEN "ephemeral"
  ELSE IF InReplaceableRange(kind) THEN "replaceable"
  ELSE "immutable"

=============================================================================
