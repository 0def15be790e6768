---------------------------- MODULE MCRetention ----------------------------
(***************************************************************************)
(* Instances of Retention: three operation requests, one more than a query *)
(* yields, a step of the audit chain, two definitions of one address, a    *)
(* delegation, and two profiles of one author.                             *)
(***************************************************************************)
EXTENDS Retention, TLC

MCKind == 1 :> OperationRequest @@ 2 :> OperationRequest @@ 3 :> OperationRequest
            @@ 4 :> ExecutionResult @@ 5 :> IdentityDefinition @@ 6 :> IdentityDefinition
            @@ 7 :> Delegation @@ 8 :> ProfileMetadata @@ 9 :> ProfileMetadata
MCCreated == 1 :> 0 @@ 2 :> 1 @@ 3 :> 1 @@ 4 :> 0 @@ 5 :> 0 @@ 6 :> 1 @@ 7 :> 0
               @@ 8 :> 0 @@ 9 :> 1

Request(keepFor) == [kind |-> OperationRequest, keepFor |-> keepFor]

\* A kind named twice, one keep_for of zero, one that does not parse, and none.
MCConfigs == {<<Request(2)>>, <<Request(0), Request(1)>>, <<Request(Malformed)>>, << >>}

MCEvents == 1..6 \cup {8, 9}
MCKinds == [e \in MCEvents |-> MCKind[e]]
MCCreateds == [e \in MCEvents |-> MCCreated[e]]

MCAddresses == [e \in MCEvents |-> "a"]

DelegationOnly == {7}
DelegationKinds == [e \in DelegationOnly |-> MCKind[e]]
DelegationAddresses == [e \in DelegationOnly |-> "a"]
DelegationCreateds == [e \in DelegationOnly |-> MCCreated[e]]
=============================================================================
