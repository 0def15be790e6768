---------------------------- MODULE MCEventPath ----------------------------
(***************************************************************************)
(* The instance of EventPath: for each kind every combination of the tags  *)
(* and fields its validator looks at, each with a value of every sort the  *)
(* checks tell apart.                                                      *)
(***************************************************************************)
EXTENDS EventPath, TLC

MCBlank == {"", " "}
MCHex64 == {"aa", "bb"}
MCPositiveNumbers == {"2000"}
MCStrings == MCBlank \cup MCHex64 \cup MCPositiveNumbers \cup SeverityNames
               \cup SignerTypes \cup {"word"}

NoTags == [name \in TagNames |-> Missing]
NoFields == [name \in Fields |-> Missing]

\* Every event of a kind with these choices for some tags and fields.
Objects(kind, tags, fields) ==
  [kind : {kind},
   tag : {t @@ NoTags : t \in tags},
   form : {"object"},
   field : {f @@ NoFields : f \in fields}]

\* The contents that are no object have no fields.
Bare(kind, tags) ==
  [kind : {kind},
   tag : {t @@ NoTags : t \in tags},
   form : {"empty", "malformed", "scalar"},
   field : {NoFields}]

Inputs2(kind, tags, fields) == Objects(kind, tags, fields) \cup Bare(kind, tags)

DTags == [{"d"} -> {Missing, "", "aa", "word"}]
ETags == [{"e"} -> {Missing, "", "aa", "word"}]

Header == [schema     : {Missing, Null, Zero, Positive, "word"},
           revision   : {Missing, Negative, Zero, Other},
           subject    : {Missing, "", "aa", "bb", True},
           updated_by : {Missing, "word", Positive}]

Merged(left, right) == {l @@ r : l \in left, r \in right}

CapabilityBody == [type   : {Missing, Null, "", "word", Positive},
                   scopes : {Missing, Null, Names, "word", Other}]
IdentityBody == [username    : {Missing, Null, "", " ", "word", True},
                 signer_type : {Missing, Null, "", "nip07", "word", Zero},
                 enabled     : {Missing, Null, True, False, "word"},
                 admin       : {Missing, True, Positive}]
SmallHeader == [schema : {Missing, Zero, "word"}, subject : {Missing, "aa", "bb"}]
NoticeFields == [class    : {Missing, Null, "", "word", Positive},
                 severity : {Missing, Null, "", "info", "critical", "word", Positive},
                 summary  : {Missing, "word", Other}]
DelegationTags == [p : {Missing, "", "aa", "word"}, server : {Missing, "bb", "word"},
                   expiry : {Missing, "2000", "word", ""}, scope : {Missing, "", "word"}]

MCInputs ==
  Inputs2(Capability, DTags, Merged(CapabilityBody, Header))
    \cup Inputs2(IdentityDefinition, DTags, Merged(IdentityBody, SmallHeader))
    \cup Inputs2(TrustPolicy, DTags, Header)
    \cup Inputs2(BuildAttestation, DTags, Header)
    \cup Inputs2(OperationRequest, {NoTags}, [tool : {Missing, Null, "", " ", "word", Positive}])
    \cup UNION {Inputs2(kind, ETags, {NoFields}) : kind \in ChainSteps \cup {DelegationRevocation}}
    \cup Inputs2(Delegation, DelegationTags, {NoFields})
    \cup UNION {Inputs2(kind, {NoTags}, NoticeFields) : kind \in NoticeKindNumbers}
    \cup Inputs2(1, {NoTags}, {NoFields})
=============================================================================
