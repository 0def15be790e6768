--------------------------- MODULE EventPathProofs ---------------------------
(***************************************************************************)
(* Theorems of EventPath, for every set of events.  Each validator is      *)
(* shown to accept the well-formed events of its kind and, mistyped        *)
(* objects apart, no other; the theorem about the relay's verdict follows. *)
(***************************************************************************)
EXTENDS EventPath, TLAPS

\* A chain of checks passes exactly where each of them does.
LEMMA ThenValid == \A a, b : (a ## b) = Valid <=> (a = Valid /\ b = Valid)
BY DEF ##

LEMMA FieldTypes ==
  ASSUME NEW e \in EventType
  PROVE  /\ e.kind \in Nat
         /\ \A name \in TagNames : e.tag[name] \in Strings \cup {Missing}
         /\ e.form \in {"empty", "malformed", "scalar", "object"}
         /\ \A name \in Fields : e.field[name] \in Values \cup {Missing}
         /\ e.form # "object" => \A name \in Fields : e.field[name] = Missing
BY SMT DEF EventType, TagNames, Fields

\* The three header checks say that a header holds, if it decodes.
LEMMA EnvelopeChecked ==
  ASSUME NEW e, e.tag["d"] # Missing
  PROVE  ValidateEnvelope(e) = Valid <=> (Fits(e, Envelope) => HeaderHolds(e))
<1> DEFINE s == e.field["schema"]
           r == e.field["revision"]
<1>1. CASE ~Fits(e, Envelope)
  BY <1>1 DEF ValidateEnvelope
<1>2. CASE Fits(e, Envelope)
  <2>1. s \in Numbers \cup {Missing, Null} /\ r \in Numbers \cup {Missing, Null}
    BY <1>2 DEF Fits, Envelope, Decodes, IsUnset
  <2>2. s \in {Missing, Null, Positive} <=> s \notin {Negative, Zero}
    BY <2>1, EventModelAssumption DEF Numbers
  <2>3. r \in {Missing, Null, Zero, Positive} <=> r # Negative
    BY <2>1, EventModelAssumption DEF Numbers
  <2> QED
    BY <1>2, <2>2, <2>3, ThenValid DEF ValidateEnvelope, HeaderHolds, Refuse, Valid
<1> QED BY <1>1, <1>2

LEMMA SubjectTagChecked ==
  ASSUME NEW e
  PROVE  ValidateSubjectTag(e) = Valid <=> e.tag["d"] \in Hex64
<1>1. Missing \notin Hex64
  BY EventModelAssumption
<1> QED BY <1>1, ThenValid DEF ValidateSubjectTag, Refuse, Valid

LEMMA AttestationRight ==
  ASSUME NEW e \in EventType
  PROVE  ValidateAddressable(e) = Valid <=> WellFormedAttestation(e)
<1>1. e.tag["d"] \notin {Missing, Empty} <=> e.tag["d"] \in Strings \ {Empty}
  BY FieldTypes, EventModelAssumption DEF TagNames
<1> QED BY <1>1, ThenValid
        DEF ValidateAddressable, ValidateJSONContent, WellFormedAttestation, Refuse, Valid

LEMMA CapabilityRight ==
  ASSUME NEW e \in EventType
  PROVE  /\ CapabilityHolds(e) /\ HeaderHolds(e) => ValidateCapability(e) = Valid
         /\ ValidateCapability(e) = Valid
              => /\ e.form = "object" /\ CapabilityHolds(e)
                 /\ Fits(e, Envelope) => HeaderHolds(e)
<1>1. ValidateCapability(e) = Valid <=>
        /\ e.tag["d"] \in Hex64 /\ e.form = "object"
        /\ ValidateEnvelope(e) = Valid
        /\ e.field["type"] \in Strings \ {Empty}
        /\ Decodes(e.field["scopes"], {Names})
  BY SubjectTagChecked, FieldTypes, ThenValid DEF ValidateCapability, Refuse, Valid
<1>2. e.tag["d"] \in Hex64 => e.tag["d"] # Missing
  BY EventModelAssumption
<1>3. HeaderHolds(e) => e.form = "object" /\ Fits(e, Envelope)
  BY DEF HeaderHolds, Fits
<1> QED BY <1>1, <1>2, <1>3, EnvelopeChecked DEF CapabilityHolds, Decodes, IsUnset

LEMMA IdentityRight ==
  ASSUME NEW e \in EventType
  PROVE  /\ IdentityHolds(e) /\ HeaderHolds(e) => ValidateIdentityDefinition(e) = Valid
         /\ ValidateIdentityDefinition(e) = Valid
              => /\ e.form = "object" /\ IdentityHolds(e)
                 /\ Fits(e, Envelope) => HeaderHolds(e)
<1>1. ValidateIdentityDefinition(e) = Valid <=>
        /\ e.tag["d"] \in Hex64 /\ e.form = "object"
        /\ ValidateEnvelope(e) = Valid
        /\ Decodes(e.field["signer_type"], Strings)
        /\ Decodes(e.field["enabled"], Booleans)
        /\ Decodes(e.field["admin"], Booleans)
        /\ ~(Username(e) \in Blank /\ Enabled(e))
        /\ Text(e.field["signer_type"]) \in SignerTypes \cup {Empty}
  BY SubjectTagChecked, FieldTypes, ThenValid DEF ValidateIdentityDefinition, Refuse, Valid
<1>2. e.tag["d"] \in Hex64 => e.tag["d"] # Missing
  BY EventModelAssumption
<1>3. ~(Username(e) \in Blank /\ Enabled(e))
        <=> e.field["enabled"] = False \/ e.field["username"] \in Strings \ Blank
  BY EventModelAssumption DEF Username, Enabled
<1>4. Decodes(e.field["signer_type"], Strings) /\ Text(e.field["signer_type"]) \in SignerTypes \cup {Empty}
        <=> e.field["signer_type"] \in SignerTypes \cup {Empty, Missing, Null}
  BY EventModelAssumption DEF Decodes, Text, IsUnset
<1>5. HeaderHolds(e) => e.form = "object" /\ Fits(e, Envelope)
  BY DEF HeaderHolds, Fits
<1> QED BY <1>1, <1>2, <1>3, <1>4, <1>5, EnvelopeChecked
        DEF IdentityHolds, Decodes, IsUnset

\* The second decode is what makes the skipped header check harmless.
LEMMA TrustPolicyRight ==
  ASSUME NEW e \in EventType
  PROVE  ValidateTrustPolicy(e) = Valid <=> WellFormedTrustPolicy(e)
<1>1. /\ Fits(e, Envelope) => e.form = "object"
      /\ HeaderHolds(e) => Fits(e, Envelope)
  BY DEF Fits, HeaderHolds
<1>2. ValidateTrustPolicy(e) = Valid <=>
        /\ e.tag["d"] \in Strings \ {Empty}
        /\ ValidateEnvelope(e) = Valid
        /\ Fits(e, Envelope)
        /\ ~IsUnset(e.field["schema"])
  BY <1>1, AttestationRight, ThenValid DEF ValidateTrustPolicy, WellFormedAttestation, Refuse, Valid
<1>3. e.tag["d"] \in Strings => e.tag["d"] # Missing
  BY EventModelAssumption
<1>4. HeaderHolds(e) /\ ~IsUnset(e.field["schema"]) <=> HeaderHolds(e) /\ e.field["schema"] = Positive
  BY EventModelAssumption DEF HeaderHolds, IsUnset
<1> QED BY <1>1, <1>2, <1>3, <1>4, EnvelopeChecked DEF WellFormedTrustPolicy

LEMMA RequestRight ==
  ASSUME NEW e \in EventType
  PROVE  ValidateOperationRequest(e) = Valid <=> WellFormedRequest(e)
<1>1. Fits(e, RequestBody) <=> e.form = "object" /\ Decodes(e.field["tool"], Strings)
  BY DEF Fits, RequestBody
<1>2. Decodes(e.field["tool"], Strings) /\ Text(e.field["tool"]) \notin Blank
        <=> e.field["tool"] \in Strings \ Blank
  BY EventModelAssumption DEF Decodes, Text, IsUnset
<1> QED BY <1>1, <1>2, ThenValid DEF ValidateOperationRequest, WellFormedRequest, Refuse, Valid

LEMMA NoticeRight ==
  ASSUME NEW e \in EventType
  PROVE  /\ WellFormedNotice(e) => ValidateNotice(e) = Valid
         /\ (e.form = "object" => Fits(e, NoticeBody))
              => (ValidateNotice(e) = Valid => WellFormedNotice(e))
<1>1. Fits(e, NoticeBody) => Decodes(e.field["severity"], Strings)
  BY DEF Fits, NoticeBody
<1>2. Decodes(e.field["severity"], Strings) =>
        (Text(e.field["severity"]) \in SeverityNames \cup {Empty}
           <=> e.field["severity"] \in SeverityNames \cup {Empty, Missing, Null})
  BY EventModelAssumption DEF Decodes, Text, IsUnset
<1>3. e.form # "object" => e.field["severity"] = Missing
  BY FieldTypes DEF Fields
<1> QED BY <1>1, <1>2, <1>3, ThenValid
        DEF ValidateNotice, ValidateJSONContent, WellFormedNotice, Refuse, Valid

LEMMA DelegationRight ==
  ASSUME NEW e
  PROVE  /\ ValidateDelegation(e) = Valid <=> WellFormedDelegation(e)
         /\ ValidateDelegationRevocation(e) = Valid <=> e.tag["e"] \in Hex64
<1>1. Missing \notin Hex64 /\ Missing \notin PositiveNumbers
  BY EventModelAssumption
<1>2. ValidateDelegation(e) = Valid <=> WellFormedDelegation(e)
  BY <1>1, ThenValid DEF ValidateDelegation, WellFormedDelegation, Refuse, Valid
<1>3. ValidateDelegationRevocation(e) = Valid <=> e.tag["e"] \in Hex64
  BY DEF ValidateDelegationRevocation, Refuse, Valid
<1> QED BY <1>2, <1>3

LEMMA ChainStepRight ==
  ASSUME NEW e \in EventType
  PROVE  ValidateChainStep(e) = Valid <=> WellFormedChainStep(e)
<1>1. e.tag["e"] \notin {Missing, Empty} <=> e.tag["e"] \in Strings \ {Empty}
  BY FieldTypes, EventModelAssumption DEF TagNames
<1> QED BY <1>1, ThenValid
        DEF ValidateChainStep, ValidateJSONContent, WellFormedChainStep, Refuse, Valid

\* eventmodel.Validate accepts every event that is well-formed by the
\* documents, and of the others only mistyped objects, whose header or severity
\* it has not looked at.
THEOREM ValidateRight ==
  ASSUME NEW e \in EventType
  PROVE  /\ WellFormed(e) => Validate(e) = Valid
         /\ Validate(e) = Valid => WellFormed(e) \/ Mistyped(e)
<1> USE DEF Capability, TrustPolicy, IdentityDefinition, BuildAttestation,
            OperationRequest, OperationApproval, OperationRejection,
            ExecutionStarted, ExecutionResult, ChainSteps,
            SystemEvent, ServiceEvent, BackupEvent, SecurityEvent, NoticeKindNumbers,
            Delegation, DelegationRevocation
<1>1. CASE e.kind \in {Capability, IdentityDefinition, TrustPolicy}
  BY <1>1, CapabilityRight, IdentityRight, TrustPolicyRight DEF Validate, WellFormed, Mistyped
<1>2. CASE e.kind \in {BuildAttestation, OperationRequest} \cup ChainSteps
  BY <1>2, AttestationRight, RequestRight, ChainStepRight DEF Validate, WellFormed
<1>3. CASE e.kind \in {Delegation, DelegationRevocation} \cup NoticeKindNumbers
  BY <1>3, DelegationRight, NoticeRight DEF Validate, WellFormed, Mistyped
<1>4. CASE e.kind \notin CustomKinds
  BY <1>4 DEF Validate, WellFormed, CustomKinds, ChainKinds
<1> QED BY <1>1, <1>2, <1>3, <1>4 DEF CustomKinds, ChainKinds

(***************************************************************************)
(* The path of one event                                                   *)
(***************************************************************************)
PathInv ==
  /\ event \in EventType
  /\ verdict \in {"pending", "accepted", "refused"}
  /\ verdict = "accepted" => Validate(event) = Valid
  /\ verdict = "refused" => Validate(event) # Valid

LEMMA PathInvariant == Spec => []PathInv
<1>1. Init => PathInv
  BY PathAssumption DEF Init, PathInv
<1>2. PathInv /\ [Next]_vars => PathInv'
  <2> SUFFICES ASSUME PathInv, [Next]_vars PROVE PathInv'
    OBVIOUS
  <2>1. CASE RelayValidates
    BY <2>1 DEF RelayValidates, PathInv
  <2>2. CASE NotifyReads
    BY <2>2 DEF NotifyReads, PathInv
  <2>3. CASE UNCHANGED vars
    BY <2>3 DEF vars, PathInv
  <2> QED BY <2>1, <2>2, <2>3 DEF Next
<1> QED BY <1>1, <1>2, PTL DEF Spec

\* The relay refuses no well-formed event and accepts, beside these, mistyped
\* objects only (validateEventModelPolicy).
THEOREM VerdictsAreRight == Spec => []VerdictIsRight
<1>1. PathInv => VerdictIsRight
  BY ValidateRight DEF PathInv, VerdictIsRight
<1> QED BY <1>1, PathInvariant, PTL

\* An item that classifyNotice makes of an accepted notice has a known
\* severity: where the service can read the body, so could the relay.
LEMMA ViewKnown ==
  ASSUME NEW e \in EventType, e.kind \in NoticeKindNumbers, Validate(e) = Valid
  PROVE  NoticeView(e, "severity") \in SeverityNames \cup {Missing}
<1>1. CASE NoticeReadable(e)
  <2>1. ~Mistyped(e)
    BY <1>1 DEF NoticeReadable, Mistyped, NoticeKindNumbers, SystemEvent, ServiceEvent,
                BackupEvent, SecurityEvent, Capability, IdentityDefinition
  <2>2. WellFormedNotice(e)
    BY <2>1, ValidateRight DEF WellFormed
  <2> QED
    BY <1>1, <2>2 DEF WellFormedNotice, NoticeView, NoticeField, Text, IsUnset
<1>2. CASE ~NoticeReadable(e)
  BY <1>2 DEF NoticeView
<1> QED BY <1>1, <1>2

THEOREM ItemsHaveKnownSeverity == Spec => []ItemSeverityKnown
<1>1. Init => ItemSeverityKnown
  BY DEF Init, ItemSeverityKnown
<1>2. PathInv /\ ItemSeverityKnown /\ [Next]_vars => ItemSeverityKnown'
  <2> SUFFICES ASSUME PathInv, ItemSeverityKnown, [Next]_vars PROVE ItemSeverityKnown'
    OBVIOUS
  <2>1. CASE RelayValidates
    BY <2>1 DEF RelayValidates, ItemSeverityKnown
  <2>2. CASE NotifyReads
    <3> DEFINE view == NoticeView(event, "severity")
               name == NoticeName(event.kind)
    <3>1. Validate(event) = Valid
      BY <2>2 DEF NotifyReads, PathInv
    <3>2. view \in SeverityNames \cup {Missing}
      BY <2>2, <3>1, ViewKnown DEF NotifyReads, PathInv
    <3>3. name \notin {"request", "result"}
      BY <2>2 DEF NotifyReads, NoticeName, NoticeKindNumbers, SystemEvent, ServiceEvent,
                  BackupEvent, SecurityEvent
    <3>4. item'.severity = IF view = Missing THEN IF name = "security" THEN "warning" ELSE "info"
                           ELSE view
      BY <2>2, <3>3 DEF NotifyReads, Notify!Classify, Notify!Or
    <3> QED BY <3>2, <3>4 DEF ItemSeverityKnown, SeverityNames
  <2>3. CASE UNCHANGED vars
    BY <2>3 DEF vars, ItemSeverityKnown
  <2> QED BY <2>1, <2>2, <2>3 DEF Next
<1> QED BY <1>1, <1>2, PathInvariant, PTL DEF Spec

(***************************************************************************)
(* The types of what the service makes of a notice                         *)
(***************************************************************************)
\* The item of an accepted notice has texts for its class and its severity.
THEOREM PathTypes == Spec => []TypeOK
<1>1. Init => TypeOK
  BY PathAssumption DEF Init, TypeOK
<1>2. PathInv /\ TypeOK /\ [Next]_vars => TypeOK'
  <2> SUFFICES ASSUME PathInv, TypeOK, [Next]_vars PROVE TypeOK'
    OBVIOUS
  <2>1. CASE RelayValidates
    BY <2>1 DEF RelayValidates, TypeOK
  <2>2. CASE NotifyReads
    <3> DEFINE name == NoticeName(event.kind)
               class == NoticeView(event, "class")
               severity == NoticeView(event, "severity")
    <3>1. name \in Notify!NoticeKinds
      BY <2>2 DEF NotifyReads, NoticeName, NoticeKindNumbers, SystemEvent, ServiceEvent,
                  BackupEvent, SecurityEvent, Notify!NoticeKinds
    <3>2. {class, severity} \subseteq Strings \cup {Missing}
      BY EventModelAssumption DEF NoticeView, NoticeReadable, NoticeField, Fits, NoticeBody,
                                  Decodes, Text, IsUnset
    <3>3. {"info", "warning"} \subseteq Strings
      BY EventModelAssumption DEF SeverityNames
    <3>4. item' = [class    |-> IF class = Missing THEN name ELSE class,
                   severity |-> IF severity = Missing
                                THEN IF name = "security" THEN "warning" ELSE "info"
                                ELSE severity]
      BY <2>2, <3>1 DEF NotifyReads, Notify!Classify, Notify!Or, Notify!NoticeKinds
    <3>5. item' \in [class : Strings \cup Notify!NoticeKinds, severity : Strings]
      <4> HIDE DEF name, class, severity
      <4> QED BY <3>1, <3>2, <3>3, <3>4
    <3> QED BY <2>2, <3>5 DEF NotifyReads, TypeOK
  <2>3. CASE UNCHANGED vars
    BY <2>3 DEF vars, TypeOK
  <2> QED BY <2>1, <2>2, <2>3 DEF Next
<1> QED BY <1>1, <1>2, PathInvariant, PTL DEF Spec

(***************************************************************************)
(* The reason codes                                                        *)
(***************************************************************************)
\* The code of each text: what codeFor finds, with the phrases that several
\* texts share, is one code for each reason and kind.
LEMMA CommonCodeIs ==
  /\ CommonCode("subject") = "subject-mismatch"
  /\ CommonCode("schema") = "schema-invalid"
  /\ CommonCode("revision") = "revision-invalid"
  /\ CommonCode("no-schema") = "31101:missing-schema"
  /\ CommonCode("not-JSON") = "content-not-json"
  /\ \A r : r \notin {"subject", "schema", "revision", "no-schema", "not-JSON"}
              => CommonCode(r) = NoCode
<1> USE DEF CommonCode, On, Phrases, ##, NoCode, Valid
<1>1. CommonCode("subject") = "subject-mismatch"
  OBVIOUS
<1>2. CommonCode("schema") = "schema-invalid" /\ CommonCode("revision") = "revision-invalid"
  OBVIOUS
<1>3. CommonCode("no-schema") = "31101:missing-schema" /\ CommonCode("not-JSON") = "content-not-json"
  OBVIOUS
<1>4. ASSUME NEW r, r \notin {"subject", "schema", "revision", "no-schema", "not-JSON"}
      PROVE  CommonCode(r) = NoCode
  <2>1. Phrases(r) \cap {"'subject' must mirror", "'schema' must be an integer",
                         "'revision' must be an integer", "must carry an envelope 'schema'",
                         "content must be JSON"} = {}
    BY <1>4 DEF Phrases
  <2> QED BY <2>1
<1> QED BY <1>1, <1>2, <1>3, <1>4

LEMMA SubjectTagCodeIs ==
  /\ SubjectTagCode("no-d") = "missing-d"
  /\ SubjectTagCode("d-is-no-pubkey") = "d-not-hex64"
  /\ \A r \in {"no-type", "scopes", "no-username", "signer-type", "enabled", "admin"} :
       SubjectTagCode(r) = NoCode
BY DEF SubjectTagCode, On, Phrases, ##, NoCode, Valid

LEMMA CapabilityCodeIs ==
  /\ CapabilityCode("no-d") = "missing-d"
  /\ CapabilityCode("d-is-no-pubkey") = "d-not-hex64"
  /\ CapabilityCode("no-type") = "31100:missing-type"
  /\ CapabilityCode("scopes") = "31100:scopes-not-array"
BY SubjectTagCodeIs DEF CapabilityCode, On, Phrases, ##, NoCode, Valid

LEMMA IdentityCodeIs ==
  /\ IdentityCode("no-d") = "missing-d"
  /\ IdentityCode("d-is-no-pubkey") = "d-not-hex64"
  /\ IdentityCode("no-username") = "31102:missing-username"
  /\ IdentityCode("signer-type") = "31102:bad-signer-type"
  /\ IdentityCode("enabled") = "31102:enabled-not-bool"
  /\ IdentityCode("admin") = "31102:admin-not-bool"
BY SubjectTagCodeIs DEF IdentityCode, On, Phrases, ##, NoCode, Valid

LEMMA DelegationCodeIs ==
  /\ DelegationCode("no-tags") = "27236:bad-tags"
  /\ DelegationCode("tags-are-no-pubkeys") = "27236:bad-tags"
  /\ DelegationCode("expiry") = "27236:bad-expiry"
  /\ DelegationCode("no-scope") = "27236:missing-scope"
BY DEF DelegationCode, On, Phrases, ##, NoCode, Valid

LEMMA KindCodeIs ==
  ASSUME NEW r
  PROVE  /\ KindCode(Capability, r) = CapabilityCode(r)
         /\ KindCode(IdentityDefinition, r) = IdentityCode(r)
         /\ KindCode(Delegation, r) = DelegationCode(r)
         /\ KindCode(TrustPolicy, r) = On(r, "'d' tag", "missing-d")
         /\ KindCode(DelegationRevocation, r) = On(r, "64-hex e tag", "27237:missing-e")
         /\ \A kind : kind \notin {Capability, IdentityDefinition, TrustPolicy, Delegation,
                                   DelegationRevocation}
                        => KindCode(kind, r) = NoCode
<1>1. /\ KindCode(Capability, r) = CapabilityCode(r)
      /\ KindCode(IdentityDefinition, r) = IdentityCode(r)
      /\ KindCode(Delegation, r) = DelegationCode(r)
  BY DEF KindCode, Capability, IdentityDefinition, TrustPolicy, Delegation, DelegationRevocation
<1>2. /\ KindCode(TrustPolicy, r) = On(r, "'d' tag", "missing-d")
      /\ KindCode(DelegationRevocation, r) = On(r, "64-hex e tag", "27237:missing-e")
  BY DEF KindCode, Capability, IdentityDefinition, TrustPolicy, Delegation, DelegationRevocation
<1>3. ASSUME NEW kind, kind \notin {Capability, IdentityDefinition, TrustPolicy, Delegation,
                                    DelegationRevocation}
      PROVE  KindCode(kind, r) = NoCode
  BY <1>3 DEF KindCode
<1> QED BY <1>1, <1>2, <1>3

LEMMA CodeForIs ==
  \A kind, r : CodeFor(kind, r) = IF CommonCode(r) # NoCode THEN CommonCode(r)
                                  ELSE IF KindCode(kind, r) # NoCode THEN KindCode(kind, r)
                                  ELSE "schema-invalid"
BY DEF CodeFor, ##, NoCode

LEMMA SubjectTagRefuses ==
  ASSUME NEW e, ValidateSubjectTag(e) # Valid
  PROVE  \/ ValidateSubjectTag(e) = "no-d" /\ e.tag["d"] = Missing
         \/ ValidateSubjectTag(e) = "d-is-no-pubkey" /\ e.tag["d"] \notin Hex64
BY DEF ValidateSubjectTag, ##, Refuse

EnvelopeReason(e, r) ==
  \/ r = "schema"
  \/ r = "revision" /\ e.field["revision"] = Negative
  \/ r = "subject" /\ Text(e.field["subject"]) # e.tag["d"]

LEMMA EnvelopeRefuses ==
  ASSUME NEW e, ValidateEnvelope(e) # Valid
  PROVE  EnvelopeReason(e, ValidateEnvelope(e))
BY DEF ValidateEnvelope, ##, Refuse, EnvelopeReason

\* The reasons that the first switch finds, whatever the kind.
LEMMA CommonReasons ==
  ASSUME NEW e, NEW r, ~WellFormed(e),
         \/ EnvelopeReason(e, r)
         \/ r = "not-JSON" /\ (e.form # "object" \/ ~Fits(e, Envelope) \/ ~Fits(e, RequestBody))
         \/ r = "no-schema" /\ IsUnset(e.field["schema"])
  PROVE  HasDefect(CodeFor(e.kind, r), e)
<1>1. CASE r = "schema"
  <2>1. CodeFor(e.kind, r) = "schema-invalid"
    BY <1>1, CommonCodeIs, CodeForIs DEF NoCode, Valid
  <2> QED BY <2>1 DEF HasDefect
<1>2. CASE r = "revision" /\ e.field["revision"] = Negative
  <2>1. CodeFor(e.kind, r) = "revision-invalid"
    BY <1>2, CommonCodeIs, CodeForIs DEF NoCode, Valid
  <2> QED BY <1>2, <2>1 DEF HasDefect
<1>3. CASE r = "subject" /\ Text(e.field["subject"]) # e.tag["d"]
  <2>1. CodeFor(e.kind, r) = "subject-mismatch"
    BY <1>3, CommonCodeIs, CodeForIs DEF NoCode, Valid
  <2> QED BY <1>3, <2>1 DEF HasDefect
<1>4. CASE r = "not-JSON" /\ (e.form # "object" \/ ~Fits(e, Envelope) \/ ~Fits(e, RequestBody))
  <2>1. CodeFor(e.kind, r) = "content-not-json"
    BY <1>4, CommonCodeIs, CodeForIs DEF NoCode, Valid
  <2> QED BY <1>4, <2>1 DEF HasDefect
<1>5. CASE r = "no-schema" /\ IsUnset(e.field["schema"])
  <2>1. CodeFor(e.kind, r) = "31101:missing-schema"
    BY <1>5, CommonCodeIs, CodeForIs DEF NoCode, Valid
  <2> QED BY <1>5, <2>1 DEF HasDefect, IsUnset
<1> QED BY <1>1, <1>2, <1>3, <1>4, <1>5 DEF EnvelopeReason

\* The reasons of the d tag of capabilities and identity definitions.
LEMMA SubjectTagReasons ==
  ASSUME NEW e, NEW r, e.kind \in {Capability, IdentityDefinition},
         \/ r = "no-d" /\ e.tag["d"] = Missing
         \/ r = "d-is-no-pubkey" /\ e.tag["d"] \notin Hex64
  PROVE  HasDefect(CodeFor(e.kind, r), e)
<1>1. CommonCode(r) = NoCode
  BY CommonCodeIs
<1>2. CodeFor(e.kind, r) = IF r = "no-d" THEN "missing-d" ELSE "d-not-hex64"
  BY <1>1, CodeForIs, KindCodeIs, CapabilityCodeIs, IdentityCodeIs DEF NoCode, Valid
<1> QED BY <1>2 DEF HasDefect

LEMMA CapabilityCodes ==
  ASSUME NEW e \in EventType, e.kind = Capability, ValidateCapability(e) # Valid, ~WellFormed(e)
  PROVE  HasDefect(CodeFor(e.kind, ValidateCapability(e)), e)
<1> DEFINE r == ValidateCapability(e)
<1>1. \/ r = "no-d" /\ e.tag["d"] = Missing
      \/ r = "d-is-no-pubkey" /\ e.tag["d"] \notin Hex64
      \/ r = "not-JSON" /\ e.form # "object"
      \/ EnvelopeReason(e, r)
      \/ r = "no-type" /\ e.field["type"] \notin Strings \ {Empty}
      \/ r = "scopes" /\ ~Decodes(e.field["scopes"], {Names})
  <2> DEFINE c1 == ValidateSubjectTag(e)
             c2 == c1 ## Refuse(e.form \in {"empty", "malformed"}, "not-JSON")
             c3 == c2 ## ValidateEnvelope(e)
             c4 == c3 ## Refuse(e.form # "object", "not-JSON")
             c5 == c4 ## Refuse(e.field["type"] \notin Strings \ {Empty}, "no-type")
             c6 == c5 ## Refuse(~Decodes(e.field["scopes"], {Names}), "scopes")
  <2>1. r = c6
    BY DEF ValidateCapability
  <2> HIDE DEF c1, c2, c3, c4, c5, c6, r
  <2>2. (c6 = c5 /\ c5 # Valid) \/ (c6 = "scopes" /\ ~Decodes(e.field["scopes"], {Names}))
    BY <2>1 DEF c6, r, ##, Refuse
  <2>3. c5 # Valid => \/ (c5 = c4 /\ c4 # Valid)
                      \/ (c5 = "no-type" /\ e.field["type"] \notin Strings \ {Empty})
    BY DEF c5, ##, Refuse
  <2>4. c4 # Valid => (c4 = c3 /\ c3 # Valid) \/ (c4 = "not-JSON" /\ e.form # "object")
    BY DEF c4, ##, Refuse
  <2>5. c3 # Valid => (c3 = c2 /\ c2 # Valid) \/ EnvelopeReason(e, c3)
    BY EnvelopeRefuses DEF ##, c3
  <2>6. c2 # Valid => (c2 = c1 /\ c1 # Valid) \/ (c2 = "not-JSON" /\ e.form # "object")
    BY DEF c2, ##, Refuse
  <2> QED BY <2>1, <2>2, <2>3, <2>4, <2>5, <2>6, SubjectTagRefuses DEF c1
<1> HIDE DEF r
<1>2. CASE \/ r = "no-d" /\ e.tag["d"] = Missing
           \/ r = "d-is-no-pubkey" /\ e.tag["d"] \notin Hex64
  BY <1>2, SubjectTagReasons DEF r
<1>3. CASE EnvelopeReason(e, r) \/ (r = "not-JSON" /\ e.form # "object")
  BY <1>3, CommonReasons DEF r
<1>4. CASE r = "no-type" /\ e.field["type"] \notin Strings \ {Empty}
  <2>1. CodeFor(e.kind, r) = "31100:missing-type"
    BY <1>4, CommonCodeIs, CodeForIs, KindCodeIs, CapabilityCodeIs DEF NoCode, Valid
  <2> QED BY <1>4, <2>1 DEF HasDefect, r
<1>5. CASE r = "scopes" /\ ~Decodes(e.field["scopes"], {Names})
  <2>1. CodeFor(e.kind, r) = "31100:scopes-not-array"
    BY <1>5, CommonCodeIs, CodeForIs, KindCodeIs, CapabilityCodeIs DEF NoCode, Valid
  <2> QED BY <1>5, <2>1 DEF HasDefect, r, Decodes
<1> QED BY <1>1, <1>2, <1>3, <1>4, <1>5

LEMMA IdentityCodes ==
  ASSUME NEW e \in EventType, e.kind = IdentityDefinition,
         ValidateIdentityDefinition(e) # Valid, ~WellFormed(e)
  PROVE  HasDefect(CodeFor(e.kind, ValidateIdentityDefinition(e)), e)
<1> DEFINE r == ValidateIdentityDefinition(e)
           signer == e.field["signer_type"]
<1>1. \/ r = "no-d" /\ e.tag["d"] = Missing
      \/ r = "d-is-no-pubkey" /\ e.tag["d"] \notin Hex64
      \/ r = "not-JSON" /\ e.form # "object"
      \/ EnvelopeReason(e, r)
      \/ r = "signer-type" /\ ~Decodes(signer, Strings)
      \/ r = "enabled" /\ ~Decodes(e.field["enabled"], Booleans)
      \/ r = "admin" /\ ~Decodes(e.field["admin"], Booleans)
      \/ r = "no-username" /\ Username(e) \in Blank
      \/ r = "signer-type" /\ Text(signer) \notin SignerTypes \cup {Empty}
  <2> DEFINE c1 == ValidateSubjectTag(e)
             c2 == c1 ## Refuse(e.form \in {"empty", "malformed"}, "not-JSON")
             c3 == c2 ## ValidateEnvelope(e)
             c4 == c3 ## Refuse(e.form # "object", "not-JSON")
             c5 == c4 ## Refuse(~Decodes(signer, Strings), "signer-type")
             c6 == c5 ## Refuse(~Decodes(e.field["enabled"], Booleans), "enabled")
             c7 == c6 ## Refuse(~Decodes(e.field["admin"], Booleans), "admin")
             c8 == c7 ## Refuse(Username(e) \in Blank /\ Enabled(e), "no-username")
             c9 == c8 ## Refuse(Text(signer) \notin SignerTypes \cup {Empty}, "signer-type")
  <2>1. r = c9
    BY DEF ValidateIdentityDefinition
  <2> HIDE DEF c1, c2, c3, c4, c5, c6, c7, c8, c9, r, signer
  <2>2. \/ (c9 = c8 /\ c8 # Valid)
        \/ (c9 = "signer-type" /\ Text(signer) \notin SignerTypes \cup {Empty})
    BY <2>1 DEF c9, r, ##, Refuse
  <2>3. c8 # Valid => (c8 = c7 /\ c7 # Valid) \/ (c8 = "no-username" /\ Username(e) \in Blank)
    BY DEF c8, ##, Refuse
  <2>4. c7 # Valid => \/ (c7 = c6 /\ c6 # Valid)
                      \/ (c7 = "admin" /\ ~Decodes(e.field["admin"], Booleans))
    BY DEF c7, ##, Refuse
  <2>5. c6 # Valid => \/ (c6 = c5 /\ c5 # Valid)
                      \/ (c6 = "enabled" /\ ~Decodes(e.field["enabled"], Booleans))
    BY DEF c6, ##, Refuse
  <2>6. c5 # Valid => (c5 = c4 /\ c4 # Valid) \/ (c5 = "signer-type" /\ ~Decodes(signer, Strings))
    BY DEF c5, ##, Refuse
  <2>7. c4 # Valid => (c4 = c3 /\ c3 # Valid) \/ (c4 = "not-JSON" /\ e.form # "object")
    BY DEF c4, ##, Refuse
  <2>8. c3 # Valid => (c3 = c2 /\ c2 # Valid) \/ EnvelopeReason(e, c3)
    BY EnvelopeRefuses DEF ##, c3
  <2>9. c2 # Valid => (c2 = c1 /\ c1 # Valid) \/ (c2 = "not-JSON" /\ e.form # "object")
    BY DEF c2, ##, Refuse
  <2> QED BY <2>1, <2>2, <2>3, <2>4, <2>5, <2>6, <2>7, <2>8, <2>9, SubjectTagRefuses DEF c1
<1> HIDE DEF r
<1>2. CASE \/ r = "no-d" /\ e.tag["d"] = Missing
           \/ r = "d-is-no-pubkey" /\ e.tag["d"] \notin Hex64
  BY <1>2, SubjectTagReasons DEF r
<1>3. CASE EnvelopeReason(e, r) \/ (r = "not-JSON" /\ e.form # "object")
  BY <1>3, CommonReasons DEF r
<1>4. ASSUME r \in {"signer-type", "enabled", "admin", "no-username"}
      PROVE  CodeFor(e.kind, r) = IdentityCode(r)
  <2>1. CommonCode(r) = NoCode
    BY <1>4, CommonCodeIs
  <2> QED BY <1>4, <2>1, CodeForIs, KindCodeIs, IdentityCodeIs DEF NoCode, Valid
<1>5. CASE \/ r = "signer-type" /\ ~Decodes(signer, Strings)
           \/ r = "signer-type" /\ Text(signer) \notin SignerTypes \cup {Empty}
  <2>1. CodeFor(e.kind, r) = "31102:bad-signer-type"
    BY <1>4, <1>5, IdentityCodeIs
  <2>2. signer \notin SignerTypes
    BY <1>5, EventModelAssumption DEF Decodes, Text, IsUnset
  <2> QED BY <2>1, <2>2 DEF HasDefect, r
<1>6. CASE \/ r = "enabled" /\ ~Decodes(e.field["enabled"], Booleans)
           \/ r = "admin" /\ ~Decodes(e.field["admin"], Booleans)
  <2>1. CodeFor(e.kind, r) = IF r = "enabled" THEN "31102:enabled-not-bool"
                             ELSE "31102:admin-not-bool"
    BY <1>4, <1>6, IdentityCodeIs
  <2> QED BY <1>6, <2>1 DEF HasDefect, Decodes, r
<1>7. CASE r = "no-username" /\ Username(e) \in Blank
  <2>1. CodeFor(e.kind, r) = "31102:missing-username"
    BY <1>4, <1>7, IdentityCodeIs
  <2>2. e.field["username"] \notin Strings \ Blank
    BY <1>7 DEF Username
  <2> QED BY <2>1, <2>2 DEF HasDefect, r
<1> QED BY <1>1, <1>2, <1>3, <1>5, <1>6, <1>7

\* A text that none of the phrases of the kind is in.
LEMMA CatchAll ==
  ASSUME NEW e, NEW r, ~WellFormed(e), CommonCode(r) = NoCode, KindCode(e.kind, r) = NoCode
  PROVE  HasDefect(CodeFor(e.kind, r), e)
<1>1. CodeFor(e.kind, r) = "schema-invalid"
  BY CodeForIs
<1> QED BY <1>1 DEF HasDefect

LEMMA AddressableRefuses ==
  ASSUME NEW e, ValidateAddressable(e) # Valid
  PROVE  \/ ValidateAddressable(e) = "no-d" /\ e.tag["d"] \in {Missing, Empty}
         \/ ValidateAddressable(e) = "not-valid-JSON"
BY DEF ValidateAddressable, ValidateJSONContent, ##, Refuse

LEMMA TrustPolicyCodes ==
  ASSUME NEW e \in EventType, e.kind = TrustPolicy, ValidateTrustPolicy(e) # Valid, ~WellFormed(e)
  PROVE  HasDefect(CodeFor(e.kind, ValidateTrustPolicy(e)), e)
<1> DEFINE r == ValidateTrustPolicy(e)
<1>1. \/ r = "no-d" /\ e.tag["d"] \in {Missing, Empty}
      \/ r = "not-valid-JSON"
      \/ EnvelopeReason(e, r)
      \/ r = "no-schema" /\ (e.form # "object" \/ IsUnset(e.field["schema"]))
      \/ r = "not-JSON" /\ ~Fits(e, Envelope)
  <2> DEFINE c1 == ValidateAddressable(e)
             c2 == c1 ## ValidateEnvelope(e)
             c3 == c2 ## Refuse(e.form = "empty", "no-schema")
             c4 == c3 ## Refuse(~Fits(e, Envelope), "not-JSON")
             c5 == c4 ## Refuse(IsUnset(e.field["schema"]), "no-schema")
  <2>1. r = c5
    BY DEF ValidateTrustPolicy
  <2> HIDE DEF c1, c2, c3, c4, c5, r
  <2>2. (c5 = c4 /\ c4 # Valid) \/ (c5 = "no-schema" /\ IsUnset(e.field["schema"]))
    BY <2>1 DEF c5, r, ##, Refuse
  <2>3. c4 # Valid => (c4 = c3 /\ c3 # Valid) \/ (c4 = "not-JSON" /\ ~Fits(e, Envelope))
    BY DEF c4, ##, Refuse
  <2>4. c3 # Valid => (c3 = c2 /\ c2 # Valid) \/ (c3 = "no-schema" /\ e.form # "object")
    BY DEF c3, ##, Refuse
  <2>5. c2 # Valid => (c2 = c1 /\ c1 # Valid) \/ EnvelopeReason(e, c2)
    BY EnvelopeRefuses DEF ##, c2
  <2> QED BY <2>1, <2>2, <2>3, <2>4, <2>5, AddressableRefuses DEF c1
<1> HIDE DEF r
<1>2. e.form # "object" => IsUnset(e.field["schema"])
  BY FieldTypes DEF Fields, IsUnset
<1>3. CASE \/ EnvelopeReason(e, r)
           \/ r = "no-schema" /\ (e.form # "object" \/ IsUnset(e.field["schema"]))
           \/ r = "not-JSON" /\ ~Fits(e, Envelope)
  BY <1>2, <1>3, CommonReasons DEF r
<1>4. CASE r = "no-d" /\ e.tag["d"] \in {Missing, Empty}
  <2>1. On(r, "'d' tag", "missing-d") = "missing-d" /\ CommonCode(r) = NoCode
    BY <1>4, CommonCodeIs DEF On, Phrases
  <2>2. CodeFor(e.kind, r) = "missing-d"
    BY <2>1, CodeForIs, KindCodeIs DEF NoCode, Valid
  <2> QED BY <1>4, <2>2 DEF HasDefect, r
<1>5. CASE r = "not-valid-JSON"
  <2>1. On(r, "'d' tag", "missing-d") = NoCode /\ CommonCode(r) = NoCode
    BY <1>5, CommonCodeIs DEF On, Phrases
  <2> QED BY <2>1, KindCodeIs, CatchAll DEF r
<1> QED BY <1>1, <1>3, <1>4, <1>5

LEMMA DelegationCodes ==
  ASSUME NEW e, e.kind = Delegation, ValidateDelegation(e) # Valid
  PROVE  HasDefect(CodeFor(e.kind, ValidateDelegation(e)), e)
<1> DEFINE r == ValidateDelegation(e)
           keys == {e.tag["p"], e.tag["server"]}
<1>1. \/ r = "no-tags" /\ Missing \in {e.tag["p"], e.tag["server"], e.tag["expiry"]}
      \/ r = "tags-are-no-pubkeys" /\ ~(keys \subseteq Hex64)
      \/ r = "expiry" /\ e.tag["expiry"] \notin PositiveNumbers
      \/ r = "no-scope" /\ e.tag["scope"] = Missing
  BY DEF ValidateDelegation, ##, Refuse
<1> HIDE DEF r
<1>2. CommonCode(r) = NoCode
  BY <1>1, CommonCodeIs
<1>3. CodeFor(e.kind, r) = DelegationCode(r)
  BY <1>1, <1>2, CodeForIs, KindCodeIs, DelegationCodeIs DEF NoCode, Valid
<1>4. CASE \/ r = "no-tags" /\ Missing \in {e.tag["p"], e.tag["server"], e.tag["expiry"]}
           \/ r = "tags-are-no-pubkeys" /\ ~(keys \subseteq Hex64)
  <2>1. CodeFor(e.kind, r) = "27236:bad-tags"
    BY <1>3, <1>4, DelegationCodeIs
  <2>2. ~(keys \subseteq Hex64) \/ e.tag["expiry"] = Missing
    BY <1>4, EventModelAssumption
  <2> QED BY <2>1, <2>2 DEF HasDefect, r
<1>5. CASE \/ r = "expiry" /\ e.tag["expiry"] \notin PositiveNumbers
           \/ r = "no-scope" /\ e.tag["scope"] = Missing
  <2>1. CodeFor(e.kind, r) = IF r = "expiry" THEN "27236:bad-expiry" ELSE "27236:missing-scope"
    BY <1>3, <1>5, DelegationCodeIs
  <2> QED BY <1>5, <2>1 DEF HasDefect, r
<1> QED BY <1>1, <1>4, <1>5

LEMMA RevocationCodes ==
  ASSUME NEW e, e.kind = DelegationRevocation, ValidateDelegationRevocation(e) # Valid
  PROVE  HasDefect(CodeFor(e.kind, ValidateDelegationRevocation(e)), e)
<1>1. ValidateDelegationRevocation(e) = "no-64-hex-e" /\ e.tag["e"] \notin Hex64
  BY DEF ValidateDelegationRevocation, Refuse
<1>2. On("no-64-hex-e", "64-hex e tag", "27237:missing-e") = "27237:missing-e"
      /\ CommonCode("no-64-hex-e") = NoCode
  BY CommonCodeIs DEF On, Phrases
<1>3. CodeFor(e.kind, "no-64-hex-e") = "27237:missing-e"
  BY <1>2, CodeForIs, KindCodeIs DEF NoCode, Valid
<1> QED BY <1>1, <1>3 DEF HasDefect

\* The kinds whose texts codeFor does not search for their own phrases.
LEMMA OtherCodes ==
  ASSUME NEW e, ~WellFormed(e),
         e.kind \in {BuildAttestation, OperationRequest} \cup ChainSteps \cup NoticeKindNumbers,
         NEW r,
         \/ r \in {"no-d", "not-valid-JSON", "no-tool", "no-e", "severity"}
         \/ r = "not-JSON" /\ ~Fits(e, RequestBody)
  PROVE  HasDefect(CodeFor(e.kind, r), e)
<1>1. CASE r \in {"no-d", "not-valid-JSON", "no-tool", "no-e", "severity"}
  <2>1. CommonCode(r) = NoCode
    BY <1>1, CommonCodeIs
  <2>2. e.kind \notin {Capability, IdentityDefinition, TrustPolicy, Delegation, DelegationRevocation}
    BY DEF Capability, TrustPolicy, IdentityDefinition, BuildAttestation, OperationRequest,
           OperationApproval, OperationRejection, ExecutionStarted, ExecutionResult, ChainSteps,
           SystemEvent, ServiceEvent, BackupEvent, SecurityEvent, NoticeKindNumbers,
           Delegation, DelegationRevocation
  <2> QED BY <2>1, <2>2, KindCodeIs, CatchAll
<1>2. CASE r = "not-JSON" /\ ~Fits(e, RequestBody)
  BY <1>2, CommonReasons
<1> QED BY <1>1, <1>2

\* codeFor names a defect of every event that Validate refuses.
THEOREM CodesNameDefects ==
  ASSUME NEW e \in EventType, Validate(e) # Valid
  PROVE  HasDefect(CodeFor(e.kind, Validate(e)), e)
<1>0. ~WellFormed(e)
  BY ValidateRight
<1> USE DEF Capability, TrustPolicy, IdentityDefinition, BuildAttestation,
            OperationRequest, OperationApproval, OperationRejection,
            ExecutionStarted, ExecutionResult, ChainSteps,
            SystemEvent, ServiceEvent, BackupEvent, SecurityEvent, NoticeKindNumbers,
            Delegation, DelegationRevocation
<1>1. CASE e.kind = Capability
  BY <1>0, <1>1, CapabilityCodes DEF Validate
<1>2. CASE e.kind = IdentityDefinition
  BY <1>0, <1>2, IdentityCodes DEF Validate
<1>3. CASE e.kind = TrustPolicy
  BY <1>0, <1>3, TrustPolicyCodes DEF Validate
<1>4. CASE e.kind \in {Delegation, DelegationRevocation}
  BY <1>4, DelegationCodes, RevocationCodes DEF Validate
<1>5. CASE e.kind = BuildAttestation
  BY <1>0, <1>5, AddressableRefuses, OtherCodes DEF Validate
<1>6. CASE e.kind = OperationRequest
  <2>1. \/ Validate(e) = "not-JSON" /\ ~Fits(e, RequestBody)
        \/ Validate(e) = "no-tool"
    BY <1>6 DEF Validate, ValidateOperationRequest, ##, Refuse
  <2> QED BY <1>0, <1>6, <2>1, OtherCodes
<1>7. CASE e.kind \in ChainSteps
  <2>1. Validate(e) \in {"no-e", "not-valid-JSON"}
    BY <1>7 DEF Validate, ValidateChainStep, ValidateJSONContent, ##, Refuse
  <2> QED BY <1>0, <1>7, <2>1, OtherCodes
<1>8. CASE e.kind \in NoticeKindNumbers
  <2>1. Validate(e) \in {"not-valid-JSON", "severity"}
    BY <1>8 DEF Validate, ValidateNotice, ValidateJSONContent, ##, Refuse
  <2> QED BY <1>0, <1>8, <2>1, OtherCodes
<1>9. CASE e.kind \notin CustomKinds
  BY <1>9 DEF Validate, CustomKinds, ChainKinds
<1> QED BY <1>1, <1>2, <1>3, <1>4, <1>5, <1>6, <1>7, <1>8, <1>9 DEF CustomKinds, ChainKinds

\* The corpus accepts what the relay accepts, and the code it gives for a
\* refused event is that of a defect of the event.
THEOREM VerdictsNameDefects == Spec => []CodeNamesDefect
<1>1. PathInv => CodeNamesDefect
  <2> SUFFICES ASSUME PathInv PROVE CodeNamesDefect
    OBVIOUS
  <2>1. verdict = "accepted" => Validate(event) = Valid
    BY DEF PathInv
  <2>2. verdict = "refused" => Validate(event) # Valid
    BY DEF PathInv
  <2>3. Validate(event) # Valid => IsCustomKind(event.kind)
    <3>1. ASSUME event.kind \notin CustomKinds PROVE Validate(event) = Valid
      BY <3>1 DEF Validate, CustomKinds, ChainKinds, Capability, TrustPolicy, IdentityDefinition,
                  BuildAttestation, OperationRequest, OperationApproval, OperationRejection,
                  ExecutionStarted, ExecutionResult, ChainSteps, SystemEvent, ServiceEvent,
                  BackupEvent, SecurityEvent, NoticeKindNumbers, Delegation, DelegationRevocation
    <3> QED BY <3>1 DEF IsCustomKind
  <2> QED BY <2>1, <2>2, <2>3, CodesNameDefects DEF PathInv, CodeNamesDefect, Verdict
<1> QED BY <1>1, PathInvariant, PTL
=============================================================================
