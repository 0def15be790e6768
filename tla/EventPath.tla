----------------------------- MODULE EventPath -----------------------------
(***************************************************************************)
(* One event from its author to the notification service: the relay's      *)
(* validateEventModelPolicy decides on it, and what was accepted reaches   *)
(* Classify, which reads the same content again.                           *)
(***************************************************************************)
EXTENDS EventProtocol

CONSTANTS Inputs,   \* the events authors send
          NoItem

ASSUME PathAssumption == Inputs \subseteq EventType

VARIABLES event, verdict, item
vars == <<event, verdict, item>>

Notify == INSTANCE NotifyPolicy
            WITH Recipients <- {}, ClassNames <- Strings,
                 SeverityNames <- Strings, Unset <- Missing

\* Mutant: a field is read although another one does not decode.
NoticeViewByField(e, name) ==
  IF e.form = "object" /\ e.field[name] \in Strings \ {Empty} THEN e.field[name] ELSE Missing

\* Mutant: a null is taken for a value.
NoticeViewOfNull(e, name) == IF NoticeReadable(e) THEN e.field[name] ELSE Missing

\* What classifyNotice makes of Notice: an empty field is as good as none.
NoticeView(e, name) ==
  IF NoticeReadable(e) /\ NoticeField(e, name) # Empty THEN NoticeField(e, name) ELSE Missing

NoticeName(kind) ==
  CASE kind = SystemEvent   -> "system"
    [] kind = ServiceEvent  -> "service"
    [] kind = BackupEvent   -> "backup"
    [] kind = SecurityEvent -> "security"

TypeOK ==
  /\ event \in EventType
  /\ verdict \in {"pending", "accepted", "refused"}
  /\ item = NoItem \/ item \in [class : Strings \cup Notify!NoticeKinds, severity : Strings]

Init ==
  /\ event \in Inputs
  /\ verdict = "pending"
  /\ item = NoItem

\* validateEventModelPolicy
RelayValidates ==
  /\ verdict = "pending"
  /\ verdict' = IF Validate(event) = Valid THEN "accepted" ELSE "refused"
  /\ UNCHANGED <<event, item>>

\* Classify, for the four kinds of notices.
NotifyReads ==
  /\ verdict = "accepted"
  /\ item = NoItem
  /\ event.kind \in NoticeKindNumbers
  /\ item' = Notify!Classify([kind     |-> NoticeName(event.kind),
                              class    |-> NoticeView(event, "class"),
                              severity |-> NoticeView(event, "severity"),
                              ok       |-> Missing])
  /\ UNCHANGED <<event, verdict>>

Next == RelayValidates \/ NotifyReads

Spec == Init /\ [][Next]_vars

(***************************************************************************)
(* What the documents require of an event (EVENT-PROTOCOL.md section 2 and *)
(* the comments on the envelope and the notice body), as conditions on the *)
(* whole event, whether the code can decode it or not.                     *)
(***************************************************************************)
\* The header of a definition: the types of the envelope, its two bounds, and
\* a subject that mirrors the d tag.
HeaderHolds(e) ==
  /\ Fits(e, Envelope)
  /\ e.field["schema"] \in {Missing, Null, Positive}
  /\ e.field["revision"] \in {Missing, Null, Zero, Positive}
  /\ Text(e.field["subject"]) \in {Empty, e.tag["d"]}

\* Beside its header, a capability and an identity have a key for a subject, and
\* fields of their own.
CapabilityHolds(e) ==
  /\ e.tag["d"] \in Hex64
  /\ e.field["type"] \in Strings \ {Empty}
  /\ e.field["scopes"] \in {Missing, Null, Names}

IdentityHolds(e) ==
  /\ e.tag["d"] \in Hex64
  /\ e.field["enabled"] = False \/ e.field["username"] \in Strings \ Blank
  /\ e.field["signer_type"] \in SignerTypes \cup {Empty, Missing, Null}
  /\ {e.field["enabled"], e.field["admin"]} \subseteq Booleans \cup {Missing, Null}

WellFormedTrustPolicy(e) ==
  /\ e.tag["d"] \in Strings \ {Empty}
  /\ HeaderHolds(e)
  /\ e.field["schema"] = Positive

WellFormedAttestation(e) == e.tag["d"] \in Strings \ {Empty} /\ e.form # "malformed"

WellFormedRequest(e) == e.form = "object" /\ e.field["tool"] \in Strings \ Blank

WellFormedChainStep(e) == e.tag["e"] \in Strings \ {Empty} /\ e.form # "malformed"

WellFormedDelegation(e) ==
  /\ {e.tag["p"], e.tag["server"]} \subseteq Hex64
  /\ e.tag["expiry"] \in PositiveNumbers
  /\ e.tag["scope"] # Missing

\* "if severity is present it must be one of the known levels"
WellFormedNotice(e) ==
  /\ e.form # "malformed"
  /\ e.field["severity"] \in SeverityNames \cup {Empty, Missing, Null}

WellFormed(e) ==
  /\ e.kind = Capability => CapabilityHolds(e) /\ HeaderHolds(e)
  /\ e.kind = IdentityDefinition => IdentityHolds(e) /\ HeaderHolds(e)
  /\ e.kind = TrustPolicy => WellFormedTrustPolicy(e)
  /\ e.kind = BuildAttestation => WellFormedAttestation(e)
  /\ e.kind = OperationRequest => WellFormedRequest(e)
  /\ e.kind \in ChainSteps => WellFormedChainStep(e)
  /\ e.kind = Delegation => WellFormedDelegation(e)
  /\ e.kind = DelegationRevocation => e.tag["e"] \in Hex64
  /\ e.kind \in NoticeKindNumbers => WellFormedNotice(e)

(***************************************************************************)
(* Properties                                                              *)
(***************************************************************************)
\* An object one field of which has another JSON type than the struct it is
\* decoded into: validateNotice then does not look at its severity, and
\* validateEnvelope at none of its header, but the fields of the kind itself are
\* as they must be.  (validateTrustPolicy decodes its header again and reports it.)
Mistyped(e) ==
  /\ e.form = "object"
  /\ \/ e.kind \in NoticeKindNumbers /\ ~Fits(e, NoticeBody)
     \/ e.kind = Capability /\ ~Fits(e, Envelope) /\ CapabilityHolds(e)
     \/ e.kind = IdentityDefinition /\ ~Fits(e, Envelope) /\ IdentityHolds(e)

\* The relay refuses no well-formed event, and the events it accepts although
\* they are not well-formed are mistyped ones: no early return of a validator
\* but these two lets an event pass that a later check would have refused, and
\* these let pass no more than a header or a severity.  The documents make no
\* such exception: "Enforced when present: an unknown value is rejected at write
\* time" (EVENT-PROTOCOL.md:97-99), and "the kind validator reports content
\* errors" (eventmodel.go:276), which two kind validators do not.
VerdictIsRight ==
  /\ verdict = "refused" => ~WellFormed(event)
  /\ verdict = "accepted" => WellFormed(event) \/ Mistyped(event)

\* Whatever publishers write into the body of a notice, an item that reaches
\* the policy has one of the three severities: the relay and the service
\* decode the body alike, and where it does not decode the default is used.
ItemSeverityKnown == item # NoItem => item.severity \in SeverityNames

\* A reason code other than the catch-all names a defect the event has.
HasDefect(code, e) ==
  CASE code = "missing-d"              -> e.tag["d"] \in {Missing, Empty}
    [] code = "d-not-hex64"            -> e.tag["d"] \notin Hex64
    [] code = "content-not-json"       -> e.form # "object" \/ ~Fits(e, Envelope) \/ ~Fits(e, RequestBody)
    [] code = "subject-mismatch"       -> Text(e.field["subject"]) # e.tag["d"]
    [] code = "revision-invalid"       -> e.field["revision"] = Negative
    [] code = "31101:missing-schema"   -> e.field["schema"] \in {Missing, Null}
    [] code = "31100:missing-type"     -> e.field["type"] \notin Strings \ {Empty}
    [] code = "31100:scopes-not-array" -> e.field["scopes"] # Names
    [] code = "31102:missing-username" -> e.field["username"] \notin Strings \ Blank
    [] code = "31102:bad-signer-type"  -> e.field["signer_type"] \notin SignerTypes
    [] code = "31102:enabled-not-bool" -> e.field["enabled"] \notin Booleans
    [] code = "31102:admin-not-bool"   -> e.field["admin"] \notin Booleans
    [] code = "27236:bad-tags"         -> ~({e.tag["p"], e.tag["server"]} \subseteq Hex64)
                                            \/ e.tag["expiry"] = Missing
    [] code = "27236:bad-expiry"       -> e.tag["expiry"] \notin PositiveNumbers
    [] code = "27236:missing-scope"    -> e.tag["scope"] = Missing
    [] code = "27237:missing-e"        -> e.tag["e"] \notin Hex64
    [] code = "schema-invalid"         -> ~WellFormed(e)
    [] OTHER                           -> FALSE

\* The corpus verdict of an event is the relay's, and the code it gives for a
\* refusal is the code of a defect of this event, although codeFor finds it by
\* searching the text of the error for phrases that several errors share.
CodeNamesDefect ==
  /\ verdict = "accepted" => Verdict(event) = Accepted
  /\ verdict = "refused" => HasDefect(Verdict(event), event)

=============================================================================
