----------------------------- MODULE EventModel -----------------------------
(***************************************************************************)
(* The schema validation of the custom kinds (internal/eventmodel), which  *)
(* the relay runs as the last hook of the write path.                      *)
(*                                                                         *)
(* An event is reduced to what the validators look at: for each tag name   *)
(* the value Tags.Find yields, the form of its content, and for a content  *)
(* that is a JSON object the value of each field.  JSON null as a content  *)
(* decodes like an object without fields and is written as one.            *)
(***************************************************************************)
EXTENDS EventKinds

CONSTANTS Strings,          \* the texts of the instance: tag values, JSON strings
          Blank,            \* those strings.TrimSpace leaves nothing of
          Hex64,            \* those that are 64 hex digits
          PositiveNumbers,  \* those ParseInt reads as an int64 above zero
          Missing,          \* no such field; no such tag, or one without a value
          Null,             \* JSON null
          Negative, Zero, Positive,   \* JSON integers
          True, False,                \* JSON booleans
          Names,            \* a JSON array of strings
          Other             \* a JSON value no field of any validator decodes

Empty == ""

SeverityNames == {"info", "warning", "critical"}
SignerTypes == {"nip07", "nip46", "passkey", "unknown"}

ASSUME EventModelAssumption ==
  /\ Empty \in Blank
  /\ Blank \cup Hex64 \cup PositiveNumbers \cup SeverityNames \cup SignerTypes \subseteq Strings
  /\ Blank \cap Hex64 = {}
  /\ {Missing, Null, Negative, Zero, Positive, True, False, Names, Other} \cap Strings = {}
  /\ {Missing, Null} \cap {Negative, Zero, Positive, True, False, Names, Other} = {}
  /\ {Negative, Zero} \cap {Positive} = {} /\ Negative # Zero
  /\ {Negative, Zero, Positive} \cap {True, False, Names, Other} = {}
  /\ {True, False} \cap {Names, Other} = {} /\ True # False /\ Names # Other

Numbers == {Negative, Zero, Positive}
Booleans == {True, False}
Values == Strings \cup Numbers \cup Booleans \cup {Null, Names, Other}

TagNames == {"d", "e", "p", "server", "expiry", "scope"}
Fields == {"tool", "class", "severity", "summary", "schema", "revision",
           "subject", "updated_by", "reason", "type", "scopes", "username",
           "signer_type", "enabled", "admin"}

EventType ==
  {e \in [kind  : Nat,
          tag   : [TagNames -> Strings \cup {Missing}],
          form  : {"empty", "malformed", "scalar", "object"},
          field : [Fields -> Values \cup {Missing}]] :
     e.form # "object" => \A name \in Fields : e.field[name] = Missing}

(***************************************************************************)
(* Decoding                                                                *)
(***************************************************************************)
\* A field that is missing or null leaves the zero value.
IsUnset(value) == value \in {Missing, Null}
Decodes(value, type) == IsUnset(value) \/ value \in type
Text(value) == IF IsUnset(value) THEN Empty ELSE value

\* json.Unmarshal into a struct: one field of another type is an error, and
\* the callers then use none of them.
Fits(event, shape) ==
  /\ event.form = "object"
  /\ \A name \in DOMAIN shape : Decodes(event.field[name], shape[name])

NoticeBody == [class |-> Strings, severity |-> Strings, summary |-> Strings]
Envelope == [schema |-> Numbers, revision |-> Numbers, subject |-> Strings,
             updated_by |-> Strings, reason |-> Strings]
RequestBody == [tool |-> Strings]

(***************************************************************************)
(* A validator returns the reason of its first error; first ## then goes   *)
(* on where there is none.                                                 *)
(***************************************************************************)
Valid == "valid"
Refuse(condition, reason) == IF condition THEN reason ELSE Valid
first ## then == IF first = Valid THEN then ELSE first

ValidateJSONContent(event) == Refuse(event.form = "malformed", "not-valid-JSON")

ValidateAddressable(event) ==
  Refuse(event.tag["d"] \in {Missing, Empty}, "no-d") ## ValidateJSONContent(event)

\* A header that does not decode is not looked at.
ValidateEnvelope(event) ==
  IF ~Fits(event, Envelope) THEN Valid
  ELSE Refuse(event.field["schema"] \in {Negative, Zero}, "schema")
       ## Refuse(event.field["revision"] = Negative, "revision")
       ## Refuse(Text(event.field["subject"]) \notin {Empty, event.tag["d"]}, "subject")

\* The d tag of capabilities and identity definitions.
ValidateSubjectTag(event) ==
  Refuse(event.tag["d"] = Missing, "no-d")
  ## Refuse(event.tag["d"] \notin Hex64, "d-is-no-pubkey")

ValidateCapability(event) ==
  ValidateSubjectTag(event)
  ## Refuse(event.form \in {"empty", "malformed"}, "not-JSON")
  ## ValidateEnvelope(event)
  ## Refuse(event.form # "object", "not-JSON")
  ## Refuse(event.field["type"] \notin Strings \ {Empty}, "no-type")
  ## Refuse(~Decodes(event.field["scopes"], {Names}), "scopes")

Enabled(event) == event.field["enabled"] # False

\* A username of another type reads as none.
Username(event) == IF event.field["username"] \in Strings THEN event.field["username"] ELSE Empty

ValidateIdentityDefinition(event) ==
  ValidateSubjectTag(event)
  ## Refuse(event.form \in {"empty", "malformed"}, "not-JSON")
  ## ValidateEnvelope(event)
  ## Refuse(event.form # "object", "not-JSON")
  ## Refuse(~Decodes(event.field["signer_type"], Strings), "signer-type")
  ## Refuse(~Decodes(event.field["enabled"], Booleans), "enabled")
  ## Refuse(~Decodes(event.field["admin"], Booleans), "admin")
  ## Refuse(Username(event) \in Blank /\ Enabled(event), "no-username")
  ## Refuse(Text(event.field["signer_type"]) \notin SignerTypes \cup {Empty}, "signer-type")

\* Mutant: the schema is looked at without decoding the header again.
ValidateTrustPolicyOneDecode(event) ==
  ValidateAddressable(event)
  ## ValidateEnvelope(event)
  ## Refuse(event.form = "empty", "no-schema")
  ## Refuse(IsUnset(event.field["schema"]), "no-schema")

ValidateTrustPolicy(event) ==
  ValidateAddressable(event)
  ## ValidateEnvelope(event)
  ## Refuse(event.form = "empty", "no-schema")
  ## Refuse(~Fits(event, Envelope), "not-JSON")
  ## Refuse(IsUnset(event.field["schema"]), "no-schema")

ValidateOperationRequest(event) ==
  Refuse(~Fits(event, RequestBody), "not-JSON")
  ## Refuse(Text(event.field["tool"]) \in Blank, "no-tool")

ValidateChainStep(event) ==
  Refuse(event.tag["e"] \in {Missing, Empty}, "no-e") ## ValidateJSONContent(event)

ValidateDelegation(event) ==
  Refuse(Missing \in {event.tag["p"], event.tag["server"], event.tag["expiry"]}, "no-tags")
  ## Refuse(~({event.tag["p"], event.tag["server"]} \subseteq Hex64), "tags-are-no-pubkeys")
  ## Refuse(event.tag["expiry"] \notin PositiveNumbers, "expiry")
  ## Refuse(event.tag["scope"] = Missing, "no-scope")

ValidateDelegationRevocation(event) == Refuse(event.tag["e"] \notin Hex64, "no-64-hex-e")

ValidateNotice(event) ==
  ValidateJSONContent(event)
  ## Refuse(/\ Fits(event, NoticeBody)
            /\ Text(event.field["severity"]) \notin SeverityNames \cup {Empty}, "severity")

Validate(event) ==
  CASE event.kind = Capability           -> ValidateCapability(event)
    [] event.kind = IdentityDefinition   -> ValidateIdentityDefinition(event)
    [] event.kind = TrustPolicy          -> ValidateTrustPolicy(event)
    [] event.kind = BuildAttestation     -> ValidateAddressable(event)
    [] event.kind = OperationRequest     -> ValidateOperationRequest(event)
    [] event.kind \in ChainSteps         -> ValidateChainStep(event)
    [] event.kind = Delegation           -> ValidateDelegation(event)
    [] event.kind = DelegationRevocation -> ValidateDelegationRevocation(event)
    [] event.kind \in NoticeKindNumbers  -> ValidateNotice(event)
    [] OTHER                             -> Valid

(***************************************************************************)
(* Notice: what the notification service reads.                            *)
(***************************************************************************)
NoticeReadable(event) == Fits(event, NoticeBody)
NoticeField(event, name) == Text(event.field[name])

=============================================================================
