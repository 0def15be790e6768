--------------------------- MODULE EventProtocol ---------------------------
(***************************************************************************)
(* The reason codes of the conformance corpus (internal/eventprotocol):    *)
(* codeFor searches the text of a validator's error for phrases, the first *)
(* phrase it finds decides.  Of a text only the phrases it holds are kept. *)
(***************************************************************************)
EXTENDS EventModel

\* The phrases in the texts of eventmodel; one text may hold several.
Phrases(reason) ==
  CASE reason = "no-d"           -> {"'d' tag"}
    [] reason = "d-is-no-pubkey" -> {"'d' tag", "must be the subject pubkey"}
    [] reason = "subject"        -> {"'d' tag", "'subject' must mirror"}
    [] reason = "schema"         -> {"'schema' must be an integer"}
    [] reason = "revision"       -> {"'revision' must be an integer"}
    [] reason = "no-schema"      -> {"must carry an envelope 'schema'"}
    [] reason = "not-JSON"       -> {"content must be JSON"}
    [] reason = "no-type"        -> {"declare a 'type'"}
    [] reason = "scopes"         -> {"'scopes' must be an array"}
    [] reason = "no-username"    -> {"non-empty 'username'"}
    [] reason = "signer-type"    -> {"signer_type must be one of"}
    [] reason = "enabled"        -> {"'enabled' must be a boolean"}
    [] reason = "admin"          -> {"'admin' must be a boolean"}
    [] reason = "no-tags"        -> {"p, server, and expiry"}
    [] reason = "tags-are-no-pubkeys" -> {"p and server tags"}
    [] reason = "expiry"         -> {"expiry must be"}
    [] reason = "no-scope"       -> {"at least one scope"}
    [] reason = "no-64-hex-e"    -> {"64-hex e tag"}
    [] OTHER                     -> {}

\* The code for a text in which strings.Contains finds the phrase; a switch is
\* then a chain of such cases, like the checks of a validator.
NoCode == Valid
On(reason, phrase, code) == IF phrase \in Phrases(reason) THEN code ELSE NoCode

CommonCode(reason) ==
  On(reason, "'subject' must mirror", "subject-mismatch")
  ## On(reason, "'schema' must be an integer", "schema-invalid")
  ## On(reason, "'revision' must be an integer", "revision-invalid")
  ## On(reason, "must carry an envelope 'schema'", "31101:missing-schema")
  ## On(reason, "content must be JSON", "content-not-json")

SubjectTagCode(reason) ==
  On(reason, "must be the subject pubkey", "d-not-hex64") ## On(reason, "'d' tag", "missing-d")

CapabilityCode(reason) ==
  SubjectTagCode(reason)
  ## On(reason, "declare a 'type'", "31100:missing-type")
  ## On(reason, "'scopes' must be an array", "31100:scopes-not-array")

IdentityCode(reason) ==
  SubjectTagCode(reason)
  ## On(reason, "non-empty 'username'", "31102:missing-username")
  ## On(reason, "signer_type must be one of", "31102:bad-signer-type")
  ## On(reason, "'enabled' must be a boolean", "31102:enabled-not-bool")
  ## On(reason, "'admin' must be a boolean", "31102:admin-not-bool")

DelegationCode(reason) ==
  On(reason, "p, server, and expiry", "27236:bad-tags")
  ## On(reason, "p and server tags", "27236:bad-tags")
  ## On(reason, "expiry must be", "27236:bad-expiry")
  ## On(reason, "at least one scope", "27236:missing-scope")

KindCode(kind, reason) ==
  CASE kind = Capability           -> CapabilityCode(reason)
    [] kind = TrustPolicy          -> On(reason, "'d' tag", "missing-d")
    [] kind = IdentityDefinition   -> IdentityCode(reason)
    [] kind = Delegation           -> DelegationCode(reason)
    [] kind = DelegationRevocation -> On(reason, "64-hex e tag", "27237:missing-e")
    [] OTHER                       -> NoCode

\* Mutant: the codes of the kinds come first.
CodeForKindFirst(kind, reason) ==
  KindCode(kind, reason) ## CommonCode(reason) ## "schema-invalid"

CodeFor(kind, reason) ==
  CommonCode(reason) ## KindCode(kind, reason) ## "schema-invalid"

Accepted == "accept"

\* eventprotocol.Validate
Verdict(event) ==
  IF ~IsCustomKind(event.kind) \/ Validate(event) = Valid THEN Accepted
  ELSE CodeFor(event.kind, Validate(event))

=============================================================================
