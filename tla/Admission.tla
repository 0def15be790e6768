----------------------------- MODULE Admission -----------------------------
(***************************************************************************)
(* The write path of the relay (internal/relay/server.go): an EVENT goes   *)
(* through the RejectEvent hooks in their order and is then stored.        *)
(*                                                                         *)
(* khatru runs each message of a connection in a goroutine of its own, and *)
(* every hook that looks at the policy store does so in transactions of    *)
(* its own; so NIP-86 calls, other events, the client's AUTH and Shutdown  *)
(* all come between the hooks of one event.                                *)
(***************************************************************************)
EXTENDS PubkeyPolicy, KindBuckets

CONSTANTS Events,         \* the events clients send, each once
          Author, KindOf, \* Events -> Pubkeys, Events -> Kinds
          ApprovalKinds,  \* 2201, 2202
          AdminKinds,     \* 31100, 31101, 31102
          ExecutionKinds, \* 2203, 2204, 2205
          AuthKinds,      \* protectedKinds(): NIP-42 AUTH needed
          ServerKey,      \* config.ServerPubkey
          AllowlistMode   \* config.AllowlistMode

ASSUME AdmissionAssumption ==
  /\ Author \in [Events -> Pubkeys]
  /\ KindOf \in [Events -> Kinds]
  /\ ApprovalKinds \cup AdminKinds \cup ExecutionKinds \cup AuthKinds \subseteq Kinds
  /\ ApprovalKinds \cap (AdminKinds \cup ExecutionKinds) = {}
  /\ AdminKinds \cap ExecutionKinds = {}
  /\ AllowlistMode \in BOOLEAN

VARIABLES pc,             \* the hook each event has reached
          authed,         \* events whose connection has answered AUTH
          stored,         \* the event store
          policyOpen,     \* the policy database is open
          storeOpen,      \* the event store is open
          listening,      \* the relay accepts messages
          \* history of each event since it was sent:
          deniedBefore,   \* its kind was denied already
          welcome,        \* at some moment its author could write its kind
          authorized,     \* at some moment its author had authority over it
          sawClosed       \* a hook has read the closed policy database

historyVars == <<deniedBefore, welcome, authorized, sawClosed>>
lifeVars == <<policyOpen, storeOpen, listening>>
vars == <<policyVars, kindVars, pc, authed, stored, lifeVars, historyVars>>

\* The hooks, KindAllowed and rejectWriterPolicy split into their reads.
Hooks == {"shape", "content", "denied?", "list?", "listed?", "banned?",
          "allowed?", "auth", "author", "model", "store"}
Ended == {"ok", "refused", "failed", "lost"}

TypeOK ==
  /\ PolicyTypeOK
  /\ KindsTypeOK
  /\ pc \in [Events -> Hooks \cup Ended \cup {"unsent"}]
  /\ authed \in SUBSET Events
  /\ stored \in SUBSET Events
  /\ <<policyOpen, storeOpen, listening>> \in BOOLEAN \X BOOLEAN \X BOOLEAN
  /\ deniedBefore \in SUBSET Events
  /\ welcome \in SUBSET Events
  /\ authorized \in SUBSET Events
  /\ sawClosed \in SUBSET Events

(***************************************************************************)
(* What one transaction would answer about an event.                       *)
(***************************************************************************)
Exempt(e) == KindOf[e] \in ApprovalKinds \/ ~AllowlistMode

MayWrite(e) ==
  /\ ~IsBanned(Author[e])
  /\ Exempt(e) \/ IsAllowed(Author[e])

HasAuthority(e) ==
  /\ KindOf[e] \in AdminKinds => IsAdmin(Author[e])
  /\ KindOf[e] \in ExecutionKinds => Author[e] = ServerKey \/ IsAdmin(Author[e])

InFlight(e) == pc[e] \in Hooks

\* A relay that has just started: New has left an admin set, an allowlist
\* disjoint from the bans, and the kind lists of earlier management calls.
Init ==
  /\ admins \in SUBSET Pubkeys
  /\ banned \in SUBSET (Pubkeys \ admins)
  /\ allowed = [pk \in Pubkeys |-> IF pk \in admins THEN "admin" ELSE NoReason]
  /\ kindsAllowed = {}
  /\ kindsDenied = {}
  /\ pc = [e \in Events |-> "unsent"]
  /\ authed = {}
  /\ stored = {}
  /\ policyOpen = TRUE
  /\ storeOpen = TRUE
  /\ listening = TRUE
  /\ deniedBefore = {}
  /\ welcome = {}
  /\ authorized = {}
  /\ sawClosed = {}

(***************************************************************************)
(* Clients                                                                 *)
(***************************************************************************)
Submit(e) ==
  /\ listening
  /\ pc[e] = "unsent"
  /\ pc' = [pc EXCEPT ![e] = "shape"]
  /\ deniedBefore' = IF KindDenied(KindOf[e]) THEN deniedBefore \cup {e} ELSE deniedBefore
  /\ welcome' = IF MayWrite(e) THEN welcome \cup {e} ELSE welcome
  /\ authorized' = IF HasAuthority(e) THEN authorized \cup {e} ELSE authorized
  /\ UNCHANGED <<policyVars, kindVars, authed, stored, lifeVars, sawClosed>>

\* The client answers an AUTH challenge, before or while an event is checked.
Authenticate(e) ==
  /\ listening
  /\ e \notin authed
  /\ authed' = authed \cup {e}
  /\ UNCHANGED <<policyVars, kindVars, pc, stored, lifeVars, historyVars>>

(***************************************************************************)
(* The hooks                                                               *)
(***************************************************************************)
\* Event e passes or leaves the hook at which it is.
Hook(e, at, next) ==
  /\ pc[e] = at
  /\ pc' = [pc EXCEPT ![e] = next]
  /\ UNCHANGED <<policyVars, kindVars, authed, stored, lifeVars,
                 deniedBefore, welcome, authorized>>

\* A hook that looks at the event only, and is asked once: the event may be
\* one it refuses.  ValidateKind and PreventTimestampsInTheFuture,
\* rejectOversizedContent, validateEventModelPolicy.
Check(e, at, next) ==
  /\ \E verdict \in {next, "refused"} : Hook(e, at, verdict)
  /\ UNCHANGED sawClosed

CheckShape(e)   == Check(e, "shape", "content")
CheckContent(e) == Check(e, "content", "denied?")

\* A hook that reads the policy store.  The error of db.View on a closed
\* database is discarded, and every lookup then finds nothing.
PolicyRead(e, at, next) ==
  /\ Hook(e, at, next)
  /\ sawClosed' = IF policyOpen THEN sawClosed ELSE sawClosed \cup {e}

Found(read) == policyOpen /\ read

\* rejectKindDenied: the three reads of KindAllowed.
ReadKindDenied(e) ==
  PolicyRead(e, "denied?", IF Found(KindDenied(KindOf[e])) THEN "refused" ELSE "list?")

ReadKindList(e) ==
  PolicyRead(e, "list?", IF Found(~NoAllowlist) THEN "listed?" ELSE "banned?")

ReadKindListed(e) ==
  PolicyRead(e, "listed?", IF Found(KindListed(KindOf[e])) THEN "banned?" ELSE "refused")

\* rejectWriterPolicy: the ban first; approvals and rejections are left to
\* operationsd, the other kinds need an allow entry in allowlist mode.
ReadBanned(e) ==
  PolicyRead(e, "banned?",
    IF Found(IsBanned(Author[e])) THEN "refused"
    ELSE IF Exempt(e) THEN "auth"
    ELSE "allowed?")

ReadAllowed(e) ==
  PolicyRead(e, "allowed?", IF Found(IsAllowed(Author[e])) THEN "auth" ELSE "refused")

\* requireAuthPolicy
CheckAuth(e) ==
  /\ Hook(e, "auth", IF KindOf[e] \in AuthKinds /\ e \notin authed
                     THEN "refused" ELSE "author")
  /\ UNCHANGED sawClosed

\* Mutant: the kinds of an execution are not looked at.
CheckAuthorNoExecution(e) ==
  IF KindOf[e] \in AdminKinds
  THEN PolicyRead(e, "author", IF Found(IsAdmin(Author[e])) THEN "model" ELSE "refused")
  ELSE Hook(e, "author", "model") /\ UNCHANGED sawClosed

\* rejectUnauthorizedAuthorPolicy: the server key passes without a read.
CheckAuthor(e) ==
  IF \/ KindOf[e] \in AdminKinds
     \/ KindOf[e] \in ExecutionKinds /\ Author[e] # ServerKey
  THEN PolicyRead(e, "author", IF Found(IsAdmin(Author[e])) THEN "model" ELSE "refused")
  ELSE Hook(e, "author", "model") /\ UNCHANGED sawClosed

CheckModel(e) == Check(e, "model", "store")

\* StoreEvent / ReplaceEvent; a closed store returns an error.
Store(e) ==
  /\ pc[e] = "store"
  /\ pc' = [pc EXCEPT ![e] = IF storeOpen THEN "ok" ELSE "failed"]
  /\ stored' = IF storeOpen THEN stored \cup {e} ELSE stored
  /\ UNCHANGED <<policyVars, kindVars, authed, lifeVars, historyVars>>

(***************************************************************************)
(* Management calls: authorised before, executed now (RelayBoot has both   *)
(* steps); they fail once the database is closed.                          *)
(***************************************************************************)
\* welcome and authorized follow every change of the buckets.
Watch ==
  /\ welcome' = welcome \cup {e \in Events : InFlight(e) /\ MayWrite(e)'}
  /\ authorized' = authorized \cup {e \in Events : InFlight(e) /\ HasAuthority(e)'}

ManageKey(pk) ==
  /\ policyOpen
  /\ GrantAdmin(pk) \/ RevokeAdmin(pk) \/ Ban(pk) \/ Allow(pk, "operator")
  /\ UNCHANGED <<kindVars, pc, authed, stored, lifeVars, deniedBefore, sawClosed>>
  /\ Watch

ManageKind(k) ==
  /\ policyOpen
  /\ AllowKind(k) \/ DenyKind(k)
  /\ UNCHANGED <<policyVars, pc, authed, stored, lifeVars, historyVars>>

(***************************************************************************)
(* Shutdown: Relay.Shutdown, Store.Close, Policy.Close                     *)
(***************************************************************************)
ShutdownRelay ==
  /\ listening
  /\ listening' = FALSE
  /\ UNCHANGED <<policyVars, kindVars, pc, authed, stored, policyOpen, storeOpen, historyVars>>

CloseStore ==
  /\ ~listening
  /\ storeOpen
  /\ storeOpen' = FALSE
  /\ UNCHANGED <<policyVars, kindVars, pc, authed, stored, policyOpen, listening, historyVars>>

\* Mutant: the policy database is closed right after the relay.
ClosePolicyEarly ==
  /\ ~listening
  /\ policyOpen
  /\ policyOpen' = FALSE
  /\ UNCHANGED <<policyVars, kindVars, pc, authed, stored, storeOpen, listening, historyVars>>

ClosePolicy ==
  /\ ~listening
  /\ ~storeOpen
  /\ policyOpen
  /\ policyOpen' = FALSE
  /\ UNCHANGED <<policyVars, kindVars, pc, authed, stored, storeOpen, listening, historyVars>>

\* main returns: the goroutines still running are gone.
Exit ==
  /\ ~policyOpen
  /\ \E e \in Events : InFlight(e)
  /\ pc' = [e \in Events |-> IF InFlight(e) THEN "lost" ELSE pc[e]]
  /\ UNCHANGED <<policyVars, kindVars, authed, stored, lifeVars, historyVars>>

(***************************************************************************)
(* The specification                                                       *)
(***************************************************************************)
\* The goroutine of an event takes its next step.
Advance(e) ==
  \/ CheckShape(e) \/ CheckContent(e)
  \/ ReadKindDenied(e) \/ ReadKindList(e) \/ ReadKindListed(e)
  \/ ReadBanned(e) \/ ReadAllowed(e)
  \/ CheckAuth(e) \/ CheckAuthor(e) \/ CheckModel(e)
  \/ Store(e)

Next ==
  \/ \E e \in Events : Submit(e) \/ Authenticate(e) \/ Advance(e)
  \/ \E pk \in Pubkeys : ManageKey(pk)
  \/ \E k \in Kinds : ManageKind(k)
  \/ ShutdownRelay \/ CloseStore \/ ClosePolicy \/ Exit

Spec == Init /\ [][Next]_vars

(***************************************************************************)
(* Properties                                                              *)
(***************************************************************************)
\* A stored event's author was, at ONE moment while it was checked, neither
\* banned nor (where the allowlist applies) outside the allowlist, although
\* the two lookups are separate transactions with bans and allows in between.
StoredAuthorWasWelcome == stored \subseteq welcome

\* A stored capability, trust policy or identity definition is by a key that
\* was an admin while it was checked; a stored execution event is by the
\* server key or such a key.
StoredAuthorHadAuthority == stored \subseteq authorized

\* A kind that was denied before the event was sent is not stored, whatever
\* allowkind calls come before, between or after the three reads.
DeniedKindNotStored == stored \cap deniedBefore = {}

\* An event one of whose checks ran against the closed policy database, where
\* no key is banned and no kind denied, is never stored: Shutdown closes the
\* event store first.
ShutdownStoresNothingUnchecked == stored \cap sawClosed = {}

(***************************************************************************)
(* Inductive strengthenings, used by the proofs.                           *)
(***************************************************************************)
\* The policy database is closed last, after the event store; only then can a
\* read have found it closed; and an event is stored once its hooks are over.
ShutdownInv ==
  /\ ~policyOpen => ~storeOpen
  /\ sawClosed # {} => ~policyOpen
  /\ \A e \in stored : pc[e] = "ok" /\ e \notin sawClosed

\* No method deletes from kinds_denied, so an event whose kind was denied when
\* it was sent does not get past the first read of an open database.
DeniedInv ==
  \A e \in deniedBefore :
    /\ KindDenied(KindOf[e])
    /\ e \notin stored
    /\ pc[e] \in {"unsent", "shape", "content", "denied?", "refused", "failed", "lost"}
         \/ ~policyOpen

\* The hooks behind the check of the author's authority, and of its writes.
PastAuthor == {"model", "store", "ok"}
PastWriter == {"auth", "author"} \cup PastAuthor

\* authorized holds every event in flight whose author has the authority now,
\* and every event that has passed the check.
AuthorityInv ==
  \A e \in Events :
    /\ InFlight(e) /\ HasAuthority(e) => e \in authorized
    /\ pc[e] \in PastAuthor => e \in authorized

\* Likewise for welcome.  That a key is never banned and allowed is what lets
\* the later of the two lookups stand for both.
WelcomeInv ==
  /\ \A pk \in Pubkeys : ~(IsBanned(pk) /\ IsAllowed(pk))
  /\ \A e \in Events :
       /\ InFlight(e) /\ MayWrite(e) => e \in welcome
       /\ pc[e] \in PastWriter => e \in welcome \/ ~policyOpen
       /\ e \in stored => e \in welcome

=============================================================================
