----------------------------- MODULE RelayBoot -----------------------------
(***************************************************************************)
(* The life of the relay process over its policy database:                 *)
(*                                                                         *)
(*   down -> seed <-> seedAllow -> server -> syncAdmins -> notice          *)
(*        -> publisher -> syncAgents -> ready -> serving -> down           *)
(*                                                                         *)
(* policy.Open seeds the configured admins with two transactions each;     *)
(* relay.New then runs one transaction per configured writer and the two   *)
(* reconciliations; Start serves NIP-86 calls, which are authorised in one *)
(* transaction (RejectAPICall) and executed in a later one.  The process   *)
(* may die between any two transactions; the buckets survive, everything   *)
(* else is rebuilt from the config file, which may have been edited.       *)
(***************************************************************************)
EXTENDS PubkeyPolicy, Naturals

CONSTANTS NoKey,      \* an unset (or not well-formed) key of the config
          Configs,    \* the configurations the process may be started with
          Requests,   \* NIP-86 requests the HTTP server handles at once
          CallerReasons, \* the reasons allowpubkey is called with
          MaxStops    \* BOUND: how many times the process dies or is stopped

\* config.Config, reduced to the keys New reads.  "server", "notice" and
\* "publisher" are NoKey when nostr.IsValidPublicKey rejects them; "agents"
\* is what the validity filter leaves; in "admins" and "operator", which are
\* not looked at for validity, NoKey is the empty string.
ConfigType == [admins    : SUBSET (Pubkeys \cup {NoKey}),
               operator  : Pubkeys \cup {NoKey},
               server    : Pubkeys \cup {NoKey},
               notice    : Pubkeys \cup {NoKey},
               publisher : Pubkeys \cup {NoKey},
               agents    : SUBSET Pubkeys]

ASSUME BootAssumption ==
  /\ NoKey \notin Pubkeys
  /\ Configs \subseteq ConfigType
  /\ CallerReasons \subseteq Reasons
  /\ MaxStops \in Nat

VARIABLES phase,      \* how far main / New / Start have got
          cfg,        \* the configuration this process was started with
          todo,       \* Open's loop: admin keys not seeded yet
          half,       \* Open's loop: the key granted but not allowed yet
          calls,      \* NIP-86 requests that are authorised, not executed
          granted,    \* history: keys granted over NIP-86 by this process
          failed,     \* history: a transaction whose error is discarded failed
          stops       \* number of process ends so far

bootVars == <<phase, cfg, todo, half, calls, granted, failed, stops>>
vars == <<policyVars, bootVars>>

Phases == {"down", "seed", "seedAllow", "server", "syncAdmins", "notice",
           "publisher", "syncAgents", "ready", "serving"}

Ops == {"grantadmin", "revokeadmin", "banpubkey", "allowpubkey"}
Idle == [op |-> "idle", key |-> NoKey, reason |-> NoReason, by |-> NoKey]

\* A NIP-86 call and the key that signed it.  The reason of allowpubkey is the caller's text: "operator"
\* stands for every text that New does not write itself.
CallType ==
  [op : Ops \ {"allowpubkey"}, key : Pubkeys, reason : {NoReason}, by : Pubkeys]
    \cup [op : {"allowpubkey"}, key : Pubkeys, reason : CallerReasons, by : Pubkeys]

TypeOK ==
  /\ PolicyTypeOK
  /\ phase \in Phases
  /\ cfg \in Configs
  /\ todo \in SUBSET Pubkeys
  /\ half \in Pubkeys \cup {NoKey}
  /\ calls \in [Requests -> CallType \cup {Idle}]
  /\ granted \in SUBSET Pubkeys
  /\ failed \in BOOLEAN
  /\ stops \in 0..MaxStops

\* Config.Validate: operator_pubkey is required.
Loads(c) == c.operator # NoKey

\* Mutant: the empty-string checks of Open and SyncAdmins are dropped.
AdminsFromUnfiltered(c) == c.admins \cup {c.operator}

\* adminsFrom(cfg), as the set of its non-empty entries.  The order of the
\* list is the config author's; Open's loop below takes the keys in any order.
AdminsFrom(c) == (c.admins \cup {c.operator}) \ {NoKey}

\* A transaction whose error is discarded (_ = ...): it commits or it does not.
Attempt(Tx) ==
  \/ Tx /\ UNCHANGED failed
  \/ UNCHANGED policyVars /\ failed' = TRUE

\* A step of New: from one phase to the next, with nothing else in progress.
Step(from, to) ==
  /\ phase = from
  /\ phase' = to
  /\ UNCHANGED <<cfg, todo, half, calls, granted, stops>>

Init ==
  /\ PolicyInit
  /\ phase = "down"
  /\ cfg \in Configs
  /\ todo = {}
  /\ half = NoKey
  /\ calls = [r \in Requests |-> Idle]
  /\ granted = {}
  /\ failed = FALSE
  /\ stops = 0

(***************************************************************************)
(* policy.Open                                                             *)
(***************************************************************************)
\* main loads the config file as it is now and opens the database; a file that
\* does not load ends the process before it has touched anything.
Open(c) ==
  /\ phase = "down"
  /\ Loads(c)
  /\ phase' = "seed"
  /\ cfg' = c
  /\ todo' = AdminsFrom(c)
  /\ UNCHANGED <<policyVars, half, calls, granted, failed, stops>>

\* _ = s.GrantAdmin(pk)
SeedGrant(pk) ==
  /\ phase = "seed"
  /\ pk \in todo
  /\ Attempt(GrantAdmin(pk))
  /\ phase' = "seedAllow"
  /\ half' = pk
  /\ UNCHANGED <<cfg, todo, calls, granted, stops>>

\* Mutant: the seeding grants admins without allowing (and so unbanning) them.
SeedAllowSkipped ==
  /\ phase = "seedAllow"
  /\ UNCHANGED policyVars
  /\ phase' = "seed"
  /\ todo' = todo \ {half}
  /\ half' = NoKey
  /\ UNCHANGED <<cfg, calls, granted, failed, stops>>

\* Mutant: the loop never moves to the next key.
SeedAllowStuck ==
  /\ phase = "seedAllow"
  /\ Attempt(Allow(half, "admin"))
  /\ phase' = "seed"
  /\ half' = NoKey
  /\ UNCHANGED <<cfg, todo, calls, granted, stops>>

\* _ = s.Allow(pk, "admin")
SeedAllow ==
  /\ phase = "seedAllow"
  /\ Attempt(Allow(half, "admin"))
  /\ phase' = "seed"
  /\ todo' = todo \ {half}
  /\ half' = NoKey
  /\ UNCHANGED <<cfg, calls, granted, stops>>

\* The loop is over and Open returns.
OpenReturns ==
  /\ todo = {}
  /\ Step("seed", "server")
  /\ UNCHANGED <<policyVars, failed>>

(***************************************************************************)
(* relay.New                                                               *)
(***************************************************************************)
\* if the key is valid: _ = pol.Allow(key, reason)
AllowWriter(key, reason) ==
  IF key = NoKey THEN UNCHANGED <<policyVars, failed>> ELSE Attempt(Allow(key, reason))

AllowServer == Step("server", "syncAdmins") /\ AllowWriter(cfg.server, "server")

\* Mutant: the error of SyncAdmins is discarded like the others.
ReconcileAdminsBestEffort ==
  Step("syncAdmins", "notice") /\ Attempt(SyncAdmins(AdminsFrom(cfg)))

\* The error of a reconciliation is not discarded: New closes the store and
\* main exits, which is the action Abort below.
ReconcileAdmins ==
  Step("syncAdmins", "notice") /\ SyncAdmins(AdminsFrom(cfg)) /\ UNCHANGED failed

AllowNotice    == Step("notice", "publisher") /\ AllowWriter(cfg.notice, "portal")

AllowPublisher == Step("publisher", "syncAgents") /\ AllowWriter(cfg.publisher, "publisher")

ReconcileAgents ==
  Step("syncAgents", "ready") /\ SyncAllowed(cfg.agents, "agent") /\ UNCHANGED failed

(***************************************************************************)
(* The process ends: everything in memory is gone, the buckets stay.       *)
(***************************************************************************)
Die ==
  /\ phase' = "down"
  /\ todo' = {}
  /\ half' = NoKey
  /\ calls' = [r \in Requests |-> Idle]
  /\ granted' = {}
  /\ stops < MaxStops
  /\ stops' = stops + 1
  /\ UNCHANGED <<policyVars, cfg, failed>>

\* log.Fatal after a failed SyncAdmins or SyncAllowed.
Abort == phase \in {"syncAdmins", "syncAgents"} /\ Die

\* A crash, or SIGTERM and Shutdown: a request in flight finds the store
\* closed, its transaction fails, and the two ends look the same to the store.
Stop == phase # "down" /\ Die

(***************************************************************************)
(* Serving                                                                 *)
(***************************************************************************)
Serve == Step("ready", "serving") /\ UNCHANGED <<policyVars, failed>>

\* Mutant: RejectAPICall lets every caller through.
AuthorizeAnyone(r, call) ==
  /\ phase = "serving"
  /\ calls[r] = Idle
  /\ calls' = [calls EXCEPT ![r] = call]
  /\ UNCHANGED <<policyVars, phase, cfg, todo, half, granted, failed, stops>>

\* RejectAPICall: the caller of a NIP-98 signed request must be an admin.
Authorize(r, call) ==
  /\ phase = "serving"
  /\ calls[r] = Idle
  /\ IsAdmin(call.by)
  /\ calls' = [calls EXCEPT ![r] = call]
  /\ UNCHANGED <<policyVars, phase, cfg, todo, half, granted, failed, stops>>

\* Every other caller is answered "not authorized".
Reject(by) ==
  /\ phase = "serving"
  /\ ~IsAdmin(by)
  /\ UNCHANGED vars

\* The method of the store that the request's handler calls.
Transaction(call) ==
  \/ call.op = "grantadmin"  /\ GrantAdmin(call.key)
  \/ call.op = "revokeadmin" /\ RevokeAdmin(call.key)
  \/ call.op = "banpubkey"   /\ Ban(call.key)
  \/ call.op = "allowpubkey" /\ Allow(call.key, call.reason)

\* The handler runs its transaction, without looking at the caller again.
Execute(r) ==
  /\ phase = "serving"
  /\ calls[r] # Idle
  /\ Transaction(calls[r])
  /\ calls' = [calls EXCEPT ![r] = Idle]
  /\ granted' = IF calls[r].op = "grantadmin"
                THEN granted \cup {calls[r].key} ELSE granted
  /\ UNCHANGED <<phase, cfg, todo, half, failed, stops>>

\* The transaction fails; the client is told.
ExecuteFails(r) ==
  /\ phase = "serving"
  /\ calls[r] # Idle
  /\ calls' = [calls EXCEPT ![r] = Idle]
  /\ UNCHANGED <<policyVars, phase, cfg, todo, half, granted, failed, stops>>

(***************************************************************************)
(* The specification                                                       *)
(***************************************************************************)
\* The steps New takes on its own.
BootStep ==
  \/ \E pk \in Pubkeys : SeedGrant(pk)
  \/ SeedAllow
  \/ OpenReturns
  \/ AllowServer
  \/ ReconcileAdmins
  \/ AllowNotice
  \/ AllowPublisher
  \/ ReconcileAgents
  \/ Serve

Next ==
  \/ \E c \in Configs : Open(c)
  \/ BootStep
  \/ Abort
  \/ Stop
  \/ \E r \in Requests, call \in CallType : Authorize(r, call)
  \/ \E by \in Pubkeys : Reject(by)
  \/ \E r \in Requests : Execute(r) \/ ExecuteFails(r)

Spec == Init /\ [][Next]_vars

\* systemd starts the process again (Restart=on-failure, or the operator
\* does), New's straight-line code runs, and a handler returns.
Fairness ==
  /\ WF_vars(\E c \in Configs : Open(c))
  /\ WF_vars(BootStep)
  /\ \A r \in Requests : WF_vars(Execute(r))

FairSpec == Spec /\ Fairness

(***************************************************************************)
(* Properties                                                              *)
(***************************************************************************)
\* Every key the configuration makes a writer.
ConfiguredWriters(c) ==
  AdminsFrom(c) \cup c.agents \cup ({c.server, c.notice, c.publisher} \ {NoKey})

\* The step executes the request's operation op on pk.
Executes(op, pk) ==
  \E r \in Requests : calls[r].op = op /\ calls[r].key = pk /\ Execute(r)

\* No key is both banned and allowed.  SyncAdmins allows the admins without
\* looking at the banned bucket: this holds because Open has already run
\* Allow, which unbans, for each of them, as long as none of these failed.
AllowBanDisjoint == ~failed => \A pk \in Pubkeys : ~(IsBanned(pk) /\ IsAllowed(pk))

\* From the end of SyncAdmins on, an admin is either in this process's
\* configuration or was granted over NIP-86 to this process: authority in
\* policy.db from an earlier configuration never survives the restart, even
\* if transactions fail or the process died half way through earlier boots.
AdminProvenance ==
  phase \in {"notice", "publisher", "syncAgents", "ready", "serving"}
    => admins \subseteq AdminsFrom(cfg) \cup granted

\* When New returns, the admins bucket holds the configured admins exactly,
\* and the entries labelled "agent" are exactly agent_pubkeys, whatever the
\* database held before and whichever seeding transactions failed.
ReadyReconciled ==
  phase = "ready"
    => /\ admins = AdminsFrom(cfg)
       /\ \A pk \in Pubkeys : (allowed[pk] = "agent") <=> (pk \in cfg.agents)

\* When New returns, every configured writer other than the server key may
\* write, even one that was banned over NIP-86 before the restart: a later
\* step of New never undoes what an earlier one did for such a key.
ReadyWriters ==
  (phase = "ready" /\ ~failed)
    => \A pk \in AdminsFrom(cfg) \cup cfg.agents
                 \cup ({cfg.notice, cfg.publisher} \ {NoKey}) :
         IsAllowed(pk) /\ ~IsBanned(pk)

\* A ban is only ever lifted by an allowpubkey call on the key, or by a start
\* whose configuration names the key as a writer: no other call and no other
\* step of a restart touches it.
BanLiftedOnlyByDecision ==
  [][\A pk \in Pubkeys :
       (pk \in banned /\ pk \notin banned')
         => \/ Executes("allowpubkey", pk)
            \/ phase # "serving" /\ pk \in ConfiguredWriters(cfg)]_vars

\* An entry made by allowpubkey with a text of its own is only replaced or
\* removed by another such call or a ban of the key, or at a start that names
\* the key in its configuration or finds it in the admins bucket.  (SyncAllowed's
\* comment promises more: README, section 5.)
OperatorEntryLasts ==
  [][\A pk \in Pubkeys :
       (allowed[pk] = "operator" /\ allowed'[pk] # "operator")
         => \/ Executes("banpubkey", pk) \/ Executes("allowpubkey", pk)
            \/ phase # "serving" /\ pk \in ConfiguredWriters(cfg) \cup admins]_vars

\* While the relay serves, the policy of the keys changes only by a call whose
\* caller is of this configuration or was granted to this process: a key that
\* had authority only under an earlier configuration changes nothing.  "Only
\* relay administrators may call any method" (server.go:354) promises more: the
\* caller is checked in a transaction before that of the call, and a call under
\* way when its caller is revoked is executed.
ChangedByAppointed ==
  [][(phase = "serving" /\ phase' = "serving" /\ policyVars' # policyVars)
       => \E r \in Requests :
            /\ calls[r] # Idle /\ calls'[r] = Idle
            /\ calls[r].by \in AdminsFrom(cfg) \cup granted]_vars

\* A start is never stuck half way, and a lockout lasts no longer than the
\* process: a stopped relay gets to serve again, with an admin.
StartsAgain == (phase = "down") ~> (phase = "serving" /\ admins # {})

(***************************************************************************)
(* Inductive strengthenings, used by the proofs.                           *)
(***************************************************************************)
\* Once SyncAdmins has committed, New does not touch the admins bucket.
AdminInv ==
  /\ phase \in {"notice", "publisher", "syncAgents", "ready"} => admins = AdminsFrom(cfg)
  /\ phase = "serving" => admins \subseteq AdminsFrom(cfg) \cup granted

\* Open's loop only deals with the admins of this start's configuration.
LoopInv ==
  /\ phase \in {"seed", "seedAllow"} => todo \subseteq AdminsFrom(cfg)
  /\ phase = "seedAllow" => half \in todo

\* The labels SyncAllowed leaves behind.
AgentInv ==
  phase = "ready" => \A pk \in Pubkeys : (allowed[pk] = "agent") <=> (pk \in cfg.agents)

\* The admins that Open's loop has dealt with are not banned, so none is when
\* SyncAdmins allows them.
SeedInv ==
  ~failed =>
    /\ phase \in {"seed", "seedAllow"} => AdminsFrom(cfg) \cap banned \subseteq todo
    /\ phase \in {"server", "syncAdmins"} => AdminsFrom(cfg) \cap banned = {}

\* The keys whose entries New has finished, and what it has given them: the
\* label is what SyncAllowed, the last step, does not delete.
Settled ==
  (IF phase \in {"notice", "publisher", "syncAgents", "ready"} THEN AdminsFrom(cfg) ELSE {})
    \cup (IF phase \in {"publisher", "syncAgents", "ready"} THEN {cfg.notice} ELSE {})
    \cup (IF phase \in {"syncAgents", "ready"} THEN {cfg.publisher} ELSE {})
    \cup (IF phase = "ready" THEN cfg.agents ELSE {})

WriterInv ==
  ~failed => \A pk \in Settled \ {NoKey} :
               /\ pk \notin banned
               /\ allowed[pk] # NoReason
               /\ phase # "ready" => allowed[pk] # "agent"

\* No call is under way unless the relay serves, and each one is by a key that
\* was an admin when it was checked.
CallersInv ==
  \A r \in Requests :
    calls[r] # Idle => phase = "serving" /\ calls[r].by \in AdminsFrom(cfg) \cup granted

(***************************************************************************)
(* What the comments say, and the code does not do.                        *)
(***************************************************************************)
\* server.go:69, "It is an allowlisted writer but NOT an admin".
ServerIsAllowlistedWriter ==
  (phase = "ready" /\ ~failed /\ cfg.server # NoKey) => IsAllowed(cfg.server)

=============================================================================
