# A TLA+ development of nostrhost-control

This directory holds TLA+ modules of nostrhost-control (the control-plane relay)
and nostrhost-notify (its notification service), TLC configurations that check
them on small instances, and TLAPS proofs of the results that matter most.
Paths below are relative to `src/`.

Check a model with `tlc -config RelayBoot_checks.cfg MCRelayBoot`, a proof with
`tlapm RelayBootProofs.tla`. `PROJECT.json` lists every run with its
properties, maps every definition to source lines, and lists the hazards the
properties are for.

## 1. Inventory

Two programs, one repository:

| component | source | state | operations |
|---|---|---|---|
| policy store, pubkeys | `internal/policy/store.go` | buckets `admins`, `banned`, `allowed` (with a reason) | GrantAdmin, RevokeAdmin, Ban, Unban, Allow, SyncAdmins, SyncAllowed, lookups |
| policy store, kinds | `internal/policy/store.go` | buckets `kinds_allowed`, `kinds_denied` | AllowKind, DenyKind, KindAllowed |
| policy store, relay info | `internal/policy/store.go`, `internal/relay/server.go` | bucket `info`, the NIP-11 fields in memory | SetRelayInfo, GetRelayInfo, the NIP-86 changes of name, description and icon |
| policy store, IPs | `internal/policy/store.go` | bucket `ips` | BlockIP, UnblockIP, lookups |
| relay assembly and lifecycle | `internal/relay/server.go`, `cmd/nostrhost-control` | how far New has got, the configuration, NIP-86 calls in flight | Open, New, Start, Shutdown, the management API |
| write path | `internal/relay/server.go` | where each event is in the hooks, the event store | eight RejectEvent hooks, StoreEvent |
| read path | `internal/relay/server.go` | none of its own | requireAuthForRead, rejectBlockedIP |
| retention pruner | `internal/relay/server.go` | the ticker, the round and batch it is at, the stored events | runPruner, pruneKind; Config.PruneDurations |
| event model | `internal/eventmodel` | none (pure) | Validate and one validator per kind, Class, Notice |
| event protocol corpus | `internal/eventprotocol` | none (test harness) | Validate, codeFor, LoadVerdicts |
| notification cursor | `cmd/nostrhost-notify/main.go` | the cursor in memory and in its file, the subscription | loadCursor, save, the event loop |
| notification policy | `internal/notify/policy.go`, `classify.go`, `severity.go` | none (pure) | LoadPolicy, Match, Classify |
| notification delivery | `internal/notify/service.go`, `digest.go`, `sender.go` | the digest's pending queues, the batch of a flush | HandleEvent, Add, Flush, Run, Send |
| configuration, helpers | `internal/config`, `internal/notify/config.go`, `cmdutil`, `tomlutil` | none | loading and validation of files |

How they interact. `main` loads the configuration and calls `relay.New`, which
opens the policy database (seeding it), reconciles it with the configuration in
a fixed order of transactions, and lays the `info` bucket over the configured
NIP-11 fields. Once the relay serves, khatru runs every client message and every
NIP-86 request in a goroutine of its own: events go through the RejectEvent
hooks, which read the policy store in transactions of their own and end in the
event model's validators, while management calls write it. Beside them the
pruner's goroutine queries and deletes. `Shutdown` closes the relay, the event
store and the policy database while all of these may still run. The notification
service is a client of the relay: it subscribes from its cursor on, reads the
accepted notices again with the event model's `Notice`, and its loop and its
digest goroutine share the map of queued items under a lock.

What is hard here:

- *a start is not atomic*: eight or more transactions, some whose errors are
  discarded, over a database that earlier starts with other configurations,
  crashes and operators have left in any state;
- *three writers of one bucket* relabel each other's entries, and a later
  restart deletes by label;
- *checks and actions are apart*: a NIP-86 caller is authorised before its call
  is executed, an event's kind, author and ban are read hooks before it is
  stored, KindAllowed itself is three transactions, the pruner's cutoff, query
  and deletions are separate steps;
- *one fact in two places*: a NIP-11 field in memory, written without a lock,
  and in its bucket; a queued notice in memory and the cursor that has passed it;
- *the end of the process*: databases closed under running hooks and a running
  pruner, a cursor file that is truncated before it is written, a final flush
  nobody waits for;
- *order and time*: stored events arrive newest first, timestamps are whole
  seconds, one cursor stands for all that was seen, a ticker starts anew with
  each process;
- *early returns*: a validator that cannot decode a header passes over it, and
  relies on a later check.

What makes each component correct: authority comes from the configuration of
this start or a grant to this process, and from nowhere else; a ban is lifted
only by a decision about the key; no key is banned and allowed; a configured
writer can write when New returns; a stored event was admissible at one moment
of its check, and well-formed but for what a mistyped field hides; an event leaves the store only withdrawn,
replaced or aged out, and leaves it in the end once aged; an acknowledged
change of a NIP-11 field is shown; an event is missed by the service only if the
process died with it in hand; a notice that meets a rule is handed to the sender
exactly once for that rule while the process lives.

## 2. Plan

| order | modules | state |
|---|---|---|
| 1 | `PubkeyPolicy`, `RelayBoot`, `MCRelayBoot`, `RelayBootProofs` | done |
| 2 | `KindBuckets`, `KindPolicy`, `MCKindPolicy`, `KindPolicyProofs` | done |
| 3 | `Admission`, `MCAdmission` (composes both stores), `AdmissionProofs` | done |
| 4 | `NotifyCursor`, `MCNotifyCursor`; proof of LostOnlyIfCut in `NotifyServiceProofs` | done |
| 5 | `NotifyPolicy`, `NotifyPromise`, `NotifyDelivery`, `MCNotifyDelivery`, `NotifyDeliveryProofs` | done |
| 6 | `EventKinds`, `EventModel`, `EventProtocol`, `EventPath`, `MCEventPath`, `EventPathProofs` | done |
| 7 | `RelayInfo`, `MCRelayInfo`, `RelayInfoProofs` | done |
| 8 | `Retention`, `MCRetention`, `RetentionProofs` | done |
| 9 | `NotifyService` (composes the cursor with the queues), `MCNotifyService`, `NotifyServiceProofs` | done |

An abstract allowlist that RelayBoot would implement was planned and dropped:
what it would promise is what `AdminProvenance`, `BanLiftedOnlyByDecision` and
`OperatorEntryLasts` state of RelayBoot itself. What the code has beyond these
modules is in section 7.

## 3. Modules and the code

**PubkeyPolicy** is the three pubkey buckets. bolt serialises writers and
commits a `db.Update` atomically, so each writing method is one action and each
`db.View` one read. `admins` and `banned` are sets (their values are never read
back), `allowed` is a function to the entry's reason, with `NoReason` for a
missing key, because `SyncAllowed` selects by reason.

**RelayBoot** extends it with the life of the process. `phase` is the statement
of `New` that runs next; each transaction of `Open` and `New` is an action, so
`Stop` can come between any two. A transaction whose error the code discards is
`Attempt(...)`: it may leave the buckets alone, which the history variable
`failed` remembers. A failed reconciliation is `Abort` (New closes the store,
main exits). `Open(c)` picks any configuration of `Configs` that `Loads`
(`Config.Validate` requires an operator key): the file may have been edited. A
NIP-86 request is authorised by `Authorize` and executed by `Execute`, with
anything in between, the revocation of its caller (`by`) too; the reason of `allowpubkey` is the caller's text, which may
be one that the code gives a meaning ("agent") or any other ("operator"). Unset
and invalid keys of a configuration are `NoKey`. `granted` is history too: the
keys granted to this process.

**KindBuckets / KindPolicy** are the kind buckets and `KindAllowed` as its three
reads (`denied?`, `list?`, `listed?`), with any number of concurrent
evaluations, management calls in between, and restarts that seed the allowlist
of another configuration. `Shutdown` is two steps here: `ClosePolicy` closes the
database under the evaluations that run, whose later reads find nothing because
the error of `db.View` is discarded (`Found`), and `Exit` ends them with the
process. `sawClosed` remembers the evaluations that met the closed database.

**Admission** composes both stores under the hooks of `RejectEvent`. An event's
`pc` is the hook it is at; a hook that looks the store up twice is two hooks.
`Shutdown` is three actions; after `ClosePolicy` every lookup finds nothing,
because the error of `db.View` is discarded. What `ValidateKind`, the timestamp
check, the size check and the event model decide depends on the event alone, so
each of these hooks may pass or refuse it here; the event model's decision is
EventPath's subject. khatru's part (the goroutine, AUTH) is external.

**EventKinds** has the kinds and `Class`. **EventModel** has the validators, with
their checks in the order of the code: a validator is a chain of
`Refuse(condition, reason)` joined by `##`, which goes on where there was no
error. An event is reduced to what they look at: the value `Tags.Find` yields for
each tag name, the form of the content (empty, malformed, another JSON value, an
object), and the value of each field. Strings keep only whether they are blank,
64 hex digits, positive numbers or known names. A content `null` decodes like an
object without fields, and `json.Unmarshal` into a struct fails as a whole on one
mistyped field (`Fits`). **EventProtocol** is the corpus' `Validate`: `codeFor`
searches the text of an error for phrases, so a text is reduced to the phrases it
holds, and each switch is a chain of cases `On(reason, phrase, code)`. **EventPath** takes one event
through `validateEventModelPolicy` and then, if it is a notice, through
`Classify`, an instance of NotifyPolicy. `WellFormed` states what
`EVENT-PROTOCOL.md` and the comments require, as conditions on the whole event
without any order and whether the code can decode it or not. `Mistyped` are the
objects in which one field of another JSON type hides the severity of a notice or
the header of a definition from the validators.

**RelayInfo** has one NIP-11 field per element of `Fields`. `info` is a field in
memory as two words, because a Go string is a pointer and a length and the calls
assign it without a lock: `AssignWord` assigns them in any order, which lets two
calls leave the bytes of one and the length of the other. `Put` and `PutFails`
are the transaction after it. `New` lays the bucket over the configuration. `alone`
and `acked` are history: calls no other call of their field has overlapped, and
what the last call of a field wrote when it was such a call and succeeded.

**Retention** is the pruner with the writes around it. `since` and `due` are the
ticker and its channel of one; `left` are the kinds a round has still to do
(Go's map order, so any), `cutoff` and `batch` are `pruneKind`'s. A query yields
the newest `QueryLimit` events of the kind, each deletion is a step of its own,
and one that fails is passed over (its error is discarded). `Submit` is what khatru makes of
an accepted event through the hooks New hands it (server.go:145-150):
StoreEvent, ReplaceEvent, or neither for an ephemeral kind; `Withdraw` is
DeleteEvent, which khatru calls for NIP-09. khatru and badger are external.
`standing` is history: the events that were accepted and since then neither
withdrawn nor superseded, which is what a reader of the protocol expects to find.
Two relations say when a newer event counts for an older one of its address:
`Supersedes` goes by the classes of eventmodel and moves `standing`, `Replaces` by
the kinds that khatru gives to ReplaceEvent (0 and 3 among them) and moves
`stored`. Kinds from 40000 on have no class in NIP-01 and are left out.

**NotifyCursor** is `main` of nostrhost-notify. `pc` names the statement that
runs next; `disk` is the cursor file, `Torn` between the truncation and the
write of `os.WriteFile`; `backlog` is the stored part of the relay's answer,
taken newest first, `live` the part published later. `early`, `offline` and
`cut` are history: events from before the first cursor, events published while
the service was down, and events in the subscription when it died; `skewed` and
`failed` remember that an event carried another time than that of its
publication, and that a save returned an error.

**NotifyPolicy** is the pure part: validation, classification, matching (`Match`
is the set of the indices of the rules an item meets), and the digest's insertion
sort as a recursive function over the turns of its outer loop. `SeverityNames` is
whatever an event or a rule may hold where a severity is expected.
**NotifyDelivery** is the two goroutines over it: `Receive`, one
action per rule (`SendImmediate`, `Add`), and the flush as the exchange of the map
and one send per recipient. A queued item carries the rule that queued it as
history; the code drops it. **NotifyPromise** is the abstract specification:
obligations are taken and each is discharged by one attempt.

**NotifyService** composes the loop with the queues: it extends NotifyCursor,
and each `HandleEvent` of the loop now sends or queues. Rules are reduced to one
per event (`Delivery`), recipients to one, since NotifyDelivery has them in
detail; what this module adds is what a process end does to the queues, whose
events the cursor has already passed. `sent` and `forgotten` are history. Every
step is a step of NotifyCursor or leaves its variables alone (proved:
`ServiceImplementsLoop`).

Definitions whose comment starts with "Mutant" are faulty variants of the
definition below them: each stands for a plausible mistake and is what shows
that a property depends on the code. No specification uses them.

## 4. Runs

| run | distinct states | shows |
|---|---|---|
| RelayBoot_checks | 1.1 M | types; bans and allows disjoint; configured writers can write; every admin is configured or granted to this process; both reconciliations done when New returns; bans and operator entries are only undone by decisions about the key; the policy changes only by callers of this configuration or granted to this process; liveness: a stopped relay serves again, with an admin |
| KindPolicy_checks | 0.2 M | denials final, refusals true when given, for every call that does not meet the closed database |
| Admission_checks | 1.3 M | what is stored was welcome at one moment of its check, of a kind not denied before, by an author with authority at one moment of the check; Shutdown stores nothing unchecked |
| EventPath_checks | 0.1 M | the relay refuses no well-formed event and accepts beside them only mistyped objects, of which it lets pass no more than a header or a severity; a reason code names a defect of the event; no unknown severity reaches the policy |
| RelayInfo_checks | 0.3 M | an acknowledged change that nothing overlapped is what the relay shows, now and after restarts |
| Retention_checks | 0.2 M | the store holds of each kind what its class says, four kinds apart; nothing leaves it early; a round looks at every expired event the query can yield; liveness: what is expired leaves it |
| NotifyService_checks | 0.8 M | what may be missed, no queued item lost or doubled while the process lives; liveness: from publication to Send |
| NotifyDelivery_checks | 28 k | refinement of NotifyPromise: every match sent exactly once; scope, order, unknown severities of notices (a result has no severity field); liveness: every match attempted |

Four more runs expect a violation (section 5).

AllowBanDisjoint and ReadyWriters speak of the time while no discarded
transaction has failed, LostOnlyIfCut and EventuallySent of the time while events
carry the time of their publication, DenialIsFinal and RefusalJustified of the evaluations that do not
read the database after `Policy.Close`; the runs contain the other executions too,
and the formulas without these conditions are false of them. What an evaluation
makes of the closed database does no harm: Admission shows that no event it lets
pass is stored, because the event store is closed first. StoredAuthorHadAuthority
and DeniedKindNotStored ask for authority, and for a kind not denied, at or before
one moment of the check: a revocation or a denial that comes after the hook has
read its bucket comes too late for the event, by the design of the hooks.

### Bounds

*RelayBoot* has three keys (an operator, the server key, another) and six
configurations that differ in what those keys are, one with an empty admin entry
and one that does not load: a key that is promoted, demoted, made an agent and
dropped again needs no fourth one, because every transaction treats keys alike.
Two stops give three starts, one more than any of the counterexamples needs. One
request at a time shows every call between its authorisation and its execution
under the steps of a start and stop. Several requests, which may revoke each
other's callers and grant to each other while they are under way, are left to the
proofs: they hold for any number (two requests over two configurations and one
restart, 4.9 M states, were run for ChangedByAppointed as well).

*KindPolicy* has three kinds, four configurations (two lists and the empty
one, with and without a denied kind), two checks and one process end. *Admission* has one key and two events of it, an execution result (needs
an allow entry and an executor's authority) and an approval (needs AUTH and an
approver's authority, no allow entry): events do not look at each other, and two
show that. The allowlist is on; without it every event is treated like one that
is exempt. `AdminKinds` is empty, a third event would not fit: its branch has the
shape of the approvals' branch, and the proofs cover it.

*EventPath* starts from every combination of the tags and fields a validator
looks at, each with a value of every sort its checks tell apart; a malformed,
empty or scalar content is combined with the tags. *RelayInfo* has one field
(fields do not look at each other), two texts and the empty one, three calls
under way, two stops and a configuration that names the relay or not.

*Retention* has three events of a prunable kind, one more than a query yields,
two of a replaceable address, two profiles of one author and an audit step; keep_for settings of two units,
one unit after a replaced entry, none, and one that does not parse; an hour of
two units, and one stop. Time stands still at MaxTime, the ticker does not, so
rounds go on for ever and the liveness property is not cut short. The three
requests may all be expired while newer ones hide an old one (`Crowded`).

*NotifyService* has an event of an immediate rule and, a second later, two of one
second that wait for a digest, with one stop. An event that meets no rule passes
the loop as the others do and touches no queue; it is left to the proofs. The loop alone with three stops, a
second and third restart in the middle of a backlog, was run as well (2.8 M states) and
is covered by the proofs for any number. *NotifyDelivery* has four events over
three policies that combine both deliveries, both scopes, two rules for one
recipient and an undeclared recipient.

MaxStops and MaxTime are the only bounds in guards.

Deadlock is checked in the RelayBoot, KindPolicy, RelayInfo and Retention runs:
whatever the state, a start, a call, a check or the clock goes on. It is not
checked in EventPath (the event has arrived), Admission (all events ended and the
process gone), NotifyService, NotifyCursor and NotifyDelivery (the service waits
when the relay has no further event, or has exited).

### Fairness

*RelayBoot*: the process is started again (`deploy/nostrhost-control.service`,
`Restart=on-failure`; after a clean stop by whoever stopped it), New is
straight-line code without waiting, and a handler returns; nothing is assumed of
clients, and the number of stops is finite because a relay that is killed for
ever never serves.

*Retention*: the process is started again and ends once it is closing; time
passes and the pruner's goroutine runs. A deletion is a badger transaction that
may fail; that it does not fail every time it is tried again in a later round is
strong fairness on the deletion of each prunable event.

*NotifyService*: main goes on as long as its calls return, the ticker fires again
and again, and the process is started again: by `deploy/nostrhost-notify.service`
(`Restart=on-failure`, `RestartSec=5s`) after a crash or a fatal error, by the operator
after a clean end. A subscription that ends makes main return normally, and
systemd starts nothing then.

*NotifyDelivery*: the loop's and the flusher's goroutines run, the ticker ticks,
and a send returns, since go-nostr puts a deadline on connecting and publishing;
whether it succeeds is left open. Nothing is assumed of the relay or of signals.

## 5. Where code and comments differ

Four runs expect a violation: each checks one sentence of the repository's
comments or documentation (`PROJECT.json`, "findings").

- RelayBoot_serverkey: a server key that was an admin before loses the allow
  entry written a moment earlier in the same start (server.go:69-77).
- Retention_delegation: an accepted delegation (27236, 27237) is never stored,
  because the storage layer treats 20000-29999 as ephemeral; eventmodel.go:99-102
  and EVENT-PROTOCOL.md:61 call it regular and retained.
- NotifyCursor_torn: a crash while the cursor is written stops every later
  start (main.go:68-69).
- NotifyCursor_offline: a backlog that is interrupted is lost below its newest
  event (main.go:68-70).

Other differences and surprises were met while reading the code. The models behave
as the code does where they cover it. Where a property has to leave one of them
out, it does so in a definition or condition of its own, named here.

Policy:

- A call authorised before its caller was revoked is executed after it, and can make
  the caller an admin again; server.go:354 says that only administrators may call any
  method. `ChangedByAppointed` says how far this can go: the caller was an admin of
  this process all the same.
- An admin granted over NIP-86 has no allow entry; store.go:30-31 says admins are
  auto-allowed.
- An emptied `allowed_kinds` leaves the kinds of the earlier list in the bucket;
  config.example.toml:39 says that an empty list is no restriction. `denied_kinds`
  (line 43) is decoded and read nowhere; EVENT-PROTOCOL.md:123 says denied kinds are
  rejected. `RefusalJustified` and `DenialIsFinal` go by the buckets.
- A key an operator allowed over NIP-86 is relabelled "agent" once it is listed
  in `agent_pubkeys`, and is then revoked with the agents (store.go:192-194).
- The three reads of KindAllowed can permit a kind that no moment of the call
  would have permitted (store.go:274).
- `revokeadmin` leaves an "admin" allow entry that SyncAdmins never finds again;
  store.go:91-92 says the entries of the admins are replaced with the
  configured ones.
- Entries of keys dropped from `server_pubkey`, `notice_pubkey` and
  `publisher_pubkey` stay in the allowed bucket; no document promises otherwise.

Relay info:

- After a failed put, or two overlapping changes, memory and bucket differ until
  the next start. `changerelayname` with an empty text shows it as empty until
  the next start, and the configuration's name from then on.

Retention:

- The second profile (kind 0) of an author replaces the first, as a follow list
  (kind 3) does; `Class` and EVENT-PROTOCOL.md:114-115 make these kinds immutable,
  stored forever. `StoredAsClassed` leaves them out as `Misclassed`, with the
  delegations.
- A `keep_for` of zero or less is accepted and prunes everything of the kind.
- A restart within the hour puts the round off by an hour; a relay restarted
  every hour never prunes.
- Newer events beyond the default query limit (MaxLimit/4) hide an expired one
  from the pruner until they go themselves.
- A pruned event can be submitted again and stays until the next round.

Event model:

- A notice with an unknown severity is accepted beside a mistyped field
  (eventmodel.go:195-199); EVENT-PROTOCOL.md:97-99 and eventmodel.go:178-180 say it is
  rejected. So is a definition with schema 0 beside a mistyped field of its header
  (eventmodel.go:275-279). These are the events `VerdictIsRight` admits as `Mistyped`.
- Malformed content of a trust policy, an attestation or a chain step gets the
  code "schema-invalid", not "content-not-json"; so does an attestation without
  a d tag. A mistyped header of a trust policy, or a mistyped tool of a request,
  gets "content-not-json".

Notifications:

- The events of the cursor's own second are handled again after a restart;
  notify.example.toml:19-20 and main.go:23-24 say that history is not delivered again.
  `RedeliveryOnlyAtCursor`, which is proved, says that no other event is while saves
  succeed, and `LostOnlyIfCut` rests on that second being asked for again.
- A digest is per recipient, not per recipient and rule as digest.go:10-11 says,
  and holds an item of two rules twice.
- A restart loses the queued items, up to one interval of them.
- A `digest_interval` of zero or less parses, and `time.NewTicker` then panics.

## 6. Proofs

All theorems hold for every value of the constants under the assumptions named
in the modules (`ReasonAssumption`, `BootAssumption`, `KindAssumption`,
`AdmissionAssumption`, `EventModelAssumption`, `PathAssumption`,
`RelayInfoAssumption`, `RetentionAssumption`, `KindRangeAssumption`, `CursorAssumption`,
`ServiceAssumption`, `DeliveryAssumption`): any sets of keys, kinds,
configurations, requests, events and checks, any bound on stops and time. They
say what the constants are and keep model values apart; every run evaluates
those of its modules. Eight modules hold the theorems.

*RelayBootProofs.* `TypeCorrect` is inductive as it stands; lemma
`TransactionsTyped` does the buckets once for all callers. `AdminProvenance` and
`ReadyReconciled` speak of late phases only and are not inductive: `AdminInv`
carries the equality of admins and configuration from SyncAdmins through the
phases that leave the bucket alone, and weakens it to "configured or granted"
while calls run; `AgentInv` does the same for the agent labels. Both hold with
failing transactions because the reconciliations are the steps whose errors
are not discarded. `AllowBanDisjoint` needs `SeedInv`: the admins that Open's
loop has dealt with are not banned, so that SyncAdmins, which never looks at the
banned bucket, creates no banned and allowed key. That argument uses Open's
discarded transactions, so the formula and `SeedInv` speak of the time while
`failed` is FALSE: after a failed `Allow` a banned admin is allowed and banned.
`ServesWithAnAdmin` adds `LoadedInv` (Open goes on only with an operator key) to
`AdminInv`: no lockout outlasts the process, which is the part of `StartsAgain`
that needs no fairness. `ReadyWriters` needs `WriterInv`, the set of keys that New has settled so far,
with the strengthening that none of them carries the label "agent": otherwise
SyncAllowed, the last step, might delete it. It starts from `SeedInv`, and the
server key is not in it, because New allows that key before SyncAdmins. The
action properties `BanLiftedOnlyByDecision` and `OperatorEntryLasts` go through
the steps with `LoopInv`: Open's loop touches only the configuration's admins.
`ChangedByAppointed` needs `CallersInv`: the caller of every call in flight was an
admin when it was authorised, and so, by `AdminInv`, is of this configuration or was
granted to this process, which no later revocation undoes; a process end takes the
calls with it.

*KindPolicyProofs.* `ReadInv` says that what an earlier read has seen is still
so at the later ones, because no method deletes from the kind buckets, and that an
evaluation of a denied kind gets past the first read only if it has met the closed
database. From it follow `DenialIsFinal` and the action property `RefusalJustified`.

*AdmissionProofs.* Four invariants, each about what the history says of an event
at each hook. `ShutdownInv`: the policy database is closed after the event
store, and only a closed one is read as closed. `DeniedInv`: an event of a
denied kind stays in front of the first read, or the database is closed, and
then (`ShutdownInv`) nothing can be stored any more. `AuthorityInv`: events in
flight whose authors have authority are in `authorized`, and so are the events
behind the check. `WelcomeInv` does the same for writers; its first part, that
no key is banned and allowed, is what lets the later lookup (the allow entry)
stand for the earlier one (the ban) as well. Admission starts from buckets with
that property, which a start leaves as long as none of its discarded
transactions has failed (`AllowAndBanDisjoint`).

*EventPathProofs.* One lemma per validator shows what its chain of checks and
early returns comes to (`ThenValid` opens a chain): for most kinds it is `Valid`
exactly on the well-formed events; for a notice, a capability and an identity it is
`Valid` on these and, of the others, on objects that do not decode. `ValidateRight`
collects the lemmas for all kinds, texts and fields. `EnvelopeChecked` is the part
about the header that does not decode, and `TrustPolicyRight` the kind whose second
decode makes that harmless.
`PathInv` ties the verdict to it, which gives `VerdictIsRight`, and with
`ViewKnown` (what Classify reads of a valid notice) `ItemSeverityKnown`.
`PathTypes` is the type invariant. For the reason codes there is one lemma per
kind, saying what is wrong with an event that its validator refuses with each
reason; `CommonCodeIs` and `KindCodeIs` evaluate the switches of `codeFor` on
those reasons, whose texts share phrases; `CodesNameDefects` joins the two for
all events, and `VerdictsNameDefects` states it of the relay's verdicts.

*RelayInfoProofs.* `AcknowledgedShows` is not inductive, since it says nothing
while a call is under way. `AloneInv`: a call that is alone on its field has left
nothing but its own value in the words it has assigned, so the last step of the
call finds memory whole. `AckedInv`: an acknowledged field is at rest and its
bucket entry is the acknowledged text, which is what a restart shows. `DownInv`:
no call outlives its process.

*RetentionProofs.* The type invariant needs the size of a batch and the last
entry of a kind in PruneDurations (`LastPosition`). `PrunersInv`: while a batch
is worked off, its cutoff is one that the running configuration justifies, because
time does not run backwards and the settings change only with a process, which
loses the batch; the action property `KeptUntilAged` follows. `StoredInv` says that
stored and standing are the same for the kinds nobody prunes, where `Replaces` and
`Supersedes` are one relation (`RelationsAgree`), and that nothing ephemeral is ever
stored; it gives `StoredAsClassed`. `ExpiredAreReached`
is about one round: an event of the kind that the query leaves out has
`QueryLimit` others before it (`LeftOutIsCrowded`, by cardinalities), and what is
expired when the cutoff is taken is older than the cutoff. It is the part of
`EventuallyAgedOut` that needs no fairness.

*NotifyServiceProofs.* `CursorInv` strengthens the loop's type invariant: an
event is queued at most once (`QueueInv`) and handled at most once per process
(`CountInv`); what the file holds where main is (`FileInv`); with true clocks no
cursor is ahead of the clock (`ClockInv`); a subscription covers everything from
its cursor on (`CoverInv`); and what lies before the cursor of the next start was
handled or cut (`PassedInv`), which is `LostOnlyIfCut` but for the running process.
`RedeliveryInv` adds that the loop's events are not older than its cursor
(`FromSince`) and that, while saves succeed, the file is at or after every
handled event (`SavedInv`); from it the action property `RedeliveryOnlyAtCursor`.
`ServiceImplementsLoop` is the refinement: ServiceSpec implies the loop's Spec,
so its invariants hold of the service. `ServiceInv` adds the types of the queues
and their emptiness outside a process (`QueuesInv`); the accounting then needs
only how many copies `Append` and the exchange of the queues make.

*NotifyDeliveryProofs.* The sort first. No induction theorem of the library can be
instantiated here, so lemma `Least` (a set of numbers that is not empty has a
least element, from the well-foundedness of strict inclusion among finite sets)
stands for it: an argument over the turns of the loop refutes the first turn that
breaks it. It shows that the recursive function of `SortedPrefixes` exists
(`PrefixesExist`) and that after each turn the array is a permutation of the items
taken so far, in descending rank, equal ranks in arrival order (`Placed`, whose
step `PlacedStep` puts one more item at its `InsertionPoint`). That is
`SortIsStable`, for batches of any length, and `DigestOrdered` follows for every
digest.

The invariant `IInv` of the two goroutines has the types, the validity of the
policy, and three parts. `LoopInv`: the rules a loop still has to go through are
matches of the event in hand, which is taken; without them nothing is known of an
item at the moment it is queued. `QueueInv`, for each recipient: no item is twice
in the pending queue or the batch or in both, none is of an event still to
come or of a rule the loop has still to reach; this is what makes the exchange of
the map and the sends after it deliver every item once. `SentInv`: what was sent
was meant for its rule. From it come `ExternalOnlyByRule`, `NoOverMatch` and the
refinement: under `Owed` as the obligations, `Receive` takes them (an event that
meets no rule takes none), an immediate send or the send of a digest discharges
those it carries with one attempt each (`SendDischarges`, `Occurrences`: an item
occurs once in the sorted body), queueing and the exchange of the map are
stutters, and an exit is the end of the promise. `OnceInv` is an invariant of the
abstract specification alone; `OwedUntilAttempted` (the part of
`EveryMatchAttempted` that needs no fairness) follows through the refinement.

Every invariant and every action property of the passing runs is stated by a
theorem. Only model-checked is liveness under fairness (`StartsAgain`,
`EventuallyAgedOut`, `EventuallySent`, `EveryMatchAttempted`), which is out of the
prover's reach; of three of them the part that needs no fairness is proved
(`ServesWithAnAdmin`, `ExpiredAreReached`, `OwedUntilAttempted`).

## 7. Not modelled

- The text of reasons, summaries and messages, logging, the NIP-11 fields that no
  call changes.
- khatru, badger, bolt and go-nostr beyond what the code in `src/` relies on:
  atomic transactions, hooks called in order in a goroutine per message, which
  store function a kind gets, stored events newest first, a query's default
  limit, a send that returns.
- The read path (`requireAuthForRead`, `rejectBlockedIP`, `countEvents`): one
  condition or one call each over state that does not change during it.
- Blocked IPs: one put, one delete and one lookup of a bucket nothing else
  touches; a property would repeat them.
- Decoding and defaults of the two configuration files, the loopback and port
  checks, and the helpers `cmdutil` and `tomlutil`: done once on one value, before
  anything runs. What of them decides whether a start happens is in the models
  (the operator key, keep_for).
- `LoadVerdicts` and `CorpusDir`, which read the test fixtures.
- JSON keys are matched without regard to case by `encoding/json`; a field here
  is the value that is decoded, whatever its spelling.
- `Store.Unban`, which nothing calls.
