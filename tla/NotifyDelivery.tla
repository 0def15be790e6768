--------------------------- MODULE NotifyDelivery ---------------------------
(***************************************************************************)
(* nostrhost-notify from an event to its messages (internal/notify): the   *)
(* subscription loop calls HandleEvent, which sends or queues the item for *)
(* each rule it meets; the digest goroutine empties the queues on a ticker *)
(* and once more when it is told to stop.                                  *)
(*                                                                         *)
(* The two goroutines share Digest.pending under its lock, so an append    *)
(* and the exchange of the map are one step each; the sends of a flush     *)
(* happen outside the lock, with appends in between.  A send may fail.     *)
(***************************************************************************)
EXTENDS NotifyPolicy, FiniteSets

CONSTANTS Events,     \* the events the subscription yields, each once
          Content,    \* Events -> EventType
          Policies,   \* the contents of recipients.toml and policy.toml
          NoEvent

ASSUME DeliveryAssumption ==
  /\ Severities \subseteq SeverityNames
  /\ Content \in [Events -> EventType]
  /\ \A p \in Policies : /\ p.recipients \subseteq Recipients
                         /\ \A i \in DOMAIN p.rules : p.rules[i] \in RuleType
  /\ NoEvent \notin Events

VARIABLES policy,     \* the loaded policy
          untaken,    \* events not received yet
          current,    \* the event HandleEvent works on
          matches,    \* its loop: the rules not acted on yet, by index
          loop,       \* the main goroutine: "wait", "handle", "ended", "exited"
          cancelled,  \* the signal context is cancelled
          pending,    \* Digest.pending: npub -> items
          batch,      \* the map a flush has taken, without what it has sent
          flusher,    \* Digest.Run: "idle", "flush", "final" or "done"
          messages,   \* history: what has been handed to Send
          attempts    \* history: how often an item was, per rule

vars == <<policy, untaken, current, matches, loop, cancelled, pending, batch,
          flusher, messages, attempts>>

RuleIds == UNION {DOMAIN p.rules : p \in Policies}

\* A queued item; the rule that queued it is history, the code drops it.
ItemType == [event : Events, rule : RuleIds, severity : SeverityNames]
ItemOf(e, i) == [event |-> e, rule |-> i, severity |-> Classify(Content[e]).severity]

MessageType == [to : Recipients, body : Seq(ItemType), scope : Scopes]

ItemsIn(queues) == UNION {Range(queues[r]) : r \in Recipients}

TypeOK ==
  /\ policy \in Policies
  /\ untaken \in SUBSET Events
  /\ current \in Events \cup {NoEvent}
  /\ matches \in SUBSET RuleIds
  /\ loop \in {"wait", "handle", "ended", "exited"}
  /\ cancelled \in BOOLEAN
  /\ pending \in [Recipients -> Seq(ItemType)]
  /\ batch \in [Recipients -> Seq(ItemType)]
  /\ flusher \in {"idle", "flush", "final", "done"}
  /\ messages \subseteq MessageType
  /\ attempts \in [Events \X RuleIds -> Nat]

Empty == [r \in Recipients |-> <<>>]
Running == loop # "exited"

\* LoadPolicy rejects the other policies, and main exits.
Init ==
  /\ policy \in {p \in Policies : ValidPolicy(p)}
  /\ untaken = Events
  /\ current = NoEvent
  /\ matches = {}
  /\ loop = "wait"
  /\ cancelled = FALSE
  /\ pending = Empty
  /\ batch = Empty
  /\ flusher = "idle"
  /\ messages = {}
  /\ attempts = [o \in Events \X RuleIds |-> 0]

(***************************************************************************)
(* Sender.Send: the call is made; whether it returns an error is only      *)
(* logged, by both callers.                                                *)
(***************************************************************************)
Send(npub, items, scope) ==
  /\ messages' = messages \cup {[to |-> npub, body |-> items, scope |-> scope]}
  /\ attempts' = [o \in Events \X RuleIds |->
       attempts[o] + Cardinality({j \in DOMAIN items : items[j] = ItemOf(o[1], o[2])})]

NoSend == UNCHANGED <<messages, attempts>>

(***************************************************************************)
(* The subscription loop and HandleEvent                                   *)
(***************************************************************************)
Receive(e) ==
  /\ loop = "wait"
  /\ e \in untaken
  /\ untaken' = untaken \ {e}
  /\ IF Notified(Content[e])
     THEN /\ loop' = "handle"
          /\ current' = e
          /\ matches' = Match(policy, Classify(Content[e]))
     ELSE UNCHANGED <<loop, current, matches>>
  /\ UNCHANGED <<policy, cancelled, pending, batch, flusher, messages, attempts>>

\* HandleEvent's loop is at the rule with index i.
AtRule(i, delivery) ==
  /\ loop = "handle"
  /\ i \in matches
  /\ \A j \in matches : i <= j
  /\ policy.rules[i].delivery = delivery
  /\ matches' = matches \ {i}
  /\ UNCHANGED <<policy, untaken, current, loop, cancelled, batch, flusher>>

SendImmediate(i) ==
  /\ AtRule(i, "immediate")
  /\ LET rule == policy.rules[i]
     IN Send(rule.recipient, <<ItemOf(current, i)>>, rule.scope)
  /\ UNCHANGED pending

\* Digest.Add
Add(i) ==
  /\ AtRule(i, "summary")
  /\ pending' = [pending EXCEPT ![policy.rules[i].recipient] =
                   Append(@, ItemOf(current, i))]
  /\ NoSend

HandleReturns ==
  /\ loop = "handle"
  /\ matches = {}
  /\ loop' = "wait"
  /\ current' = NoEvent
  /\ UNCHANGED <<policy, untaken, matches, cancelled, pending, batch, flusher,
                 messages, attempts>>

(***************************************************************************)
(* Digest.Run                                                              *)
(***************************************************************************)
\* Mutant: the map is copied and not exchanged.
TakePendingLate(from, to) ==
  /\ Running
  /\ flusher = from
  /\ flusher' = to
  /\ batch' = pending
  /\ UNCHANGED <<policy, untaken, current, matches, loop, cancelled, pending, messages, attempts>>

\* Flush exchanges the map under the lock.
TakePending(from, to) ==
  /\ Running
  /\ flusher = from
  /\ flusher' = to
  /\ batch' = pending
  /\ pending' = Empty
  /\ UNCHANGED <<policy, untaken, current, matches, loop, cancelled, messages, attempts>>

\* The ticker, and the closed stop channel; select takes either.
Tick == TakePending("idle", "flush")
StopRun == loop = "ended" /\ TakePending("idle", "final")

\* Mutant: the digest takes the scope of a rule that queued one of its items.
SendDigestRuleScope(npub) ==
  /\ Running
  /\ flusher \in {"flush", "final"}
  /\ batch[npub] # <<>>
  /\ Send(npub, SortBySeverityDesc(batch[npub]),
          policy.rules[Head(batch[npub]).rule].scope)
  /\ batch' = [batch EXCEPT ![npub] = <<>>]
  /\ UNCHANGED <<policy, untaken, current, matches, loop, cancelled, pending, flusher>>

\* Mutant: an error of the send ends the goroutine.
SendDigestGivesUp(npub) ==
  /\ Running
  /\ flusher \in {"flush", "final"}
  /\ batch[npub] # <<>>
  /\ Send(npub, SortBySeverityDesc(batch[npub]), "local-only")
  /\ batch' = [batch EXCEPT ![npub] = <<>>]
  /\ flusher' \in {flusher, "done"}
  /\ UNCHANGED <<policy, untaken, current, matches, loop, cancelled, pending>>

\* sendDigest for one recipient, in the order of the map.  An error is kept
\* if it is the first and the loop goes on.
SendDigest(npub) ==
  /\ Running
  /\ flusher \in {"flush", "final"}
  /\ batch[npub] # <<>>
  /\ Send(npub, SortBySeverityDesc(batch[npub]), "local-only")
  /\ batch' = [batch EXCEPT ![npub] = <<>>]
  /\ UNCHANGED <<policy, untaken, current, matches, loop, cancelled, pending, flusher>>

FlushReturns ==
  /\ Running
  /\ batch = Empty
  /\ \/ flusher = "flush" /\ flusher' = "idle"
     \/ flusher = "final" /\ flusher' = "done"
  /\ UNCHANGED <<policy, untaken, current, matches, loop, cancelled, pending, batch,
                 messages, attempts>>

(***************************************************************************)
(* The end of the process                                                  *)
(***************************************************************************)
\* SIGINT or SIGTERM
Signal ==
  /\ Running
  /\ ~cancelled
  /\ cancelled' = TRUE
  /\ UNCHANGED <<policy, untaken, current, matches, loop, pending, batch, flusher,
                 messages, attempts>>

\* The subscription's channel is closed and main's deferred close(stopDigest)
\* runs.
LoopEnds ==
  /\ loop = "wait"
  /\ cancelled
  /\ loop' = "ended"
  /\ UNCHANGED <<policy, untaken, current, matches, cancelled, pending, batch, flusher,
                 messages, attempts>>

\* main returns without waiting for the digest goroutine, or the process is
\* killed at any point.
Exit ==
  /\ Running
  /\ loop' = "exited"
  /\ UNCHANGED <<policy, untaken, current, matches, cancelled, pending, batch, flusher,
                 messages, attempts>>

(***************************************************************************)
(* The specification                                                       *)
(***************************************************************************)
LoopStep == (\E i \in matches : SendImmediate(i) \/ Add(i)) \/ HandleReturns
FlushStep == Tick \/ StopRun \/ (\E r \in Recipients : SendDigest(r)) \/ FlushReturns

Next ==
  \/ \E e \in Events : Receive(e)
  \/ LoopStep
  \/ FlushStep
  \/ Signal \/ LoopEnds \/ Exit

Spec == Init /\ [][Next]_vars

\* A send returns (go-nostr bounds it by a timeout of its own), so both
\* goroutines go on; the ticker fires again and again.
FairSpec == Spec /\ WF_vars(LoopStep) /\ WF_vars(FlushStep)

(***************************************************************************)
(* Properties                                                              *)
(***************************************************************************)
\* What the current event still owes, and what waits for a flush.
Owed ==
  {<<current, i>> : i \in matches}
    \cup {<<item.event, item.rule>> : item \in ItemsIn(pending) \cup ItemsIn(batch)}

Due == [e \in Events |->
          IF Notified(Content[e])
          THEN {i \in DOMAIN policy.rules : Meets(Classify(Content[e]), policy.rules[i])}
          ELSE {}]

Promise == INSTANCE NotifyPromise
             WITH Rules <- RuleIds, due <- Due, owed <- Owed, gone <- ~Running

\* HandleEvent and Digest implement the promise: whatever the interleaving of
\* appends and flushes and whichever sends fail, an event that meets a rule is
\* handed to Send exactly once for it, unless the process ends first.
ImplementsPromise == Promise!Spec

\* A message leaves the operator's own relays only if it is about one event
\* and an immediate rule of that recipient, which the event meets, says so: a
\* digest never does, whatever the scopes of the rules that queued its items.
ExternalOnlyByRule ==
  \A m \in messages : m.scope = "external" =>
    \E e \in Events, i \in DOMAIN policy.rules :
      /\ m.body = <<ItemOf(e, i)>>
      /\ LET rule == policy.rules[i]
         IN /\ rule.recipient = m.to
            /\ rule.delivery = "immediate" /\ rule.scope = "external"
            /\ Meets(Classify(Content[e]), rule)

\* A notice whose severity is not a known one never reaches the recipient of
\* a rule for warnings or worse: severity.go:7, "a rule can't accidentally
\* over-match by mis-typing a severity".
NoOverMatch ==
  \A m \in messages : \A j \in DOMAIN m.body :
    LET event == Content[m.body[j].event]
    IN event.kind \in NoticeKinds /\ event.severity \notin Severities \cup {Unset}
         => policy.rules[m.body[j].rule].min = "info"

\* A digest lists the most severe items first and items of one severity in
\* the order they were queued; it has every item of the batch and no other.
DigestOrdered ==
  [][\A r \in Recipients :
       SendDigest(r) =>
         \A m \in messages' \ messages :
           /\ Len(m.body) = Len(batch[r]) /\ Range(m.body) = Range(batch[r])
           /\ \A j, k \in DOMAIN batch[r] :
                LET x == batch[r][j]
                    y == batch[r][k]
                    precedes == \/ Rank(x.severity) > Rank(y.severity)
                                \/ Rank(x.severity) = Rank(y.severity) /\ j < k
                IN precedes => \E a, b \in DOMAIN m.body :
                                 a < b /\ m.body[a] = x /\ m.body[b] = y]_vars

\* Every obligation is discharged unless the process ends, although sends to
\* the same and other recipients fail: a failed delivery stops neither the
\* subscription loop nor the digests.
EveryMatchAttempted ==
  \A e \in Events, i \in RuleIds :
    (<<e, i>> \in Owed) ~> (attempts[<<e, i>>] = 1 \/ ~Running)

=============================================================================
