--------------------------- MODULE NotifyService ---------------------------
(***************************************************************************)
(* nostrhost-notify as a whole: the subscription loop of NotifyCursor with *)
(* what HandleEvent does with each event (NotifyDelivery has the rules in  *)
(* detail), and the digest goroutine beside it.                            *)
(*                                                                         *)
(* The cursor file outlives the process and has already passed the events  *)
(* whose digest items are still in memory.                                 *)
(***************************************************************************)
EXTENDS NotifyCursor, FiniteSets

CONSTANT Delivery   \* Events -> the delivery of the rule the event meets

Deliveries == {"immediate", "summary", "none"}

ASSUME ServiceAssumption == Delivery \in [Events -> Deliveries]

VARIABLES pending,   \* Digest.pending
          batch,     \* the queue a flush has taken and not sent
          sent,      \* history: how often each event was handed to Send
          forgotten  \* history: digest items in memory when the process ended

digestVars == <<pending, batch, sent, forgotten>>
serviceVars == <<vars, digestVars>>

Copies(e, queue) == Cardinality({i \in DOMAIN queue : queue[i] = e})
Waiting(e) == Copies(e, pending) + Copies(e, batch)

ServiceTypeOK ==
  /\ TypeOK
  /\ pending \in Seq({e \in Events : Delivery[e] = "summary"})
  /\ batch \in Seq({e \in Events : Delivery[e] = "summary"})
  /\ sent \in [Events -> 0..(MaxStops + 1)]
  /\ forgotten \in [Events -> 0..MaxStops]
  /\ pc \notin Subscribed => pending = <<>> /\ batch = <<>>

ServiceInit ==
  /\ Init
  /\ pending = <<>>
  /\ batch = <<>>
  /\ sent = [e \in Events |-> 0]
  /\ forgotten = [e \in Events |-> 0]

(***************************************************************************)
(* HandleEvent                                                             *)
(***************************************************************************)
\* Mutant: an immediate item goes to the digest.
HandleEventQueuesAll ==
  /\ Handle
  /\ pending' = IF Delivery[current] # "none" THEN Append(pending, current) ELSE pending
  /\ UNCHANGED <<batch, sent, forgotten>>

\* An event that meets no rule goes nowhere.
HandleEvent ==
  /\ Handle
  /\ sent' = IF Delivery[current] = "immediate" THEN [sent EXCEPT ![current] = @ + 1] ELSE sent
  /\ pending' = IF Delivery[current] = "summary" THEN Append(pending, current) ELSE pending
  /\ UNCHANGED <<batch, forgotten>>

(***************************************************************************)
(* Digest.Run: the ticker fires, or main has closed the stop channel and   *)
(* has not returned yet; main does not wait for it.                        *)
(***************************************************************************)
\* Mutant: a queue with one item is skipped.
FlushTakesMany ==
  /\ batch = <<>>
  /\ Len(pending) > 1
  /\ batch' = pending
  /\ pending' = <<>>
  /\ UNCHANGED <<vars, sent, forgotten>>

\* Mutant: a flush replaces a batch that is still being sent.
FlushTakesAgain ==
  /\ pending # <<>>
  /\ batch' = pending
  /\ pending' = <<>>
  /\ UNCHANGED <<vars, sent, forgotten>>

FlushTakes ==
  /\ batch = <<>>
  /\ pending # <<>>
  /\ batch' = pending
  /\ pending' = <<>>
  /\ UNCHANGED <<vars, sent, forgotten>>

\* One recipient: the whole batch is one message, whether Send fails or not.
FlushSends ==
  /\ batch # <<>>
  /\ batch' = <<>>
  /\ sent' = [e \in Events |-> sent[e] + Copies(e, batch)]
  /\ UNCHANGED <<vars, pending, forgotten>>

(***************************************************************************)
(* The process ends, and the queues with it.                               *)
(***************************************************************************)
Exit ==
  /\ Stop
  /\ forgotten' = [e \in Events |-> forgotten[e] + Waiting(e)]
  /\ pending' = <<>>
  /\ batch' = <<>>
  /\ UNCHANGED sent

Elsewhere == Tick \/ \E e \in Events : Publish(e)

MainStep ==
  \/ LoadCursor \/ FreshCursor \/ SaveFresh \/ Subscribe
  \/ \E e \in Events : ReceiveStored(e)
  \/ ReceiveLive \/ Save

DigestStep == FlushTakes \/ FlushSends

ServiceNext ==
  \/ (Elsewhere \/ MainStep \/ LoadFails) /\ UNCHANGED digestVars
  \/ HandleEvent
  \/ DigestStep
  \/ Exit

ServiceSpec == ServiceInit /\ [][ServiceNext]_serviceVars

\* deploy/nostrhost-notify.service starts the process again after a crash
\* (Restart=on-failure), the operator after a clean end.  Main goes on as long as
\* its calls return; the ticker fires again and again.
FairServiceSpec ==
  /\ ServiceSpec
  /\ WF_serviceVars((MainStep /\ UNCHANGED digestVars) \/ HandleEvent)
  /\ WF_serviceVars(DigestStep)

(***************************************************************************)
(* Properties                                                              *)
(***************************************************************************)
\* Every call of HandleEvent for an event that meets a rule is accounted for:
\* it was handed to Send, or its item is in memory, or a process ended with
\* the item in memory.  A flush that overlaps an Add loses and doubles nothing.
EveryHandlingAccounted ==
  \A e \in Events :
    Delivery[e] # "none" => handled[e] = sent[e] + Waiting(e) + forgotten[e]

\* From publication to Send: an event published since the cursor file exists is
\* handed to Send in the end, unless the process ended with the event in its
\* subscription or in its queues and starts again from a later cursor, a clock
\* was off, or the process ended between the truncation and the write of the
\* cursor file.
EventuallySent ==
  \A e \in Events :
    (e \in published \ early /\ Delivery[e] # "none")
      ~> \/ sent[e] > 0
         \/ (e \in cut \/ forgotten[e] > 0) /\ CreatedAt[e] < since
         \/ skewed
         \/ pc = "down" /\ disk = Torn
=============================================================================
