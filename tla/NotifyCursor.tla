---------------------------- MODULE NotifyCursor ----------------------------
(***************************************************************************)
(* The subscription loop of nostrhost-notify (cmd/nostrhost-notify/main.go) *)
(* and the cursor file it resumes from.                                    *)
(*                                                                         *)
(*   down -> create -> creating -> connect -> wait -> save -> saving       *)
(*                                             ^                 |         *)
(*                                             +---- handle <----+         *)
(*                                                                         *)
(* The cursor is a timestamp, saved BEFORE the event is handled, and the   *)
(* file is truncated and then written.  The relay answers a subscription   *)
(* with its stored events newest first, and live events come in between.   *)
(* The process may die at any step.                                        *)
(***************************************************************************)
EXTENDS Naturals, Sequences

CONSTANTS Events,       \* the notices published to the relay
          CreatedAt,    \* Events -> Nat: their created_at
          NoEvent,
          Absent,       \* the cursor file does not exist yet
          Torn,         \* it is truncated and not written: no JSON to parse
          MaxTime,      \* BOUND: the last reading of the clock
          MaxStops      \* BOUND: how many times the process ends

ASSUME CursorAssumption ==
  /\ CreatedAt \in [Events -> Nat]
  /\ NoEvent \notin Events
  /\ {Absent, Torn} \cap Nat = {} /\ Absent # Torn
  /\ MaxTime \in Nat
  /\ MaxStops \in Nat

VARIABLES clock,      \* the machine's clock, in seconds
          pc,         \* where main is
          disk,       \* the cursor file
          lastSeen,   \* cur.LastSeen
          since,      \* the filter's since, fixed when the process starts
          published,  \* events stored by the relay
          backlog,    \* stored events the subscription has not yielded yet
          live,       \* later events it has not yielded yet
          current,    \* the event in the loop's hands
          handled,    \* history: how often HandleEvent was called with each
          cut,        \* history: events in the subscription when main died
          early,      \* history: events published before there was a cursor
          offline,    \* history: later events published with the service down
          skewed,     \* history: an event was published with another created_at
          failed,     \* history: a save of the cursor file returned an error
          stops

historyVars == <<cut, early, offline, skewed, failed>>
vars == <<clock, pc, disk, lastSeen, since, published, backlog, live, current,
          handled, historyVars, stops>>

Saving == {"creating", "saving"}
Subscribed == {"wait", "save", "saving", "handle"}
Times == 0..MaxTime \cup {CreatedAt[e] : e \in Events}

Queued == backlog \cup {live[i] : i \in DOMAIN live}

TypeOK ==
  /\ clock \in 0..MaxTime
  /\ pc \in {"down", "create", "creating", "connect"} \cup Subscribed
  /\ disk \in Times \cup {Absent, Torn}
  /\ lastSeen \in Times
  /\ since \in Times
  /\ published \in SUBSET Events
  /\ Queued \subseteq published
  /\ current \in published \cup {NoEvent}
  /\ current = NoEvent <=> pc \notin {"save", "saving", "handle"}
  /\ handled \in [Events -> 0..(MaxStops + 1)]
  /\ cut \in SUBSET published
  /\ early \in SUBSET published
  /\ offline \in SUBSET (published \ early)
  /\ skewed \in BOOLEAN /\ failed \in BOOLEAN
  /\ stops \in 0..MaxStops

Init ==
  /\ clock = 0
  /\ pc = "down"
  /\ disk = Absent
  /\ lastSeen = 0
  /\ since = 0
  /\ published = {}
  /\ backlog = {}
  /\ live = <<>>
  /\ current = NoEvent
  /\ handled = [e \in Events |-> 0]
  /\ cut = {}
  /\ early = {}
  /\ offline = {}
  /\ skewed = FALSE
  /\ failed = FALSE
  /\ stops = 0

(***************************************************************************)
(* The relay                                                               *)
(***************************************************************************)
\* The publisher sets created_at: its own clock may be off, and an event may
\* reach the relay late.
Publish(e) ==
  /\ e \notin published
  /\ skewed' = (skewed \/ CreatedAt[e] # clock)
  /\ published' = published \cup {e}
  /\ live' = IF pc \in Subscribed /\ CreatedAt[e] >= since
             THEN Append(live, e) ELSE live
  /\ early' = IF disk = Absent THEN early \cup {e} ELSE early
  /\ offline' = IF disk # Absent /\ pc = "down" THEN offline \cup {e} ELSE offline
  /\ UNCHANGED <<clock, pc, disk, lastSeen, since, backlog, current, handled, cut,
                 failed, stops>>

Tick ==
  /\ clock < MaxTime
  /\ clock' = clock + 1
  /\ UNCHANGED <<pc, disk, lastSeen, since, published, backlog, live, current,
                 handled, historyVars, stops>>

(***************************************************************************)
(* Starting: loadCursor, the cursor of a fresh install, the subscription   *)
(***************************************************************************)
Start(to, seen) ==
  /\ pc = "down"
  /\ pc' = to
  /\ lastSeen' = seen
  /\ UNCHANGED <<clock, disk, since, published, backlog, live, current, handled, historyVars, stops>>

LoadCursor  == disk \notin {Absent, Torn} /\ Start("connect", disk)
FreshCursor == disk = Absent /\ Start("create", clock)

\* json.Unmarshal of an empty file fails: log.Fatalf, at every start.
LoadFails == pc = "down" /\ disk = Torn /\ UNCHANGED vars

\* c.save(): os.WriteFile opens and truncates the file, then writes it; main
\* logs an error of either and goes on.
SaveStep(from, to, contents) ==
  /\ pc = from
  /\ pc' = to
  /\ disk' = contents
  /\ failed' = (failed \/ contents = disk)
  /\ UNCHANGED <<clock, lastSeen, since, published, backlog, live, current, handled,
                 cut, early, offline, skewed, stops>>

Truncate(from, to, skip) == SaveStep(from, to, Torn) \/ SaveStep(from, skip, disk)

Write(from, to) == SaveStep(from, to, lastSeen) \/ SaveStep(from, to, disk)

SaveFresh == Truncate("create", "creating", "connect") \/ Write("creating", "connect")

\* Mutant: the events of the cursor's own second are left out.
SubscribeAfter ==
  /\ pc = "connect"
  /\ pc' = "wait"
  /\ since' = lastSeen
  /\ backlog' = {e \in published : CreatedAt[e] > lastSeen}
  /\ UNCHANGED <<clock, disk, lastSeen, published, live, current, handled, historyVars, stops>>

\* The relay answers with what it has stored from "since" on.
Subscribe ==
  /\ pc = "connect"
  /\ pc' = "wait"
  /\ since' = lastSeen
  /\ backlog' = {e \in published : CreatedAt[e] >= lastSeen}
  /\ UNCHANGED <<clock, disk, lastSeen, published, live, current, handled, historyVars, stops>>

(***************************************************************************)
(* The loop                                                                *)
(***************************************************************************)
\* The loop takes e; the cursor only moves forward.
Take(e) ==
  /\ pc = "wait"
  /\ current' = e
  /\ IF CreatedAt[e] > lastSeen
     THEN lastSeen' = CreatedAt[e] /\ pc' = "save"
     ELSE UNCHANGED lastSeen /\ pc' = "handle"

\* Stored events come newest first.
ReceiveStored(e) ==
  /\ e \in backlog
  /\ \A f \in backlog : CreatedAt[f] <= CreatedAt[e]
  /\ Take(e)
  /\ backlog' = backlog \ {e}
  /\ UNCHANGED <<clock, disk, since, published, live, handled, historyVars, stops>>

ReceiveLive ==
  /\ live # <<>>
  /\ Take(Head(live))
  /\ live' = Tail(live)
  /\ UNCHANGED <<clock, disk, since, published, backlog, handled, historyVars, stops>>

Save == Truncate("save", "saving", "handle") \/ Write("saving", "handle")

\* svc.HandleEvent(ctx, ie.Event)
Handle ==
  /\ pc = "handle"
  /\ pc' = "wait"
  /\ handled' = [handled EXCEPT ![current] = @ + 1]
  /\ current' = NoEvent
  /\ UNCHANGED <<clock, disk, lastSeen, since, published, backlog, live, historyVars, stops>>

(***************************************************************************)
(* The process dies or is stopped; the file and the relay stay.            *)
(***************************************************************************)
Stop ==
  /\ pc # "down"
  /\ stops < MaxStops
  /\ stops' = stops + 1
  /\ pc' = "down"
  /\ cut' = cut \cup Queued \cup ({current} \ {NoEvent})
  /\ lastSeen' = 0
  /\ since' = 0
  /\ backlog' = {}
  /\ live' = <<>>
  /\ current' = NoEvent
  /\ UNCHANGED <<clock, disk, published, handled, early, offline, skewed, failed>>

Next ==
  \/ Tick
  \/ \E e \in Events : Publish(e) \/ ReceiveStored(e)
  \/ LoadCursor \/ FreshCursor \/ LoadFails
  \/ SaveFresh \/ Subscribe
  \/ ReceiveLive \/ Save \/ Handle
  \/ Stop

Spec == Init /\ [][Next]_vars

(***************************************************************************)
(* Properties                                                              *)
(***************************************************************************)
\* While events carry the time of their publication, an event published since
\* the cursor file exists is missed only if the process died while it was in the
\* subscription and the cursor of the restart is later than the event: a restart
\* asks for the cursor's own second again, and the cursor never passes an event
\* that was not in the subscription.
LostOnlyIfCut ==
  (~skewed /\ pc \in Subscribed)
    => \A e \in published \ early :
         \/ handled[e] > 0
         \/ e \in Queued \cup {current}
         \/ e \in cut /\ CreatedAt[e] < since

\* "It never re-delivers history" (notify.example.toml:19-20) is not so: a
\* restart asks for the cursor's own second again, on which LostOnlyIfCut rests,
\* and handles its events again.  How far that goes: as long as the cursor file
\* can be written, an event is handled a second time only if its timestamp is the
\* cursor the process started from.
RedeliveryOnlyAtCursor ==
  [][(~failed /\ Handle /\ handled[current] > 0) => CreatedAt[current] = since]_vars

(***************************************************************************)
(* What the comments say, and the code does not do.                        *)
(***************************************************************************)
\* main.go:69, "no event published while the service was down is lost either":
\* once the service is waiting with nothing queued, it has handled them.
NothingLostWhileDown ==
  (~skewed /\ ~failed /\ pc = "wait" /\ Queued = {}) => \A e \in offline : handled[e] > 0

\* main.go:68, "Subsequent restarts resume from the persisted cursor".
RestartsResume == ~(pc = "down" /\ disk = Torn)

=============================================================================
