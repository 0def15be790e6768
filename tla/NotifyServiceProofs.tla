------------------------ MODULE NotifyServiceProofs ------------------------
(***************************************************************************)
(* Theorems about NotifyCursor and NotifyService.  The argument has three  *)
(* parts: within one subscription an event is yielded at most once; a      *)
(* subscription covers every event from its cursor on; and the cursor of   *)
(* the next start never passes an event that no subscription covered.      *)
(***************************************************************************)
EXTENDS NotifyService, FiniteSetTheorems, TLAPS

Elements(s) == {s[i] : i \in DOMAIN s}
Distinct(s) == \A i, j \in DOMAIN s : s[i] = s[j] => i = j

LEMMA AppendElements ==
  ASSUME NEW S, NEW s \in Seq(S), NEW x \in S
  PROVE  /\ Append(s, x) \in Seq(S)
         /\ Elements(Append(s, x)) = Elements(s) \cup {x}
         /\ Distinct(s) /\ x \notin Elements(s) => Distinct(Append(s, x))
<1>1. /\ Append(s, x) \in Seq(S)
      /\ DOMAIN Append(s, x) = 1..(Len(s) + 1) /\ DOMAIN s = 1..Len(s) /\ Len(s) \in Nat
      /\ Append(s, x)[Len(s) + 1] = x
      /\ \A i \in 1..Len(s) : Append(s, x)[i] = s[i]
  OBVIOUS
<1>2. 1..(Len(s) + 1) = 1..Len(s) \cup {Len(s) + 1}
  BY <1>1
<1>3. Elements(Append(s, x)) = Elements(s) \cup {x}
  BY <1>1, <1>2 DEF Elements
<1>4. Distinct(s) /\ x \notin Elements(s) => Distinct(Append(s, x))
  BY <1>1, <1>2 DEF Elements, Distinct
<1> QED BY <1>1, <1>3, <1>4

LEMMA TailElements ==
  ASSUME NEW S, NEW s \in Seq(S), s # <<>>, Distinct(s)
  PROVE  /\ Tail(s) \in Seq(S) /\ Head(s) \in Elements(s)
         /\ Elements(Tail(s)) = Elements(s) \ {Head(s)}
         /\ Distinct(Tail(s))
<1>1. /\ Tail(s) \in Seq(S) /\ Len(s) \in Nat \ {0} /\ DOMAIN s = 1..Len(s)
      /\ DOMAIN Tail(s) = 1..(Len(s) - 1) /\ Head(s) = s[1]
      /\ \A i \in 1..(Len(s) - 1) : Tail(s)[i] = s[i + 1]
  OBVIOUS
<1>2. Elements(Tail(s)) \subseteq Elements(s) \ {Head(s)}
  <2> SUFFICES ASSUME NEW i \in 1..(Len(s) - 1)
               PROVE  Tail(s)[i] \in Elements(s) /\ Tail(s)[i] # Head(s)
    BY <1>1 DEF Elements
  <2>1. i + 1 \in 1..Len(s) /\ 1 \in 1..Len(s) /\ i + 1 # 1
    BY <1>1
  <2> QED BY <2>1, <1>1 DEF Elements, Distinct
<1>3. Elements(s) \ {Head(s)} \subseteq Elements(Tail(s))
  <2> SUFFICES ASSUME NEW i \in 1..Len(s), s[i] # Head(s) PROVE s[i] \in Elements(Tail(s))
    BY <1>1 DEF Elements
  <2>1. i - 1 \in 1..(Len(s) - 1) /\ (i - 1) + 1 = i
    BY <1>1
  <2> QED BY <2>1, <1>1 DEF Elements
<1>4. Distinct(Tail(s))
  <2> SUFFICES ASSUME NEW i \in 1..(Len(s) - 1), NEW j \in 1..(Len(s) - 1), s[i + 1] = s[j + 1]
               PROVE  i = j
    BY <1>1 DEF Distinct
  <2>1. i + 1 \in 1..Len(s) /\ j + 1 \in 1..Len(s)
    BY <1>1
  <2>2. i + 1 = j + 1
    BY <2>1, <1>1 DEF Distinct
  <2>3. i \in Nat /\ j \in Nat
    BY <1>1
  <2> QED BY <2>2, <2>3
<1>5. Head(s) \in Elements(s)
  BY <1>1 DEF Elements
<1>6. Elements(Tail(s)) = Elements(s) \ {Head(s)}
  BY <1>2, <1>3
<1> QED BY <1>1, <1>4, <1>5, <1>6

(***************************************************************************)
(* The inductive invariant of NotifyCursor                                 *)
(***************************************************************************)
\* An event is queued at most once, and was handled at most once per process.
QueueInv ==
  /\ live \in Seq(Events) /\ Distinct(live)
  /\ backlog \cap Elements(live) = {}
  /\ current \notin Queued
  /\ pc \notin Subscribed => Queued = {}
  /\ backlog \in SUBSET Events /\ clock \in Nat /\ stops \in Nat

CountInv ==
  /\ \A e \in Events \ published : handled[e] = 0
  /\ \A e \in Events : handled[e] <= stops + 1
  /\ \A e \in Events :
       pc \notin Subscribed \/ e \in Queued \cup {current} => handled[e] <= stops

\* What is known of the cursor file where main is.
FileInv ==
  /\ pc = "create" => disk = Absent
  /\ pc = "creating" => disk = Torn
  /\ pc = "connect" => disk \in {lastSeen, Absent, Torn}
  /\ disk = Absent => published = early

\* With true clocks no cursor is ahead of the clock.
ClockInv ==
  ~skewed =>
    /\ \A e \in published : CreatedAt[e] <= clock
    /\ disk \in Nat => disk <= clock
    /\ lastSeen <= clock /\ since <= clock

\* A subscription covers every event from its cursor on.
CoverInv ==
  pc \in Subscribed =>
    \A e \in published :
      CreatedAt[e] >= since => handled[e] > 0 \/ e \in Queued \cup {current}

\* The events before the cursor of the next start, or of this one.
Behind(e) ==
  /\ pc \in Subscribed => e \notin Queued \cup {current}
  /\ pc = "down" => disk \in Nat /\ CreatedAt[e] < disk
  /\ pc \notin Subscribed \cup {"down"} => CreatedAt[e] < lastSeen

PassedInv ==
  ~skewed => \A e \in published \ early : Behind(e) => handled[e] > 0 \/ e \in cut

CursorInv == TypeOK /\ QueueInv /\ CountInv /\ FileInv /\ ClockInv /\ CoverInv /\ PassedInv

LEMMA CursorFacts ==
  /\ \A e \in Events : CreatedAt[e] \in Nat
  /\ Times \subseteq Nat
  /\ Absent \notin Nat /\ Torn \notin Nat /\ Absent # Torn
  /\ NoEvent \notin Events
  /\ MaxTime \in Nat /\ MaxStops \in Nat
<1>1. \A e \in Events : CreatedAt[e] \in Nat
  BY CursorAssumption
<1>2. Times \subseteq Nat
  BY <1>1, CursorAssumption DEF Times
<1> QED BY <1>1, <1>2, CursorAssumption

LEMMA QueuedIs == Queued = backlog \cup Elements(live)
BY DEF Queued, Elements

LEMMA CursorInitInv == Init => CursorInv
<1> SUFFICES ASSUME Init PROVE CursorInv OBVIOUS
<1>1. Queued = {} /\ Elements(live) = {} /\ live \in Seq(Events) /\ Distinct(live)
  BY DEF Init, Queued, Elements, Distinct
<1>2. TypeOK
  <2>1. 0 \in Times /\ 0 \in 0..(MaxStops + 1) /\ 0 \in 0..MaxTime /\ 0 \in 0..MaxStops
    BY CursorFacts DEF Times
  <2> QED BY <1>1, <2>1 DEF Init, TypeOK, Subscribed
<1>3. QueueInv /\ CountInv
  BY <1>1, CursorFacts DEF Init, QueueInv, CountInv, Subscribed
<1>4. FileInv /\ ClockInv /\ CoverInv /\ PassedInv
  BY CursorFacts DEF Init, FileInv, ClockInv, CoverInv, PassedInv, Subscribed
<1> QED BY <1>2, <1>3, <1>4 DEF CursorInv

(***************************************************************************)
(* Steps that leave the subscription alone                                 *)
(***************************************************************************)
LEMMA PublishInv == ASSUME CursorInv, NEW e \in Events, Publish(e) PROVE CursorInv'
<1>1. /\ e \notin published /\ e \notin Queued /\ e # current /\ handled[e] = 0
      /\ Queued \subseteq published /\ published \subseteq Events
  BY CursorFacts DEF CursorInv, TypeOK, CountInv, Publish
<1>2. live \in Seq(Events) /\ Distinct(live) /\ e \notin Elements(live)
  BY <1>1, QueuedIs DEF CursorInv, QueueInv
<1>3. /\ live' \in Seq(Events) /\ Distinct(live')
      /\ IF pc \in Subscribed /\ CreatedAt[e] >= since
         THEN Elements(live') = Elements(live) \cup {e} ELSE live' = live
  BY <1>2, AppendElements DEF Publish
<1>4. Queued' = IF pc \in Subscribed /\ CreatedAt[e] >= since THEN Queued \cup {e} ELSE Queued
  BY <1>3, QueuedIs DEF Publish, Queued, Elements
<1>5. TypeOK'
  BY <1>1, <1>4 DEF CursorInv, TypeOK, Publish
<1>6. QueueInv'
  BY <1>1, <1>3, <1>4, QueuedIs DEF CursorInv, QueueInv, Publish
<1>7. CountInv'
  <2>1. stops \in Nat /\ handled \in [Events -> Nat]
    BY CursorFacts DEF CursorInv, QueueInv, TypeOK
  <2> QED BY <1>1, <1>4, <2>1 DEF CursorInv, CountInv, Publish
<1>8. FileInv'
  BY DEF CursorInv, FileInv, Publish
<1>9. ClockInv'
  <2>1. CreatedAt[e] = clock => CreatedAt[e] <= clock
    BY CursorFacts DEF CursorInv, QueueInv
  <2>2. ~skewed' => CreatedAt[e] = clock /\ ~skewed
    BY Zenon DEF Publish
  <2>3. ~skewed' => CreatedAt[e] <= clock /\ ~skewed
    BY <2>1, <2>2
  <2> QED BY <2>3 DEF CursorInv, ClockInv, Publish
<1>10. CoverInv'
  BY <1>1, <1>4 DEF CursorInv, CoverInv, Publish
<1>11. PassedInv'
  <2> SUFFICES ASSUME ~skewed', NEW f \in published' \ early', Behind(f)'
               PROVE  handled[f] > 0 \/ f \in cut
    BY DEF PassedInv, Publish
  <2>1. CASE f \in published
    BY <2>1, <1>4 DEF CursorInv, PassedInv, Publish, Behind
  <2>2. CASE f = e
    <3>1. CreatedAt[e] = clock /\ disk # Absent /\ ~skewed /\ clock \in Nat
      BY <2>2, <1>1 DEF Publish, CursorInv, TypeOK, QueueInv
    <3>2. lastSeen <= clock /\ since <= clock /\ (disk \in Nat => disk <= clock)
      BY <3>1 DEF CursorInv, ClockInv
    <3>3. lastSeen \in Nat /\ since \in Nat
      BY CursorFacts DEF CursorInv, TypeOK
    <3> QED BY <2>2, <3>1, <3>2, <3>3, <1>4 DEF Behind, Publish
  <2> QED BY <2>1, <2>2 DEF Publish
<1> QED BY <1>5, <1>6, <1>7, <1>8, <1>9, <1>10, <1>11 DEF CursorInv

LEMMA TickInv == ASSUME CursorInv, Tick PROVE CursorInv'
<1>1. Queued' = Queued
  BY DEF Tick, Queued
<1>2. TypeOK' /\ QueueInv'
  BY <1>1, CursorFacts DEF CursorInv, TypeOK, QueueInv, Tick, historyVars
<1>3. ClockInv'
  <2>1. /\ clock \in Nat /\ clock' = clock + 1 /\ lastSeen \in Nat /\ since \in Nat
        /\ \A e \in published : CreatedAt[e] \in Nat
    BY CursorFacts DEF CursorInv, TypeOK, QueueInv, Tick
  <2> QED BY <2>1 DEF CursorInv, ClockInv, Tick, historyVars
<1>4. CountInv' /\ FileInv' /\ CoverInv' /\ PassedInv'
  BY <1>1 DEF CursorInv, CountInv, FileInv, CoverInv, PassedInv, Behind, Tick, historyVars
<1> QED BY <1>2, <1>3, <1>4 DEF CursorInv

LEMMA StartInv == ASSUME CursorInv, LoadCursor \/ FreshCursor PROVE CursorInv'
<1>1. Queued' = Queued /\ Queued = {} /\ current = NoEvent
  BY DEF LoadCursor, FreshCursor, Start, Queued, CursorInv, TypeOK, QueueInv, Subscribed
<1>2. lastSeen' \in Times /\ lastSeen' \in Nat
  BY CursorFacts DEF LoadCursor, FreshCursor, Start, CursorInv, TypeOK, Times
<1>3. TypeOK'
  BY <1>1, <1>2 DEF LoadCursor, FreshCursor, Start, CursorInv, TypeOK, historyVars, Subscribed
<1>4. QueueInv' /\ CountInv' /\ FileInv' /\ CoverInv'
  BY <1>1 DEF LoadCursor, FreshCursor, Start, CursorInv, QueueInv, CountInv, FileInv,
              CoverInv, historyVars, Subscribed
<1>5. ClockInv'
  BY <1>2, CursorFacts DEF LoadCursor, FreshCursor, Start, CursorInv, QueueInv, ClockInv,
                          historyVars
<1>6. PassedInv'
  BY <1>2 DEF LoadCursor, FreshCursor, Start, CursorInv, PassedInv, FileInv, Behind,
              historyVars, Subscribed
<1> QED BY <1>3, <1>4, <1>5, <1>6 DEF CursorInv

LEMMA SaveInv ==
  ASSUME CursorInv,
         NEW from, NEW to, NEW contents, SaveStep(from, to, contents),
         \/ from = "create" /\ to \in {"creating", "connect"}
         \/ from = "creating" /\ to = "connect"
         \/ from = "save" /\ to \in {"saving", "handle"}
         \/ from = "saving" /\ to = "handle",
         to = "creating" => contents = Torn,
         contents \in {disk, Torn, lastSeen}
  PROVE  CursorInv'
<1>1. Queued' = Queued /\ pc = from /\ pc' = to /\ disk' = contents
  BY DEF SaveStep, Queued
<1>2. TypeOK'
  BY <1>1 DEF CursorInv, TypeOK, SaveStep, Subscribed
<1>3. QueueInv' /\ CountInv' /\ CoverInv'
  BY <1>1 DEF CursorInv, QueueInv, CountInv, CoverInv, SaveStep, Subscribed
<1>4. FileInv'
  <2>1. Absent # Torn /\ lastSeen # Absent
    BY CursorFacts DEF CursorInv, TypeOK
  <2> QED BY <2>1, <1>1 DEF CursorInv, FileInv, SaveStep
<1>5. ClockInv'
  <2>1. Torn \notin Nat
    BY CursorFacts
  <2> QED BY <2>1, <1>1 DEF CursorInv, ClockInv, SaveStep
<1>6. PassedInv'
  BY <1>1 DEF CursorInv, PassedInv, Behind, SaveStep, Subscribed
<1> QED BY <1>2, <1>3, <1>4, <1>5, <1>6 DEF CursorInv

LEMMA SubscribeInv == ASSUME CursorInv, Subscribe PROVE CursorInv'
<1>1. /\ pc = "connect" /\ pc' = "wait" /\ Queued = {} /\ Elements(live) = {}
      /\ current = NoEvent /\ NoEvent \notin backlog' /\ backlog' \subseteq published
  <2>1. published \subseteq Events
    BY DEF CursorInv, TypeOK
  <2>2. Queued = {} /\ current = NoEvent
    BY DEF CursorInv, TypeOK, QueueInv, Subscribe, Subscribed
  <2> QED BY <2>1, <2>2, QueuedIs, CursorFacts DEF Subscribe
<1>2. Queued' = backlog' /\ Elements(live') = {}
  BY <1>1 DEF Subscribe, Queued, Elements
<1>3. TypeOK'
  BY <1>1, <1>2 DEF CursorInv, TypeOK, Subscribe, historyVars, Subscribed
<1>4. QueueInv'
  <2>1. backlog' \in SUBSET Events
    BY <1>1 DEF CursorInv, TypeOK
  <2> QED BY <1>1, <1>2, <2>1 DEF CursorInv, QueueInv, Subscribe, historyVars, Subscribed
<1>5. CountInv'
  <2>1. \A e \in Events : handled[e] <= stops
    BY <1>1 DEF CursorInv, CountInv, Subscribed
  <2>2. handled' = handled /\ stops' = stops /\ published' = published
    BY DEF Subscribe
  <2> QED BY <2>1, <2>2 DEF CursorInv, CountInv
<1>6. FileInv' /\ ClockInv'
  BY DEF CursorInv, FileInv, ClockInv, Subscribe, historyVars
<1>7. CoverInv'
  BY <1>2 DEF CoverInv, Subscribe
<1>8. PassedInv'
  <2> SUFFICES ASSUME ~skewed, NEW e \in published \ early, e \notin backlog'
               PROVE  handled[e] > 0 \/ e \in cut
    BY <1>1, <1>2 DEF PassedInv, Behind, Subscribe, historyVars, Subscribed
  <2>1. CreatedAt[e] < lastSeen
    BY CursorFacts DEF CursorInv, TypeOK, Subscribe
  <2> QED BY <2>1, <1>1 DEF CursorInv, PassedInv, Behind, Subscribed
<1> QED BY <1>3, <1>4, <1>5, <1>6, <1>7, <1>8 DEF CursorInv

(***************************************************************************)
(* The loop                                                                *)
(***************************************************************************)
\* Either kind of receive moves one event from the queue into main's hands.
LEMMA TakeInv ==
  ASSUME CursorInv, NEW e \in Queued, Take(e),
         Queued' = Queued \ {e},
         backlog' \subseteq backlog, live' \in Seq(Events), Distinct(live'),
         Elements(live') \subseteq Elements(live),
         UNCHANGED <<clock, disk, since, published, handled, historyVars, stops>>
  PROVE  CursorInv'
<1>1. /\ pc = "wait" /\ pc' \in {"save", "handle"} /\ current = NoEvent /\ current' = e
      /\ e \in published /\ e \in Events /\ e # NoEvent
  BY CursorFacts DEF CursorInv, TypeOK, Take
<1>2. Queued \cup {current} = (Queued' \cup {current'}) \cup {NoEvent}
  BY <1>1
<1>3. lastSeen' \in {lastSeen, CreatedAt[e]} /\ CreatedAt[e] \in Times
  BY <1>1 DEF Take, Times
<1>4. TypeOK'
  BY <1>1, <1>3 DEF CursorInv, TypeOK, historyVars, Subscribed
<1>5. QueueInv'
  BY <1>1 DEF CursorInv, QueueInv, Subscribed
<1>6. NoEvent \notin published /\ NoEvent \notin Events
  BY CursorFacts DEF CursorInv, TypeOK
<1>7. CountInv'
  BY <1>1, <1>2, <1>6 DEF CursorInv, CountInv, Subscribed
<1>8. FileInv' /\ ClockInv'
  BY <1>1, <1>3 DEF CursorInv, FileInv, ClockInv, historyVars
<1>9. CoverInv'
  BY <1>1, <1>2, <1>6 DEF CursorInv, CoverInv, Subscribed
<1>10. PassedInv'
  BY <1>1, <1>2, <1>6 DEF CursorInv, PassedInv, Behind, Subscribed, historyVars
<1> QED BY <1>4, <1>5, <1>7, <1>8, <1>9, <1>10 DEF CursorInv

LEMMA ReceiveStoredInv ==
  ASSUME CursorInv, NEW e \in Events, ReceiveStored(e)
  PROVE  CursorInv'
<1>1. e \in Queued /\ Elements(live') = Elements(live) /\ e \notin Elements(live)
  BY QueuedIs DEF CursorInv, QueueInv, ReceiveStored
<1>2. Queued' = Queued \ {e}
  <2>1. Queued' = backlog' \cup Elements(live)
    BY <1>1 DEF Queued, Elements, ReceiveStored
  <2> QED BY <2>1, <1>1, QueuedIs DEF ReceiveStored
<1>3. live' \in Seq(Events) /\ Distinct(live') /\ backlog' \subseteq backlog
  BY DEF CursorInv, QueueInv, ReceiveStored
<1> QED BY <1>1, <1>2, <1>3, TakeInv DEF ReceiveStored

LEMMA ReceiveLiveInv == ASSUME CursorInv, ReceiveLive PROVE CursorInv'
<1>1. live \in Seq(Events) /\ Distinct(live) /\ live # <<>> /\ live' = Tail(live)
  BY DEF CursorInv, QueueInv, ReceiveLive
<1>2. /\ live' \in Seq(Events) /\ Distinct(live') /\ Head(live) \in Elements(live)
      /\ Elements(live') = Elements(live) \ {Head(live)}
  BY <1>1, TailElements
<1>3. Head(live) \in Queued /\ Head(live) \notin backlog
  BY <1>2, QueuedIs DEF CursorInv, QueueInv
<1>4. Queued' = Queued \ {Head(live)}
  <2>1. Queued' = backlog \cup Elements(live')
    BY DEF Queued, Elements, ReceiveLive
  <2> QED BY <2>1, <1>2, <1>3, QueuedIs
<1> QED BY <1>2, <1>3, <1>4, TakeInv DEF ReceiveLive

LEMMA HandleInv == ASSUME CursorInv, Handle PROVE CursorInv'
<1>1. /\ Queued' = Queued /\ pc = "handle" /\ pc' = "wait" /\ current' = NoEvent
      /\ current \in published /\ current \in Events /\ current \notin Queued
  BY DEF CursorInv, TypeOK, QueueInv, Handle, Queued
<1>2. stops \in Nat /\ handled \in [Events -> Nat] /\ handled[current] <= stops
      /\ stops <= MaxStops /\ MaxStops \in Nat
  BY <1>1, CursorFacts DEF CursorInv, CountInv, QueueInv, TypeOK, Subscribed
<1>3. /\ handled'[current] = handled[current] + 1
      /\ \A e \in Events \ {current} : handled'[e] = handled[e]
      /\ handled' \in [Events -> Nat]
  BY <1>1, <1>2 DEF Handle
<1>4. TypeOK'
  <2>1. handled' \in [Events -> 0..(MaxStops + 1)]
    BY <1>1, <1>2, <1>3 DEF CursorInv, TypeOK
  <2> QED BY <1>1, <2>1 DEF CursorInv, TypeOK, Handle, historyVars, Subscribed
<1>5. QueueInv'
  <2>1. NoEvent \notin Queued
    BY CursorFacts DEF CursorInv, TypeOK
  <2> QED BY <1>1, <2>1 DEF CursorInv, QueueInv, Handle, historyVars, Subscribed
<1>6. CountInv'
  <2>1. NoEvent \notin Events /\ Queued \subseteq Events /\ published \subseteq Events
    BY CursorFacts DEF CursorInv, TypeOK
  <2>2. \A e \in Events : handled'[e] <= stops + 1
    BY <1>1, <1>2, <1>3 DEF CursorInv, CountInv
  <2>3. \A e \in Queued : handled'[e] <= stops
    BY <1>1, <1>3, <2>1 DEF CursorInv, CountInv
  <2>4. \A e \in Events \ published : handled'[e] = 0
    BY <1>1, <1>3 DEF CursorInv, CountInv
  <2> QED BY <1>1, <2>1, <2>2, <2>3, <2>4 DEF CountInv, Handle, historyVars, Subscribed
<1>7. FileInv' /\ ClockInv'
  BY <1>1 DEF CursorInv, FileInv, ClockInv, Handle, historyVars
<1>8. CoverInv'
  BY <1>1, <1>2, <1>3 DEF CursorInv, TypeOK, CoverInv, Handle, historyVars, Subscribed
<1>9. PassedInv'
  BY <1>1, <1>2, <1>3 DEF CursorInv, TypeOK, PassedInv, Behind, Handle, historyVars, Subscribed
<1> QED BY <1>4, <1>5, <1>6, <1>7, <1>8, <1>9 DEF CursorInv

LEMMA StopInv == ASSUME CursorInv, Stop PROVE CursorInv'
<1>1. /\ Queued' = {} /\ pc # "down" /\ pc' = "down" /\ current' = NoEvent
      /\ Queued \subseteq published /\ current \in published \cup {NoEvent}
      /\ live' \in Seq(Events) /\ Distinct(live') /\ Elements(live') = {}
  BY DEF Stop, Queued, CursorInv, TypeOK, Distinct, Elements
<1>2. stops \in Nat /\ stops' = stops + 1 /\ stops < MaxStops /\ MaxStops \in Nat
  BY CursorFacts DEF CursorInv, QueueInv, Stop, TypeOK
<1>3. TypeOK'
  <2>1. 0 \in Times /\ stops' \in 0..MaxStops
    BY <1>2, CursorFacts DEF Times
  <2> QED BY <1>1, <2>1 DEF CursorInv, TypeOK, Stop, Subscribed
<1>4. QueueInv'
  BY <1>1, <1>2 DEF CursorInv, QueueInv, Stop
<1>5. CountInv'
  <2>1. handled \in [Events -> Nat]
    BY CursorFacts DEF CursorInv, TypeOK
  <2> QED BY <1>1, <1>2, <2>1 DEF CursorInv, CountInv, Stop, Subscribed
<1>6. FileInv' /\ CoverInv'
  BY <1>1 DEF CursorInv, FileInv, CoverInv, Stop, Subscribed
<1>7. ClockInv'
  BY DEF CursorInv, ClockInv, QueueInv, Stop
<1>8. PassedInv'
  <2> SUFFICES ASSUME ~skewed, NEW e \in published \ early, disk \in Nat, CreatedAt[e] < disk
               PROVE  handled[e] > 0 \/ e \in cut'
    BY <1>1 DEF PassedInv, Behind, Stop, Subscribed
  <2>1. CASE pc \in Subscribed
    BY <2>1, CursorFacts DEF CursorInv, TypeOK, PassedInv, Behind, Stop, Subscribed
  <2>2. CASE pc \notin Subscribed
    <3>1. disk = lastSeen
      BY <1>1, <2>2, CursorFacts DEF CursorInv, TypeOK, FileInv
    <3> QED BY <3>1, <2>2, <1>1 DEF CursorInv, PassedInv, Behind, Stop, Subscribed
  <2> QED BY <2>1, <2>2
<1> QED BY <1>3, <1>4, <1>5, <1>6, <1>7, <1>8 DEF CursorInv

LEMMA CursorStepInv == CursorInv /\ [Next]_vars => CursorInv'
<1> SUFFICES ASSUME CursorInv, [Next]_vars PROVE CursorInv' OBVIOUS
<1>1. CASE Tick
  BY <1>1, TickInv
<1>2. CASE \E e \in Events : Publish(e) \/ ReceiveStored(e)
  BY <1>2, PublishInv, ReceiveStoredInv
<1>3. CASE LoadCursor \/ FreshCursor
  BY <1>3, StartInv
<1>4. CASE SaveFresh
  BY <1>4, SaveInv DEF SaveFresh, Truncate, Write
<1>5. CASE Save
  BY <1>5, SaveInv DEF Save, Truncate, Write
<1>6. CASE Subscribe
  BY <1>6, SubscribeInv
<1>7. CASE ReceiveLive
  BY <1>7, ReceiveLiveInv
<1>8. CASE Handle
  BY <1>8, HandleInv
<1>9. CASE Stop
  BY <1>9, StopInv
<1>10. CASE UNCHANGED vars
  <2>1. Queued' = Queued /\ Elements(live') = Elements(live)
    BY <1>10 DEF vars, Queued, Elements
  <2> QED BY <1>10, <2>1 DEF vars, historyVars, CursorInv, TypeOK, QueueInv, CountInv,
                             FileInv, ClockInv, CoverInv, PassedInv, Behind, Distinct
<1> QED BY <1>1, <1>2, <1>3, <1>4, <1>5, <1>6, <1>7, <1>8, <1>9, <1>10
        DEF Next, LoadFails

LEMMA CursorInvariant == Spec => []CursorInv
<1> QED BY CursorInitInv, CursorStepInv, PTL DEF Spec

\* Types, and that each process handles an event at most once.
THEOREM NotifyCursorTypeCorrect == Spec => []TypeOK
<1>1. CursorInv => TypeOK
  BY DEF CursorInv
<1> QED BY <1>1, CursorInvariant, PTL

\* An event is missed only if a process died while it was in the subscription
\* and the next one starts from a later cursor.
THEOREM OnlyCutEventsAreLost == Spec => []LostOnlyIfCut
<1>1. CursorInv => LostOnlyIfCut
  <2> SUFFICES ASSUME CursorInv, ~skewed, pc \in Subscribed, NEW e \in published \ early,
                      e \notin Queued \cup {current}, ~(handled[e] > 0)
               PROVE  e \in cut /\ CreatedAt[e] < since
    BY DEF LostOnlyIfCut
  <2>1. e \in cut
    BY DEF CursorInv, PassedInv, Behind, Subscribed
  <2>2. ~(CreatedAt[e] >= since)
    BY DEF CursorInv, CoverInv
  <2> QED BY <2>1, <2>2, CursorFacts DEF CursorInv, TypeOK
<1> QED BY <1>1, CursorInvariant, PTL
(***************************************************************************)
(* Redelivery: while the file can be written, the cursor is at or after    *)
(* every event that was handled, so a start asks again only for its own    *)
(* second.                                                                 *)
(***************************************************************************)
InLoop == Queued \cup ({current} \ {NoEvent})

FromSince ==
  /\ \A e \in InLoop : CreatedAt[e] >= since
  /\ pc \in {"save", "saving", "handle"} => CreatedAt[current] <= lastSeen

HandledBy(t) == \A e \in Events : handled[e] > 0 => CreatedAt[e] <= t

SavedInv ==
  ~failed =>
    /\ disk \in Nat => HandledBy(disk)
    /\ pc \in {"connect"} \cup Subscribed => disk # Absent /\ HandledBy(lastSeen)
    /\ pc \in {"connect", "wait", "handle"} => disk = lastSeen
    /\ disk = Absent \/ pc = "creating" => \A e \in Events : handled[e] = 0
    /\ \A e \in InLoop : handled[e] > 0 => CreatedAt[e] <= since

RedeliveryInv == CursorInv /\ FromSince /\ SavedInv

LEMMA LoopFacts ==
  ASSUME CursorInv
  PROVE  /\ InLoop \subseteq Events /\ Queued \subseteq Events
         /\ handled \in [Events -> Nat] /\ lastSeen \in Nat /\ since \in Nat
         /\ pc \notin Subscribed => InLoop = {}
         /\ pc = "wait" => InLoop = Queued
         /\ pc = "handle" => current \in InLoop /\ current \in Events
                             /\ InLoop = Queued \cup {current} /\ current \notin Queued
<1>1. /\ Queued \subseteq Events /\ current \in Events \cup {NoEvent} /\ NoEvent \notin Events
      /\ current \notin Queued
      /\ pc \notin Subscribed => Queued = {}
      /\ current = NoEvent <=> pc \notin {"save", "saving", "handle"}
  BY CursorFacts DEF CursorInv, TypeOK, QueueInv
<1>2. InLoop \subseteq Events
  BY <1>1 DEF InLoop
<1>3. pc \notin Subscribed => InLoop = {}
  BY <1>1 DEF InLoop, Subscribed
<1>4. pc = "wait" => InLoop = Queued
  BY <1>1 DEF InLoop
<1>5. pc = "handle" => current \in InLoop /\ current \in Events /\ InLoop = Queued \cup {current}
  BY <1>1 DEF InLoop
<1>6. handled \in [Events -> Nat] /\ lastSeen \in Nat /\ since \in Nat
  BY CursorFacts DEF CursorInv, TypeOK
<1> QED BY <1>1, <1>2, <1>3, <1>4, <1>5, <1>6

LEMMA RedeliveryInit == Init => RedeliveryInv
<1> SUFFICES ASSUME Init PROVE RedeliveryInv OBVIOUS
<1>1. CursorInv
  BY CursorInitInv
<1>2. InLoop = {}
  BY <1>1, LoopFacts DEF Init, Subscribed
<1> QED BY <1>1, <1>2, CursorFacts
        DEF Init, RedeliveryInv, FromSince, SavedInv, HandledBy, Subscribed

LEMMA RedeliveryStep == RedeliveryInv /\ [Next]_vars => RedeliveryInv'
<1> SUFFICES ASSUME RedeliveryInv, [Next]_vars PROVE RedeliveryInv' OBVIOUS
<1> USE DEF RedeliveryInv
<1>0. CursorInv' /\ CursorInv
  BY CursorStepInv
<1>a. \A e \in Events : CreatedAt[e] \in Nat
  BY CursorFacts
<1>1. CASE \E e \in Events : Publish(e)
  <2> PICK e \in Events : Publish(e)
    BY <1>1
  <2>1. handled[e] = 0 /\ e \notin published
    BY DEF CursorInv, CountInv, Publish
  <2>2. InLoop' \subseteq InLoop \cup {e} /\ (e \in InLoop' => CreatedAt[e] >= since)
    <3>1. /\ live \in Seq(Events) /\ e \notin InLoop
          /\ Elements(live') = Elements(live)
             \/ (CreatedAt[e] >= since /\ Elements(live') = Elements(live) \cup {e})
      BY <2>1, AppendElements, LoopFacts, CursorFacts
         DEF CursorInv, TypeOK, QueueInv, Publish, InLoop
    <3>2. Queued' = backlog \cup Elements(live')
      BY DEF Queued, Elements, Publish
    <3> QED BY <3>1, <3>2, QueuedIs DEF InLoop, Publish
  <2>3. FromSince'
    BY <2>2 DEF FromSince, Publish
  <2>4. SavedInv'
    BY <2>1, <2>2 DEF SavedInv, HandledBy, Publish
  <2> QED BY <1>0, <2>3, <2>4
<1>2. CASE Tick \/ UNCHANGED vars
  <2>1. InLoop' = InLoop
    BY <1>2 DEF Tick, vars, InLoop, Queued
  <2> QED BY <1>0, <1>2, <2>1
          DEF Tick, vars, historyVars, FromSince, SavedInv, HandledBy
<1>3. CASE LoadCursor \/ FreshCursor
  <2>1. InLoop' = {} /\ pc' \in {"connect", "create"} /\ UNCHANGED <<disk, handled, failed>>
    BY <1>0, <1>3, LoopFacts
       DEF LoadCursor, FreshCursor, Start, historyVars, Subscribed, InLoop, Queued
  <2>2. pc' = "connect" => disk \in Nat /\ lastSeen' = disk /\ disk # Absent
    BY <1>3, CursorFacts DEF LoadCursor, FreshCursor, Start, CursorInv, TypeOK
  <2>3. FromSince'
    BY <2>1 DEF FromSince
  <2>4. SavedInv'
    BY <2>1, <2>2 DEF SavedInv, HandledBy, Subscribed
  <2> QED BY <1>0, <2>3, <2>4
<1>4. ASSUME NEW from, NEW to, NEW contents, SaveStep(from, to, contents),
             \/ from = "create" /\ to \in {"creating", "connect"}
             \/ from = "creating" /\ to = "connect"
             \/ from = "save" /\ to \in {"saving", "handle"}
             \/ from = "saving" /\ to = "handle",
             contents = disk \/ contents = (IF to \in {"creating", "saving"} THEN Torn
                                           ELSE lastSeen)
      PROVE  RedeliveryInv'
  <2>1. InLoop' = InLoop /\ pc = from /\ pc' = to /\ disk' = contents
        /\ UNCHANGED <<handled, lastSeen, since, current>>
    BY <1>4 DEF SaveStep, InLoop, Queued
  <2>2. FromSince'
    BY <1>4, <2>1, LoopFacts DEF FromSince, Subscribed
  <2>3. SavedInv'
    <3> SUFFICES ASSUME ~failed' PROVE SavedInv'
      BY DEF SavedInv
    <3>1. contents # disk /\ ~failed
      BY <1>4, Zenon DEF SaveStep
    <3>2. contents = IF to \in {"creating", "saving"} THEN Torn ELSE lastSeen
      BY <1>4, <3>1
    <3>3. Torn \notin Nat /\ Torn # Absent /\ lastSeen # Absent
      BY CursorFacts, LoopFacts
    <3>4. HandledBy(lastSeen)
      <4>1. CASE from \in {"create", "creating"}
        BY <2>1, <3>1, <4>1 DEF SavedInv, HandledBy, CursorInv, FileInv
      <4>2. CASE from \in {"save", "saving"}
        BY <2>1, <3>1, <4>2 DEF SavedInv, Subscribed
      <4> QED BY <1>4, <4>1, <4>2
    <3>5. to = "creating" => \A e \in Events : handled[e] = 0
      BY <1>4, <2>1, <3>1 DEF SavedInv, CursorInv, FileInv
    <3> QED BY <1>4, <2>1, <3>1, <3>2, <3>3, <3>4, <3>5
            DEF SavedInv, HandledBy, Subscribed
  <2> QED BY <1>0, <2>2, <2>3
<1>5. CASE SaveFresh \/ Save
  BY <1>5, <1>4 DEF SaveFresh, Save, Truncate, Write
<1>6. CASE Subscribe
  <2>1. InLoop' = backlog' /\ pc = "connect" /\ pc' = "wait" /\ since' = lastSeen
        /\ UNCHANGED <<disk, handled, failed, lastSeen>>
        /\ (\A e \in backlog' : e \in Events /\ CreatedAt[e] >= lastSeen)
    <3>1. live = <<>> \/ Elements(live) = {}
      BY <1>6, QueuedIs DEF CursorInv, QueueInv, Subscribe, Subscribed
    <3>2. current = NoEvent /\ published \subseteq Events
      BY <1>6 DEF CursorInv, TypeOK, Subscribe
    <3>3. Queued' = backlog' /\ NoEvent \notin backlog'
      BY <1>6, <3>1, <3>2, CursorFacts DEF Subscribe, Queued, Elements
    <3> QED BY <1>6, <3>2, <3>3 DEF Subscribe, historyVars, InLoop
  <2>2. FromSince'
    BY <2>1 DEF FromSince
  <2>3. SavedInv'
    BY <2>1 DEF SavedInv, HandledBy, Subscribed
  <2> QED BY <1>0, <2>2, <2>3
<1>7. ASSUME NEW e \in Queued, Take(e), InLoop' \subseteq InLoop,
             UNCHANGED <<disk, since, handled, historyVars>>
      PROVE  RedeliveryInv'
  <2>1. /\ e \in Events /\ pc = "wait" /\ current' = e
        /\ lastSeen' >= lastSeen /\ CreatedAt[e] <= lastSeen'
        /\ pc' = "save" \/ (pc' = "handle" /\ lastSeen' = lastSeen)
    BY <1>7, <1>0, <1>a, LoopFacts DEF Take
  <2>2. FromSince'
    BY <1>7, <2>1 DEF FromSince
  <2>3. lastSeen' \in Nat /\ lastSeen \in Nat
    BY <1>7, <1>a, <2>1, LoopFacts DEF Take
  <2>4. HandledBy(lastSeen) => HandledBy(lastSeen')
    BY <2>1, <2>3, <1>a DEF HandledBy
  <2>5. SavedInv'
    BY <1>7, <2>1, <2>4 DEF SavedInv, HandledBy, Subscribed, historyVars
  <2> QED BY <1>0, <2>2, <2>5
<1>8. CASE \E e \in Events : ReceiveStored(e)
  <2> PICK e \in Events : ReceiveStored(e)
    BY <1>8
  <2>1. e \in Queued /\ Queued' \subseteq Queued /\ current' = e
    BY DEF ReceiveStored, Take, Queued
  <2>2. InLoop' \subseteq InLoop
    BY <2>1, CursorFacts DEF InLoop
  <2> QED BY <1>7, <2>1, <2>2 DEF ReceiveStored
<1>9. CASE ReceiveLive
  <2>1. live \in Seq(Events) /\ live # <<>> /\ Distinct(live)
    BY <1>9 DEF CursorInv, QueueInv, ReceiveLive
  <2>2. Head(live) \in Elements(live) /\ Elements(Tail(live)) \subseteq Elements(live)
    BY <2>1, TailElements
  <2>3. Queued' = backlog \cup Elements(Tail(live)) /\ current' = Head(live)
    BY <1>9 DEF ReceiveLive, Take, Queued, Elements
  <2>4. Head(live) \in Queued /\ InLoop' \subseteq InLoop
    BY <2>2, <2>3, QueuedIs DEF InLoop
  <2> QED BY <1>7, <1>9, <2>4 DEF ReceiveLive
<1>10. CASE Handle
  <2>1. /\ pc = "handle" /\ pc' = "wait" /\ current' = NoEvent /\ Queued' = Queued
        /\ UNCHANGED <<disk, since, lastSeen, failed>>
        /\ \A e \in Events \ {current} : handled'[e] = handled[e]
        /\ current \in Events /\ current \notin Queued /\ InLoop = Queued \cup {current}
        /\ CreatedAt[current] <= lastSeen
    BY <1>10, LoopFacts DEF Handle, historyVars, Queued, FromSince
  <2>2. InLoop' = Queued /\ Queued \subseteq Events /\ InLoop' \subseteq InLoop
    BY <2>1, CursorFacts, LoopFacts DEF InLoop
  <2>3. FromSince'
    BY <2>1, <2>2 DEF FromSince
  <2>4. ~failed => HandledBy(lastSeen)'
    BY <2>1 DEF SavedInv, HandledBy, Subscribed
  <2>5. SavedInv'
    <3> SUFFICES ASSUME ~failed PROVE SavedInv'
      BY <2>1 DEF SavedInv
    <3>1. disk = lastSeen /\ disk # Absent
      BY <2>1 DEF SavedInv, Subscribed
    <3>2. HandledBy(disk)' /\ HandledBy(lastSeen)'
      BY <2>1, <2>4, <3>1 DEF HandledBy
    <3>3. \A e \in InLoop' : handled'[e] > 0 => CreatedAt[e] <= since
      BY <2>1, <2>2 DEF SavedInv
    <3> QED BY <2>1, <3>1, <3>2, <3>3 DEF SavedInv
  <2> QED BY <1>0, <2>3, <2>5
<1>11. CASE Stop
  <2>1. InLoop' = {} /\ pc' = "down" /\ UNCHANGED <<disk, handled, failed>>
    BY <1>11 DEF Stop, InLoop, Queued
  <2> QED BY <1>0, <2>1 DEF FromSince, SavedInv, HandledBy, Subscribed
<1> QED BY <1>1, <1>2, <1>3, <1>5, <1>6, <1>8, <1>9, <1>10, <1>11 DEF Next, LoadFails

\* While the cursor file can be written, only events of the cursor's own second
\* are handled again.
THEOREM OnlyOwnSecondAgain == Spec => RedeliveryOnlyAtCursor
<1>1. RedeliveryInv /\ [Next]_vars
        => [(~failed /\ Handle /\ handled[current] > 0) => CreatedAt[current] = since]_vars
  <2> SUFFICES ASSUME RedeliveryInv, ~failed, Handle, handled[current] > 0
               PROVE  CreatedAt[current] = since
    OBVIOUS
  <2>1. current \in InLoop /\ current \in Events /\ since \in Nat
    BY LoopFacts DEF RedeliveryInv, Handle
  <2>2. CreatedAt[current] >= since /\ CreatedAt[current] <= since
    BY <2>1 DEF RedeliveryInv, FromSince, SavedInv
  <2> QED BY <2>1, <2>2, CursorFacts
<1>2. Spec => []RedeliveryInv
  BY RedeliveryInit, RedeliveryStep, PTL DEF Spec
<1> QED BY <1>1, <1>2, PTL DEF Spec, RedeliveryOnlyAtCursor
(***************************************************************************)
(* The service: it is the loop with the queues added, and the queues lose  *)
(* nothing.                                                                *)
(***************************************************************************)
LEMMA StepIsCursorStep == ServiceNext => [Next]_vars
BY DEF ServiceNext, Elsewhere, MainStep, HandleEvent, DigestStep,
       FlushTakes, FlushSends, Exit, Next

\* The service implements the subscription loop: what is proved of the loop is
\* true of the service.
THEOREM ServiceImplementsLoop == ServiceSpec => Spec
<1>1. ServiceInit => Init
  BY DEF ServiceInit
<1>2. [ServiceNext]_serviceVars => [Next]_vars
  BY StepIsCursorStep DEF serviceVars
<1> QED BY <1>1, <1>2, PTL DEF ServiceSpec, Spec

LEMMA CopiesOfNone == \A e : Copies(e, <<>>) = 0
<1> SUFFICES ASSUME NEW e PROVE Copies(e, <<>>) = 0 OBVIOUS
<1>1. {i \in DOMAIN <<>> : <<>>[i] = e} = {}
  OBVIOUS
<1> QED BY <1>1, FS_EmptySet DEF Copies

LEMMA CopiesAppended ==
  ASSUME NEW q \in Seq(Events), NEW x \in Events, NEW e \in Events
  PROVE  /\ Copies(e, q) \in Nat
         /\ Copies(e, Append(q, x)) = Copies(e, q) + (IF e = x THEN 1 ELSE 0)
<1> DEFINE at(s) == {i \in DOMAIN s : s[i] = e}
<1>1. /\ DOMAIN q = 1..Len(q) /\ DOMAIN Append(q, x) = 1..(Len(q) + 1) /\ Len(q) \in Nat
      /\ Append(q, x)[Len(q) + 1] = x
      /\ \A i \in 1..Len(q) : Append(q, x)[i] = q[i]
  OBVIOUS
<1>0. Copies(e, q) = Cardinality(at(q)) /\ Copies(e, Append(q, x)) = Cardinality(at(Append(q, x)))
  BY DEF Copies
<1>2. IsFiniteSet(at(q))
  <2>1. IsFiniteSet(1..Len(q))
    BY <1>1, FS_Interval
  <2>2. at(q) \in SUBSET (1..Len(q))
    BY <1>1
  <2> QED BY <2>1, <2>2, FS_Subset
<1>3. Cardinality(at(q)) \in Nat
  BY <1>2, FS_CardinalityType
<1>4. 1..(Len(q) + 1) = 1..Len(q) \cup {Len(q) + 1} /\ Len(q) + 1 \notin 1..Len(q)
  BY <1>1
<1>5. CASE e = x
  <2>1. at(Append(q, x)) = at(q) \cup {Len(q) + 1} /\ Len(q) + 1 \notin at(q)
    BY <1>1, <1>4, <1>5
  <2>2. Cardinality(at(Append(q, x))) = Cardinality(at(q)) + 1
    BY <1>2, <2>1, FS_AddElement
  <2> HIDE DEF at
  <2> QED BY <1>0, <1>3, <1>5, <2>2
<1>6. CASE e # x
  <2>1. at(Append(q, x)) = at(q)
    BY <1>1, <1>4, <1>6
  <2> HIDE DEF at
  <2> QED BY <1>0, <1>3, <1>6, <2>1
<1> QED BY <1>5, <1>6

Queueable == {e \in Events : Delivery[e] = "summary"}

\* The types of the queues without the bounds that the accounting gives.
QueuesInv ==
  /\ pending \in Seq(Queueable) /\ batch \in Seq(Queueable)
  /\ sent \in [Events -> Nat] /\ forgotten \in [Events -> Nat]
  /\ pc \notin Subscribed => pending = <<>> /\ batch = <<>>
  /\ \A e \in Events : forgotten[e] <= stops
  /\ \A e \in Events : Delivery[e] = "none" => sent[e] = 0

ServiceInv == CursorInv /\ QueuesInv /\ EveryHandlingAccounted

LEMMA WaitingType ==
  ASSUME ServiceInv, NEW e \in Events
  PROVE  /\ Copies(e, pending) \in Nat /\ Copies(e, batch) \in Nat /\ Waiting(e) \in Nat
         /\ handled[e] \in Nat /\ handled[e] <= stops + 1 /\ sent[e] \in Nat
         /\ forgotten[e] \in Nat /\ stops \in Nat
<1>1. pending \in Seq(Events) /\ batch \in Seq(Events)
  BY DEF ServiceInv, QueuesInv, Queueable
<1>2. Copies(e, pending) \in Nat /\ Copies(e, batch) \in Nat
  BY <1>1, CopiesAppended
<1>3. handled[e] \in Nat /\ handled[e] <= stops + 1 /\ stops \in Nat
  BY LoopFacts DEF ServiceInv, CursorInv, CountInv, QueueInv
<1>4. sent[e] \in Nat /\ forgotten[e] \in Nat
  BY DEF ServiceInv, QueuesInv
<1> QED BY <1>2, <1>3, <1>4 DEF Waiting

LEMMA ServiceInitInv == ServiceInit => ServiceInv
<1> SUFFICES ASSUME ServiceInit PROVE ServiceInv OBVIOUS
<1>1. CursorInv
  BY CursorInitInv DEF ServiceInit
<1>2. \A e \in Events : Waiting(e) = 0
  <2> SUFFICES ASSUME NEW e \in Events PROVE Waiting(e) = 0
    OBVIOUS
  <2>1. Copies(e, pending) = 0
    BY CopiesOfNone, Zenon DEF ServiceInit
  <2>2. Copies(e, batch) = 0
    BY CopiesOfNone, Zenon DEF ServiceInit
  <2> QED BY <2>1, <2>2 DEF Waiting
<1>3. stops = 0
  BY DEF ServiceInit, Init
<1> QED BY <1>1, <1>2, <1>3
        DEF ServiceInit, Init, ServiceInv, QueuesInv, EveryHandlingAccounted

LEMMA QueuesUnchanged ==
  ASSUME ServiceInv, CursorInv', UNCHANGED <<digestVars, handled>>, stops' = stops,
         pc' \in Subscribed \/ pc \notin Subscribed
  PROVE  ServiceInv'
<1>1. \A e \in Events : Waiting(e)' = Waiting(e)
  BY DEF digestVars, Waiting, Copies
<1> QED BY <1>1 DEF ServiceInv, QueuesInv, EveryHandlingAccounted, digestVars

LEMMA HandleEventInv == ASSUME ServiceInv, CursorInv', HandleEvent PROVE ServiceInv'
<1>1. /\ Handle /\ current \in Events /\ pc' = "wait" /\ stops' = stops
      /\ handled \in [Events -> Nat]
      /\ handled' = [handled EXCEPT ![current] = @ + 1]
  BY LoopFacts DEF HandleEvent, Handle, ServiceInv
<1>2. CASE Delivery[current] = "immediate"
  <2>1. QueuesInv'
    BY <1>1, <1>2 DEF ServiceInv, QueuesInv, HandleEvent, Subscribed
  <2>2. ASSUME NEW e \in Events, Delivery[e] # "none"
        PROVE  handled'[e] = sent'[e] + Waiting(e)' + forgotten'[e]
    <3>1. Waiting(e)' = Waiting(e) /\ forgotten' = forgotten
      BY <1>2 DEF HandleEvent, Waiting, Copies
    <3>2. CASE e = current
      BY <1>1, <1>2, <2>2, <3>1, <3>2, WaitingType
         DEF HandleEvent, ServiceInv, QueuesInv, EveryHandlingAccounted
    <3>3. CASE e # current
      BY <1>1, <1>2, <2>2, <3>1, <3>3
         DEF HandleEvent, ServiceInv, QueuesInv, EveryHandlingAccounted
    <3> QED BY <3>2, <3>3
  <2> QED BY <2>1, <2>2 DEF ServiceInv, EveryHandlingAccounted
<1>3. CASE Delivery[current] = "summary"
  <2>1. pending \in Seq(Events) /\ pending' = Append(pending, current)
        /\ current \in Queueable /\ UNCHANGED <<batch, sent, forgotten>>
    BY <1>1, <1>3 DEF ServiceInv, QueuesInv, Queueable, HandleEvent
  <2>2. QueuesInv'
    BY <1>1, <2>1 DEF ServiceInv, QueuesInv, Subscribed
  <2>3. ASSUME NEW e \in Events, Delivery[e] # "none"
        PROVE  handled'[e] = sent'[e] + Waiting(e)' + forgotten'[e]
    <3>1. Copies(e, pending)' = Copies(e, pending) + (IF e = current THEN 1 ELSE 0)
      <4>1. Copies(e, pending)' = Copies(e, Append(pending, current))
        BY <2>1 DEF Copies
      <4> QED BY <1>1, <2>1, <4>1, CopiesAppended
    <3>2. Copies(e, batch)' = Copies(e, batch)
      BY <2>1 DEF Copies
    <3>3. handled[e] = sent[e] + (Copies(e, pending) + Copies(e, batch)) + forgotten[e]
      BY <2>3 DEF ServiceInv, EveryHandlingAccounted, Waiting
    <3>4. handled'[e] = handled[e] + (IF e = current THEN 1 ELSE 0)
      BY <1>1
    <3>5. Waiting(e)' = Copies(e, pending)' + Copies(e, batch)'
      BY DEF Waiting
    <3> QED BY <2>1, <3>1, <3>2, <3>3, <3>4, <3>5, WaitingType
  <2> QED BY <2>2, <2>3 DEF ServiceInv, EveryHandlingAccounted
<1>4. CASE Delivery[current] = "none"
  <2>1. \A e \in Events : Waiting(e)' = Waiting(e)
    BY <1>4 DEF HandleEvent, Waiting, Copies
  <2>2. \A e \in Events : Delivery[e] # "none" => handled'[e] = handled[e]
    BY <1>1, <1>4
  <2> QED BY <1>1, <1>4, <2>1, <2>2
          DEF ServiceInv, QueuesInv, EveryHandlingAccounted, HandleEvent, Subscribed
<1> QED BY <1>1, <1>2, <1>3, <1>4, ServiceAssumption DEF Deliveries

LEMMA DigestStepInv == ASSUME ServiceInv, CursorInv', DigestStep PROVE ServiceInv'
<1>1. handled' = handled /\ pc' = pc /\ stops' = stops
  BY DEF DigestStep, FlushTakes, FlushSends, vars
<1>2. CASE FlushTakes
  <2>1. QueuesInv'
    BY <1>1, <1>2 DEF ServiceInv, QueuesInv, FlushTakes
  <2>2. \A e \in Events : Copies(e, pending)' = 0 /\ Copies(e, batch)' = Copies(e, pending)
                          /\ Copies(e, batch) = 0
    BY <1>2, CopiesOfNone DEF FlushTakes, Copies
  <2>3. \A e \in Events : Waiting(e)' = Waiting(e)
    BY <2>2, WaitingType DEF Waiting
  <2> QED BY <1>1, <1>2, <2>1, <2>3 DEF ServiceInv, EveryHandlingAccounted, FlushTakes
<1>3. CASE FlushSends
  <2>1. \A e \in Events : sent'[e] = sent[e] + Copies(e, batch) /\ Copies(e, batch) \in Nat
    BY <1>3, WaitingType DEF FlushSends
  <2>2. \A e \in Events : Copies(e, pending)' = Copies(e, pending) /\ Copies(e, batch)' = 0
    BY <1>3, CopiesOfNone DEF FlushSends, Copies
  <2>3. ASSUME NEW e \in Events, Delivery[e] # "none"
        PROVE  handled'[e] = sent'[e] + Waiting(e)' + forgotten'[e]
    <3>1. Waiting(e)' = Copies(e, pending) + 0
      BY <2>2 DEF Waiting
    <3>2. handled[e] = sent[e] + (Copies(e, pending) + Copies(e, batch)) + forgotten[e]
      BY <2>3 DEF ServiceInv, EveryHandlingAccounted, Waiting
    <3> QED BY <1>1, <1>3, <2>1, <3>1, <3>2, WaitingType DEF FlushSends
  <2>4. ASSUME NEW e \in Events, Delivery[e] = "none"
        PROVE  sent'[e] = 0
    <3>1. {i \in DOMAIN batch : batch[i] = e} = {}
      <4> SUFFICES ASSUME NEW i \in DOMAIN batch, batch[i] = e PROVE FALSE
        OBVIOUS
      <4>1. batch[i] \in Queueable
        BY DEF ServiceInv, QueuesInv
      <4> QED BY <2>4, <4>1 DEF Queueable
    <3>2. Copies(e, batch) = 0
      BY <3>1, FS_EmptySet DEF Copies
    <3> QED BY <2>1, <2>4, <3>2 DEF ServiceInv, QueuesInv
  <2>5. sent' \in [Events -> Nat]
    BY <1>3, <2>1, WaitingType DEF FlushSends
  <2>6. QueuesInv'
    BY <1>1, <1>3, <2>4, <2>5 DEF ServiceInv, QueuesInv, FlushSends
  <2> QED BY <2>3, <2>6 DEF ServiceInv, EveryHandlingAccounted
<1> QED BY <1>2, <1>3 DEF DigestStep

LEMMA ExitInv == ASSUME ServiceInv, CursorInv', Exit PROVE ServiceInv'
<1>1. /\ handled' = handled /\ stops' = stops + 1 /\ sent' = sent
      /\ pending' = <<>> /\ batch' = <<>>
      /\ forgotten' = [e \in Events |-> forgotten[e] + Waiting(e)]
  BY DEF Exit, Stop
<1>2. \A e \in Events : Waiting(e)' = 0
  BY <1>1, CopiesOfNone DEF Waiting, Copies
<1>3. \A e \in Events : Delivery[e] # "none" => handled'[e] = sent'[e] + Waiting(e)' + forgotten'[e]
  BY <1>1, <1>2, WaitingType DEF ServiceInv, EveryHandlingAccounted
<1>4. ASSUME NEW e \in Events
      PROVE  forgotten'[e] \in Nat /\ forgotten'[e] <= stops'
  <2>1. CASE Delivery[e] # "none"
    BY <1>1, <2>1, WaitingType DEF ServiceInv, EveryHandlingAccounted
  <2>2. CASE Delivery[e] = "none"
    <3>1. ASSUME NEW q \in Seq(Queueable) PROVE Copies(e, q) = 0
      <4>1. {i \in DOMAIN q : q[i] = e} = {}
        BY <2>2 DEF Queueable
      <4> QED BY <4>1, FS_EmptySet DEF Copies
    <3>2. Waiting(e) = 0
      BY <3>1 DEF Waiting, ServiceInv, QueuesInv
    <3> QED BY <1>1, <3>2, WaitingType DEF ServiceInv, QueuesInv
  <2> QED BY <2>1, <2>2
<1>5. QueuesInv'
  BY <1>1, <1>4 DEF ServiceInv, QueuesInv
<1> QED BY <1>3, <1>5 DEF ServiceInv, EveryHandlingAccounted

LEMMA ServiceStepInv == ServiceInv /\ [ServiceNext]_serviceVars => ServiceInv'
<1> SUFFICES ASSUME ServiceInv, [ServiceNext]_serviceVars PROVE ServiceInv' OBVIOUS
<1>1. CursorInv'
  BY StepIsCursorStep, CursorStepInv DEF ServiceInv, serviceVars
<1>2. CASE (Elsewhere \/ MainStep \/ LoadFails) /\ UNCHANGED digestVars
  <2>1. handled' = handled /\ stops' = stops
    BY <1>2 DEF Elsewhere, MainStep, LoadFails, Tick, Publish, LoadCursor, FreshCursor, Start,
                SaveFresh, Save, Truncate, Write, SaveStep, Subscribe, ReceiveStored,
                ReceiveLive, vars
  <2>2. pc' \in Subscribed \/ pc \notin Subscribed
    BY <1>2 DEF Elsewhere, MainStep, LoadFails, Tick, Publish, LoadCursor, FreshCursor, Start,
                SaveFresh, Save, Truncate, Write, SaveStep, Subscribe, ReceiveStored,
                ReceiveLive, Take, vars, Subscribed
  <2> QED BY <1>1, <1>2, <2>1, <2>2, QueuesUnchanged
<1>3. CASE UNCHANGED serviceVars
  BY <1>1, <1>3, QueuesUnchanged DEF serviceVars, vars, digestVars
<1>4. CASE HandleEvent
  BY <1>1, <1>4, HandleEventInv
<1>5. CASE DigestStep
  BY <1>1, <1>5, DigestStepInv
<1>6. CASE Exit
  BY <1>1, <1>6, ExitInv
<1> QED BY <1>2, <1>3, <1>4, <1>5, <1>6 DEF ServiceNext

LEMMA ServiceInvariant == ServiceSpec => []ServiceInv
<1> QED BY ServiceInitInv, ServiceStepInv, PTL DEF ServiceSpec

\* No call of HandleEvent is lost or doubled between the loop and the flushes,
\* except the items a process took with it.
THEOREM HandlingsAreAccounted == ServiceSpec => []EveryHandlingAccounted
<1>1. ServiceInv => EveryHandlingAccounted
  BY DEF ServiceInv
<1> QED BY <1>1, ServiceInvariant, PTL

\* Types and bounds: an event is sent at most once for each start.
THEOREM ServiceTypeCorrect == ServiceSpec => []ServiceTypeOK
<1>1. ServiceInv => ServiceTypeOK
  <2> SUFFICES ASSUME ServiceInv PROVE ServiceTypeOK OBVIOUS
  <2>1. TypeOK
    BY DEF ServiceInv, CursorInv
  <2>2. stops \in 0..MaxStops /\ MaxStops \in Nat
    BY <2>1, CursorFacts DEF TypeOK
  <2>3. \A e \in Events : sent[e] \in 0..(MaxStops + 1)
    <3> SUFFICES ASSUME NEW e \in Events PROVE sent[e] \in 0..(MaxStops + 1)
      OBVIOUS
    <3>1. sent[e] <= handled[e] \/ sent[e] = 0
      <4>1. CASE Delivery[e] = "none"
        BY <4>1 DEF ServiceInv, QueuesInv
      <4>2. CASE Delivery[e] # "none"
        <5>1. handled[e] = sent[e] + Waiting(e) + forgotten[e]
          BY <4>2 DEF ServiceInv, EveryHandlingAccounted
        <5> QED BY <5>1, WaitingType
      <4> QED BY <4>1, <4>2
    <3>2. sent[e] \in Nat /\ handled[e] \in Nat /\ handled[e] <= stops + 1 /\ stops \in Nat
      BY WaitingType
    <3> QED BY <2>2, <3>1, <3>2
  <2>4. \A e \in Events : forgotten[e] \in 0..MaxStops
    <3> SUFFICES ASSUME NEW e \in Events PROVE forgotten[e] \in 0..MaxStops
      OBVIOUS
    <3>1. forgotten[e] \in Nat /\ forgotten[e] <= stops /\ stops \in Nat
      BY WaitingType DEF ServiceInv, QueuesInv
    <3> QED BY <2>2, <3>1
  <2> QED BY <2>1, <2>3, <2>4 DEF ServiceInv, QueuesInv, ServiceTypeOK, Queueable
<1> QED BY <1>1, ServiceInvariant, PTL
=============================================================================
