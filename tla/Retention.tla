----------------------------- MODULE Retention -----------------------------
(***************************************************************************)
(* How long an event stays: the event store under the writes of clients,   *)
(* withdrawals by their authors (NIP-09), and the pruner of the relay,     *)
(* through stops and restarts with edited retention settings.              *)
(*                                                                         *)
(* Once an hour runPruner goes through the configured kinds.  For each it  *)
(* takes the cutoff, queries the kind, and deletes what is older one event *)
(* at a time, while everything else goes on.                               *)
(***************************************************************************)
EXTENDS EventKinds, FiniteSets, Sequences

CONSTANTS Events,      \* their ids; the lower of two ids wins a tie
          Kind,        \* of an event
          Address,     \* of an event: its author, of an addressable one the d tag too
          Created,     \* its created_at, in units of time
          Configs,     \* the [[prunable]] entries of the configurations
          Malformed,   \* a keep_for that time.ParseDuration refuses
          Hour,        \* the units of time in an hour
          QueryLimit,  \* MaxLimit / 4: the events a query without a limit yields
          MaxTime,     \* BOUND: time stands still there, the ticker does not
          MaxStops     \* BOUND: how many times the process ends

ASSUME RetentionAssumption ==
  /\ Events \subseteq Nat /\ IsFiniteSet(Events)
  /\ Kind \in [Events -> Nat]
  /\ Created \in [Events -> Nat]
  /\ \A c \in Configs : c \in Seq([kind : Nat, keepFor : Int \cup {Malformed}])
  /\ Malformed \notin Int
  /\ Hour \in Nat \ {0} /\ QueryLimit \in Nat \ {0}
  /\ MaxTime \in Nat /\ MaxStops \in Nat

\* The kinds that NIP-01 gives a class.
ASSUME KindRangeAssumption == \A e \in Events : Kind[e] <= 39999

VARIABLES now,        \* the time
          phase,      \* "down", "up", or "closing": Shutdown has closed the store
          pruners,    \* Server.pruners: the time to live of each prunable kind
          since,      \* units of time since the ticker was made or ticked
          due,        \* a tick is waiting in its channel
          left,       \* the kinds this round has still to prune
          cutoff,     \* pruneKind: what is older goes
          batch,      \* pruneKind: what the query has yet to yield
          stored,     \* the event store
          standing,   \* history: accepted, and since then, going by the classes of
                      \* eventmodel, not withdrawn or superseded
          stops       \* number of process ends so far

pruneVars == <<left, cutoff, batch>>
tickVars == <<since, due>>
storeVars == <<stored, standing>>
vars == <<now, phase, pruners, tickVars, pruneVars, storeVars, stops>>

\* Config.Validate has PruneDurations parse every entry.
Loads(c) == \A i \in DOMAIN c : c[i].keepFor # Malformed

SometimesPrunable(e) == \E c \in Configs : \E i \in DOMAIN c : c[i].kind = Kind[e]

\* PruneDurations: a later entry of a kind replaces an earlier one.
PruneDurations(c) ==
  [k \in {c[i].kind : i \in DOMAIN c} |->
     c[CHOOSE i \in DOMAIN c : c[i].kind = k
                               /\ \A j \in (i + 1)..Len(c) : c[j].kind # k].keepFor]

TypeOK ==
  /\ now \in 0..MaxTime
  /\ phase \in {"down", "up", "closing"}
  /\ DOMAIN pruners \subseteq Nat /\ \A k \in DOMAIN pruners : pruners[k] \in Int
  /\ since \in 0..(Hour - 1) /\ due \in BOOLEAN
  /\ left \subseteq DOMAIN pruners /\ cutoff \in Int
  /\ batch \subseteq Events /\ Cardinality(batch) <= QueryLimit
  /\ stored \subseteq Events /\ standing \subseteq Events
  /\ stops \in 0..MaxStops

Init ==
  /\ now = 0
  /\ phase = "down"
  /\ pruners = [k \in {} |-> 0]
  /\ since = 0 /\ due = FALSE
  /\ left = {} /\ cutoff = 0 /\ batch = {}
  /\ stored = {} /\ standing = {}
  /\ stops = 0

(***************************************************************************)
(* The process                                                             *)
(***************************************************************************)
\* Start makes a new ticker: a round that was due is not made up for.
Start(c) ==
  /\ phase = "down"
  /\ Loads(c)
  /\ phase' = "up"
  /\ pruners' = PruneDurations(c)
  /\ since' = 0 /\ due' = FALSE
  /\ left' = {} /\ batch' = {}
  /\ UNCHANGED <<now, cutoff, storeVars, stops>>

\* Shutdown closes the store; nobody stops the pruner.
Shutdown ==
  /\ phase = "up"
  /\ stops < MaxStops
  /\ phase' = "closing"
  /\ stops' = stops + 1
  /\ UNCHANGED <<now, pruners, tickVars, pruneVars, storeVars>>

Exit ==
  /\ phase = "closing"
  /\ phase' = "down"
  /\ UNCHANGED <<now, pruners, tickVars, pruneVars, storeVars, stops>>

Crash ==
  /\ phase = "up"
  /\ stops < MaxStops
  /\ phase' = "down"
  /\ stops' = stops + 1
  /\ UNCHANGED <<now, pruners, tickVars, pruneVars, storeVars>>

\* A ticker's channel holds one tick.  Without prunable kinds there is none.
TimePasses ==
  /\ now' = IF now < MaxTime THEN now + 1 ELSE now
  /\ IF phase # "down" /\ DOMAIN pruners # {}
     THEN /\ since' = (since + 1) % Hour
          /\ due' = (due \/ since + 1 = Hour)
     ELSE UNCHANGED tickVars
  /\ UNCHANGED <<phase, pruners, pruneVars, storeVars, stops>>

(***************************************************************************)
(* Clients                                                                 *)
(***************************************************************************)
IsNewer(f, e) ==
  /\ Kind[f] = Kind[e] /\ Address[f] = Address[e]
  /\ Created[f] > Created[e] \/ (Created[f] = Created[e] /\ f < e)

\* Going by eventmodel: of a replaceable class, the latest of an address wins.
Supersedes(f, e) == Class(Kind[e]) = "replaceable" /\ IsNewer(f, e)

\* Going by the storage layer: khatru takes ReplaceEvent for the replaceable
\* ranges, and for profiles and follow lists as well.
ProfileMetadata == 0
FollowList      == 3

Replaces(f, e) ==
  /\ InReplaceableRange(Kind[e]) \/ Kind[e] \in {ProfileMetadata, FollowList}
  /\ IsNewer(f, e)

\* What e makes of a set of events, given those of them that count for it and
\* those that it counts for.
With(e, set, newer, older) ==
  IF newer # {} THEN set ELSE (set \ older) \cup {e}

\* What khatru makes of an event the hooks have let pass: it calls StoreEvent
\* or ReplaceEvent, or for an ephemeral kind neither of the two.
AfterSaving(e) ==
  IF InEphemeralRange(Kind[e]) THEN stored
  ELSE With(e, stored, {f \in stored : Replaces(f, e)}, {f \in stored : Replaces(e, f)})

\* An event from the future is refused; one that was pruned may come again.
Submit(e) ==
  /\ phase = "up"
  /\ Created[e] <= now
  /\ stored' = AfterSaving(e)
  /\ standing' = With(e, standing, {f \in standing : Supersedes(f, e)},
                                   {f \in standing : Supersedes(e, f)})
  /\ UNCHANGED <<now, phase, pruners, tickVars, pruneVars, stops>>

\* NIP-09: khatru calls DeleteEvent for an event of the author's own.
Withdraw(e) ==
  /\ phase = "up"
  /\ e \in stored
  /\ stored' = stored \ {e}
  /\ standing' = standing \ {e}
  /\ UNCHANGED <<now, phase, pruners, tickVars, pruneVars, stops>>

(***************************************************************************)
(* The pruner                                                              *)
(***************************************************************************)
Idle == left = {} /\ batch = {}

Wake ==
  /\ phase # "down"
  /\ Idle /\ due
  /\ due' = FALSE
  /\ left' = DOMAIN pruners
  /\ UNCHANGED <<now, phase, pruners, since, cutoff, batch, storeVars, stops>>

\* Mutant: the query answers with the oldest first.
OldestFirst(set) ==
  IF Cardinality(set) <= QueryLimit THEN {set}
  ELSE {top \in SUBSET set : /\ Cardinality(top) = QueryLimit
                             /\ \A e \in top, f \in set \ top : Created[e] <= Created[f]}

\* The newest events of a set, as many as a query without a limit yields.
Newest(set) ==
  IF Cardinality(set) <= QueryLimit THEN {set}
  ELSE {top \in SUBSET set : /\ Cardinality(top) = QueryLimit
                             /\ \A e \in top, f \in set \ top : Created[e] >= Created[f]}

\* Mutant: the filter has no kinds.
OfAnyKind(k) == stored

OfKind(k) == {e \in stored : Kind[e] = k}

\* Mutant: a query without a limit yields everything.
QueriedAll(k) == {OfKind(k)}

\* A query of the closed store fails.
Queried(k) == IF phase = "closing" THEN {{}} ELSE Newest(OfKind(k))

\* Mutant: the time to live is added.
CutoffAhead(k) == now + pruners[k]

Cutoff(k) == now - pruners[k]

\* The kinds of a map come in any order.
PruneKind(k) ==
  /\ phase # "down"
  /\ batch = {}
  /\ k \in left
  /\ cutoff' = Cutoff(k)
  /\ \E top \in Queried(k) : batch' = top
  /\ left' = left \ {k}
  /\ UNCHANGED <<now, phase, pruners, tickVars, storeVars, stops>>

IsNext(e) == e \in batch /\ \A f \in batch : Created[f] <= Created[e]

\* What the loop body lets through.
IsOld(e) == Created[e] < cutoff

DeleteOld(e) ==
  /\ phase = "up"
  /\ IsNext(e) /\ IsOld(e)
  /\ stored' = stored \ {e}
  /\ batch' = batch \ {e}
  /\ UNCHANGED <<now, phase, pruners, tickVars, left, cutoff, standing, stops>>

\* Mutant: the events come newest first, so the first young one ends the loop.
BatchAfterYoung(e) == IF IsOld(e) THEN batch \ {e} ELSE {}

BatchAfter(e) == batch \ {e}

\* The event is too young, or the deletion fails, as in the closed store.
PassOver(e) ==
  /\ phase # "down"
  /\ IsNext(e)
  /\ batch' = BatchAfter(e)
  /\ UNCHANGED <<now, phase, pruners, tickVars, left, cutoff, storeVars, stops>>

Next ==
  \/ \E c \in Configs : Start(c)
  \/ Shutdown \/ Exit \/ Crash
  \/ TimePasses
  \/ \E e \in Events : Submit(e) \/ Withdraw(e)
  \/ Wake
  \/ \E k \in DOMAIN pruners : PruneKind(k)
  \/ \E e \in Events : DeleteOld(e) \/ PassOver(e)

Spec == Init /\ [][Next]_vars

\* The process is started again and ends once it is closing; time passes; the
\* pruner's goroutine runs; a deletion that is tried again and again does not
\* fail every time.
Fairness ==
  /\ WF_vars(\E c \in Configs : Start(c))
  /\ WF_vars(Exit)
  /\ WF_vars(TimePasses)
  /\ WF_vars(Wake)
  /\ WF_vars(\E k \in DOMAIN pruners : PruneKind(k))
  /\ WF_vars(\E e \in Events : DeleteOld(e) \/ PassOver(e))
  /\ \A e \in {f \in Events : SometimesPrunable(f)} : SF_vars(DeleteOld(e))

FairSpec == Spec /\ Fairness

(***************************************************************************)
(* Properties                                                              *)
(***************************************************************************)
Expired(e) == Kind[e] \in DOMAIN pruners /\ Created[e] < now - pruners[Kind[e]]

\* An event leaves the store only because its author withdrew it or a newer one
\* takes its place there, or because its kind is prunable in the configuration
\* that runs and it is past its keep_for: whatever becomes of the time, the store
\* and the settings between the cutoff, the query and the deletion of pruneKind.
KeptUntilAged ==
  [][\A e \in stored \ stored' :
       \/ e \notin standing'
       \/ \E f \in stored' : Replaces(f, e)
       \/ Expired(e)]_vars

\* eventmodel.Class against the storage layer.  "Regular signed audit events
\* despite using the 27236/27237 range next to NIP-98.  They must survive relay
\* replay/reconnect" (eventmodel.go:100-101); "immutable: stored forever" (line
\* 86), which Class says of every kind outside the ranges, of 0 and 3 too.
RetainedByClass ==
  \A e \in standing :
    SometimesPrunable(e) \/ Class(Kind[e]) = "ephemeral" \/ e \in stored

\* The kinds of which the storage layer and eventmodel.Class disagree: the
\* delegations are never stored (RetainedByClass), and a second profile or follow
\* list replaces the first, although Class calls 0 and 3 immutable and
\* EVENT-PROTOCOL.md:114-115 lists 10000-19999 and 30000-39999 alone as replaceable.
Misclassed == {Delegation, DelegationRevocation, ProfileMetadata, FollowList}

\* Of every other kind that no configuration makes prunable the store holds what
\* the class says, no less and no more: nothing of an ephemeral kind, the latest
\* of each replaceable address, and of an immutable kind all that was accepted
\* and not withdrawn.
StoredAsClassed ==
  \A e \in Events :
    \/ SometimesPrunable(e)
    \/ Kind[e] \in Misclassed
    \/ e \in stored <=> e \in standing /\ Class(Kind[e]) # "ephemeral"

\* Behind as many others of its kind as a query yields.
Crowded(e) ==
  Cardinality({f \in stored : Kind[f] = Kind[e] /\ Created[f] >= Created[e] /\ f # e}) >= QueryLimit

\* A round looks at every expired event of its kind that is not Crowded, and its
\* cutoff lets each of them through: the limit of the query is all that an expired
\* event can hide behind, in any round of any configuration.
RoundsReachExpired ==
  [][\A k \in DOMAIN pruners :
       PruneKind(k) /\ phase = "up"
         => \A e \in OfKind(k) : Expired(e) /\ ~Crowded(e) => e \in batch' /\ IsOld(e)']_vars

\* An expired event that is not Crowded does not stay for ever: the rounds, the
\* restarts that put them off and deletions that fail only delay it.
EventuallyAgedOut ==
  \A e \in {f \in Events : SometimesPrunable(f)} :
    []<>~(e \in stored /\ Expired(e) /\ ~Crowded(e))

=============================================================================
