----------------------------- MODULE KindPolicy -----------------------------
(***************************************************************************)
(* KindAllowed against concurrent NIP-86 allowkind / disallowkind calls,   *)
(* and the seeding of the allowlist from the configuration at every start. *)
(*                                                                         *)
(* KindAllowed is not one transaction: it looks at the denylist, then at   *)
(* whether there is an allowlist at all, then at the kind's own entry.  A  *)
(* management call may commit between any two of these reads, and Shutdown *)
(* closes the database while hooks still run, which then find nothing.     *)
(***************************************************************************)
EXTENDS KindBuckets, Naturals

CONSTANTS KindConfigs,  \* the configurations the relay may be started with
          Checks,       \* evaluations of KindAllowed that may run at once
          NoKind,       \* the kind of an idle check
          MaxStops      \* BOUND: how many times the process ends

\* config.Config, reduced to the kind lists.  Nothing reads deniedKinds once
\* the file is decoded.
KindConfigType == [allowedKinds : SUBSET Kinds, deniedKinds : SUBSET Kinds]

ASSUME KindAssumption ==
  /\ KindConfigs \subseteq KindConfigType
  /\ NoKind \notin Kinds
  /\ MaxStops \in Nat

VARIABLES phase,        \* "down", "seed" (policy.Open's loop), "serving", or
                        \* "closed": Policy.Close is through, main not back yet
          cfg,          \* the configuration of this process
          todo,         \* Open's loop: kinds not seeded yet
          pc,           \* where each evaluation of KindAllowed is
          kind,         \* the kind it was called with
          stops,
          \* history:
          wasDenied,    \* the kind was denied when the call began
          sawClosed     \* calls one of whose reads met the closed database

checkVars == <<pc, kind, wasDenied, sawClosed>>
vars == <<kindVars, phase, cfg, todo, checkVars, stops>>

Reading == {"denied?", "list?", "listed?"}
Answered == {"yes", "no"}

TypeOK ==
  /\ KindsTypeOK
  /\ phase \in {"down", "seed", "serving", "closed"}
  /\ cfg \in KindConfigs
  /\ todo \in SUBSET Kinds
  /\ pc \in [Checks -> Reading \cup Answered \cup {"idle"}]
  /\ kind \in [Checks -> Kinds \cup {NoKind}]
  /\ \A c \in Checks : kind[c] = NoKind <=> pc[c] = "idle"
  /\ wasDenied \in [Checks -> BOOLEAN]
  /\ sawClosed \in SUBSET Checks
  /\ stops \in 0..MaxStops

\* One value for every check.
All(value) == [c \in Checks |-> value]

Init ==
  /\ kindsAllowed = {}
  /\ kindsDenied = {}
  /\ phase = "down"
  /\ cfg \in KindConfigs
  /\ todo = {}
  /\ pc = All("idle")
  /\ kind = All(NoKind)
  /\ wasDenied = All(FALSE)
  /\ sawClosed = {}
  /\ stops = 0

(***************************************************************************)
(* Starts and stops                                                        *)
(***************************************************************************)
Open(c) ==
  /\ phase = "down"
  /\ phase' = "seed"
  /\ cfg' = c
  /\ todo' = c.allowedKinds
  /\ UNCHANGED <<kindVars, checkVars, stops>>

\* _ = s.AllowKind(k): its error is discarded.
SeedKind(k) ==
  /\ phase = "seed"
  /\ k \in todo
  /\ AllowKind(k) \/ UNCHANGED kindVars
  /\ todo' = todo \ {k}
  /\ UNCHANGED <<phase, cfg, checkVars, stops>>

\* The rest of New leaves the kind buckets alone; the relay serves.
Serve ==
  /\ phase = "seed"
  /\ todo = {}
  /\ phase' = "serving"
  /\ UNCHANGED <<kindVars, cfg, todo, checkVars, stops>>

\* The last call of Shutdown.  Nothing waits for the hooks of the messages
\* that were accepted before it: they go on.
ClosePolicy ==
  /\ phase = "serving"
  /\ stops < MaxStops
  /\ stops' = stops + 1
  /\ phase' = "closed"
  /\ UNCHANGED <<kindVars, cfg, todo, checkVars>>

\* The process is gone, and the evaluations that ran in it.
Gone ==
  /\ phase' = "down"
  /\ todo' = {}
  /\ pc' = All("idle")
  /\ kind' = All(NoKind)
  /\ wasDenied' = All(FALSE)
  /\ sawClosed' = {}
  /\ UNCHANGED <<kindVars, cfg>>

\* main returns once Shutdown has.
Exit ==
  /\ phase = "closed"
  /\ Gone
  /\ UNCHANGED stops

\* The process ends without Shutdown: New or Start fails, or it is killed.
Crash ==
  /\ phase \in {"seed", "serving"}
  /\ stops < MaxStops
  /\ stops' = stops + 1
  /\ Gone

(***************************************************************************)
(* Management calls                                                        *)
(***************************************************************************)
\* A call that finds the database closed returns an error and writes nothing.
ManageKind(k) ==
  /\ phase = "serving"
  /\ AllowKind(k) \/ DenyKind(k)
  /\ UNCHANGED <<phase, cfg, todo, checkVars, stops>>

(***************************************************************************)
(* KindAllowed                                                             *)
(***************************************************************************)
\* An event that was accepted before Shutdown may reach the hook after it.
CanBegin(c) == phase \in {"serving", "closed"} /\ pc[c] \in Answered \cup {"idle"}

\* Mutant: the parameter is not stored.
BeginForgetsKind(c, k) ==
  /\ CanBegin(c)
  /\ pc' = [pc EXCEPT ![c] = "denied?"]
  /\ wasDenied' = [wasDenied EXCEPT ![c] = KindDenied(k)]
  /\ sawClosed' = sawClosed \ {c}
  /\ UNCHANGED <<kindVars, phase, cfg, todo, kind, stops>>

Begin(c, k) ==
  /\ CanBegin(c)
  /\ pc' = [pc EXCEPT ![c] = "denied?"]
  /\ kind' = [kind EXCEPT ![c] = k]
  /\ wasDenied' = [wasDenied EXCEPT ![c] = KindDenied(k)]
  /\ sawClosed' = sawClosed \ {c}
  /\ UNCHANGED <<kindVars, phase, cfg, todo, stops>>

\* The error of db.View on a closed database is discarded: the lookup finds
\* nothing, the list is empty.
Found(read) == phase # "closed" /\ read

\* One read transaction of check c, after which it is at "next".
Read(c, at, next) ==
  /\ pc[c] = at
  /\ pc' = [pc EXCEPT ![c] = next]
  /\ sawClosed' = IF phase = "closed" THEN sawClosed \cup {c} ELSE sawClosed
  /\ UNCHANGED <<kindVars, phase, cfg, todo, kind, wasDenied, stops>>

\* Mutant: an entry of the allowlist wins over a denial.
ReadDeniedAllowlistWins(c) ==
  Read(c, "denied?",
       IF Found(KindDenied(kind[c]) /\ ~KindListed(kind[c])) THEN "no" ELSE "list?")

ReadDenied(c) ==
  Read(c, "denied?", IF Found(KindDenied(kind[c])) THEN "no" ELSE "list?")

ReadList(c) ==
  Read(c, "list?", IF Found(~NoAllowlist) THEN "listed?" ELSE "yes")

ReadListed(c) ==
  Read(c, "listed?", IF Found(KindListed(kind[c])) THEN "yes" ELSE "no")

Next ==
  \/ \E c \in KindConfigs : Open(c)
  \/ \E k \in Kinds : SeedKind(k)
  \/ Serve
  \/ ClosePolicy \/ Exit \/ Crash
  \/ \E k \in Kinds : ManageKind(k)
  \/ \E c \in Checks, k \in Kinds : Begin(c, k)
  \/ \E c \in Checks : ReadDenied(c) \/ ReadList(c) \/ ReadListed(c)

Spec == Init /\ [][Next]_vars

(***************************************************************************)
(* Properties                                                              *)
(***************************************************************************)
\* A kind that was already denied when KindAllowed was called is never
\* permitted by it: no later call, no restart and no entry of allowed_kinds
\* takes a denial back.  Only a call that reads the database after
\* Policy.Close may permit it; Admission shows that no event it lets through
\* is stored.
DenialIsFinal ==
  \A c \in Checks : pc[c] = "yes" /\ wasDenied[c] => c \in sawClosed

\* A refusal is true when it is given: although the reads are apart, the
\* kind is not permitted at the moment KindAllowed says so.  Only a call that
\* has read the list before Policy.Close and the entry after it may refuse a
\* listed kind.  What permits a kind are the buckets: "an empty list means no
\* kind restriction" (config.example.toml:39) holds of allowed_kinds only while no
\* start and no call has put a kind into the bucket, because Open never empties it,
\* and denied_kinds (line 43) reaches no bucket at all.
RefusalJustified ==
  [][\A c \in Checks :
       (pc[c] \in Reading /\ pc'[c] = "no") => ~KindPermitted(kind[c]) \/ c \in sawClosed']_vars

(***************************************************************************)
(* Inductive strengthening, used by the proofs.                            *)
(***************************************************************************)
\* No method deletes from the kind buckets, so what a read transaction has
\* seen there is still so at the later ones.
ReadInv ==
  \A c \in Checks :
    /\ wasDenied[c] => /\ kind[c] \in kindsDenied
                       /\ pc[c] \in {"denied?", "no"} \/ c \in sawClosed
    /\ pc[c] = "listed?" => kindsAllowed # {}

=============================================================================
