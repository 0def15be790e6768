---------------------------- MODULE NotifyPolicy ----------------------------
(***************************************************************************)
(* The pure part of the notification service (internal/notify): what a     *)
(* policy is, which item an event becomes and which rules the item meets,  *)
(* and how a digest is ordered.                                            *)
(*                                                                         *)
(* An event is reduced to the fields classify.go looks at.  Unset stands   *)
(* for a field that is absent, and for content that does not decode: both  *)
(* leave the defaults.                                                     *)
(***************************************************************************)
EXTENDS Naturals, Sequences, Functions

CONSTANTS Recipients,      \* the npubs of the instance
          ClassNames,      \* the class names of the instance
          SeverityNames,   \* what stands where a severity is expected
          Unset

Severities == {"info", "warning", "critical"}
Modes == {"immediate", "summary"}
Scopes == {"local-only", "external"}

NoticeKinds == {"system", "service", "backup", "security"}

EventType == [kind     : NoticeKinds \cup {"request", "result", "other"},
              class    : ClassNames \cup {Unset},
              severity : SeverityNames \cup {Unset},
              ok       : {"true", "false", "mistyped", Unset}]

RuleType == [recipient : Recipients, classes : SUBSET ClassNames,
             min : SeverityNames, delivery : STRING, scope : STRING]

\* Policy.validate, for declared recipients whose npubs decode.
ValidPolicy(p) ==
  \A i \in DOMAIN p.rules :
    LET rule == p.rules[i]
    IN /\ rule.recipient \in p.recipients
       /\ rule.classes # {}
       /\ rule.min \in Severities
       /\ rule.delivery \in Modes
       /\ rule.scope \in Scopes

\* Mutant: an unknown severity ranks highest.
RankUnknownHighest(severity) ==
  IF severity = "info" THEN 0 ELSE IF severity = "warning" THEN 1 ELSE 2

\* severityRank: whatever is not known ranks as info.
Rank(severity) ==
  IF severity = "critical" THEN 2 ELSE IF severity = "warning" THEN 1 ELSE 0

(***************************************************************************)
(* Classify                                                                *)
(***************************************************************************)
Or(field, default) == IF field = Unset THEN default ELSE field

Notified(event) == event.kind \in NoticeKinds \cup {"request", "result"}

\* json.Unmarshal allocates the *bool before it finds that the value is not a
\* boolean: a mistyped "ok" reads as false.
Failed(event) == event.ok \in {"false", "mistyped"}

Classify(event) ==
  IF event.kind = "request" THEN [class |-> "operation", severity |-> "info"]
  ELSE IF event.kind = "result"
  THEN [class |-> "operation", severity |-> IF Failed(event) THEN "warning" ELSE "info"]
  ELSE [class    |-> Or(event.class, event.kind),
        severity |-> Or(event.severity, IF event.kind = "security" THEN "warning" ELSE "info")]

(***************************************************************************)
(* Match, as the indices of the rules; HandleEvent goes through them in    *)
(* their order.                                                            *)
(***************************************************************************)
Meets(item, rule) ==
  /\ item.class \in rule.classes
  /\ Rank(item.severity) >= Rank(rule.min)

\* Mutant: the indices are counted from zero.
MatchFromZero(p, item) == {i - 1 : i \in {j \in DOMAIN p.rules : Meets(item, p.rules[j])}}

Match(p, item) == {i \in DOMAIN p.rules : Meets(item, p.rules[i])}

(***************************************************************************)
(* sortBySeverityDesc: each item in turn moves left until the item on its  *)
(* left does not rank lower.                                               *)
(***************************************************************************)
\* Mutant: it moves past the items of its own rank too.
PassesEqual(x, sorted, j) ==
  \A k \in j..Len(sorted) : Rank(sorted[k].severity) <= Rank(x.severity)

\* x moves past the item at j and all behind it.
Passes(x, sorted, j) ==
  \A k \in j..Len(sorted) : Rank(sorted[k].severity) < Rank(x.severity)

MoveLeft(sorted, x) ==
  [j \in 1..(Len(sorted) + 1) |->
     IF ~Passes(x, sorted, j) THEN sorted[j]
     ELSE IF j > 1 /\ Passes(x, sorted, j - 1) THEN sorted[j - 1]
     ELSE x]

\* The array after each turn of the outer loop.
SortedPrefixes(items) ==
  LET prefix[n \in 0..Len(items)] ==
        IF n = 0 THEN <<>> ELSE MoveLeft(prefix[n - 1], items[n])
  IN prefix

SortBySeverityDesc(items) == SortedPrefixes(items)[Len(items)]

=============================================================================
