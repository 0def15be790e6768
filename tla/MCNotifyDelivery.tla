-------------------------- MODULE MCNotifyDelivery --------------------------
(***************************************************************************)
(* Instances of NotifyDelivery: events of different severities and kinds,  *)
(* a recipient with rules of every delivery and scope, and another one.    *)
(***************************************************************************)
EXTENDS NotifyDelivery, TLC

CONSTANTS e1, e2, e3, e4, a, b

MCClassNames == {"security", "backup", "operation", "system"}

MCSeverityNames == Severities \cup {"urgent"}

Event(kind, severity, ok) ==
  [kind |-> kind, class |-> Unset, severity |-> severity, ok |-> ok]

MCContent ==
  e1 :> Event("security", Unset, Unset) @@
  e2 :> Event("backup", "critical", Unset) @@
  e3 :> Event("result", Unset, "mistyped") @@
  e4 :> [Event("system", "urgent", Unset) EXCEPT !.class = "security"]

Rule(recipient, classes, min, delivery, scope) ==
  [recipient |-> recipient, classes |-> classes, min |-> min,
   delivery |-> delivery, scope |-> scope]

\* The last policy has a rule for a recipient it does not declare.
MCPolicies ==
  {[recipients |-> {a, b},
    rules |-> <<Rule(a, {"security"}, "warning", "immediate", "external"),
                Rule(a, {"security", "backup"}, "info", "summary", "local-only"),
                Rule(b, {"backup", "operation"}, "warning", "summary", "external")>>],
   [recipients |-> {a},
    rules |-> <<Rule(a, {"security", "operation"}, "info", "summary", "external"),
                Rule(a, {"operation", "backup"}, "critical", "immediate", "local-only"),
                Rule(a, {"security"}, "warning", "summary", "local-only")>>],
   [recipients |-> {a},
    rules |-> <<Rule(b, {"security"}, "info", "immediate", "external")>>]}
=============================================================================
