---------------------------- MODULE KindBuckets ----------------------------
(***************************************************************************)
(* The kind buckets of the policy store (internal/policy/store.go):        *)
(* "kinds_allowed" and "kinds_denied", which no method ever deletes from.  *)
(***************************************************************************)
CONSTANT Kinds          \* the event kinds of the instance

VARIABLES kindsAllowed, \* bucketKindsAllowed
          kindsDenied   \* bucketKindsDenied

kindVars == <<kindsAllowed, kindsDenied>>

KindsTypeOK ==
  /\ kindsAllowed \in SUBSET Kinds
  /\ kindsDenied \in SUBSET Kinds

\* Mutant: allowing a kind also takes back its denial.
AllowKindUndenies(k) ==
  /\ kindsAllowed' = kindsAllowed \cup {k}
  /\ kindsDenied' = kindsDenied \ {k}

AllowKind(k) ==
  /\ kindsAllowed' = kindsAllowed \cup {k}
  /\ UNCHANGED kindsDenied

\* Mutant: a denial also takes the kind off the allowlist.
DenyKindDelists(k) ==
  /\ kindsDenied' = kindsDenied \cup {k}
  /\ kindsAllowed' = kindsAllowed \ {k}

DenyKind(k) ==
  /\ kindsDenied' = kindsDenied \cup {k}
  /\ UNCHANGED kindsAllowed

\* KindAllowed reads the buckets in three transactions, in this order.
KindDenied(k) == k \in kindsDenied
NoAllowlist   == kindsAllowed = {}
KindListed(k) == k \in kindsAllowed

\* What KindAllowed would answer if the three reads were one transaction.
KindPermitted(k) == ~KindDenied(k) /\ (NoAllowlist \/ KindListed(k))

=============================================================================
