---------------------------- MODULE PubkeyPolicy ----------------------------
(***************************************************************************)
(* The pubkey buckets of the policy store (internal/policy/store.go): the  *)
(* "admins", "banned" and "allowed" buckets of one bolt database.          *)
(*                                                                         *)
(* bolt serialises writers and commits a db.Update atomically, so every    *)
(* method of the store that writes is one action here.  The text of a ban  *)
(* reason is never read back by the relay and is left out; the reason of   *)
(* an allow entry is kept, because SyncAllowed selects entries by it.      *)
(***************************************************************************)
CONSTANTS Pubkeys,    \* the author and admin keys of the instance
          Reasons,    \* the values an allow entry may carry
          NoReason    \* "no such key in the allowed bucket"

ASSUME ReasonAssumption ==
  /\ NoReason \notin Reasons
  /\ {"admin", "server", "portal", "publisher", "agent", "operator"} \subseteq Reasons

VARIABLES admins,     \* bucketAdmins:  the keys present
          banned,     \* bucketBanned:  the keys present
          allowed     \* bucketAllowed: pubkey -> reason

policyVars == <<admins, banned, allowed>>

PolicyTypeOK ==
  /\ admins \in SUBSET Pubkeys
  /\ banned \in SUBSET Pubkeys
  /\ allowed \in [Pubkeys -> Reasons \cup {NoReason}]

\* The empty database that bolt.Open creates on a first start.
PolicyInit ==
  /\ admins = {}
  /\ banned = {}
  /\ allowed = [pk \in Pubkeys |-> NoReason]

(***************************************************************************)
(* Reads: one db.View each.                                                *)
(***************************************************************************)
IsAdmin(pk)   == pk \in admins
IsBanned(pk)  == pk \in banned
IsAllowed(pk) == allowed[pk] # NoReason

(***************************************************************************)
(* Writes: one db.Update each.                                             *)
(***************************************************************************)
\* Mutant: a grant that also lifts the key's ban.
GrantAdminUnbans(pk) ==
  /\ admins' = admins \cup {pk}
  /\ banned' = banned \ {pk}
  /\ UNCHANGED allowed

GrantAdmin(pk) ==
  /\ admins' = admins \cup {pk}
  /\ UNCHANGED <<banned, allowed>>

RevokeAdmin(pk) ==
  /\ admins' = admins \ {pk}
  /\ UNCHANGED <<banned, allowed>>

Ban(pk) ==
  /\ allowed' = [allowed EXCEPT ![pk] = NoReason]
  /\ banned' = banned \cup {pk}
  /\ UNCHANGED admins

\* Mutant: an allow that does not lift the ban.
AllowKeepsBan(pk, reason) ==
  /\ allowed' = [allowed EXCEPT ![pk] = reason]
  /\ UNCHANGED <<admins, banned>>

\* Mutant: an allow that writes an empty reason.
AllowUnlabelled(pk, reason) ==
  /\ banned' = banned \ {pk}
  /\ allowed' = [allowed EXCEPT ![pk] = ""]
  /\ UNCHANGED admins

Allow(pk, reason) ==
  /\ banned' = banned \ {pk}
  /\ allowed' = [allowed EXCEPT ![pk] = reason]
  /\ UNCHANGED admins

\* Mutant: the reconciliation only adds, so a dropped admin keeps authority.
SyncAdminsOnlyAdds(pubkeys) ==
  /\ admins' = admins \cup pubkeys
  /\ allowed' = [pk \in Pubkeys |->
                   IF pk \in pubkeys THEN "admin" ELSE allowed[pk]]
  /\ UNCHANGED banned

\* Mutant: the reconciliation rebuilds the allowed bucket from the admins.
SyncAdminsResetsAllowed(pubkeys) ==
  /\ admins' = pubkeys
  /\ allowed' = [pk \in Pubkeys |-> IF pk \in pubkeys THEN "admin" ELSE NoReason]
  /\ UNCHANGED banned

\* One transaction: keys of the admins bucket that are not wanted lose their
\* admin entry AND whatever allow entry they have; wanted keys get both.
\* The banned bucket is not touched.
SyncAdmins(pubkeys) ==
  /\ admins' = pubkeys
  /\ allowed' = [pk \in Pubkeys |->
                   IF pk \in pubkeys THEN "admin"
                   ELSE IF pk \in admins THEN NoReason
                   ELSE allowed[pk]]
  /\ UNCHANGED banned

\* Mutant: the reconciliation drops every entry that is not wanted.
SyncAllowedDropsAll(pubkeys, reason) ==
  /\ allowed' = [pk \in Pubkeys |-> IF pk \in pubkeys THEN reason ELSE NoReason]
  /\ banned' = banned \ pubkeys
  /\ UNCHANGED admins

\* One transaction: entries with this reason that are not wanted are deleted;
\* every wanted key is unbanned and (re)labelled with the reason.
SyncAllowed(pubkeys, reason) ==
  /\ allowed' = [pk \in Pubkeys |->
                   IF pk \in pubkeys THEN reason
                   ELSE IF allowed[pk] = reason THEN NoReason
                   ELSE allowed[pk]]
  /\ banned' = banned \ pubkeys
  /\ UNCHANGED admins

=============================================================================
