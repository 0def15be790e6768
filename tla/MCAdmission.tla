---------------------------- MODULE MCAdmission ----------------------------
(***************************************************************************)
(* An instance of Admission: one key that may be a listed writer, an admin *)
(* or banned, and its two events, an execution result, which needs an      *)
(* allow entry and an executor's authority, and an approval, which needs   *)
(* no allow entry but a NIP-42 session.  Events do not look at each other: *)
(* two show every pair of hooks in every order.                            *)
(***************************************************************************)
EXTENDS Admission, TLC

CONSTANTS e1, e2, w, s, approval, result

MCReasons == {"admin", "server", "portal", "publisher", "agent", "operator"}

WriterAuthor == [e \in Events |-> w]
BothKind == e1 :> result @@ e2 :> approval
=============================================================================
