--------------------------- MODULE MCNotifyCursor ---------------------------
(***************************************************************************)
(* Instances of NotifyCursor: an event and, a second later, two events of  *)
(* the same second.  The first cursor may be before all of them.           *)
(***************************************************************************)
EXTENDS NotifyCursor, TLC

CONSTANTS e0, e1, e2

MCCreatedAt == e0 :> 1 @@ e1 :> 2 @@ e2 :> 2
=============================================================================
