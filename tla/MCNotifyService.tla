--------------------------- MODULE MCNotifyService ---------------------------
(***************************************************************************)
(* An instance of NotifyService: an event of an immediate rule and, a      *)
(* second later, two events of the same second that wait for a digest.     *)
(***************************************************************************)
EXTENDS NotifyService, TLC

CONSTANTS e0, e1, e2

MCCreatedAt == e0 :> 1 @@ e1 :> 2 @@ e2 :> 2
MCDelivery == e0 :> "immediate" @@ e1 :> "summary" @@ e2 :> "summary"
=============================================================================
