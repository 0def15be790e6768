---------------------------- MODULE NotifyPromise ----------------------------
(***************************************************************************)
(* What the notification service promises about the notices it has taken   *)
(* from the relay: an event and a rule of the policy that it meets are one *)
(* obligation, and each obligation is discharged by exactly one attempt to *)
(* send it, alone or in a message that discharges several.  Nothing else   *)
(* is ever sent.  When the process ends, what is still owed stays so.      *)
(***************************************************************************)
EXTENDS Naturals

CONSTANTS Events, Rules   \* Rules: the indices of the rules

VARIABLES due,        \* Events -> SUBSET Rules: the rules the event meets
          untaken,    \* events the service has not received
          owed,       \* obligations <<event, rule>> not discharged yet
          attempts,   \* how often each obligation has been in a message
          gone        \* the process has ended

promiseVars == <<due, untaken, owed, attempts, gone>>

Init ==
  /\ due \in [Events -> SUBSET Rules]
  /\ untaken = Events
  /\ owed = {}
  /\ attempts = [o \in Events \X Rules |-> 0]
  /\ gone = FALSE

TakeEvent(e) ==
  /\ ~gone
  /\ e \in untaken
  /\ untaken' = untaken \ {e}
  /\ owed' = owed \cup ({e} \X due[e])
  /\ UNCHANGED <<due, attempts, gone>>

Discharge(O) ==
  /\ ~gone
  /\ O # {} /\ O \subseteq owed
  /\ owed' = owed \ O
  /\ attempts' = [o \in Events \X Rules |-> attempts[o] + (IF o \in O THEN 1 ELSE 0)]
  /\ UNCHANGED <<due, untaken, gone>>

End ==
  /\ ~gone
  /\ gone' = TRUE
  /\ UNCHANGED <<due, untaken, owed, attempts>>

Next ==
  \/ \E e \in Events : TakeEvent(e)
  \/ \E O \in SUBSET owed : Discharge(O)
  \/ End

Spec == Init /\ [][Next]_promiseVars

=============================================================================
