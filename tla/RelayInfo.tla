----------------------------- MODULE RelayInfo -----------------------------
(***************************************************************************)
(* The NIP-11 fields an admin may change over NIP-86 (name, description,   *)
(* icon): each lives in memory, where relay information is read from, and  *)
(* in a bucket of policy.db, which a start lays over the configuration.    *)
(*                                                                         *)
(* A call writes memory without a lock and then the bucket; HTTP handlers  *)
(* run concurrently.  A Go string is two words, so two calls that write    *)
(* one field at a time may leave the bytes of one and the length of the    *)
(* other.                                                                  *)
(***************************************************************************)
EXTENDS Naturals, FiniteSets

CONSTANTS Fields,        \* name, description, icon
          Texts,         \* texts that are not empty
          EmptyText,
          Missing,       \* the bucket has no entry
          Requests,      \* BOUND: the calls that may be under way at a time
          Configured,    \* the field values a configuration may have
          MaxStops       \* BOUND: how many times the process ends

Values == Texts \cup {EmptyText}
Words == {"bytes", "length"}
CallType == [field : Fields, value : Values, left : SUBSET Words]

ASSUME RelayInfoAssumption ==
  /\ EmptyText \notin Texts
  /\ Missing \notin Values \cup CallType
  /\ Configured \subseteq [Fields -> Values]
  /\ Configured # {}
  /\ MaxStops \in Nat

VARIABLES config,   \* the configuration of the process, or of its next start
          serving,  \* New has returned and the process runs
          info,     \* s.Relay.Info: for each field the value of each word
          bucket,   \* bucketInfo
          calls,    \* requests under way: the field, the value, what is left
          alone,    \* history: no other call of its field was under way
          acked,    \* history: the fields' last calls, when they succeeded alone
          stops

vars == <<config, serving, info, bucket, calls, alone, acked, stops>>

Whole(v) == [w \in Words |-> v]

\* Missing also stands for "no call under way" and "nothing acknowledged".
TypeOK ==
  /\ config \in Configured
  /\ serving \in BOOLEAN
  /\ info \in [Fields -> [Words -> Values]]
  /\ bucket \in [Fields -> Texts \cup {Missing}]
  /\ calls \in [Requests -> CallType \cup {Missing}]
  /\ alone \in SUBSET Requests
  /\ acked \in [Fields -> Values \cup {Missing}]
  /\ stops \in 0..MaxStops

Init ==
  /\ config \in Configured
  /\ serving = FALSE
  /\ info = [f \in Fields |-> Whole(EmptyText)]
  /\ bucket = [f \in Fields |-> Missing]
  /\ calls = [c \in Requests |-> Missing]
  /\ alone = {}
  /\ acked = [f \in Fields |-> Missing]
  /\ stops = 0

(***************************************************************************)
(* The bucket                                                              *)
(***************************************************************************)
\* The text of a missing entry is empty.
GetRelayInfo(f) == IF bucket[f] = Missing THEN EmptyText ELSE bucket[f]

\* Mutant: an empty value is stored like any other.
SetRelayInfoKeepsEmpty(f, v) == bucket' = [bucket EXCEPT ![f] = v]

SetRelayInfo(f, v) ==
  bucket' = [bucket EXCEPT ![f] = IF v = EmptyText THEN Missing ELSE v]

(***************************************************************************)
(* New: the configuration's values, and the bucket's over them             *)
(***************************************************************************)
\* Mutant: the bucket fills in for what the configuration leaves empty.
ShownConfigFirst(f) == IF config[f] # EmptyText THEN config[f] ELSE GetRelayInfo(f)

Shown(f) == IF GetRelayInfo(f) # EmptyText THEN GetRelayInfo(f) ELSE config[f]

New ==
  /\ ~serving
  /\ serving' = TRUE
  /\ info' = [f \in Fields |-> Whole(Shown(f))]
  /\ UNCHANGED <<config, bucket, calls, alone, acked, stops>>

(***************************************************************************)
(* ChangeRelayName, ChangeRelayDescription and ChangeRelayIcon             *)
(***************************************************************************)
UnderWay(f) == {c \in Requests : calls[c] # Missing /\ calls[c].field = f}

Enter(c, f, v) ==
  /\ serving
  /\ calls[c] = Missing
  /\ calls' = [calls EXCEPT ![c] = [field |-> f, value |-> v, left |-> Words]]
  /\ alone' = IF UnderWay(f) = {} THEN alone \cup {c} ELSE alone \ UnderWay(f)
  /\ acked' = [acked EXCEPT ![f] = Missing]
  /\ UNCHANGED <<config, serving, info, bucket, stops>>

\* One word of the assignment, in the order of the compiler's choice.
AssignWord(c, w) ==
  /\ calls[c] # Missing
  /\ w \in calls[c].left
  /\ calls' = [calls EXCEPT ![c].left = @ \ {w}]
  /\ info' = [info EXCEPT ![calls[c].field][w] = calls[c].value]
  /\ UNCHANGED <<config, serving, bucket, alone, acked, stops>>

Return(c) ==
  /\ calls[c] # Missing
  /\ calls[c].left = {}
  /\ calls' = [calls EXCEPT ![c] = Missing]
  /\ alone' = alone \ {c}
  /\ UNCHANGED <<config, serving, info, stops>>

Put(c) ==
  /\ Return(c)
  /\ SetRelayInfo(calls[c].field, calls[c].value)
  /\ acked' = IF c \in alone THEN [acked EXCEPT ![calls[c].field] = calls[c].value]
              ELSE acked

\* The transaction fails, or the store is closed by Shutdown: the admin gets an
\* error and memory keeps the value.
PutFails(c) ==
  /\ Return(c)
  /\ UNCHANGED <<bucket, acked>>

(***************************************************************************)
(* The process ends, with calls half way, and its configuration is edited. *)
(***************************************************************************)
Stop ==
  /\ serving
  /\ stops < MaxStops
  /\ stops' = stops + 1
  /\ serving' = FALSE
  /\ config' \in Configured
  /\ info' = [f \in Fields |-> Whole(EmptyText)]
  /\ calls' = [c \in Requests |-> Missing]
  /\ alone' = {}
  /\ UNCHANGED <<bucket, acked>>

Next ==
  \/ New
  \/ \E c \in Requests :
       \/ \E f \in Fields, v \in Values : Enter(c, f, v)
       \/ \E w \in Words : AssignWord(c, w)
       \/ Put(c)
       \/ PutFails(c)
  \/ Stop

Spec == Init /\ [][Next]_vars

(***************************************************************************)
(* Properties                                                              *)
(***************************************************************************)
\* A change that was acknowledged, and that no other call of its field
\* overlapped or followed, is what the relay shows, now and after every restart
\* whatever the configuration says: memory and the bucket agree, and no word of
\* another call is left in it.  An empty text shows until the next start, and
\* the configuration's value from then on.
AcknowledgedShows ==
  serving =>
    \A f \in Fields :
      acked[f] # Missing =>
        info[f] \in {Whole(acked[f])}
                      \cup (IF acked[f] = EmptyText THEN {Whole(config[f])} ELSE {})
=============================================================================
