-------------------------- MODULE RelayInfoProofs --------------------------
(***************************************************************************)
(* Theorems about RelayInfo: its types, and that what was acknowledged is  *)
(* what the relay shows, for every number of fields, texts, overlapping    *)
(* calls and restarts.                                                     *)
(***************************************************************************)
EXTENDS RelayInfo, TLAPS

LEMMA TypeInit == Init => TypeOK
<1> SUFFICES ASSUME Init PROVE TypeOK OBVIOUS
<1>1. Whole(EmptyText) \in [Words -> Values]
  BY DEF Whole, Values
<1>2. info \in [Fields -> [Words -> Values]]
  BY <1>1 DEF Init
<1>3. stops \in 0..MaxStops
  BY RelayInfoAssumption DEF Init
<1> QED BY <1>2, <1>3 DEF Init, TypeOK

LEMMA ShownType ==
  ASSUME TypeOK, NEW f \in Fields
  PROVE  GetRelayInfo(f) \in Values /\ Shown(f) \in Values
BY RelayInfoAssumption DEF TypeOK, GetRelayInfo, Shown, Values

LEMMA EnterType ==
  ASSUME TypeOK, NEW c \in Requests, NEW f \in Fields, NEW v \in Values, Enter(c, f, v)
  PROVE  TypeOK'
<1>1. [field |-> f, value |-> v, left |-> Words] \in CallType
  BY DEF CallType
<1>2. calls' \in [Requests -> CallType \cup {Missing}]
  BY <1>1 DEF TypeOK, Enter
<1>3. alone' \in SUBSET Requests /\ acked' \in [Fields -> Values \cup {Missing}]
  BY DEF TypeOK, Enter
<1> QED BY <1>2, <1>3 DEF TypeOK, Enter

LEMMA AssignWordType ==
  ASSUME TypeOK, NEW c \in Requests, NEW w \in Words, AssignWord(c, w)
  PROVE  TypeOK'
<1>1. calls[c] \in CallType
  BY DEF TypeOK, AssignWord
<1>2. calls' \in [Requests -> CallType \cup {Missing}]
  <2>1. [calls[c] EXCEPT !.left = @ \ {w}] \in CallType
    BY <1>1 DEF CallType
  <2> QED BY <2>1 DEF TypeOK, AssignWord
<1>3. info' \in [Fields -> [Words -> Values]]
  BY <1>1 DEF TypeOK, AssignWord, CallType
<1> QED BY <1>2, <1>3 DEF TypeOK, AssignWord

LEMMA PutType ==
  ASSUME TypeOK, NEW c \in Requests, Put(c)
  PROVE  TypeOK'
<1>1. calls[c].field \in Fields /\ calls[c].value \in Values
  BY DEF TypeOK, Put, Return, CallType
<1>2. bucket' \in [Fields -> Texts \cup {Missing}]
  BY <1>1 DEF TypeOK, Put, SetRelayInfo, Values
<1>3. acked' \in [Fields -> Values \cup {Missing}]
  BY <1>1 DEF TypeOK, Put
<1> QED BY <1>2, <1>3 DEF TypeOK, Put, Return

LEMMA TypeStep == TypeOK /\ [Next]_vars => TypeOK'
<1> SUFFICES ASSUME TypeOK, [Next]_vars PROVE TypeOK' OBVIOUS
<1>1. CASE New
  BY <1>1, ShownType DEF TypeOK, New, Whole
<1>2. CASE \E c \in Requests, f \in Fields, v \in Values : Enter(c, f, v)
  BY <1>2, EnterType
<1>3. CASE \E c \in Requests, w \in Words : AssignWord(c, w)
  BY <1>3, AssignWordType
<1>4. CASE \E c \in Requests : Put(c)
  BY <1>4, PutType
<1>5. CASE \E c \in Requests : PutFails(c)
  BY <1>5 DEF TypeOK, PutFails, Return
<1>6. CASE Stop
  <2>1. Whole(EmptyText) \in [Words -> Values]
    BY DEF Whole, Values
  <2>2. info' \in [Fields -> [Words -> Values]]
    BY <1>6, <2>1 DEF Stop
  <2>3. stops' \in 0..MaxStops
    BY <1>6, RelayInfoAssumption DEF TypeOK, Stop
  <2> QED BY <1>6, <2>2, <2>3 DEF TypeOK, Stop
<1>7. CASE UNCHANGED vars
  BY <1>7 DEF TypeOK, vars
<1> QED BY <1>1, <1>2, <1>3, <1>4, <1>5, <1>6, <1>7 DEF Next

\* TypeOK of every reachable state: in particular the bucket never holds an
\* empty text, which GetRelayInfo could not tell from a missing entry.
THEOREM RelayInfoTypeCorrect == Spec => []TypeOK
<1> QED BY TypeInit, TypeStep, PTL DEF Spec

(***************************************************************************)
(* The strengthening: a call that is alone on its field has left nothing   *)
(* but its own words in memory, and an acknowledged field is at rest.      *)
(***************************************************************************)
AloneInv ==
  \A c \in alone :
    /\ calls[c] # Missing
    /\ \A d \in Requests \ {c} : calls[d] # Missing => calls[d].field # calls[c].field
    /\ \A w \in Words \ calls[c].left : info[calls[c].field][w] = calls[c].value

AckedInv ==
  \A f \in Fields : acked[f] # Missing =>
    /\ UnderWay(f) = {}
    /\ GetRelayInfo(f) = acked[f]

DownInv == ~serving => \A c \in Requests : calls[c] = Missing

IInv == TypeOK /\ AloneInv /\ AckedInv /\ DownInv /\ AcknowledgedShows

LEMMA InvInit == Init => IInv
<1> SUFFICES ASSUME Init PROVE IInv OBVIOUS
<1> QED BY TypeInit DEF Init, IInv, AloneInv, AckedInv, DownInv, AcknowledgedShows

LEMMA NewInv == ASSUME IInv, New PROVE IInv'
<1>1. TypeOK' /\ AloneInv' /\ DownInv'
  BY TypeStep DEF IInv, New, Next, AloneInv, DownInv, TypeOK
<1>2. AckedInv'
  BY DEF IInv, New, AckedInv, UnderWay, GetRelayInfo
<1>3. AcknowledgedShows'
  <2> SUFFICES ASSUME NEW f \in Fields, acked[f] # Missing
               PROVE  info'[f] \in {Whole(acked[f])}
                        \cup (IF acked[f] = EmptyText THEN {Whole(config[f])} ELSE {})
    BY DEF AcknowledgedShows, New, Whole
  <2>1. Shown(f) = IF acked[f] # EmptyText THEN acked[f] ELSE config[f]
    BY DEF IInv, AckedInv, Shown
  <2>2. info'[f] = Whole(Shown(f))
    BY DEF New
  <2> QED BY <2>1, <2>2
<1> QED BY <1>1, <1>2, <1>3 DEF IInv

LEMMA EnterInv ==
  ASSUME IInv, NEW c \in Requests, NEW f \in Fields, NEW v \in Values, Enter(c, f, v)
  PROVE  IInv'
<1>1. TypeOK'
  BY EnterType DEF IInv
<1>2. /\ calls'[c] # Missing /\ calls'[c].field = f /\ calls'[c].left = Words
      /\ \A d \in Requests \ {c} : calls'[d] = calls[d]
      /\ calls[c] = Missing
      /\ acked'[f] = Missing /\ \A g \in Fields \ {f} : acked'[g] = acked[g]
  <2>1. [field |-> f, value |-> v, left |-> Words] \in CallType
    BY DEF CallType
  <2> QED BY <2>1, RelayInfoAssumption DEF IInv, TypeOK, Enter
<1>3. AloneInv'
  <2> SUFFICES ASSUME NEW d \in alone'
               PROVE  /\ calls'[d] # Missing
                      /\ \A o \in Requests \ {d} :
                           calls'[o] # Missing => calls'[o].field # calls'[d].field
                      /\ \A w \in Words \ calls'[d].left :
                           info[calls'[d].field][w] = calls'[d].value
    BY DEF AloneInv, Enter
  <2>0. d \in Requests /\ alone \subseteq Requests
    BY <1>1 DEF TypeOK, IInv
  <2>1. CASE d = c
    <3>1. UnderWay(f) = {}
      BY <2>1, <1>2 DEF Enter, IInv, AloneInv, UnderWay
    <3> QED BY <3>1, <2>1, <1>2 DEF UnderWay
  <2>2. CASE d # c
    <3>1. d \in alone /\ d \notin UnderWay(f)
      BY <2>2 DEF Enter, UnderWay
    <3>2. calls'[d] = calls[d] /\ calls[d] # Missing /\ calls[d].field # f
      BY <3>1, <2>0, <2>2, <1>2 DEF IInv, AloneInv, UnderWay
    <3> QED BY <3>1, <3>2, <2>0, <1>2 DEF IInv, AloneInv
  <2> QED BY <2>1, <2>2
<1>4. AckedInv'
  <2> SUFFICES ASSUME NEW g \in Fields, acked'[g] # Missing
               PROVE  UnderWay(g)' = {} /\ GetRelayInfo(g)' = acked'[g]
    BY DEF AckedInv
  <2>1. g # f /\ acked[g] # Missing
    BY <1>2
  <2>2. UnderWay(g) = {} /\ GetRelayInfo(g) = acked[g]
    BY <2>1 DEF IInv, AckedInv
  <2>3. UnderWay(g)' = {}
    BY <2>1, <2>2, <1>2 DEF UnderWay
  <2> QED BY <2>1, <2>2, <2>3, <1>2 DEF GetRelayInfo, Enter
<1>5. DownInv' /\ AcknowledgedShows'
  BY <1>2 DEF IInv, DownInv, AcknowledgedShows, Enter, Whole
<1> QED BY <1>1, <1>3, <1>4, <1>5 DEF IInv

LEMMA AssignWordInv ==
  ASSUME IInv, NEW c \in Requests, NEW w \in Words, AssignWord(c, w)
  PROVE  IInv'
<1>1. TypeOK'
  BY AssignWordType DEF IInv
<1>2. calls[c] \in CallType
  BY DEF IInv, TypeOK, AssignWord
<1>3. calls'[c] = [calls[c] EXCEPT !.left = @ \ {w}]
  BY DEF IInv, TypeOK, AssignWord
<1>4. /\ calls'[c] # Missing
      /\ calls'[c].field = calls[c].field /\ calls'[c].value = calls[c].value
      /\ calls'[c].left = calls[c].left \ {w}
  <2>1. calls'[c] \in CallType
    BY <1>2, <1>3 DEF CallType
  <2> QED BY <1>2, <1>3, <2>1, RelayInfoAssumption DEF CallType
<1>5. \A d \in Requests \ {c} : calls'[d] = calls[d]
  BY DEF IInv, TypeOK, AssignWord
<1>6. /\ info'[calls[c].field][w] = calls[c].value
      /\ \A u \in Words \ {w} : info'[calls[c].field][u] = info[calls[c].field][u]
      /\ \A g \in Fields \ {calls[c].field} : info'[g] = info[g]
  BY <1>2 DEF IInv, TypeOK, AssignWord, CallType
<1>7. AloneInv'
  <2> SUFFICES ASSUME NEW d \in alone
               PROVE  /\ calls'[d] # Missing
                      /\ \A o \in Requests \ {d} :
                           calls'[o] # Missing => calls'[o].field # calls'[d].field
                      /\ \A u \in Words \ calls'[d].left :
                           info'[calls'[d].field][u] = calls'[d].value
    BY DEF AloneInv, AssignWord
  <2>0. d \in Requests
    BY DEF IInv, TypeOK
  <2>1. /\ calls[d] # Missing
        /\ \A o \in Requests \ {d} : calls[o] # Missing => calls[o].field # calls[d].field
        /\ \A u \in Words \ calls[d].left : info[calls[d].field][u] = calls[d].value
    BY DEF IInv, AloneInv
  <2>2. \A o \in Requests : /\ calls'[o] # Missing <=> calls[o] # Missing
                            /\ calls[o] # Missing => calls'[o].field = calls[o].field
    BY <1>4, <1>5 DEF AssignWord
  <2>3. CASE d = c
    BY <2>0, <2>1, <2>2, <2>3, <1>4, <1>6
  <2>4. CASE d # c
    <3>1. calls[d].field # calls[c].field /\ calls[d] \in CallType
      BY <2>0, <2>1, <2>4 DEF IInv, TypeOK, AssignWord
    <3>2. info'[calls[d].field] = info[calls[d].field]
      BY <3>1, <1>6 DEF CallType
    <3> QED BY <2>0, <2>1, <2>2, <2>4, <1>5, <3>2
  <2> QED BY <2>3, <2>4
<1>8. AckedInv' /\ AcknowledgedShows'
  <2>1. acked[calls[c].field] = Missing
    <3>1. c \in UnderWay(calls[c].field) /\ calls[c].field \in Fields
      BY <1>2 DEF UnderWay, AssignWord, CallType
    <3> QED BY <3>1 DEF IInv, AckedInv
  <2>2. \A g \in Fields : UnderWay(g)' = UnderWay(g)
    BY <1>4, <1>5 DEF UnderWay, AssignWord
  <2>3. AckedInv'
    BY <2>2 DEF IInv, AckedInv, AssignWord, GetRelayInfo
  <2>4. AcknowledgedShows'
    BY <2>1, <1>6 DEF IInv, AcknowledgedShows, AssignWord, Whole
  <2> QED BY <2>3, <2>4
<1>9. DownInv'
  BY <1>4, <1>5 DEF IInv, DownInv, AssignWord
<1> QED BY <1>1, <1>7, <1>8, <1>9 DEF IInv

LEMMA ReturnInv ==
  ASSUME IInv, NEW c \in Requests, Return(c), NEW f, f = calls[c].field
  PROVE  /\ AloneInv' /\ DownInv'
         /\ \A g \in Fields : UnderWay(g) = {} => UnderWay(g)' = {}
         /\ c \in alone => UnderWay(f)' = {}
         /\ acked[f] = Missing
<1>1. calls'[c] = Missing /\ \A d \in Requests \ {c} : calls'[d] = calls[d]
  BY DEF IInv, TypeOK, Return
<1>2. alone' = alone \ {c} /\ alone \subseteq Requests /\ info' = info /\ serving' = serving
  BY DEF IInv, TypeOK, Return
<1>3. AloneInv'
  <2> SUFFICES ASSUME NEW d \in alone \ {c}
               PROVE  /\ calls'[d] # Missing
                      /\ \A o \in Requests \ {d} :
                           calls'[o] # Missing => calls'[o].field # calls'[d].field
                      /\ \A u \in Words \ calls'[d].left :
                           info[calls'[d].field][u] = calls'[d].value
    BY <1>2 DEF AloneInv
  <2>1. d \in Requests /\ calls'[d] = calls[d]
    BY <1>1, <1>2
  <2> QED BY <2>1, <1>1 DEF IInv, AloneInv
<1>4. DownInv' /\ \A g \in Fields : UnderWay(g) = {} => UnderWay(g)' = {}
  BY <1>1, <1>2 DEF IInv, DownInv, UnderWay
<1>5. c \in alone => UnderWay(f)' = {}
  BY <1>1 DEF IInv, AloneInv, UnderWay
<1>6. acked[f] = Missing
  <2>1. c \in UnderWay(f) /\ f \in Fields
    BY DEF IInv, TypeOK, UnderWay, Return, CallType
  <2> QED BY <2>1 DEF IInv, AckedInv
<1> QED BY <1>3, <1>4, <1>5, <1>6

LEMMA PutInv == ASSUME IInv, NEW c \in Requests, Put(c) PROVE IInv'
<1> PICK f, v : f = calls[c].field /\ v = calls[c].value
  OBVIOUS
<1>1. TypeOK' /\ f \in Fields /\ v \in Values
  BY PutType DEF IInv, TypeOK, Put, Return, CallType
<1>2. /\ AloneInv' /\ DownInv'
      /\ \A g \in Fields : UnderWay(g) = {} => UnderWay(g)' = {}
      /\ c \in alone => UnderWay(f)' = {}
      /\ acked[f] = Missing
  BY ReturnInv DEF Put
<1>3. GetRelayInfo(f)' = v /\ \A g \in Fields \ {f} : GetRelayInfo(g)' = GetRelayInfo(g)
  BY <1>1, RelayInfoAssumption DEF IInv, TypeOK, Put, SetRelayInfo, GetRelayInfo, Values
<1>4. /\ \A g \in Fields \ {f} : acked'[g] = acked[g]
      /\ acked'[f] = IF c \in alone THEN v ELSE Missing
  BY <1>1, <1>2 DEF IInv, TypeOK, Put
<1>5. AckedInv'
  <2> SUFFICES ASSUME NEW g \in Fields, acked'[g] # Missing
               PROVE  UnderWay(g)' = {} /\ GetRelayInfo(g)' = acked'[g]
    BY DEF AckedInv
  <2>1. CASE g = f
    BY <2>1, <1>2, <1>3, <1>4
  <2>2. CASE g # f
    BY <2>2, <1>2, <1>3, <1>4 DEF IInv, AckedInv
  <2> QED BY <2>1, <2>2
<1>6. AcknowledgedShows'
  <2> SUFFICES ASSUME serving, NEW g \in Fields, acked'[g] # Missing
               PROVE  info[g] \in {Whole(acked'[g])}
                        \cup (IF acked'[g] = EmptyText THEN {Whole(config[g])} ELSE {})
    BY DEF AcknowledgedShows, Put, Return, Whole
  <2>1. CASE g = f
    <3>1. c \in alone /\ acked'[g] = v
      BY <2>1, <1>4
    <3>2. \A w \in Words : info[f][w] = v
      BY <3>1 DEF IInv, AloneInv, Put, Return
    <3>3. info[f] = Whole(v)
      BY <3>2, <1>1 DEF IInv, TypeOK, Whole
    <3> QED BY <3>1, <3>3, <2>1
  <2>2. CASE g # f
    BY <2>2, <1>4 DEF IInv, AcknowledgedShows
  <2> QED BY <2>1, <2>2
<1> QED BY <1>1, <1>2, <1>5, <1>6 DEF IInv

LEMMA PutFailsInv == ASSUME IInv, NEW c \in Requests, PutFails(c) PROVE IInv'
<1>1. TypeOK'
  BY TypeStep DEF IInv, Next
<1>2. AloneInv' /\ DownInv' /\ \A g \in Fields : UnderWay(g) = {} => UnderWay(g)' = {}
  BY ReturnInv DEF PutFails
<1>3. AckedInv'
  BY <1>2 DEF IInv, AckedInv, PutFails, GetRelayInfo
<1>4. AcknowledgedShows'
  BY DEF IInv, AcknowledgedShows, PutFails, Return, Whole
<1> QED BY <1>1, <1>2, <1>3, <1>4 DEF IInv

LEMMA StopInv == ASSUME IInv, Stop PROVE IInv'
<1>1. TypeOK'
  BY TypeStep DEF IInv, Next
<1>2. AloneInv' /\ DownInv' /\ AcknowledgedShows' /\ \A g \in Fields : UnderWay(g)' = {}
  BY DEF IInv, Stop, AloneInv, DownInv, AcknowledgedShows, UnderWay
<1>3. AckedInv'
  BY <1>2 DEF IInv, AckedInv, Stop, GetRelayInfo
<1> QED BY <1>1, <1>2, <1>3 DEF IInv

LEMMA InvStep == IInv /\ [Next]_vars => IInv'
<1> SUFFICES ASSUME IInv, [Next]_vars PROVE IInv' OBVIOUS
<1>1. CASE New
  BY <1>1, NewInv
<1>2. CASE \E c \in Requests, f \in Fields, v \in Values : Enter(c, f, v)
  BY <1>2, EnterInv
<1>3. CASE \E c \in Requests, w \in Words : AssignWord(c, w)
  BY <1>3, AssignWordInv
<1>4. CASE \E c \in Requests : Put(c) \/ PutFails(c)
  BY <1>4, PutInv, PutFailsInv
<1>5. CASE Stop
  BY <1>5, StopInv
<1>6. CASE UNCHANGED vars
  BY <1>6 DEF IInv, vars, TypeOK, AloneInv, AckedInv, DownInv, AcknowledgedShows,
              UnderWay, GetRelayInfo, Whole
<1> QED BY <1>1, <1>2, <1>3, <1>4, <1>5, <1>6 DEF Next

\* What an admin was told has succeeded, alone on its field, is what the relay
\* shows, through later failures of other fields, restarts and reconfiguration.
THEOREM AcknowledgedIsShown == Spec => []AcknowledgedShows
<1>1. IInv => AcknowledgedShows
  BY DEF IInv
<1> QED BY <1>1, InvInit, InvStep, PTL DEF Spec
=============================================================================
