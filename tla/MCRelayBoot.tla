---------------------------- MODULE MCRelayBoot ----------------------------
(***************************************************************************)
(* Instances of RelayBoot.  Three keys are enough for every role to be     *)
(* held, moved to another key and dropped between two configurations:      *)
(* o is the operator's key, s the server's, a the key of an agent.         *)
(***************************************************************************)
EXTENDS RelayBoot

CONSTANTS o, s, a, r1

MCPubkeys == {o, s, a}
MCReasons == {"admin", "server", "portal", "publisher", "agent", "operator"}

\* Operator, server and an agent, each with its own key.
Normal == [admins |-> {}, operator |-> o, server |-> s,
           notice |-> NoKey, publisher |-> NoKey, agents |-> {a}]

\* The single-key bootstrap: the server key is also an admin's.
SingleKey == [Normal EXCEPT !.operator = s]

\* The agent has become an admin, next to an empty entry; there is no agent.
Promoted == [Normal EXCEPT !.admins = {a, NoKey}, !.agents = {}]

\* The agent's key signs notices, the server's key the catalogue.
Moved == [Normal EXCEPT !.server = NoKey, !.notice = a, !.publisher = s, !.agents = {}]

\* Nothing but the operator.
Bare == [Normal EXCEPT !.server = NoKey, !.agents = {}]

\* No operator: this file does not load.
Headless == [Normal EXCEPT !.operator = NoKey, !.admins = {a}]

MCConfigs == {Normal, SingleKey, Promoted, Moved, Bare, Headless}
=============================================================================
