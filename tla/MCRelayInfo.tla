---------------------------- MODULE MCRelayInfo ----------------------------
(***************************************************************************)
(* An instance of RelayInfo: one or two fields, two texts, three calls.    *)
(***************************************************************************)
EXTENDS RelayInfo

CONSTANTS name, a, b

\* The configuration names the relay or leaves it empty.
MCConfigured == [Fields -> {a, EmptyText}]
=============================================================================
