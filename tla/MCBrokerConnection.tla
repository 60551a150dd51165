-------------------------- MODULE MCBrokerConnection --------------------------
(* Small instances of BrokerConnection for TLC. *)
EXTENDS BrokerConnection

CONSTANTS auth, notify, realtime

StartOrder == <<auth, notify, realtime>>
=============================================================================
