------------------------------ MODULE MCStream ------------------------------
(* Instantiates Stream: an outbound stream (Connect and Hello first), one  *)
(* peer client version our own and one incompatible, small channels.      *)
EXTENDS Stream

\* ClientVersion "0.1.0" and an incompatible "2.0.0" as their split parts.
MCClientVersion == <<0, 1, 0>>
MCPeerVersions == {<<0, 1, 0>>, <<2, 0, 0>>}
=============================================================================
