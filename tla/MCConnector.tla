---------------------------- MODULE MCConnector ----------------------------
(***************************************************************************)
(* Instances of Connector for TLC. The client ids and the messages are     *)
(* interchangeable; the descriptors are not, KickUser takes the lowest.    *)
(***************************************************************************)
EXTENDS Connector, TLC

Symmetry == Permutations(ClientId) \cup Permutations(Msg)
=============================================================================
