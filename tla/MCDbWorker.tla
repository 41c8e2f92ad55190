----------------------------- MODULE MCDbWorker -----------------------------
(***************************************************************************)
(* Instances of DbWorker for TLC. Message ids are numbers: their order     *)
(* decides what leaves redis with an expired id.                           *)
(***************************************************************************)
EXTENDS DbWorker, TLC

Symmetry == Permutations(Client) \cup Permutations(Connector)
=============================================================================
