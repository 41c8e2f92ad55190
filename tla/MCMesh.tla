------------------------------- MODULE MCMesh -------------------------------
(***************************************************************************)
(* Instances of Mesh for TLC.                                              *)
(***************************************************************************)
EXTENDS Mesh, TLC

\* Servers have no part in each other's steps, so it is enough to have each kind
\* of them once, and one of them up at a time. The constraint takes away only
\* starts, which no fairness condition asks for.
OneServer == \A s, t \in Server : proc'[s] = "down" \/ proc'[t] = "down" \/ s = t
=============================================================================
