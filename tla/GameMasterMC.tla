---------------------------- MODULE GameMasterMC ----------------------------
(***************************************************************************)
(* GameMaster, with what its history means to a client, for TLC.           *)
(***************************************************************************)
EXTENDS LateJoin, TLC

\* The servers are interchangeable, and so are the names; only for the
\* invariants and action properties.
Symmetry == Permutations(Servers) \cup Permutations(Names)
=============================================================================
