----------------------------- MODULE SessionMC -----------------------------
(***************************************************************************)
(* Session for TLC.                                                        *)
(***************************************************************************)
EXTENDS Session, TLC

\* Slots are interchangeable, and so are the names; only for the invariants
\* and action properties.
Symmetry == Permutations(Servers) \cup Permutations(Names)
=============================================================================
