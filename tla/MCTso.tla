------------------------------- MODULE MCTso -------------------------------
(***************************************************************************)
(* Instances of Tso for TLC.                                               *)
(***************************************************************************)
EXTENDS Tso, TLC

CONSTANTS n1, n2, c1, c2

MCNodes == {n1, n2}
MCClients == {c1, c2}
MCOneClient == {c1}

\* Nodes and clients are only ever compared for equality.
Symmetry == Permutations(MCNodes) \cup Permutations(MCClients)
SymmetryOneClient == Permutations(MCNodes)
=============================================================================
