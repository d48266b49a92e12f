-------------------------- MODULE MCWalDurability --------------------------
(* Instances of WalDurability for TLC: three groups, and the mutants of its *)
(* definitions.                                                             *)
EXTENDS WalDurability, TLC

CONSTANTS g1, g2, g3

MCGroups == {g1, g2, g3}

MCRank == g1 :> 1 @@ g2 :> 2 @@ g3 :> 3
=============================================================================
