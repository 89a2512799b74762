--------------------------- MODULE MCCafeWallets ---------------------------
(***************************************************************************)
(* Instances of CafeWallets for TLC.                                       *)
(***************************************************************************)
EXTENDS CafeWallets, TLC

CONSTANTS r1, r2, r3, u1, u2, v1

WalletSymmetry == Permutations({r1, r2, r3}) \cup Permutations({u1, u2})
=============================================================================
