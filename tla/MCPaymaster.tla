---------------------------- MODULE MCPaymaster -----------------------------
(***************************************************************************)
(* Paymaster on small instances: two dapps and one more caller.            *)
(***************************************************************************)
EXTENDS Paymaster, TLC

CONSTANTS dapp1, dapp2, s1

TwoIds     == {dapp1, dapp2}

OneSigner  == {s1}

SymmIds    == Permutations(TwoIds)
=============================================================================
