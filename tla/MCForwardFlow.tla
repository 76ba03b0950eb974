--------------------------- MODULE MCForwardFlow ---------------------------
(***************************************************************************)
(* ForwardFlow for two accounts and two transactions.                      *)
(***************************************************************************)
EXTENDS ForwardFlow, TLC

CONSTANTS a1, a2

TwoAccounts == {a1, a2}

Term(t, price, factor, gas) ==
    [gasToken |-> t, gasPrice |-> price, tokenGasPriceFactor |-> factor,
     targetTxGas |-> gas]

\* No refund and no gas, and a refund in ether.
EtherTerms == {Term(Ether, 0, 1, 0), Term(Ether, 2, 1, 1)}

Symm == Permutations(TwoAccounts)
=============================================================================
