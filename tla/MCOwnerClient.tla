---------------------------- MODULE MCOwnerClient ----------------------------
(***************************************************************************)
(* OwnerClient on a small instance.                                        *)
(***************************************************************************)
EXTENDS OwnerClient, TLC

CONSTANTS w1, w2, vault, ecdsa, contract, token, r1

LeavesOfR == [root \in {r1} |->
    {[key |-> w2, token |-> token, recipient |-> w2, maxAmount |-> 1,
      validAfter |-> 0, validUntil |-> 0]}]

BornEither == {[version |-> "v1", registry |-> None, owner |-> w1],
               [version |-> "v2", registry |-> ecdsa, owner |-> w1]}

UpgradeCalls == <<Call("updateImplementation", Account, Zero, 0),
                  Call("setupAndEnableModule", ecdsa, w1, 0)>>

TriedCalls == {UpgradeCalls,
               <<Call("setOwner", Account, vault, 0)>>,
               <<Call("enableModule", ForwardFlow, Zero, 0)>>}

TwoTemplates == {[targetTxGas |-> Unset, gasPrice |-> Unset, tokenGasPriceFactor |-> Unset],
                 [targetTxGas |-> 1, gasPrice |-> 1, tokenGasPriceFactor |-> 0]}

RankOf == (w1 :> 2) @@ (w2 :> 1) @@ (vault :> 3)

SomeSigners == {{w1}, {vault}}
=============================================================================
