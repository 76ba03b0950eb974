---------------------------- MODULE MCOwnership ----------------------------
(***************************************************************************)
(* Ownership on a small instance.                                          *)
(***************************************************************************)
EXTENDS Ownership, TLC

CONSTANTS w1, w2, vault, k, half, ecdsa, contract, passkey, token, r1, r2, rcurve

\* A session of w2 for a contract: calls of it about w2.
Session(contr) == [key |-> w2, token |-> contr, recipient |-> w2, maxAmount |-> 1,
                   validAfter |-> 0, validUntil |-> 0]

\* One root has a session for a token, the other one for a module of the account.
TwoRoots  == {r1, r2}
LeavesOfR == [root \in {r1, r2} |-> {Session(IF root = r1 THEN token ELSE ecdsa)}]

OneWindow == {[validAfter |-> 1, validUntil |-> 1]}

BornEither == {[version |-> "v1", registry |-> None, owner |-> w1],
               [version |-> "v2", registry |-> ecdsa, owner |-> w1]}

BornWithPasskey == {[version |-> "v2", registry |-> passkey, owner |-> k]}

TriedCalls == {<<Call("setOwner", Account, w2, 0)>>,
               <<Call("updateImplementation", Account, Zero, 0)>>,
               <<Call("updateImplementation", Account, Zero, 0),
                 Call("setupAndEnableModule", ecdsa, w1, 0)>>,
               <<Call("setupAndEnableModule", contract, vault, 0)>>,
               <<Call("transferOwnership", contract, w2, 0)>>,
               <<Call("disableModule", ecdsa, Zero, 0)>>,
               <<Call("initForSmartAccount", ecdsa, w2, 0)>>,
               <<Call("transferOwnership", ecdsa, w2, 0)>>,
               <<Call("renounceOwnership", ecdsa, Zero, 0)>>,
               <<Call("enableModule", SessionKeyManager, Zero, 0),
                 Call("setMerkleRoot", SessionKeyManager, r1, 0)>>,
               <<Call("setMerkleRoot", SessionKeyManager, r2, 0)>>,
               <<Call("transfer", token, w2, 1)>>}

=============================================================================
