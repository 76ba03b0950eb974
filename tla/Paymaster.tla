----------------------------- MODULE Paymaster ------------------------------
(***************************************************************************)
(* VerifyingSingletonPaymaster.sol: one contract with one deposit in the   *)
(* EntryPoint, which pays for the operations of many dapps and keeps a     *)
(* balance for each of them.                                               *)
(*                                                                         *)
(* As in SmartAccount, calls nest on a stack, the code of other contracts  *)
(* is arbitrary, and a frame that reverts undoes what happened since it    *)
(* was entered.  The EntryPoint (external) takes an operation's prefund    *)
(* from the deposit when it validates it, and gives back what was not used *)
(* after it has executed it and the paymaster's postOp has charged a dapp. *)
(***************************************************************************)
EXTENDS Integers, Sequences, FiniteSets, FiniteSetsExt

CONSTANTS
    Ids,          \* paymaster ids: the dapps with a balance
    Signers,      \* keys the owner makes verifyingSigner
    Forger,       \* a key that never is
    Limits,       \* the gas limits of an operation, all taken together
    Prices,       \* what operations and transactions pay for a unit of gas
    PostGas,      \* gas that _handlePostOp may use
    Overheads,    \* values of _unaccountedEPGasOverhead
    None, Fail,   \* whether the call that has just ended failed, where that matters
    Amounts,      \* sums of ether that are paid in and taken out
    MaxFunds,     \* bound on the ether in play
    MaxDepth,     \* bound on the stack
    MaxOps        \* bound on the operations of a bundle

ASSUME PaymasterAssumption ==
    /\ IsFiniteSet(Ids)
    /\ Forger \notin Signers
    /\ Limits \subseteq Nat /\ Prices \subseteq Nat
    /\ PostGas \subseteq Nat /\ Overheads \subseteq Nat
    /\ Amounts \subseteq Nat /\ MaxFunds \in Nat /\ MaxDepth \in Nat /\ MaxOps \in Nat
    /\ None # Fail

VARIABLES
    paymasterIdBalances,
    deposit,              \* the EntryPoint's deposits[paymaster]
    overhead,             \* _unaccountedEPGasOverhead
    verifyingSigner,
    entered,              \* ReentrancyGuard's status
    gasprice,             \* tx.gasprice of the transaction that runs
    frames,               \* the call stack, outermost call first
    ret                   \* how the call ended that the top frame has made

storage == <<paymasterIdBalances, deposit, overhead, verifyingSigner, entered>>
vars == <<storage, gasprice, frames, ret>>

-----------------------------------------------------------------------------
(* Operations and frames.                                                  *)

\* What the paymaster and the EntryPoint look at.  price is getUserOpGasPrice,
\* which is at most the maxFeePerGas that the prefund is reckoned with.
Operation == [id : Ids, signer : Signers \cup {Forger},
              limit : Limits, maxFee : Prices, price : Prices]

\* _getRequiredPrefund
Prefund(op) == op.limit * op.maxFee

Store == [paymasterIdBalances |-> paymasterIdBalances, deposit |-> deposit,
          overhead |-> overhead, verifyingSigner |-> verifyingSigner,
          entered |-> entered]

\* ops: operations validated and not yet settled.
Frame(code) == [code |-> code, ops |-> <<>>, saved |-> Store]

\* withdraw is the code of a withdrawal's recipient, which cannot fail without
\* the withdrawal.
EntryPointCode == {"validating", "executing", "inner"}
Code == {"external", "withdraw"} \cup EntryPointCode

Depth == Len(frames)
Top   == frames[Depth]

\* The frame below goes on after a failure, or has to deal with it.
Delivered(callee, caller, v) ==
    IF v = Fail /\ (caller = "validating" \/ callee = "inner") THEN v ELSE None

Leave(v) == /\ frames' = SubSeq(frames, 1, Depth - 1)
            /\ ret' = IF Depth = 1 THEN None
                      ELSE Delivered(Top.code, frames[Depth - 1].code, v)

Enter(f) == /\ Depth < MaxDepth
            /\ frames' = Append(frames, f)
            /\ ret' = None

Idle == frames # <<>> /\ ret = None

\* Contracts are running; any of them may call the paymaster.
External == Idle /\ Top.code \in {"external", "withdraw"}

InBundle == \E k \in 1 .. Depth : frames[k].code \in EntryPointCode

-----------------------------------------------------------------------------
(* The paymaster's functions.                                              *)

DepositFor(i, n) ==
    /\ External
    /\ ~entered /\ n > 0
    /\ deposit + n <= MaxFunds
    /\ paymasterIdBalances' = [paymasterIdBalances EXCEPT ![i] = @ + n]
    /\ deposit' = deposit + n
    /\ UNCHANGED <<overhead, verifyingSigner, entered, gasprice, frames, ret>>

SetSigner(s) ==
    /\ External
    /\ verifyingSigner' = s
    /\ UNCHANGED <<paymasterIdBalances, deposit, overhead, entered,
                   gasprice, frames, ret>>

SetUnaccountedEPGasOverhead(v) ==
    /\ External
    /\ overhead' = v
    /\ UNCHANGED <<paymasterIdBalances, deposit, verifyingSigner, entered,
                   gasprice, frames, ret>>

\* What-if: the balance is left for later.
WithdrawToLate(i, n) ==
    /\ External
    /\ ~entered
    /\ n <= paymasterIdBalances[i] /\ n <= deposit
    /\ deposit' = deposit - n
    /\ entered' = TRUE
    /\ Enter(Frame("withdraw"))
    /\ UNCHANGED <<paymasterIdBalances, overhead, verifyingSigner, gasprice>>

\* What-if: not nonReentrant.
WithdrawToUnguarded(i, n) ==
    /\ External
    /\ n <= paymasterIdBalances[i] /\ n <= deposit
    /\ paymasterIdBalances' = [paymasterIdBalances EXCEPT ![i] = @ - n]
    /\ deposit' = deposit - n
    /\ entered' = TRUE
    /\ Enter(Frame("withdraw"))
    /\ UNCHANGED <<overhead, verifyingSigner, gasprice>>

\* withdrawTo and the EntryPoint's withdrawTo, up to the recipient's call.
WithdrawTo(i, n) ==
    /\ External
    /\ ~entered
    /\ n <= paymasterIdBalances[i] /\ n <= deposit
    /\ paymasterIdBalances' = [paymasterIdBalances EXCEPT ![i] = @ - n]
    /\ deposit' = deposit - n
    /\ entered' = TRUE
    /\ Enter(Frame("withdraw"))
    /\ UNCHANGED <<overhead, verifyingSigner, gasprice>>

\* The recipient has taken the ether and returns.
WithdrawDone ==
    /\ Idle /\ Top.code = "withdraw"
    /\ entered' = FALSE
    /\ Leave(None)
    /\ UNCHANGED <<paymasterIdBalances, deposit, overhead, verifyingSigner,
                   gasprice>>

\* validatePaymasterUserOp, after the EntryPoint has taken the prefund.
ValidatePaymasterUserOp(op) ==
    /\ Idle /\ Top.code = "validating"
    /\ Len(Top.ops) < MaxOps
    /\ op.price <= op.maxFee
    /\ Prefund(op) <= deposit
    /\ op.signer = verifyingSigner
    /\ Prefund(op) <= paymasterIdBalances[op.id]
    /\ deposit' = deposit - Prefund(op)
    /\ frames' = [frames EXCEPT ![Depth].ops = Append(@, op)]
    /\ UNCHANGED <<paymasterIdBalances, overhead, verifyingSigner, entered,
                   gasprice, ret>>

\* What-if: the gas of postOp itself is not charged.
ChargeWithoutOverhead(op, gas) == gas * op.price

\* What _postOp deducts for an operation that has used gas so far.
Charge(op, gas) == gas * op.price + overhead * gasprice

\* What-if: the subtraction is unchecked.
DeductUnchecked(i, charge) ==
    paymasterIdBalances' = [paymasterIdBalances EXCEPT ![i] = @ - charge]

\* What-if: a dapp that cannot pay is charged what it has.
DeductUpTo(i, charge) ==
    paymasterIdBalances' = [paymasterIdBalances EXCEPT
                              ![i] = IF charge <= @ THEN @ - charge ELSE 0]

\* Checked arithmetic: a deduction that is too large reverts.
Deduct(i, charge) ==
    /\ charge <= paymasterIdBalances[i]
    /\ paymasterIdBalances' = [paymasterIdBalances EXCEPT ![i] = @ - charge]

\* _handlePostOp with the paymaster's postOp: the dapp is charged for the gas
\* used before, the EntryPoint keeps the cost with post more gas.
Settle(op, gas, post) ==
    /\ Deduct(op.id, Charge(op, gas))
    /\ (gas + post) * op.price <= Prefund(op)
    /\ deposit' = deposit + Prefund(op) - (gas + post) * op.price
    /\ UNCHANGED <<overhead, verifyingSigner, entered, gasprice>>

-----------------------------------------------------------------------------
(* The EntryPoint.                                                         *)

\* depositTo, by anybody, in the paymaster's favour.
DepositTo(n) ==
    /\ External
    /\ n > 0 /\ deposit + n <= MaxFunds
    /\ deposit' = deposit + n
    /\ UNCHANGED <<paymasterIdBalances, overhead, verifyingSigner, entered,
                   gasprice, frames, ret>>

\* One bundle at a time.
HandleOps ==
    /\ External /\ ~InBundle
    /\ Enter(Frame("validating"))
    /\ UNCHANGED <<storage, gasprice>>

ExecuteBundle ==
    /\ Idle /\ Top.code = "validating"
    /\ frames' = [frames EXCEPT ![Depth].code = "executing"]
    /\ UNCHANGED <<storage, gasprice, ret>>

\* One operation, in a frame that can be rolled back.
InnerHandleOp ==
    /\ Idle /\ Top.code = "executing" /\ Top.ops # <<>>
    /\ Enter(Frame("inner"))
    /\ UNCHANGED <<storage, gasprice>>

\* Then postOp inside that frame, whatever became of the user's call.
PostOp(gas, post) ==
    /\ Idle /\ Top.code = "inner"
    /\ Settle(Head(frames[Depth - 1].ops), gas, post)
    /\ frames' = [SubSeq(frames, 1, Depth - 1) EXCEPT ![Depth - 1].ops = Tail(@)]
    /\ ret' = None

\* The frame was rolled back: postOp again, now for the bundle or not at all.
PostOpReverted(gas, post) ==
    /\ frames # <<>> /\ Top.code = "executing" /\ ret = Fail
    /\ Settle(Head(Top.ops), gas, post)
    /\ frames' = [frames EXCEPT ![Depth].ops = Tail(@)]
    /\ ret' = None

-----------------------------------------------------------------------------
(* Everybody else.                                                         *)

\* A transaction at some gas price: somebody's call, or a bundler's handleOps.
Transact ==
    /\ frames = <<>>
    /\ gasprice' \in Prices
    /\ \E code \in {"external", "validating"} :
          frames' = <<Frame(code)>>
    /\ ret' = None
    /\ UNCHANGED storage

\* The EntryPoint calls an account, an operation with another paymaster or the
\* beneficiary; from there on anybody may act.  Calls among contracts need no frames: undone, they leave no trace.
CallContract ==
    /\ Idle /\ Top.code \in EntryPointCode
    /\ Enter(Frame("external"))
    /\ UNCHANGED <<storage, gasprice>>

Return ==
    /\ Idle
    /\ \/ Top.code = "external"
       \/ Top.code = "executing" /\ Top.ops = <<>>
    /\ Leave(None)
    /\ UNCHANGED <<storage, gasprice>>

Revert ==
    /\ frames # <<>>
    /\ paymasterIdBalances' = Top.saved.paymasterIdBalances
    /\ deposit' = Top.saved.deposit
    /\ overhead' = Top.saved.overhead
    /\ verifyingSigner' = Top.saved.verifyingSigner
    /\ entered' = Top.saved.entered
    /\ Leave(Fail)
    /\ UNCHANGED gasprice

-----------------------------------------------------------------------------

Init == /\ paymasterIdBalances = [i \in Ids |-> 0]
        /\ deposit = 0
        /\ overhead \in Overheads
        /\ verifyingSigner \in Signers
        /\ entered = FALSE
        /\ gasprice \in Prices
        /\ frames = <<>>
        /\ ret = None

GasUsed == UNION {1 .. l : l \in Limits}

Next ==
    \/ \E n \in Amounts :
          \/ DepositTo(n)
          \/ \E i \in Ids : DepositFor(i, n) \/ WithdrawTo(i, n)
    \/ WithdrawDone
    \/ \E s \in Signers : SetSigner(s)
    \/ \E v \in Overheads : SetUnaccountedEPGasOverhead(v)
    \/ \E op \in Operation : ValidatePaymasterUserOp(op)
    \/ \E gas \in GasUsed, post \in PostGas :
          PostOp(gas, post) \/ PostOpReverted(gas, post)
    \/ HandleOps \/ ExecuteBundle \/ InnerHandleOp
    \/ Transact \/ CallContract \/ Return \/ Revert

Spec == Init /\ [][Next]_vars
-----------------------------------------------------------------------------
(* Properties.                                                             *)

StoreType == [paymasterIdBalances : [Ids -> Nat], deposit : Nat,
              overhead : Overheads, verifyingSigner : Signers,
              entered : BOOLEAN]

FrameType == [code : Code, ops : Seq(Operation),
              saved : StoreType]

\* Types.  No balance and no deposit ever goes below zero, and the signer is a
\* key the owner has set: never null, never somebody else's.
TypeOK == /\ Store \in StoreType
          /\ gasprice \in Prices
          /\ frames \in Seq(FrameType)
          /\ ret \in {None, Fail}

\* The overhead makes up for the gas that _handlePostOp uses, at any prices.
Covered == \A g \in PostGas, v \in Overheads, p, q \in Prices : g * p <= v * q

\* Prefunds the EntryPoint holds for the operations of the first n frames.
Held(n) ==
    LET prefunds[ops \in Seq(Operation)] ==
            IF ops = <<>> THEN 0 ELSE Prefund(Head(ops)) + prefunds[Tail(ops)]
        held[k \in 0 .. n] ==
            IF k = 0 THEN 0 ELSE held[k - 1] + prefunds[frames[k].ops]
    IN  held[n]

Total(balances) == MapThenSumSet(LAMBDA i : balances[i], Ids)

\* What the dapps own together is there: in the deposit, or held back for
\* operations that are still to be charged.  Whoever validates, executes,
\* withdraws and reverts in between, no balance is backed twice; and so it is
\* with every state that a revert would restore (VerifyingSingletonPaymaster.sol
\* lines 76-84, 131-144 and 186-201).
Solvent ==
    Covered =>
       /\ Total(paymasterIdBalances) <= deposit + Held(Depth)
       /\ \A k \in 1 .. Depth :
             Total(frames[k].saved.paymasterIdBalances)
                <= frames[k].saved.deposit + Held(k - 1)

\* The guard is up exactly while one withdrawal is under way: its recipient
\* cannot start another or pay in, a revert takes the guard down again, and
\* nothing leaves it up for good (lines 76, 134).
GuardFollowsCalls ==
    Cardinality({k \in 1 .. Depth : frames[k].code = "withdraw"})
       = IF entered THEN 1 ELSE 0

\* The operations a bundle has still to settle.
Ops == IF InBundle
       THEN frames[CHOOSE k \in 1 .. Depth :
                      frames[k].code \in {"validating", "executing"}].ops
       ELSE <<>>

Unwound == Depth' < Depth /\ Store' = Top.saved

\* An operation leaves its bundle only with its dapp charged for at least what
\* the EntryPoint keeps, or with everything undone: also when the user's call
\* has emptied the balance that validation had looked at (lines 186-201, 248).
EveryOpPays ==
    [][(Covered /\ Len(Ops') < Len(Ops) /\ ~Unwound) =>
          LET op == Head(Ops)
          IN  paymasterIdBalances[op.id] - paymasterIdBalances'[op.id]
                 >= Prefund(op) - (deposit' - deposit)]_vars

\* The paymaster implements GasTank: the EntryPoint's prefunds and refunds
\* cannot be told from money that stays where it is.
Tank == INSTANCE GasTank WITH
    credit <- paymasterIdBalances,
    pot    <- deposit + Held(Depth),
    marks  <- [k \in 1 .. Depth |->
                 [credit |-> frames[k].saved.paymasterIdBalances,
                  pot    |-> frames[k].saved.deposit + Held(k - 1)]]

\* Each dapp's money is changed only by deposits, by withdrawals it can cover
\* and by charges that are at least what leaves the pot, inside transactions
\* that are kept or undone (VerifyingSingletonPaymaster.sol:76-144, 186-201).
ImplementsTank == Tank!TankSpec
=============================================================================
