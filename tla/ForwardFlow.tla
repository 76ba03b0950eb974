---------------------------- MODULE ForwardFlow ----------------------------
(***************************************************************************)
(* ForwardFlowModule.sol: transactions that an account's owner has signed  *)
(* and anybody may submit; the module executes them through the account    *)
(* and takes a refund for the submitter from it, in the same call.         *)
(*                                                                         *)
(* As in SmartAccount, calls nest on a stack, the code of other contracts  *)
(* is arbitrary, and a frame that reverts undoes what happened since it    *)
(* was entered.  Of an account only that remains which the module depends  *)
(* on: whether it has the module enabled, and what it has to pay with.     *)
(* Owners may sign anything.  ForwardGas models the gas.                   *)
(***************************************************************************)
EXTENDS Integers, Sequences, FiniteSets, FiniteSetsExt

CONSTANTS
    Accounts,
    Terms,           \* the transactions and refunds owners agree to
    Ether,           \* the gasToken that is none, address(0)
    Liars,           \* tokens whose transfer answers false, or that are no contracts
    GasPrices,       \* tx.gasprice
    GasUsed,         \* gas used and baseGas together
    OK, None, Fail,
    MaxFunds,        \* bound on what an account has
    MaxNonce,        \* bound on the transactions
    MaxDepth         \* bound on the stack

\* A refund's token, its price and the factor that divides the price, and the gas
\* that the transaction asks for.
TermsType == [gasToken : {t.gasToken : t \in Terms}, gasPrice : Nat,
              tokenGasPriceFactor : Nat, targetTxGas : Nat]

ASSUME ForwardAssumption ==
    /\ Terms \subseteq TermsType
    /\ GasPrices \subseteq Nat /\ GasUsed \subseteq Nat
    /\ Ether \notin Liars
    /\ MaxFunds \in Nat /\ MaxNonce \in Nat /\ MaxDepth \in Nat
    /\ OK # None /\ OK # Fail /\ None # Fail
    /\ IsFiniteSet(Accounts)

VARIABLES
    nonce,           \* nonces[1]: the only one the module uses
    entered,         \* ReentrancyGuard's status
    enabled,         \* accounts that have the module enabled
    funds,           \* what an account has, in ether and tokens alike
    drawn,           \* history: what the module has taken from an account
    settled,         \* history: transactions executed, with what was owed for them
    gasprice,        \* of the transaction that runs
    frames,          \* the call stack, outermost call first
    ret              \* how the call ended that the top frame has made

storage == <<nonce, entered, enabled, funds, drawn, settled>>
vars == <<storage, gasprice, frames, ret>>

-----------------------------------------------------------------------------
(* Orders and frames.                                                      *)

\* An order is what a frame of the module works at: a transaction, known by its
\* nonce (encodeTransactionData puts it into the hash that is signed), or an
\* estimate, which has none; owed is the refund that was drawn for it.
Order == [account : Accounts, terms : Terms,
          nonce : 0 .. MaxNonce - 1 \cup {None}, owed : Nat]

\* What _handlePayment takes.
Payment(t, used) ==
    IF t.gasToken = Ether
    THEN used * (IF t.gasPrice < gasprice THEN t.gasPrice ELSE gasprice)
    ELSE (used * t.gasPrice) \div t.tokenGasPriceFactor

Store == [nonce |-> nonce, entered |-> entered, enabled |-> enabled,
          funds |-> funds, drawn |-> drawn, settled |-> settled]

\* saved: what a revert of the frame restores.
Frame(code, order, store) == [code |-> code, order |-> order, saved |-> store]

\* What-if: the nonce is counted before it is hashed.
NewOrderCounted(a, t, n) ==
    [account |-> a, terms |-> t, nonce |-> IF n = None THEN None ELSE n + 1, owed |-> 0]

NewOrder(a, t, n) == [account |-> a, terms |-> t, nonce |-> n, owed |-> 0]

ModuleCode == {"executing", "refunding", "estimating"}

Depth == Len(frames)
Top   == frames[Depth]

\* Only the module's own code looks at how a call has ended.
Delivered(caller, v) == IF caller \in ModuleCode THEN v ELSE None

Leave(v) == /\ frames' = SubSeq(frames, 1, Depth - 1)
            /\ ret' = IF Depth = 1 THEN None
                      ELSE Delivered(frames[Depth - 1].code, v)

External == frames # <<>> /\ ret = None /\ Top.code = "external"

-----------------------------------------------------------------------------
(* The module.                                                             *)

\* The account makes a call for the module: with it the callee's code runs.  A
\* callee that reverts goes back to store.
Calls(stack, store) == /\ Len(stack) < MaxDepth
                       /\ frames' = Append(stack, Frame("external", None, store))
                       /\ ret' = None

\* What-if: the nonce is read and not counted.
NonceNotCounted(n) == n

\* nonces[1]++
NewNonce(n) == n + 1

\* execTransaction, up to the call of the target.  It takes the nonce that is
\* next, whoever's it is; a wrong signature and too little gas revert.
ExecTransaction(a, t) ==
    /\ External
    /\ ~entered
    /\ nonce < MaxNonce
    /\ a \in enabled
    /\ entered' = TRUE
    /\ nonce' = NewNonce(nonce)
    /\ Calls(Append(frames, Frame("executing", NewOrder(a, t, nonce), Store)),
             [Store EXCEPT !.nonce = NewNonce(@), !.entered = TRUE])
    /\ UNCHANGED <<enabled, funds, drawn, settled, gasprice>>

\* The module returns: the order is settled.
Settle(order) ==
    /\ settled' = Append(settled, order)
    /\ entered' = FALSE
    /\ Leave(OK)

\* The target has returned or failed.  With neither gas nor price it must not fail.
TargetDone == /\ frames # <<>> /\ Top.code = "executing" /\ ret # None
              /\ ret = Fail => \/ Top.order.terms.targetTxGas # 0
                               \/ Top.order.terms.gasPrice # 0

\* What-if: an account that has disabled the module is let go.
ExecWithoutModule ==
    /\ TargetDone
    /\ Top.order.terms.gasPrice = 0 \/ Top.order.account \notin enabled
    /\ Settle(Top.order)
    /\ UNCHANGED <<nonce, enabled, funds, drawn, gasprice>>

\* A price of zero: no refund.
ExecWithoutRefund ==
    /\ TargetDone
    /\ Top.order.terms.gasPrice = 0
    /\ Settle(Top.order)
    /\ UNCHANGED <<nonce, enabled, funds, drawn, gasprice>>

\* What the account's call moves.
Draw(a, token, n) ==
    IF token \in Liars THEN UNCHANGED <<funds, drawn>>
    ELSE /\ n <= funds[a]
         /\ funds' = [funds EXCEPT ![a] = @ - n]
         /\ drawn' = [drawn EXCEPT ![a] = @ + n]

\* _handlePayment, up to the call of the receiver or the token.
HandlePayment(used) ==
    LET order == Top.order
        n     == Payment(order.terms, used)
    IN  /\ TargetDone
        /\ order.terms.gasPrice # 0
        /\ order.terms.tokenGasPriceFactor # 0
        /\ order.account \in enabled
        /\ Draw(order.account, order.terms.gasToken, n)
        /\ Calls([frames EXCEPT ![Depth].code = "refunding",
                                ![Depth].order.owed = n], Store)
        /\ UNCHANGED <<nonce, entered, enabled, settled, gasprice>>

\* The refund was taken: one that fails reverts everything.
RefundDone ==
    /\ frames # <<>> /\ Top.code = "refunding" /\ ret = OK
    /\ Settle(Top.order)
    /\ UNCHANGED <<nonce, enabled, funds, drawn, gasprice>>

\* What-if: the estimate returns.
HandlePaymentKept(a, t, used) ==
    /\ External
    /\ t.tokenGasPriceFactor # 0
    /\ a \in enabled
    /\ Draw(a, t.gasToken, Payment(t, used))
    /\ Calls(frames, Store)
    /\ UNCHANGED <<nonce, entered, enabled, settled, gasprice>>

\* handlePaymentRevert, for anybody and any account: its frame only reverts.
HandlePaymentRevert(a, t, used) ==
    LET n == Payment(t, used)
    IN  /\ External
        /\ t.tokenGasPriceFactor # 0
        /\ a \in enabled
        /\ Draw(a, t.gasToken, n)
        /\ Calls(Append(frames, Frame("estimating",
                                      [NewOrder(a, t, None) EXCEPT !.owed = n],
                                      Store)), Store)
        /\ UNCHANGED <<nonce, entered, enabled, settled, gasprice>>

\* requiredTxGas: a call by any account, for anybody; its frame only reverts, too.
RequiredTxGas(a, t) ==
    /\ External
    /\ a \in enabled
    /\ Calls(Append(frames, Frame("estimating", NewOrder(a, t, None), Store)), Store)
    /\ UNCHANGED <<storage, gasprice>>

-----------------------------------------------------------------------------
(* Accounts and everybody else.                                            *)

\* What an account does by a call to itself or an operation of the EntryPoint,
\* which may happen wherever contracts run.
SetEnabled(a) ==
    /\ External
    /\ enabled' \in {enabled \cup {a}, enabled \ {a}}
    /\ UNCHANGED <<nonce, entered, funds, drawn, settled, gasprice, frames, ret>>

\* What it pays others.  (What it is paid, it may as well have from the start.)
Spend(a) ==
    /\ External
    /\ \E n \in 0 .. funds[a] : funds' = [funds EXCEPT ![a] = n]
    /\ UNCHANGED <<nonce, entered, enabled, drawn, settled, gasprice, frames, ret>>

Transact ==
    /\ frames = <<>>
    /\ gasprice' \in GasPrices
    /\ frames' = <<Frame("external", None, Store)>>
    /\ ret' = None
    /\ UNCHANGED storage

Return == /\ External
          /\ Leave(OK)
          /\ UNCHANGED <<storage, gasprice>>

Revert ==
    /\ frames # <<>>
    /\ nonce' = Top.saved.nonce
    /\ entered' = Top.saved.entered
    /\ enabled' = Top.saved.enabled
    /\ funds' = Top.saved.funds
    /\ drawn' = Top.saved.drawn
    /\ settled' = Top.saved.settled
    /\ Leave(Fail)
    /\ UNCHANGED gasprice

Init == /\ nonce = 0
        /\ entered = FALSE
        /\ enabled \in SUBSET Accounts
        /\ funds \in [Accounts -> 0 .. MaxFunds]
        /\ drawn = [a \in Accounts |-> 0]
        /\ settled = <<>>
        /\ gasprice \in GasPrices
        /\ frames = <<>>
        /\ ret = None

Next ==
    \/ \E a \in Accounts :
          \/ SetEnabled(a) \/ Spend(a)
          \/ \E t \in Terms :
                \/ ExecTransaction(a, t) \/ RequiredTxGas(a, t)
                \/ \E used \in GasUsed : HandlePaymentRevert(a, t, used)
    \/ \E used \in GasUsed : HandlePayment(used)
    \/ ExecWithoutRefund \/ RefundDone
    \/ Transact \/ Return \/ Revert

Spec == Init /\ [][Next]_vars

-----------------------------------------------------------------------------
(* Properties.                                                             *)

StoreType == [nonce : 0 .. MaxNonce, entered : BOOLEAN,
              enabled : SUBSET Accounts, funds : [Accounts -> Nat],
              drawn : [Accounts -> Nat], settled : Seq(Order)]

FrameType == [code : ModuleCode \cup {"external"}, order : Order \cup {None},
              saved : StoreType]

\* Types; no account pays what it does not have.
TypeOK == /\ Store \in StoreType
          /\ gasprice \in GasPrices
          /\ frames \in Seq(FrameType)
          /\ ret \in {OK, None, Fail}

\* Transactions under way.
Open == {k \in 1 .. Depth : frames[k].code \in {"executing", "refunding"}}

\* Transactions stand in the order of their nonces, each nonce once: what an owner
\* has signed is executed at most once, also when its target failed, when it was
\* undone and submitted again, and when the target calls the module
\* (ForwardFlowModule.sol:234).
EachNonceOnce ==
    /\ nonce = Len(settled) + Cardinality(Open)
    /\ \A k \in DOMAIN settled : settled[k].nonce = k - 1

\* The calls in which money has moved that still may be taken back.
Drawing == {k \in 1 .. Depth : /\ frames[k].code \in {"refunding", "estimating"}
                               /\ k < Depth \/ ret = OK}

\* What the orders of account a come to, those of some tokens left aside.
Owed(a, orders, aside) ==
    LET counts(o) == o.account = a /\ o.terms.gasToken \notin aside
        due == [k \in DOMAIN orders |-> IF counts(orders[k]) THEN orders[k].owed ELSE 0]
    IN  MapThenSumSet(LAMBDA k : due[k], DOMAIN orders)

Orders(aside, a) == Owed(a, settled, aside)
                       + Owed(a, [k \in Drawing |-> frames[k].order], aside)

\* The module takes from an account what its own signed transactions owe and
\* nothing else: not for another account, not for an estimate anybody may ask
\* for, not twice, and not for a transaction that was undone
\* (ForwardFlowModule.sol:116-202, 396-446).
DrawnIsOwed == \A a \in Accounts : drawn[a] = Orders(Liars, a)

\* A transaction that asks for a refund stands only with the refund taken, at the
\* prices of the moment, whatever it does to the account in between: disable the
\* module, or spend what the refund was to come from (lines 282-294).
NoneEscapesTheRefund ==
    [][Len(settled') > Len(settled) =>
          LET order == settled'[Len(settled')]
          IN  order.terms.gasPrice # 0 =>
                 \E used \in GasUsed : order.owed = Payment(order.terms, used)]_vars
=============================================================================
