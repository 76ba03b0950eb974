---------------------------- MODULE ForwardGas -----------------------------
(***************************************************************************)
(* The gas of one ForwardFlowModule.execTransaction: the test of what is   *)
(* left, and the calls from the module through the account's proxy and its *)
(* implementation to the target.                                           *)
(*                                                                         *)
(* A call passes on at most all but one 64th of the caller's gas           *)
(* (EIP-150).  One asked for more passes on that much and does not fail.   *)
(***************************************************************************)
EXTENDS Integers

CONSTANTS
    WORD,          \* one more than the largest unsigned integer
    TargetGas,     \* values of _tx.targetTxGas
    GasLeft,       \* gas left when execTransaction comes to its test
    Costs          \* gas that the code before a call, and the call, may use

VARIABLES
    step,     \* whose code runs
    target,   \* _tx.targetTxGas
    gas       \* the gas of the code that runs

gasVars == <<step, target, gas>>

-----------------------------------------------------------------------------

Larger(a, b)  == IF a > b THEN a ELSE b
Smaller(a, b) == IF a < b THEN a ELSE b

\* x << 6: what leaves the word is lost, and nothing reverts.
ShiftedBy6(x) == (x % (WORD \div 64)) * 64

Required(t) == Larger(ShiftedBy6(t) \div 63, t + 2500) + 7500

\* EIP-150
Passable(g) == g - g \div 64

\* The code of step from uses c gas and calls; the callee may use limit.
\* Without c gas it fails, and the transaction with it.
Call(from, to, limit, c) ==
    /\ step = from
    /\ c <= gas
    /\ gas' = Smaller(limit, Passable(gas - c))
    /\ step' = to
    /\ UNCHANGED target

-----------------------------------------------------------------------------

\* The sums of the test revert if they overflow.
CheckGas == /\ step = "check"
            /\ Required(target) < WORD
            /\ gas >= Required(target)
            /\ step' = "module"
            /\ UNCHANGED <<target, gas>>

CallProxy(c)          == Call("module", "proxy", gas, c)
CallImplementation(c) == Call("proxy", "implementation", gas, c)

\* execTransactionFromModule and _execute
CallTarget(c) ==
    Call("implementation", "target", IF target = 0 THEN gas ELSE target, c)

GasInit == /\ step = "check"
           /\ target \in TargetGas
           /\ gas \in GasLeft

GasNext == \/ CheckGas
           \/ \E c \in Costs :
                 CallProxy(c) \/ CallImplementation(c) \/ CallTarget(c)

GasSpec == GasInit /\ [][GasNext]_gasVars

-----------------------------------------------------------------------------

\* "we always provide targetTxGas to execution" (ForwardFlowModule.sol:264),
\* for which the test includes "the 1/64 [...] that is not send along with a
\* call" (line 250).
TargetGetsItsGas == step = "target" => gas >= target
=============================================================================
