--------------------------- MODULE PaymasterProofs ---------------------------
(***************************************************************************)
(* What Paymaster promises, for any number of dapps, signers, operations   *)
(* and nested calls, and for any prices.                                   *)
(***************************************************************************)
EXTENDS Paymaster, Sums, FiniteSetTheorems, SequenceTheorems, TLAPS

-----------------------------------------------------------------------------
(* The invariant.                                                          *)

\* A frame of an operation stands on a bundle that still has operations; and what
\* the EntryPoint has to deal with is the failure of one of them.
Chain ==
    /\ \A k \in 1 .. Depth : frames[k].code = "inner" =>
          k > 1 /\ frames[k - 1].code = "executing" /\ frames[k - 1].ops # <<>>
    /\ frames # <<>> /\ ret # None /\ Top.code = "executing" => Top.ops # <<>>

Bundling(k) == frames[k].code \in {"validating", "executing"}

OneBundle == \A j, k \in 1 .. Depth : Bundling(j) /\ Bundling(k) => j = k

\* Among the first n calls is a withdrawal.
Withdrawing(n) == \E k \in 1 .. n : frames[k].code = "withdraw"

\* The guard is up with a withdrawal, was so whenever a call began, and was down
\* when a withdrawal did.
Guard ==
    /\ entered <=> Withdrawing(Depth)
    /\ \A k \in 1 .. Depth :
          /\ frames[k].saved.entered <=> Withdrawing(k - 1)
          /\ frames[k].code = "withdraw" => ~frames[k].saved.entered

IInv == TypeOK /\ Chain /\ OneBundle /\ Guard

-----------------------------------------------------------------------------
(* Types.                                                                  *)

LEMMA TopInType ==
    ASSUME frames \in Seq(FrameType), frames # <<>>
    PROVE  /\ Depth \in Nat /\ Depth >= 1 /\ Top \in FrameType
           /\ Top.code \in Code /\ Top.ops \in Seq(Operation) /\ Top.saved \in StoreType
<1>1. Depth \in Nat /\ Depth >= 1
  BY DEF Depth
<1>2. Top \in FrameType
  BY <1>1 DEF Depth, Top
<1> QED BY <1>1, <1>2 DEF FrameType

LEMMA PrefundInNat ==
    ASSUME NEW op \in Operation
    PROVE  /\ Prefund(op) \in Nat /\ op.id \in Ids /\ op.signer \in Signers \cup {Forger}
           /\ op.price \in Nat
<1>1. op.limit \in Nat /\ op.maxFee \in Nat /\ op.price \in Nat
  BY PaymasterAssumption DEF Operation
<1> QED BY <1>1 DEF Operation, Prefund

LEMMA LeaveInType ==
    ASSUME frames \in Seq(FrameType), frames # <<>>, NEW v \in {None, Fail}, Leave(v)
    PROVE  frames' \in Seq(FrameType) /\ ret' \in {None, Fail}
<1>1. SubSeq(frames, 1, Depth - 1) \in Seq(FrameType)
  BY TopInType DEF Depth
<1> QED BY <1>1 DEF Leave, Delivered

LEMMA EnterInType ==
    ASSUME TypeOK, NEW code \in Code, Enter(Frame(code))
    PROVE  frames' \in Seq(FrameType) /\ ret' \in {None, Fail}
<1>1. Frame(code) \in FrameType
  BY DEF Frame, FrameType, TypeOK
<1> QED BY <1>1 DEF Enter, TypeOK

\* What a settlement moves.
LEMMA SettleFacts ==
    ASSUME TypeOK, NEW op \in Operation, NEW gas \in GasUsed, NEW post \in PostGas,
           Settle(op, gas, post)
    PROVE  /\ gas \in Nat /\ post \in Nat
           /\ Charge(op, gas) \in Nat /\ (gas + post) * op.price \in Nat
           /\ Store' \in StoreType
           /\ paymasterIdBalances'[op.id] = paymasterIdBalances[op.id] - Charge(op, gas)
           /\ deposit' = deposit + Prefund(op) - (gas + post) * op.price
<1>1. gas \in Nat /\ post \in Nat
  <2>1. PICK l \in Limits : gas \in 1 .. l
    BY DEF GasUsed
  <2>2. l \in Nat
    BY <2>1, PaymasterAssumption
  <2> QED BY <2>1, <2>2, PaymasterAssumption
<1>2. overhead \in Nat /\ gasprice \in Nat
  <2>1. overhead \in Overheads /\ gasprice \in Prices
    BY DEF TypeOK, StoreType, Store
  <2> QED BY <2>1, PaymasterAssumption
<1>3. op.price \in Nat /\ Prefund(op) \in Nat /\ op.id \in Ids
  BY PrefundInNat
<1>4. gas * op.price \in Nat /\ overhead * gasprice \in Nat /\ (gas + post) * op.price \in Nat
  BY <1>1, <1>2, <1>3
<1>5. Charge(op, gas) \in Nat
  BY <1>4 DEF Charge
<1>6. paymasterIdBalances \in [Ids -> Nat] /\ deposit \in Nat
  BY DEF TypeOK, StoreType, Store
<1> DEFINE charge == Charge(op, gas)
           cost == (gas + post) * op.price
           pre == Prefund(op)
<1>7. /\ charge <= paymasterIdBalances[op.id]
      /\ paymasterIdBalances' = [paymasterIdBalances EXCEPT ![op.id] = @ - charge]
      /\ cost <= pre
      /\ deposit' = deposit + pre - cost
      /\ UNCHANGED <<overhead, verifyingSigner, entered, gasprice>>
  BY DEF Settle, Deduct
<1>8. charge \in Nat /\ cost \in Nat /\ pre \in Nat
  BY <1>3, <1>4, <1>5
<1> HIDE DEF charge, cost, pre
<1>9. paymasterIdBalances[op.id] - charge \in Nat
  BY <1>3, <1>6, <1>7, <1>8
<1>10. paymasterIdBalances' \in [Ids -> Nat] /\ deposit' \in Nat
  BY <1>3, <1>6, <1>7, <1>8, <1>9
<1>11. Store' \in StoreType
  BY <1>7, <1>10 DEF TypeOK, Store, StoreType
<1>12. paymasterIdBalances'[op.id] = paymasterIdBalances[op.id] - charge
  BY <1>3, <1>6, <1>7
<1> QED BY <1>1, <1>5, <1>4, <1>7, <1>11, <1>12 DEF charge, cost, pre

\* The operation that an operation's frame, or the bundle on top, settles.
LEMMA InnerFacts ==
    ASSUME frames \in Seq(FrameType), Chain, frames # <<>>, Top.code = "inner"
    PROVE  /\ Depth >= 2 /\ Depth - 1 \in 1 .. Depth
           /\ frames[Depth - 1] \in FrameType
           /\ frames[Depth - 1].code = "executing"
           /\ frames[Depth - 1].ops \in Seq(Operation) /\ frames[Depth - 1].ops # <<>>
<1>1. Depth \in Nat /\ Depth \in 1 .. Depth
  BY TopInType
<1>2. Depth > 1 /\ frames[Depth - 1].code = "executing" /\ frames[Depth - 1].ops # <<>>
  BY <1>1 DEF Chain, Top
<1>3. Depth - 1 \in 1 .. Depth /\ Depth >= 2
  BY <1>1, <1>2
<1>4. frames[Depth - 1] \in FrameType
  BY <1>3 DEF Depth
<1> QED BY <1>2, <1>3, <1>4 DEF FrameType

LEMMA HeadTail ==
    ASSUME NEW s \in Seq(Operation), s # <<>>
    PROVE  Head(s) \in Operation /\ Tail(s) \in Seq(Operation) /\ Len(Tail(s)) = Len(s) - 1
OBVIOUS

\* A frame whose operations change, or its code.
LEMMA ChangedInType ==
    ASSUME NEW s \in Seq(FrameType), NEW k \in 1 .. Len(s)
    PROVE  /\ \A ops \in Seq(Operation) : [s EXCEPT ![k].ops = ops] \in Seq(FrameType)
           /\ \A code \in Code : [s EXCEPT ![k].code = code] \in Seq(FrameType)
<1>1. s[k] \in FrameType
  OBVIOUS
<1>2. \A ops \in Seq(Operation) : [s[k] EXCEPT !.ops = ops] \in FrameType
  BY <1>1 DEF FrameType
<1>3. \A code \in Code : [s[k] EXCEPT !.code = code] \in FrameType
  BY <1>1 DEF FrameType
<1> QED BY <1>2, <1>3, ExceptSeq

LEMMA NextTypeOK == TypeOK /\ Chain /\ [Next]_vars => TypeOK'
<1> SUFFICES ASSUME TypeOK, Chain, [Next]_vars PROVE TypeOK'
  OBVIOUS
<1> USE DEF Store, StoreType
<1>0. /\ paymasterIdBalances \in [Ids -> Nat] /\ deposit \in Nat /\ overhead \in Overheads
      /\ verifyingSigner \in Signers /\ entered \in BOOLEAN /\ gasprice \in Prices
      /\ frames \in Seq(FrameType) /\ ret \in {None, Fail} /\ Depth \in Nat
  BY DEF TypeOK, Depth
<1>1. ASSUME NEW n \in Amounts, DepositTo(n) PROVE TypeOK'
  BY <1>0, <1>1, PaymasterAssumption DEF DepositTo, TypeOK
<1>2. ASSUME NEW n \in Amounts, NEW i \in Ids, DepositFor(i, n) PROVE TypeOK'
  <2>1. n \in Nat /\ paymasterIdBalances[i] + n \in Nat /\ deposit + n \in Nat
    BY <1>0, PaymasterAssumption
  <2> QED BY <1>0, <1>2, <2>1 DEF DepositFor, TypeOK
<1>3. ASSUME NEW n \in Amounts, NEW i \in Ids, WithdrawTo(i, n) PROVE TypeOK'
  <2>1. n \in Nat
    BY PaymasterAssumption
  <2>2. paymasterIdBalances[i] - n \in Nat /\ deposit - n \in Nat
    BY <1>0, <1>3, <2>1 DEF WithdrawTo
  <2>3. frames' \in Seq(FrameType) /\ ret' \in {None, Fail}
    BY <1>3, EnterInType DEF WithdrawTo, Code
  <2> QED BY <1>0, <1>3, <2>2, <2>3 DEF WithdrawTo, TypeOK
<1>4. CASE WithdrawDone
  <2>1. frames' \in Seq(FrameType) /\ ret' \in {None, Fail}
    BY <1>0, <1>4, LeaveInType DEF WithdrawDone, Idle
  <2> QED BY <1>0, <1>4, <2>1 DEF WithdrawDone, Idle, TypeOK
<1>5. ASSUME NEW s \in Signers, SetSigner(s) PROVE TypeOK'
  BY <1>0, <1>5 DEF SetSigner, TypeOK
<1>6. ASSUME NEW v \in Overheads, SetUnaccountedEPGasOverhead(v) PROVE TypeOK'
  BY <1>0, <1>6 DEF SetUnaccountedEPGasOverhead, TypeOK
<1>7. ASSUME NEW op \in Operation, ValidatePaymasterUserOp(op) PROVE TypeOK'
  <2>1. deposit' \in Nat
    BY <1>0, <1>7, PrefundInNat DEF ValidatePaymasterUserOp
  <2>2. Depth \in 1 .. Len(frames) /\ Append(Top.ops, op) \in Seq(Operation)
    BY <1>0, <1>7, TopInType DEF ValidatePaymasterUserOp, Idle, Depth
  <2>3. frames' = [frames EXCEPT ![Depth].ops = Append(Top.ops, op)]
    BY <1>7 DEF ValidatePaymasterUserOp, Top
  <2>4. frames' \in Seq(FrameType)
    BY <1>0, <2>2, <2>3, ChangedInType
  <2> QED BY <1>0, <1>7, <2>1, <2>4 DEF ValidatePaymasterUserOp, TypeOK
<1>8. ASSUME NEW gas \in GasUsed, NEW post \in PostGas, PostOp(gas, post) PROVE TypeOK'
  <2> DEFINE below == SubSeq(frames, 1, Depth - 1)
             ops == frames[Depth - 1].ops
  <2>1. /\ Depth >= 2 /\ ops \in Seq(Operation) /\ ops # <<>> /\ Depth - 1 \in 1 .. Depth
    BY <1>0, <1>8, InnerFacts DEF PostOp, Idle
  <2>2. Head(ops) \in Operation /\ Tail(ops) \in Seq(Operation)
    BY <2>1, HeadTail
  <2>3. Store' \in StoreType /\ gasprice' = gasprice
    BY <1>8, <2>2, SettleFacts DEF PostOp, Settle
  <2>4. /\ below \in Seq(FrameType) /\ Depth - 1 \in 1 .. Len(below)
        /\ below[Depth - 1] = frames[Depth - 1]
    BY <1>0, <2>1 DEF Depth
  <2>5. frames' = [below EXCEPT ![Depth - 1].ops = Tail(ops)]
    BY <1>8, <2>4 DEF PostOp
  <2>6. frames' \in Seq(FrameType)
    BY <2>2, <2>4, <2>5, ChangedInType
  <2> QED BY <1>0, <1>8, <2>3, <2>6 DEF PostOp, TypeOK
<1>9. ASSUME NEW gas \in GasUsed, NEW post \in PostGas, PostOpReverted(gas, post)
      PROVE  TypeOK'
  <2>1. Top.ops \in Seq(Operation) /\ Top.ops # <<>> /\ Depth \in 1 .. Len(frames)
    BY <1>0, <1>9, TopInType, PaymasterAssumption DEF PostOpReverted, Chain, Depth
  <2>2. Head(Top.ops) \in Operation /\ Tail(Top.ops) \in Seq(Operation)
    BY <2>1, HeadTail
  <2>3. Store' \in StoreType /\ gasprice' = gasprice
    BY <1>9, <2>2, SettleFacts DEF PostOpReverted, Settle
  <2>4. frames' = [frames EXCEPT ![Depth].ops = Tail(Top.ops)]
    BY <1>9 DEF PostOpReverted, Top
  <2>5. frames' \in Seq(FrameType)
    BY <1>0, <2>1, <2>2, <2>4, ChangedInType
  <2> QED BY <1>0, <1>9, <2>3, <2>5 DEF PostOpReverted, TypeOK
<1>10. CASE HandleOps \/ InnerHandleOp \/ CallContract
  <2>1. frames' \in Seq(FrameType) /\ ret' \in {None, Fail}
    BY <1>10, EnterInType DEF HandleOps, InnerHandleOp, CallContract, Code, EntryPointCode
  <2> QED BY <1>0, <1>10, <2>1
          DEF HandleOps, InnerHandleOp, CallContract, storage, TypeOK
<1>11. CASE ExecuteBundle
  <2>1. Depth \in 1 .. Len(frames)
    BY <1>0, <1>11, TopInType DEF ExecuteBundle, Idle, Depth
  <2>2. frames' \in Seq(FrameType)
    BY <1>0, <1>11, <2>1, ChangedInType DEF ExecuteBundle, Code, EntryPointCode
  <2> QED BY <1>0, <1>11, <2>2 DEF ExecuteBundle, storage, TypeOK
<1>12. CASE Transact
  <2>1. \A code \in {"external", "validating"} : Frame(code) \in FrameType
    BY <1>0 DEF Frame, FrameType, Code, EntryPointCode
  <2>2. frames' \in Seq(FrameType)
    BY <1>12, <2>1 DEF Transact
  <2> QED BY <1>0, <1>12, <2>2 DEF Transact, storage, TypeOK
<1>13. CASE Return
  <2>1. frames' \in Seq(FrameType) /\ ret' \in {None, Fail}
    BY <1>0, <1>13, LeaveInType DEF Return, Idle
  <2> QED BY <1>0, <1>13, <2>1 DEF Return, storage, TypeOK
<1>14. CASE Revert
  <2>1. frames' \in Seq(FrameType) /\ ret' \in {None, Fail}
    BY <1>0, <1>14, LeaveInType DEF Revert
  <2>2. Top.saved \in StoreType
    BY <1>0, <1>14, TopInType DEF Revert
  <2> QED BY <1>0, <1>14, <2>1, <2>2 DEF Revert, TypeOK
<1>15. CASE UNCHANGED vars
  BY <1>0, <1>15 DEF vars, storage, TypeOK
<1> QED BY <1>1, <1>2, <1>3, <1>4, <1>5, <1>6, <1>7, <1>8, <1>9, <1>10, <1>11, <1>12,
           <1>13, <1>14, <1>15 DEF Next

-----------------------------------------------------------------------------
(* What a step does to the stack.                                          *)

Outer(k) == frames'[k].code = frames[k].code /\ frames'[k].saved = frames[k].saved

Grows(code) == /\ Depth' = Depth + 1
               /\ \A k \in 1 .. Depth : frames'[k] = frames[k]
               /\ frames'[Depth + 1] = Frame(code)
               /\ ret' = None

Drops == /\ frames # <<>> /\ Depth' = Depth - 1
         /\ \A k \in 1 .. Depth - 1 : Outer(k)

Stays == /\ Depth' = Depth
         /\ \A k \in 1 .. Depth - 1 : frames'[k] = frames[k]
         /\ frames # <<>> => \/ Outer(Depth)
                             \/ /\ Top.code = "validating"
                                /\ frames'[Depth].code = "executing"
                                /\ frames'[Depth].saved = Top.saved

LEMMA EnterGrows ==
    ASSUME TypeOK, NEW code, Enter(Frame(code))
    PROVE  Grows(code)
<1>1. frames \in Seq(FrameType) /\ Depth \in Nat
  BY DEF TypeOK, Depth
<1> QED BY <1>1 DEF Enter, Grows, Depth

LEMMA Shortened ==
    ASSUME NEW S, NEW s \in Seq(S), s # <<>>, NEW t, t = SubSeq(s, 1, Len(s) - 1)
    PROVE  /\ t \in Seq(S) /\ Len(t) = Len(s) - 1
           /\ \A k \in 1 .. Len(s) - 1 : t[k] = s[k]
<1> DEFINE n == Len(s) - 1
<1>1. n \in Nat /\ \A i \in 1 .. n : s[i] \in S
  OBVIOUS
<1> HIDE DEF n
<1>2. /\ SubSeq(s, 1, n) \in Seq(S)
      /\ Len(SubSeq(s, 1, n)) = IF 1 <= n THEN n - 1 + 1 ELSE 0
      /\ \A i \in 1 .. n - 1 + 1 : SubSeq(s, 1, n)[i] = s[1 + i - 1]
  BY <1>1, SubSeqProperties
<1>3. t = SubSeq(s, 1, n)
  BY DEF n
<1>4. Len(t) = n
  BY <1>1, <1>2, <1>3
<1>5. \A k \in 1 .. n : k \in 1 .. n - 1 + 1 /\ 1 + k - 1 = k
  BY <1>1
<1>6. \A k \in 1 .. n : t[k] = s[k]
  BY <1>2, <1>3, <1>5
<1> QED BY <1>2, <1>3, <1>4, <1>6 DEF n

LEMMA LeaveDrops ==
    ASSUME TypeOK, frames # <<>>, NEW v, Leave(v)
    PROVE  Drops /\ \A k \in 1 .. Depth - 1 : frames'[k] = frames[k]
<1>1. frames \in Seq(FrameType) /\ Depth \in Nat /\ Depth >= 1
  BY DEF TypeOK, Depth
<1>2. frames' = SubSeq(frames, 1, Depth - 1)
  BY DEF Leave
<1>3. Depth' = Depth - 1 /\ \A k \in 1 .. Depth - 1 : frames'[k] = frames[k]
  BY <1>1, <1>2, Shortened DEF Depth
<1>4. \A k \in 1 .. Depth - 1 : Outer(k)
  BY <1>3 DEF Outer
<1> QED BY <1>3, <1>4 DEF Drops

LEMMA OpsChanged ==
    ASSUME NEW s \in Seq(FrameType), NEW k \in 1 .. Len(s), NEW ops, NEW t,
           t = [s EXCEPT ![k].ops = ops]
    PROVE  /\ Len(t) = Len(s) /\ t[k] = [s[k] EXCEPT !.ops = ops]
           /\ \A j \in 1 .. Len(s) : j # k => t[j] = s[j]
OBVIOUS

\* An operation's frame ends with its settlement.
LEMMA PostOpDrops ==
    ASSUME IInv, NEW gas, NEW post, PostOp(gas, post)
    PROVE  /\ Drops /\ Depth >= 2
           /\ \A k \in 1 .. Depth - 2 : frames'[k] = frames[k]
           /\ frames'[Depth - 1].ops = Tail(frames[Depth - 1].ops)
<1> DEFINE below == SubSeq(frames, 1, Depth - 1)
           ops == frames[Depth - 1].ops
<1>1. /\ frames \in Seq(FrameType) /\ frames # <<>> /\ Top.code = "inner"
      /\ frames' = [below EXCEPT ![Depth - 1].ops = Tail(@)]
  BY DEF PostOp, IInv, TypeOK, Idle
<1>2. Depth \in Nat /\ Depth >= 2 /\ frames[Depth - 1] \in FrameType
  BY <1>1, TopInType, InnerFacts DEF IInv
<1>3. /\ below \in Seq(FrameType) /\ Len(below) = Depth - 1
      /\ \A k \in 1 .. Depth - 1 : below[k] = frames[k]
  BY <1>1, <1>2, Shortened DEF Depth
<1>4. /\ Len(frames') = Depth - 1
      /\ \A k \in 1 .. Depth - 2 : frames'[k] = frames[k]
      /\ frames'[Depth - 1] = [frames[Depth - 1] EXCEPT !.ops = Tail(ops)]
  <2>0. Depth - 1 \in 1 .. Len(below) /\ below[Depth - 1] = frames[Depth - 1]
    BY <1>2, <1>3
  <2>1. frames' = [below EXCEPT ![Depth - 1].ops = Tail(ops)]
    BY <1>1, <2>0
  <2>2. \A k \in 1 .. Depth - 2 : k \in 1 .. Len(below) /\ k # Depth - 1 /\ k \in 1 .. Depth - 1
    BY <1>2, <1>3
  <2> HIDE DEF below, ops
  <2> QED BY <1>3, <2>0, <2>1, <2>2, OpsChanged
<1>5. /\ frames'[Depth - 1].ops = Tail(ops)
      /\ frames'[Depth - 1].code = frames[Depth - 1].code
      /\ frames'[Depth - 1].saved = frames[Depth - 1].saved
  BY <1>2, <1>4 DEF FrameType
<1>6. Depth' = Depth - 1
  BY <1>4 DEF Depth
<1>7. \A k \in 1 .. Depth - 1 : k \in 1 .. Depth - 2 \/ k = Depth - 1
  BY <1>2
<1> QED BY <1>1, <1>2, <1>4, <1>5, <1>6, <1>7 DEF Drops, Outer

\* A bundle on top takes in an operation, or settles one.
LEMMA OpsStay ==
    ASSUME TypeOK, frames # <<>>, NEW ops, frames' = [frames EXCEPT ![Depth].ops = ops]
    PROVE  Stays /\ frames'[Depth].code = Top.code /\ frames'[Depth].ops = ops
<1>1. /\ frames \in Seq(FrameType) /\ Depth \in Nat /\ Depth >= 1 /\ Top \in FrameType
      /\ Top = frames[Depth]
  BY TopInType DEF TypeOK, Top
<1>2. Depth' = Depth /\ \A k \in 1 .. Depth - 1 : frames'[k] = frames[k]
  BY <1>1 DEF Depth
<1>3. frames'[Depth] = [Top EXCEPT !.ops = ops]
  BY <1>1 DEF Depth
<1>4. /\ frames'[Depth].code = Top.code /\ frames'[Depth].saved = Top.saved
      /\ frames'[Depth].ops = ops
  BY <1>1, <1>3 DEF FrameType
<1> QED BY <1>1, <1>2, <1>4 DEF Stays, Outer

LEMMA ExecuteBundleStays ==
    ASSUME TypeOK, ExecuteBundle
    PROVE  Stays /\ frames'[Depth].code = "executing" /\ frames'[Depth].ops = Top.ops
<1>1. /\ frames # <<>> /\ Top.code = "validating"
      /\ frames' = [frames EXCEPT ![Depth].code = "executing"]
  BY DEF ExecuteBundle, Idle
<1>2. /\ frames \in Seq(FrameType) /\ Depth \in Nat /\ Depth >= 1 /\ Top \in FrameType
      /\ Top = frames[Depth]
  BY <1>1, TopInType DEF TypeOK, Top
<1>3. Depth' = Depth /\ \A k \in 1 .. Depth - 1 : frames'[k] = frames[k]
  BY <1>1, <1>2 DEF Depth
<1>4. frames'[Depth] = [Top EXCEPT !.code = "executing"]
  BY <1>1, <1>2 DEF Depth
<1>5. /\ frames'[Depth].code = "executing" /\ frames'[Depth].saved = Top.saved
      /\ frames'[Depth].ops = Top.ops
  BY <1>2, <1>4 DEF FrameType
<1> QED BY <1>1, <1>2, <1>3, <1>5 DEF Stays

-----------------------------------------------------------------------------
(* What that leaves of the invariant.                                      *)

LEMMA GrowsKeeps ==
    ASSUME IInv, NEW code \in Code, Grows(code),
           code = "inner" => frames # <<>> /\ Top.code = "executing" /\ Top.ops # <<>>,
           code \in {"validating", "executing"} => ~InBundle,
           code = "withdraw" => ~entered,
           entered' <=> entered \/ code = "withdraw"
    PROVE  Chain' /\ OneBundle' /\ Guard'
<1> DEFINE new == Depth + 1
<1>1. /\ Depth \in Nat /\ Depth' = new
      /\ \A k \in 1 .. Depth : frames'[k] = frames[k]
      /\ frames'[new].code = code /\ frames'[new].saved.entered = entered
      /\ \A k \in 1 .. new : k \in 1 .. Depth \/ k = new
      /\ frames # <<>> => Depth >= 1
      /\ ret' = None
  BY DEF IInv, TypeOK, Depth, Grows, Frame, Store
<1>2. Chain'
  <2>1. ASSUME NEW k \in 1 .. new, frames'[k].code = "inner"
        PROVE  k > 1 /\ frames'[k - 1].code = "executing" /\ frames'[k - 1].ops # <<>>
    <3>1. CASE k \in 1 .. Depth
      <4>1. k > 1 /\ frames[k - 1].code = "executing" /\ frames[k - 1].ops # <<>>
        BY <1>1, <2>1, <3>1 DEF IInv, Chain
      <4>2. k - 1 \in 1 .. Depth
        BY <1>1, <3>1, <4>1
      <4> QED BY <1>1, <4>1, <4>2
    <3>2. CASE k = new
      <4>1. Depth \in 1 .. Depth /\ frames[Depth].code = "executing" /\ frames[Depth].ops # <<>>
        BY <1>1, <2>1, <3>2 DEF Top
      <4> QED BY <1>1, <3>2, <4>1
    <3> QED BY <1>1, <3>1, <3>2
  <2> QED BY <1>1, <2>1 DEF Chain
<1>3. OneBundle'
  <2>1. ASSUME NEW j \in 1 .. new, NEW k \in 1 .. new,
               frames'[j].code \in {"validating", "executing"},
               frames'[k].code \in {"validating", "executing"}
        PROVE  j = k
    <3>1. code \in {"validating", "executing"} =>
             \A i \in 1 .. Depth : frames[i].code \notin {"validating", "executing"}
      BY DEF InBundle, EntryPointCode
    <3> QED BY <1>1, <2>1, <3>1 DEF IInv, OneBundle, Bundling
  <2> QED BY <1>1, <2>1 DEF OneBundle, Bundling
<1>4. /\ Withdrawing(Depth)' <=> Withdrawing(Depth) \/ code = "withdraw"
  <2>1. Withdrawing(Depth)' <=> \E k \in 1 .. new : frames'[k].code = "withdraw"
    BY <1>1 DEF Withdrawing
  <2>2. new \in 1 .. new /\ \A k \in 1 .. Depth : k \in 1 .. new
    BY <1>1
  <2> QED BY <1>1, <2>1, <2>2 DEF Withdrawing
<1>5. \A k \in 1 .. new : (\E j \in 1 .. k - 1 : frames'[j].code = "withdraw")
                             <=> Withdrawing(k - 1)
  <2>1. \A k \in 1 .. new : \A j \in 1 .. k - 1 : j \in 1 .. Depth
    BY <1>1
  <2> QED BY <1>1, <2>1 DEF Withdrawing
<1>6. ASSUME NEW k \in 1 .. new
      PROVE  /\ frames'[k].saved.entered <=> \E j \in 1 .. k - 1 : frames'[j].code = "withdraw"
             /\ frames'[k].code = "withdraw" => ~frames'[k].saved.entered
  <2>1. CASE k \in 1 .. Depth
    BY <1>1, <1>5, <2>1 DEF IInv, Guard
  <2>2. CASE k = new
    <3>1. k - 1 = Depth
      BY <1>1, <2>2
    <3> QED BY <1>1, <1>5, <2>2, <3>1 DEF IInv, Guard
  <2> QED BY <1>1, <2>1, <2>2
<1>7. Guard'
  BY <1>1, <1>4, <1>6 DEF Guard, Withdrawing, IInv
<1> QED BY <1>2, <1>3, <1>7

LEMMA DropsKeeps ==
    ASSUME IInv, Drops, entered' <=> Withdrawing(Depth - 1)
    PROVE  OneBundle' /\ Guard'
<1>1. /\ Depth \in Nat /\ Depth >= 1 /\ Depth' = Depth - 1
      /\ \A k \in 1 .. Depth - 1 :
            /\ k \in 1 .. Depth
            /\ frames'[k].code = frames[k].code /\ frames'[k].saved = frames[k].saved
  BY DEF IInv, TypeOK, Depth, Drops, Outer
<1>2. OneBundle'
  BY <1>1 DEF IInv, OneBundle, Bundling
<1>3. \A n : n \in 0 .. Depth - 1 =>
         ((\E j \in 1 .. n : frames'[j].code = "withdraw") <=> Withdrawing(n))
  <2>1. \A n : n \in 0 .. Depth - 1 => \A j \in 1 .. n : j \in 1 .. Depth - 1
    BY <1>1
  <2> QED BY <1>1, <2>1 DEF Withdrawing
<1>4. \A k \in 1 .. Depth - 1 :
         /\ frames'[k].saved.entered <=> \E j \in 1 .. k - 1 : frames'[j].code = "withdraw"
         /\ frames'[k].code = "withdraw" => ~frames'[k].saved.entered
  BY <1>1, <1>3 DEF IInv, Guard
<1>5. entered' <=> \E j \in 1 .. Depth - 1 : frames'[j].code = "withdraw"
  BY <1>1, <1>3
<1>6. Guard'
  BY <1>1, <1>4, <1>5 DEF Guard, Withdrawing
<1> QED BY <1>2, <1>6

LEMMA StaysKeeps ==
    ASSUME IInv, Stays, entered' = entered
    PROVE  OneBundle' /\ Guard'
<1>1. /\ Depth \in Nat /\ Depth' = Depth
      /\ \A k \in 1 .. Depth :
            /\ frames'[k].saved = frames[k].saved
            /\ frames'[k].code = "withdraw" <=> frames[k].code = "withdraw"
            /\ frames'[k].code \in {"validating", "executing"}
                  <=> frames[k].code \in {"validating", "executing"}
  <2>1. Depth \in Nat /\ Depth' = Depth
        /\ (Depth >= 1 => frames # <<>>)
        /\ \A k \in 1 .. Depth : k \in 1 .. Depth - 1 \/ k = Depth
    BY DEF IInv, TypeOK, Depth, Stays
  <2>2. \A k \in 1 .. Depth - 1 : frames'[k] = frames[k]
    BY DEF Stays
  <2>3. Depth >= 1 =>
            /\ frames'[Depth].saved = frames[Depth].saved
            /\ frames'[Depth].code = "withdraw" <=> frames[Depth].code = "withdraw"
            /\ frames'[Depth].code \in {"validating", "executing"}
                  <=> frames[Depth].code \in {"validating", "executing"}
    BY <2>1 DEF Stays, Outer, Top
  <2> QED BY <2>1, <2>2, <2>3
<1>2. OneBundle'
  BY <1>1 DEF IInv, OneBundle, Bundling
<1>3. \A n : n \in 0 .. Depth =>
         ((\E j \in 1 .. n : frames'[j].code = "withdraw") <=> Withdrawing(n))
  <2>1. \A n : n \in 0 .. Depth => \A j \in 1 .. n : j \in 1 .. Depth
    BY <1>1
  <2> QED BY <1>1, <2>1 DEF Withdrawing
<1>4. \A k \in 1 .. Depth :
         /\ frames'[k].saved.entered <=> \E j \in 1 .. k - 1 : frames'[j].code = "withdraw"
         /\ frames'[k].code = "withdraw" => ~frames'[k].saved.entered
  BY <1>1, <1>3 DEF IInv, Guard
<1>5. entered' <=> \E j \in 1 .. Depth : frames'[j].code = "withdraw"
  BY <1>1, <1>3 DEF IInv, Guard
<1>6. Guard'
  BY <1>1, <1>4, <1>5 DEF Guard, Withdrawing
<1> QED BY <1>2, <1>6

-----------------------------------------------------------------------------
(* The steps.                                                              *)

LEMMA LeaveKeepsChain ==
    ASSUME IInv, frames # <<>>, NEW v, Leave(v)
    PROVE  Chain'
<1>1. /\ Depth \in Nat /\ Depth >= 1 /\ Depth' = Depth - 1
      /\ \A k \in 1 .. Depth - 1 : k \in 1 .. Depth /\ frames'[k] = frames[k]
  <2>1. Depth \in Nat /\ Depth >= 1
    BY DEF IInv, TypeOK, Depth
  <2> QED BY <2>1, LeaveDrops DEF IInv, Drops
<1>2. ASSUME NEW k \in 1 .. Depth - 1, frames'[k].code = "inner"
      PROVE  k > 1 /\ frames'[k - 1].code = "executing" /\ frames'[k - 1].ops # <<>>
  <2>1. k > 1 /\ frames[k - 1].code = "executing" /\ frames[k - 1].ops # <<>>
    BY <1>1, <1>2 DEF IInv, Chain
  <2>2. k - 1 \in 1 .. Depth - 1
    BY <1>1, <2>1
  <2> QED BY <1>1, <2>1, <2>2
<1>3. ASSUME Depth > 1, ret' # None, frames'[Depth - 1].code = "executing"
      PROVE  frames'[Depth - 1].ops # <<>>
  <2>1. frames'[Depth - 1] = frames[Depth - 1]
    BY <1>1, <1>3
  <2>2. Top.code = "inner"
    BY <1>1, <1>3, <2>1 DEF Leave, Delivered
  <2> QED BY <1>1, <2>1, <2>2 DEF IInv, Chain, Top
<1>4. frames' # <<>> => Depth > 1
  <2>1. frames' \in Seq(FrameType)
    BY Shortened DEF IInv, TypeOK, Leave, Depth
  <2> QED BY <1>1, <2>1 DEF Depth
<1> QED BY <1>1, <1>2, <1>3, <1>4 DEF Chain, Top

\* No operation's frame is on top of a frame whose operations change.
LEMMA StaysKeepsChain ==
    ASSUME IInv, Stays, frames # <<>>, Top.code # "inner", frames'[Depth].code # "inner",
           ret' = None
    PROVE  Chain'
<1>1. /\ Depth \in Nat /\ Depth' = Depth
      /\ \A k \in 1 .. Depth : k = Depth \/ k \in 1 .. Depth - 1
      /\ \A k \in 1 .. Depth - 1 : k \in 1 .. Depth /\ frames'[k] = frames[k]
  BY DEF IInv, TypeOK, Depth, Stays
<1>2. ASSUME NEW k \in 1 .. Depth, frames'[k].code = "inner"
      PROVE  k > 1 /\ frames'[k - 1].code = "executing" /\ frames'[k - 1].ops # <<>>
  <2>1. k \in 1 .. Depth - 1 /\ frames'[k] = frames[k]
    BY <1>1, <1>2
  <2>2. k > 1 /\ frames[k - 1].code = "executing" /\ frames[k - 1].ops # <<>>
    BY <1>1, <1>2, <2>1 DEF IInv, Chain
  <2>3. k - 1 \in 1 .. Depth - 1
    BY <1>1, <2>1, <2>2
  <2> QED BY <1>1, <2>2, <2>3
<1> QED BY <1>1, <1>2 DEF Chain

LEMMA PostOpKeepsChain ==
    ASSUME IInv, NEW gas, NEW post, PostOp(gas, post)
    PROVE  Chain'
<1>1. /\ Depth \in Nat /\ Depth >= 2 /\ Depth' = Depth - 1 /\ ret' = None
      /\ frames'[Depth - 1].code = frames[Depth - 1].code
      /\ \A k \in 1 .. Depth - 2 : k \in 1 .. Depth /\ frames'[k] = frames[k]
      /\ \A k \in 1 .. Depth - 1 : k = Depth - 1 \/ k \in 1 .. Depth - 2
  <2>1. Depth \in Nat
    BY DEF IInv, TypeOK, Depth
  <2>2. Drops /\ Depth >= 2 /\ \A k \in 1 .. Depth - 2 : frames'[k] = frames[k]
    BY PostOpDrops
  <2>3. Depth - 1 \in 1 .. Depth - 1
    BY <2>1, <2>2
  <2> QED BY <2>1, <2>2, <2>3 DEF Drops, Outer, PostOp
<1>2. frames[Depth - 1].code = "executing"
  BY InnerFacts DEF IInv, TypeOK, PostOp, Idle
<1>3. ASSUME NEW k \in 1 .. Depth - 1, frames'[k].code = "inner"
      PROVE  k > 1 /\ frames'[k - 1].code = "executing" /\ frames'[k - 1].ops # <<>>
  <2>1. k \in 1 .. Depth - 2 /\ frames'[k] = frames[k]
    BY <1>1, <1>2, <1>3
  <2>2. k > 1 /\ frames[k - 1].code = "executing" /\ frames[k - 1].ops # <<>>
    BY <1>1, <1>3, <2>1 DEF IInv, Chain
  <2>3. k - 1 \in 1 .. Depth - 2
    BY <1>1, <2>1, <2>2
  <2> QED BY <1>1, <2>2, <2>3
<1> QED BY <1>1, <1>3 DEF Chain

\* The guard of what lies below the top.
LEMMA TopGuard ==
    ASSUME IInv, frames # <<>>
    PROVE  /\ Depth \in Nat /\ Depth >= 1
           /\ Top.saved.entered <=> Withdrawing(Depth - 1)
           /\ Top.code = "withdraw" => ~Withdrawing(Depth - 1)
           /\ Top.code # "withdraw" => (Withdrawing(Depth - 1) <=> Withdrawing(Depth))
<1>1. Depth \in Nat /\ Depth >= 1
  BY DEF IInv, TypeOK, Depth
<1>2. Depth \in 1 .. Depth
  BY <1>1
<1>3. /\ Top.saved.entered <=> Withdrawing(Depth - 1)
      /\ Top.code = "withdraw" => ~Top.saved.entered
  BY <1>2 DEF IInv, Guard, Top
<1>4. \A k : k \in 1 .. Depth <=> k \in 1 .. Depth - 1 \/ k = Depth
  BY <1>1
<1>5. Top.code # "withdraw" => (Withdrawing(Depth - 1) <=> Withdrawing(Depth))
  BY <1>4 DEF Withdrawing, Top
<1> QED BY <1>1, <1>3, <1>5

LEMMA NextStack == IInv /\ [Next]_vars => Chain' /\ OneBundle' /\ Guard'
<1> SUFFICES ASSUME IInv, [Next]_vars PROVE Chain' /\ OneBundle' /\ Guard'
  OBVIOUS
<1>0. TypeOK /\ frames \in Seq(FrameType) /\ entered \in BOOLEAN
  BY DEF IInv, TypeOK, Store, StoreType
<1>1. CASE UNCHANGED <<entered, frames, ret>>
  BY <1>1 DEF IInv, Chain, OneBundle, Bundling, Guard, Withdrawing, Depth, Top
<1>2. CASE \/ \E n \in Amounts : DepositTo(n) \/ \E i \in Ids : DepositFor(i, n)
           \/ \E s \in Signers : SetSigner(s)
           \/ \E v \in Overheads : SetUnaccountedEPGasOverhead(v)
           \/ UNCHANGED vars
  BY <1>1, <1>2 DEF DepositTo, DepositFor, SetSigner, SetUnaccountedEPGasOverhead, vars, storage
<1>3. ASSUME NEW n, NEW i, WithdrawTo(i, n)
      PROVE  Chain' /\ OneBundle' /\ Guard'
  <2>1. Grows("withdraw") /\ ~entered /\ entered' = TRUE
    BY <1>0, <1>3, EnterGrows DEF WithdrawTo
  <2> QED BY <2>1, GrowsKeeps DEF Code
<1>4. CASE WithdrawDone
  <2>1. frames # <<>> /\ Leave(None) /\ Top.code = "withdraw" /\ entered' = FALSE
    BY <1>4 DEF WithdrawDone, Idle
  <2>2. entered' <=> Withdrawing(Depth - 1)
    BY <2>1, TopGuard
  <2> QED BY <1>0, <2>1, <2>2, LeaveDrops, LeaveKeepsChain, DropsKeeps
<1>5. ASSUME NEW op, ValidatePaymasterUserOp(op)
      PROVE  Chain' /\ OneBundle' /\ Guard'
  <2>1. /\ frames # <<>> /\ Top.code = "validating" /\ ret' = None /\ entered' = entered
        /\ frames' = [frames EXCEPT ![Depth].ops = Append(Top.ops, op)]
    BY <1>5 DEF ValidatePaymasterUserOp, Idle, Top
  <2>2. Stays /\ frames'[Depth].code = Top.code
    BY <1>0, <2>1, OpsStay
  <2> QED BY <2>1, <2>2, StaysKeeps, StaysKeepsChain
<1>6. ASSUME NEW gas, NEW post, PostOp(gas, post)
      PROVE  Chain' /\ OneBundle' /\ Guard'
  <2>1. frames # <<>> /\ Top.code = "inner" /\ entered' = entered
    BY <1>6 DEF PostOp, Idle, Settle
  <2>2. entered' <=> Withdrawing(Depth - 1)
    BY <2>1, TopGuard DEF IInv, Guard
  <2> QED BY <1>6, <2>2, PostOpDrops, PostOpKeepsChain, DropsKeeps
<1>7. ASSUME NEW gas, NEW post, PostOpReverted(gas, post)
      PROVE  Chain' /\ OneBundle' /\ Guard'
  <2>1. /\ frames # <<>> /\ Top.code = "executing" /\ ret' = None /\ entered' = entered
        /\ frames' = [frames EXCEPT ![Depth].ops = Tail(Top.ops)]
    BY <1>7 DEF PostOpReverted, Settle, Top
  <2>2. Stays /\ frames'[Depth].code = Top.code
    BY <1>0, <2>1, OpsStay
  <2> QED BY <2>1, <2>2, StaysKeeps, StaysKeepsChain
<1>8. CASE HandleOps
  <2>1. Grows("validating") /\ ~InBundle /\ entered' = entered
    BY <1>0, <1>8, EnterGrows DEF HandleOps, storage
  <2> QED BY <2>1, GrowsKeeps DEF Code, EntryPointCode
<1>9. CASE ExecuteBundle
  <2>1. /\ frames # <<>> /\ Top.code = "validating" /\ ret' = None /\ entered' = entered
    BY <1>9 DEF ExecuteBundle, Idle, storage
  <2>2. Stays /\ frames'[Depth].code = "executing"
    BY <1>0, <1>9, ExecuteBundleStays
  <2> QED BY <2>1, <2>2, StaysKeeps, StaysKeepsChain
<1>10. CASE InnerHandleOp
  <2>1. /\ Grows("inner") /\ entered' = entered
        /\ frames # <<>> /\ Top.code = "executing" /\ Top.ops # <<>>
    BY <1>0, <1>10, EnterGrows DEF InnerHandleOp, Idle, storage
  <2> QED BY <2>1, GrowsKeeps DEF Code, EntryPointCode
<1>11. CASE CallContract
  <2>1. Grows("external") /\ entered' = entered
    BY <1>0, <1>11, EnterGrows DEF CallContract, storage
  <2> QED BY <2>1, GrowsKeeps DEF Code, EntryPointCode
<1>12. CASE Transact
  <2>1. PICK code \in {"external", "validating"} : frames' = <<Frame(code)>>
    BY <1>12 DEF Transact
  <2>2. frames = <<>> /\ ret' = None /\ entered' = entered /\ Depth = 0
    BY <1>12 DEF Transact, storage, Depth
  <2>3. /\ Depth' = 1 /\ frames'[1] = Frame(code)
    BY <2>1 DEF Depth
  <2>4. Grows(code) /\ ~InBundle
    BY <2>2, <2>3 DEF Grows, InBundle
  <2> QED BY <2>2, <2>4, GrowsKeeps DEF Code, EntryPointCode
<1>13. CASE Return
  <2>1. frames # <<>> /\ Leave(None) /\ Top.code # "withdraw" /\ entered' = entered
    BY <1>13 DEF Return, Idle, storage
  <2>2. entered' <=> Withdrawing(Depth - 1)
    BY <2>1, TopGuard DEF IInv, Guard
  <2> QED BY <1>0, <2>1, <2>2, LeaveDrops, LeaveKeepsChain, DropsKeeps
<1>14. CASE Revert
  <2>1. frames # <<>> /\ Leave(Fail) /\ entered' = Top.saved.entered
    BY <1>14 DEF Revert
  <2>2. entered' <=> Withdrawing(Depth - 1)
    BY <2>1, TopGuard
  <2> QED BY <1>0, <2>1, <2>2, LeaveDrops, LeaveKeepsChain, DropsKeeps
<1> QED BY <1>2, <1>3, <1>4, <1>5, <1>6, <1>7, <1>8, <1>9, <1>10, <1>11, <1>12, <1>13,
           <1>14 DEF Next

LEMMA InitIInv == Init => IInv
<1> SUFFICES ASSUME Init PROVE IInv
  OBVIOUS
<1>1. Depth = 0 /\ frames \in Seq(FrameType)
  BY DEF Init, Depth
<1>2. TypeOK
  BY <1>1 DEF Init, TypeOK, Store, StoreType
<1>3. Chain /\ OneBundle
  BY <1>1 DEF Init, Chain, OneBundle
<1>4. Guard
  BY <1>1 DEF Init, Guard, Withdrawing
<1> QED BY <1>2, <1>3, <1>4 DEF IInv

LEMMA NextIInv == IInv /\ [Next]_vars => IInv'
BY NextTypeOK, NextStack DEF IInv

\* The inductive invariant behind the theorems.
THEOREM Invariance == Spec => []IInv
BY InitIInv, NextIInv, PTL DEF Spec

\* For any number of dapps, whatever they are charged: no balance and no deposit goes
\* below zero.  (VerifyingSingletonPaymaster.sol:131-144, 186-201)
THEOREM TypeCorrect == Spec => []TypeOK
<1>1. IInv => TypeOK
  BY DEF IInv
<1> QED BY <1>1, Invariance, PTL

LEMMA GuardCounts == IInv => GuardFollowsCalls
<1> SUFFICES ASSUME IInv PROVE GuardFollowsCalls
  OBVIOUS
<1> DEFINE W == {k \in 1 .. Depth : frames[k].code = "withdraw"}
<1>1. Depth \in Nat /\ entered \in BOOLEAN
  BY DEF IInv, TypeOK, Depth, Store, StoreType
<1>2. ASSUME NEW j \in W, NEW k \in W, j < k
      PROVE  FALSE
  <2>1. j \in 1 .. k - 1 /\ frames[j].code = "withdraw"
    BY <1>1, <1>2
  <2>2. Withdrawing(k - 1)
    BY <2>1 DEF Withdrawing
  <2> QED BY <2>2 DEF IInv, Guard
<1>3. CASE entered
  <2>1. PICK k \in 1 .. Depth : frames[k].code = "withdraw"
    BY <1>3 DEF IInv, Guard, Withdrawing
  <2>2. \A j \in W : j = k
    BY <1>1, <1>2, <2>1
  <2>3. W = {k}
    BY <2>1, <2>2
  <2> QED BY <1>3, <2>3, FS_Singleton DEF GuardFollowsCalls
<1>4. CASE ~entered
  <2>1. W = {}
    BY <1>4 DEF IInv, Guard, Withdrawing
  <2> QED BY <1>4, <2>1, FS_EmptySet DEF GuardFollowsCalls
<1> QED BY <1>3, <1>4

\* The guard is up exactly while one withdrawal is under way, however deep the calls
\* and whichever of them revert.  (VerifyingSingletonPaymaster.sol:76, 134)
THEOREM GuardAlwaysFollowsCalls == Spec => []GuardFollowsCalls
BY Invariance, GuardCounts, PTL

-----------------------------------------------------------------------------
(* What a bundle has still to settle.                                      *)

Bundle == {"validating", "executing"}

\* At most one frame of a stack is a bundle, and an operation's frame is on it.
Sound(s) ==
    /\ s \in Seq(FrameType)
    /\ \A k \in 1 .. Len(s) :
          s[k].code = "inner" => k - 1 \in 1 .. Len(s) /\ s[k - 1].code \in Bundle
    /\ \A j, k \in 1 .. Len(s) : s[j].code \in Bundle /\ s[k].code \in Bundle => j = k

OpsOn(s) == IF \E k \in 1 .. Len(s) : s[k].code \in EntryPointCode
            THEN s[CHOOSE k \in 1 .. Len(s) : s[k].code \in {"validating", "executing"}].ops
            ELSE <<>>

LEMMA OpsAreOn == Ops = OpsOn(frames) /\ Ops' = OpsOn(frames')
BY DEF Ops, OpsOn, InBundle, Depth

LEMMA InvariantSound == (IInv => Sound(frames)) /\ (IInv' => Sound(frames'))
<1>1. IInv => Sound(frames)
  BY DEF IInv, TypeOK, Chain, OneBundle, Bundling, Bundle, Depth, Sound
<1>2. IInv' => Sound(frames')
  BY DEF IInv, TypeOK, Chain, OneBundle, Bundling, Bundle, Depth, Sound
<1> QED BY <1>1, <1>2

LEMMA OpsOfBundle ==
    ASSUME NEW s, Sound(s), NEW k \in 1 .. Len(s), s[k].code \in Bundle
    PROVE  OpsOn(s) = s[k].ops /\ s[k].ops \in Seq(Operation)
<1> DEFINE c == CHOOSE i \in 1 .. Len(s) : s[i].code \in {"validating", "executing"}
<1>1. c \in 1 .. Len(s) /\ s[c].code \in Bundle
  BY DEF Bundle
<1>2. c = k
  BY <1>1 DEF Sound
<1>3. OpsOn(s) = s[c].ops
  BY DEF OpsOn, Bundle, EntryPointCode
<1>4. s[k] \in FrameType
  BY DEF Sound
<1> QED BY <1>2, <1>3, <1>4 DEF FrameType

LEMMA OpsWithoutBundle ==
    ASSUME NEW s, Sound(s), \A k \in 1 .. Len(s) : s[k].code \notin Bundle
    PROVE  OpsOn(s) = <<>>
<1>1. \A k \in 1 .. Len(s) : s[k].code # "inner"
  BY DEF Sound
<1> QED BY <1>1 DEF OpsOn, EntryPointCode, Bundle

LEMMA OpsAreOps ==
    ASSUME NEW s, Sound(s)
    PROVE  OpsOn(s) \in Seq(Operation)
<1>1. CASE \E k \in 1 .. Len(s) : s[k].code \in Bundle
  BY <1>1, OpsOfBundle
<1>2. CASE \A k \in 1 .. Len(s) : s[k].code \notin Bundle
  <2>1. OpsOn(s) = <<>>
    BY <1>2, OpsWithoutBundle
  <2> QED BY <2>1
<1> QED BY <1>1, <1>2

\* A bundle that stays where it is loses nothing, and without one nothing is lost.
LEMMA NothingLost ==
    ASSUME NEW s, NEW t, Sound(s), Sound(t), NEW n, n \in Nat, n <= Len(s), n <= Len(t),
           \A k \in 1 .. n : t[k].code = s[k].code /\ t[k].ops = s[k].ops,
           \A k \in 1 .. Len(s) : k > n /\ s[k].code \in Bundle => s[k].ops = <<>>
    PROVE  ~(Len(OpsOn(t)) < Len(OpsOn(s)))
<1>1. Len(OpsOn(t)) \in Nat
  BY OpsAreOps
<1>2. CASE OpsOn(s) = <<>>
  BY <1>1, <1>2
<1>3. CASE OpsOn(s) # <<>>
  <2>1. PICK k \in 1 .. Len(s) : s[k].code \in Bundle
    BY <1>3, OpsWithoutBundle
  <2>2. OpsOn(s) = s[k].ops
    BY <2>1, OpsOfBundle
  <2>3. k \in 1 .. n /\ k \in 1 .. Len(t)
    <3>1. ~(k > n) /\ Len(t) \in Nat
      BY <1>3, <2>1, <2>2 DEF Sound
    <3> QED BY <2>1, <3>1
  <2>4. OpsOn(t) = t[k].ops /\ t[k].ops = s[k].ops
    BY <2>1, <2>3, OpsOfBundle
  <2> QED BY <1>1, <2>2, <2>4
<1> QED BY <1>2, <1>3

-----------------------------------------------------------------------------
(* Every operation pays.                                                   *)

\* What the EntryPoint keeps for an operation is what its dapp has paid, at least.
LEMMA SettlePays ==
    ASSUME TypeOK, Covered, NEW op \in Operation, NEW gas \in GasUsed,
           NEW post \in PostGas, Settle(op, gas, post)
    PROVE  paymasterIdBalances[op.id] - paymasterIdBalances'[op.id]
              >= Prefund(op) - (deposit' - deposit)
<1>1. /\ gas \in Nat /\ post \in Nat /\ op.price \in Nat /\ Prefund(op) \in Nat
      /\ Charge(op, gas) \in Nat
      /\ paymasterIdBalances'[op.id] = paymasterIdBalances[op.id] - Charge(op, gas)
      /\ deposit' = deposit + Prefund(op) - (gas + post) * op.price
  BY SettleFacts, PrefundInNat
<1>2. overhead \in Overheads /\ gasprice \in Prices /\ op.price \in Prices
  BY DEF TypeOK, Store, StoreType, Operation
<1>3. post * op.price <= overhead * gasprice
  BY <1>2 DEF Covered
<1>4. /\ overhead \in Nat /\ gasprice \in Nat
      /\ paymasterIdBalances[op.id] \in Nat /\ deposit \in Nat
  BY <1>2, PrefundInNat, PaymasterAssumption DEF TypeOK, Store, StoreType
<1> DEFINE g == gas * op.price
           p == post * op.price
           o == overhead * gasprice
<1>5. g \in Nat /\ p \in Nat /\ o \in Nat /\ (gas + post) * op.price = g + p
  BY <1>1, <1>4
<1>6. Charge(op, gas) = g + o /\ p <= o
  BY <1>3 DEF Charge
<1> HIDE DEF g, p, o
<1> QED BY <1>1, <1>4, <1>5, <1>6

LEMMA NextPays == IInv /\ IInv' /\ [Next]_vars =>
    [(Covered /\ Len(Ops') < Len(Ops) /\ ~Unwound) =>
        LET op == Head(Ops)
        IN  paymasterIdBalances[op.id] - paymasterIdBalances'[op.id]
               >= Prefund(op) - (deposit' - deposit)]_vars
<1> SUFFICES ASSUME IInv, IInv', Next, Covered, Len(Ops') < Len(Ops), ~Unwound
             PROVE  paymasterIdBalances[Head(Ops).id] - paymasterIdBalances'[Head(Ops).id]
                       >= Prefund(Head(Ops)) - (deposit' - deposit)
  OBVIOUS
<1> DEFINE Pays == paymasterIdBalances[Head(Ops).id] - paymasterIdBalances'[Head(Ops).id]
                      >= Prefund(Head(Ops)) - (deposit' - deposit)
<1>0. /\ Sound(frames) /\ Sound(frames') /\ TypeOK /\ Depth = Len(frames)
      /\ Depth' = Len(frames') /\ frames \in Seq(FrameType) /\ Depth \in Nat
      /\ Ops = OpsOn(frames) /\ Ops' = OpsOn(frames')
  BY InvariantSound, OpsAreOn DEF IInv, TypeOK, Depth
<1>1. Len(OpsOn(frames')) < Len(OpsOn(frames))
  BY <1>0
<1>2. frames' # frames
  <2>1. OpsOn(frames) \in Seq(Operation)
    BY <1>0, OpsAreOps
  <2>2. Len(OpsOn(frames)) \in Nat
    BY <2>1
  <2> QED BY <1>1, <2>2
<1>3. \A code : ~Grows(code)
  BY <1>0, <1>1, NothingLost DEF Grows
<1>4. CASE \/ \E n \in Amounts : DepositTo(n) \/ \E i \in Ids : DepositFor(i, n)
           \/ \E s \in Signers : SetSigner(s)
           \/ \E v \in Overheads : SetUnaccountedEPGasOverhead(v)
  BY <1>2, <1>4 DEF DepositTo, DepositFor, SetSigner, SetUnaccountedEPGasOverhead
<1>5. ASSUME NEW n, NEW i, WithdrawTo(i, n) PROVE Pays
  BY <1>0, <1>3, <1>5, EnterGrows DEF WithdrawTo
<1>6. CASE HandleOps \/ InnerHandleOp \/ CallContract
  BY <1>0, <1>3, <1>6, EnterGrows DEF HandleOps, InnerHandleOp, CallContract
<1>7. CASE Transact
  <2>1. OpsOn(frames) = <<>> /\ Len(OpsOn(frames')) \in Nat
    BY <1>0, <1>7, OpsWithoutBundle, OpsAreOps DEF Transact
  <2> QED BY <1>1, <2>1
<1>8. ASSUME frames # <<>>, NEW v, Leave(v), Top.code \in Bundle => Top.ops = <<>>
      PROVE  Pays
  <2>1. Depth' = Depth - 1 /\ \A k \in 1 .. Depth - 1 : frames'[k] = frames[k]
    BY <1>0, <1>8, LeaveDrops DEF Drops
  <2>2. Depth >= 1 /\ Depth - 1 \in Nat
    BY <1>0, <1>8
  <2>3. \A k \in 1 .. Len(frames) :
           k > Depth - 1 /\ frames[k].code \in Bundle => frames[k].ops = <<>>
    <3>1. \A k \in 1 .. Len(frames) : k > Depth - 1 => k = Depth
      BY <1>0
    <3> QED BY <1>0, <1>8, <3>1 DEF Top
  <2>4. /\ Depth - 1 <= Len(frames) /\ Depth - 1 <= Len(frames')
        /\ \A k \in 1 .. Depth - 1 :
              frames'[k].code = frames[k].code /\ frames'[k].ops = frames[k].ops
    BY <1>0, <2>1, <2>2
  <2> QED BY <1>0, <1>1, <2>2, <2>3, <2>4, NothingLost
<1>9. CASE WithdrawDone
  BY <1>8, <1>9 DEF WithdrawDone, Idle, Bundle
<1>10. CASE Return
  BY <1>8, <1>10 DEF Return, Idle, Bundle
<1>11. CASE Revert
  <2>1. frames # <<>> /\ Top.saved \in StoreType /\ Store' = Top.saved
    BY <1>0, <1>11, TopInType DEF Revert, Store, StoreType
  <2>2. Depth' = Depth - 1
    BY <1>0, <1>11, LeaveDrops DEF Revert, Drops
  <2> QED BY <1>0, <2>1, <2>2 DEF Unwound
<1>12. ASSUME frames # <<>>, Stays, Top.code \in Bundle, frames'[Depth].code \in Bundle
       PROVE  /\ Ops = Top.ops /\ Ops' = frames'[Depth].ops /\ Ops \in Seq(Operation)
  <2>1. Depth \in 1 .. Len(frames) /\ Depth \in 1 .. Len(frames')
    BY <1>0, <1>12 DEF Stays
  <2> QED BY <1>0, <1>12, <2>1, OpsOfBundle DEF Top
<1>13. ASSUME NEW op \in Operation, ValidatePaymasterUserOp(op) PROVE Pays
  <2>1. /\ frames # <<>> /\ Top.code = "validating"
        /\ frames' = [frames EXCEPT ![Depth].ops = Append(Top.ops, op)]
    BY <1>13 DEF ValidatePaymasterUserOp, Idle, Top
  <2>2. Stays /\ frames'[Depth].code = "validating" /\ frames'[Depth].ops = Append(Top.ops, op)
    BY <1>0, <2>1, OpsStay
  <2>3. Ops = Top.ops /\ Ops' = Append(Top.ops, op) /\ Top.ops \in Seq(Operation)
    BY <1>12, <2>1, <2>2 DEF Bundle
  <2>4. Len(Append(Top.ops, op)) = Len(Top.ops) + 1 /\ Len(Top.ops) \in Nat
    BY <2>3
  <2> QED BY <2>3, <2>4
<1>14. CASE ExecuteBundle
  <2>1. frames # <<>> /\ Top.code = "validating"
    BY <1>14 DEF ExecuteBundle, Idle
  <2>2. Stays /\ frames'[Depth].code = "executing" /\ frames'[Depth].ops = Top.ops
    BY <1>0, <1>14, ExecuteBundleStays
  <2>3. Ops' = Ops /\ Len(Ops) \in Nat
    BY <1>12, <2>1, <2>2 DEF Bundle
  <2> QED BY <2>3
<1>15. ASSUME NEW gas \in GasUsed, NEW post \in PostGas, PostOp(gas, post) PROVE Pays
  <2> DEFINE ops == frames[Depth - 1].ops
  <2>1. frames # <<>> /\ Top.code = "inner" /\ Settle(Head(ops), gas, post)
    BY <1>15 DEF PostOp, Idle
  <2>2. /\ Depth - 1 \in 1 .. Len(frames) /\ frames[Depth - 1].code = "executing"
        /\ ops \in Seq(Operation) /\ ops # <<>>
    BY <1>0, <2>1, InnerFacts DEF IInv
  <2>3. Ops = ops
    BY <1>0, <2>2, OpsOfBundle DEF Bundle
  <2>4. Head(ops) \in Operation
    BY <2>2, HeadTail
  <2> QED BY <1>0, <2>1, <2>3, <2>4, SettlePays
<1>16. ASSUME NEW gas \in GasUsed, NEW post \in PostGas, PostOpReverted(gas, post) PROVE Pays
  <2>1. /\ frames # <<>> /\ Top.code = "executing" /\ ret = Fail
        /\ Settle(Head(Top.ops), gas, post)
    BY <1>16 DEF PostOpReverted
  <2>2. Depth \in 1 .. Len(frames) /\ frames[Depth] = Top /\ Top.ops # <<>>
    BY <1>0, <2>1, PaymasterAssumption DEF Top, IInv, Chain
  <2>3. Ops = Top.ops /\ Top.ops \in Seq(Operation)
    BY <1>0, <2>1, <2>2, OpsOfBundle DEF Bundle
  <2>4. Head(Top.ops) \in Operation
    BY <2>2, <2>3, HeadTail
  <2> QED BY <1>0, <2>1, <2>3, <2>4, SettlePays
<1> QED BY <1>4, <1>5, <1>6, <1>7, <1>9, <1>10, <1>11, <1>13, <1>14, <1>15, <1>16 DEF Next

\* Where the overhead covers what postOp uses, an operation leaves its bundle with its
\* dapp charged for at least what the EntryPoint keeps, at any limits and prices, or
\* with everything undone.  (VerifyingSingletonPaymaster.sol:186-201, 248)
THEOREM EveryOpAlwaysPays == Spec => EveryOpPays
BY Invariance, NextPays, PTL DEF EveryOpPays, Spec

-----------------------------------------------------------------------------
(* What the EntryPoint holds.                                              *)

\* Prefunds of a row of operations, and of the operations of the first n frames of a stack.
Prefunds == CHOOSE g : g = [ops \in Seq(Operation) |->
                IF ops = <<>> THEN 0 ELSE Prefund(Head(ops)) + g[Tail(ops)]]

PrefundsOf(fs) == [k \in 1 .. Len(fs) |-> Prefunds[fs[k].ops]]

HeldOn(fs, n) == Size(1 .. n, PrefundsOf(fs))

LEMMA PrefundsFacts ==
    /\ Prefunds[<<>>] = 0
    /\ \A ops \in Seq(Operation) :
          /\ Prefunds[ops] \in Nat
          /\ ops # <<>> => Prefunds[ops] = Prefund(Head(ops)) + Prefunds[Tail(ops)]
          /\ \A op \in Operation : Prefunds[Append(ops, op)] = Prefunds[ops] + Prefund(op)
<1> DEFINE c == [op \in Operation |-> Prefund(op)]
<1>1. \A op \in Operation : c[op] = Prefund(op) /\ c[op] \in Nat
  BY PrefundInNat
<1> DEFINE step(g) == [ops \in Seq(Operation) |->
                         IF ops = <<>> THEN 0 ELSE Prefund(Head(ops)) + g[Tail(ops)]]
<1>2. \A ops \in Seq(Operation) : ops # <<>> => Head(ops) \in Operation /\ c[Head(ops)] = Prefund(Head(ops))
  <2>1. \A ops \in Seq(Operation) : ops # <<>> => Head(ops) \in Operation
    OBVIOUS
  <2> QED BY <1>1, <2>1
<1> HIDE DEF c
<1>3. /\ Prefunds[<<>>] = 0
      /\ \A s \in Seq(Operation) : s # <<>> => Prefunds[s] = c[Head(s)] + Prefunds[Tail(s)]
      /\ \A s \in Seq(Operation) : Prefunds[s] \in Nat
  <2>1. PICK g : g = [s \in Seq(Operation) |->
                        IF s = <<>> THEN 0 ELSE c[Head(s)] + g[Tail(s)]]
    BY <1>1, CountSeqExists
  <2>2. g = step(g)
    BY <1>2, <2>1
  <2>3. Prefunds = step(Prefunds)
    <3>1. Prefunds = CHOOSE h : h = step(h)
      BY DEF Prefunds
    <3> HIDE DEF step
    <3> QED BY <2>2, <3>1
  <2>4. <<>> \in Seq(Operation)
    OBVIOUS
  <2>5. Prefunds[<<>>] = 0
    BY <2>3, <2>4
  <2>6. \A s \in Seq(Operation) : s # <<>> => Prefunds[s] = c[Head(s)] + Prefunds[Tail(s)]
    BY <1>2, <2>3
  <2> QED BY <1>1, <2>5, <2>6, CountSeq
<1>4. ASSUME NEW s \in Seq(Operation), NEW op \in Operation
      PROVE  Prefunds[Append(s, op)] = Prefunds[s] + c[op]
  BY <1>1, <1>3, CountSeqAppend
<1> QED BY <1>1, <1>2, <1>3, <1>4

LEMMA HeldIsOn == frames \in Seq(FrameType) =>
                     \A n \in 0 .. Len(frames) : Held(n) = HeldOn(frames, n)
<1> SUFFICES ASSUME frames \in Seq(FrameType), NEW n \in 0 .. Len(frames)
             PROVE  Held(n) = HeldOn(frames, n)
  OBVIOUS
<1> DEFINE p == PrefundsOf(frames)
           h == CHOOSE g : g = [k \in 0 .. n |-> IF k = 0 THEN 0 ELSE g[k - 1] + p[k]]
<1>1. \A k \in 1 .. n : p[k] = Prefunds[frames[k].ops] /\ p[k] \in Nat
  <2>1. \A k \in 1 .. n : k \in 1 .. Len(frames) /\ frames[k].ops \in Seq(Operation)
    <3>1. \A k \in 1 .. Len(frames) : frames[k] \in FrameType
      OBVIOUS
    <3>2. Len(frames) \in Nat /\ \A k \in 1 .. n : k \in 1 .. Len(frames)
      OBVIOUS
    <3> QED BY <3>1, <3>2 DEF FrameType
  <2> QED BY <2>1, PrefundsFacts DEF PrefundsOf
<1>2. Held(n) = h[n]
  <2>1. ASSUME NEW g
        PROVE  [k \in 0 .. n |-> IF k = 0 THEN 0 ELSE g[k - 1] + p[k]]
             = [k \in 0 .. n |-> IF k = 0 THEN 0 ELSE g[k - 1] + Prefunds[frames[k].ops]]
    <3> HIDE DEF p
    <3> QED BY <1>1
  <2>2. h = CHOOSE g : g = [k \in 0 .. n |-> IF k = 0 THEN 0 ELSE g[k - 1] + Prefunds[frames[k].ops]]
    <3> HIDE DEF p
    <3> QED BY <2>1, Zenon
  <2> HIDE DEF h
  <2> QED BY <2>2, Zenon DEF Held, Prefunds
<1>3. n \in Nat
  OBVIOUS
<1> HIDE DEF p
<1>4. h[n] = Size(1 .. n, p)
  BY <1>1, <1>3, CountUp
<1> QED BY <1>2, <1>4 DEF HeldOn, p

LEMMA HeldIsOnNext == (frames \in Seq(FrameType) =>
                          \A n \in 0 .. Len(frames) : Held(n) = HeldOn(frames, n))'
BY HeldIsOn, PTL

LEMMA HeldUp ==
    ASSUME NEW fs \in Seq(FrameType), NEW n \in 1 .. Len(fs)
    PROVE  /\ HeldOn(fs, n) = HeldOn(fs, n - 1) + Prefunds[fs[n].ops]
           /\ HeldOn(fs, n - 1) \in Nat /\ Prefunds[fs[n].ops] \in Nat
<1>1. \A k \in 1 .. Len(fs) : PrefundsOf(fs)[k] = Prefunds[fs[k].ops] /\ fs[k].ops \in Seq(Operation)
  <2>1. \A k \in 1 .. Len(fs) : fs[k] \in FrameType
    OBVIOUS
  <2> QED BY <2>1 DEF PrefundsOf, FrameType
<1>2. n \in Nat /\ n >= 1 /\ \A k \in 1 .. n : k \in 1 .. Len(fs)
  OBVIOUS
<1>3. \A k \in 1 .. n : PrefundsOf(fs)[k] \in Nat
  BY <1>1, <1>2, PrefundsFacts
<1>4. /\ Size(1 .. n, PrefundsOf(fs)) = Size(1 .. (n - 1), PrefundsOf(fs)) + PrefundsOf(fs)[n]
      /\ Size(1 .. (n - 1), PrefundsOf(fs)) \in Nat
  BY <1>2, <1>3, SizeUp
<1> QED BY <1>1, <1>3, <1>4, <1>2 DEF HeldOn

LEMMA HeldInNat ==
    ASSUME NEW fs \in Seq(FrameType), NEW n \in 0 .. Len(fs)
    PROVE  HeldOn(fs, n) \in Nat /\ HeldOn(fs, 0) = 0
<1>1. HeldOn(fs, 0) = 0
  <2>1. 1 .. 0 = {}
    OBVIOUS
  <2> QED BY <2>1, SizeEmpty DEF HeldOn
<1>2. CASE n = 0
  BY <1>1, <1>2
<1>3. CASE n \in 1 .. Len(fs)
  <2>1. HeldOn(fs, n) = HeldOn(fs, n - 1) + Prefunds[fs[n].ops]
        /\ HeldOn(fs, n - 1) \in Nat /\ Prefunds[fs[n].ops] \in Nat
    BY <1>3, HeldUp
  <2> QED BY <1>1, <2>1
<1> QED BY <1>2, <1>3

LEMMA HeldSame ==
    ASSUME NEW fs \in Seq(FrameType), NEW gs \in Seq(FrameType), NEW n,
           n \in 0 .. Len(fs), n \in 0 .. Len(gs),
           \A k \in 1 .. n : gs[k].ops = fs[k].ops
    PROVE  HeldOn(gs, n) = HeldOn(fs, n)
<1>1. \A k \in 1 .. n : k \in 1 .. Len(fs) /\ k \in 1 .. Len(gs)
  OBVIOUS
<1>2. \A k \in 1 .. n : PrefundsOf(gs)[k] = PrefundsOf(fs)[k]
  BY <1>1 DEF PrefundsOf
<1> QED BY <1>2, SizeSame DEF HeldOn

-----------------------------------------------------------------------------
(* The paymaster implements GasTank.                                       *)

TankMark(fs, k) == [credit |-> fs[k].saved.paymasterIdBalances,
                    pot    |-> fs[k].saved.deposit + HeldOn(fs, k - 1)]

TankMarks(fs) == [k \in 1 .. Len(fs) |-> TankMark(fs, k)]

\* What the instance of GasTank is given.
AbsPot == deposit + Held(Depth)
AbsMarks == [k \in 1 .. Depth |->
               [credit |-> frames[k].saved.paymasterIdBalances,
                pot    |-> frames[k].saved.deposit + Held(k - 1)]]

AbsIs == /\ AbsPot = deposit + HeldOn(frames, Len(frames))
         /\ AbsMarks = TankMarks(frames)

LEMMA AbsAre == (frames \in Seq(FrameType) => AbsIs) /\ (frames \in Seq(FrameType) => AbsIs)'
<1>1. frames \in Seq(FrameType) => AbsIs
  <2> SUFFICES ASSUME frames \in Seq(FrameType) PROVE AbsIs
    OBVIOUS
  <2>1. /\ Depth = Len(frames) /\ Len(frames) \in 0 .. Len(frames)
        /\ \A k \in 1 .. Len(frames) : k - 1 \in 0 .. Len(frames)
    BY DEF Depth
  <2>2. \A n \in 0 .. Len(frames) : Held(n) = HeldOn(frames, n)
    BY HeldIsOn
  <2>3. AbsPot = deposit + HeldOn(frames, Len(frames))
    BY <2>1, <2>2 DEF AbsPot
  <2>4. AbsMarks = TankMarks(frames)
    BY <2>1, <2>2 DEF AbsMarks, TankMarks, TankMark
  <2> QED BY <2>3, <2>4 DEF AbsIs
<1> QED BY <1>1, PTL

MarkType == [credit : [Ids -> Nat], pot : Nat]

LEMMA MarksFacts ==
    ASSUME NEW fs \in Seq(FrameType)
    PROVE  /\ Len(fs) \in Nat /\ TankMarks(fs) \in Seq(MarkType)
           /\ Len(TankMarks(fs)) = Len(fs)
           /\ \A k \in 1 .. Len(fs) : TankMarks(fs)[k] = TankMark(fs, k)
<1>1. Len(fs) \in Nat
  OBVIOUS
<1>2. ASSUME NEW k \in 1 .. Len(fs) PROVE TankMark(fs, k) \in MarkType
  <2>1. fs[k] \in FrameType
    OBVIOUS
  <2>2. fs[k].saved.paymasterIdBalances \in [Ids -> Nat] /\ fs[k].saved.deposit \in Nat
    BY <2>1 DEF FrameType, StoreType
  <2>3. HeldOn(fs, k - 1) \in Nat
    BY HeldUp
  <2> QED BY <2>2, <2>3 DEF TankMark, MarkType
<1>3. TankMarks(fs) \in [1 .. Len(fs) -> MarkType]
  BY <1>2 DEF TankMarks
<1>4. TankMarks(fs) \in Seq(MarkType) /\ Len(TankMarks(fs)) = Len(fs)
  <2> HIDE DEF MarkType
  <2> QED BY <1>1, <1>3
<1> QED BY <1>1, <1>4 DEF TankMarks

\* The marks below are the same if what is saved and what is held there is.
SameBelow(fs, gs, n) == \A k \in 1 .. n : gs[k].saved = fs[k].saved /\ gs[k].ops = fs[k].ops

LEMMA MarksBelow ==
    ASSUME NEW fs \in Seq(FrameType), NEW gs \in Seq(FrameType), NEW n \in Nat,
           n + 1 <= Len(fs), n + 1 <= Len(gs),
           SameBelow(fs, gs, n), gs[n + 1].saved = fs[n + 1].saved
    PROVE  \A k \in 1 .. (n + 1) : TankMark(gs, k) = TankMark(fs, k)
<1> SUFFICES ASSUME NEW k \in 1 .. (n + 1) PROVE TankMark(gs, k) = TankMark(fs, k)
  OBVIOUS
<1>1. k - 1 \in 0 .. Len(fs) /\ k - 1 \in 0 .. Len(gs) /\ \A j \in 1 .. (k - 1) : j \in 1 .. n
  OBVIOUS
<1>2. gs[k].saved = fs[k].saved
  <2>1. k = n + 1 \/ k \in 1 .. n
    OBVIOUS
  <2> QED BY <2>1 DEF SameBelow
<1>3. HeldOn(gs, k - 1) = HeldOn(fs, k - 1)
  BY <1>1, HeldSame DEF SameBelow
<1> QED BY <1>2, <1>3 DEF TankMark

LEMMA MarksSame ==
    ASSUME NEW fs \in Seq(FrameType), NEW gs \in Seq(FrameType), NEW n \in Nat,
           n <= Len(fs), n <= Len(gs), SameBelow(fs, gs, n - 1),
           n > 0 => gs[n].saved = fs[n].saved
    PROVE  \A k \in 1 .. n : TankMark(gs, k) = TankMark(fs, k)
<1>1. CASE n = 0
  BY <1>1
<1>2. CASE n > 0
  <2> DEFINE m == n - 1
  <2>1. m \in Nat /\ m + 1 = n
    BY <1>2
  <2>2. SameBelow(fs, gs, m) /\ gs[m + 1].saved = fs[m + 1].saved
    BY <1>2, <2>1
  <2>3. m + 1 <= Len(fs) /\ m + 1 <= Len(gs)
    BY <2>1
  <2> HIDE DEF m
  <2>4. \A k \in 1 .. (m + 1) : TankMark(gs, k) = TankMark(fs, k)
    BY <2>1, <2>2, <2>3, MarksBelow
  <2> QED BY <2>1, <2>4
<1> QED BY <1>1, <1>2

LEMMA MarksStay ==
    ASSUME NEW fs \in Seq(FrameType), NEW gs \in Seq(FrameType), Len(gs) = Len(fs),
           SameBelow(fs, gs, Len(fs) - 1),
           fs # <<>> => gs[Len(fs)].saved = fs[Len(fs)].saved
    PROVE  TankMarks(gs) = TankMarks(fs)
<1>1. Len(fs) \in Nat /\ (Len(fs) > 0 => fs # <<>>)
  OBVIOUS
<1>2. \A k \in 1 .. Len(fs) : TankMark(gs, k) = TankMark(fs, k)
  BY <1>1, MarksSame
<1> QED BY <1>2 DEF TankMarks

LEMMA MarksDrop ==
    ASSUME NEW fs \in Seq(FrameType), NEW gs \in Seq(FrameType), fs # <<>>,
           Len(gs) = Len(fs) - 1, SameBelow(fs, gs, Len(gs) - 1),
           gs # <<>> => gs[Len(gs)].saved = fs[Len(gs)].saved
    PROVE  TankMarks(gs) = SubSeq(TankMarks(fs), 1, Len(TankMarks(fs)) - 1)
<1>1. Len(gs) \in Nat /\ (Len(gs) > 0 => gs # <<>>) /\ Len(fs) \in Nat /\ Len(gs) <= Len(fs)
  OBVIOUS
<1>2. \A k \in 1 .. Len(gs) : TankMark(gs, k) = TankMark(fs, k)
  BY <1>1, MarksSame
<1> DEFINE ms == SubSeq(TankMarks(fs), 1, Len(TankMarks(fs)) - 1)
<1>3. /\ TankMarks(fs) \in Seq(MarkType) /\ Len(TankMarks(fs)) = Len(fs)
      /\ \A k \in 1 .. Len(fs) : TankMarks(fs)[k] = TankMark(fs, k)
      /\ TankMarks(gs) \in Seq(MarkType) /\ Len(TankMarks(gs)) = Len(gs)
      /\ \A k \in 1 .. Len(gs) : TankMarks(gs)[k] = TankMark(gs, k)
  BY MarksFacts
<1>4. TankMarks(fs) # <<>>
  <2>1. Len(TankMarks(fs)) # 0
    BY <1>1, <1>3
  <2> QED BY <2>1
<1>5. /\ ms \in Seq(MarkType) /\ Len(ms) = Len(fs) - 1
      /\ \A k \in 1 .. Len(fs) - 1 : ms[k] = TankMarks(fs)[k]
  <2> HIDE DEF MarkType
  <2>1. /\ ms \in Seq(MarkType) /\ Len(ms) = Len(TankMarks(fs)) - 1
        /\ \A k \in 1 .. Len(TankMarks(fs)) - 1 : ms[k] = TankMarks(fs)[k]
    BY <1>3, <1>4, Shortened
  <2> QED BY <1>3, <2>1
<1> HIDE DEF ms
<1>6. \A k \in 1 .. Len(gs) : k \in 1 .. Len(fs)
  BY <1>1
<1>7. \A k \in 1 .. Len(gs) : TankMarks(gs)[k] = ms[k]
  BY <1>2, <1>3, <1>5, <1>6
<1>8. TankMarks(gs) = ms
  <2> HIDE DEF MarkType
  <2> QED BY <1>3, <1>5, <1>7, SeqEqual
<1> QED BY <1>8 DEF ms

LEMMA MarksGrow ==
    ASSUME NEW fs \in Seq(FrameType), NEW gs \in Seq(FrameType), Len(gs) = Len(fs) + 1,
           \A k \in 1 .. Len(fs) : gs[k] = fs[k]
    PROVE  TankMarks(gs) = Append(TankMarks(fs),
              [credit |-> gs[Len(fs) + 1].saved.paymasterIdBalances,
               pot    |-> gs[Len(fs) + 1].saved.deposit + HeldOn(fs, Len(fs))])
<1> DEFINE n == Len(fs)
           m == TankMark(gs, n + 1)
           ms == Append(TankMarks(fs), m)
<1>1. n \in Nat /\ n <= Len(gs) /\ n + 1 \in 1 .. Len(gs) /\ n \in 0 .. Len(fs) /\ n \in 0 .. Len(gs)
  OBVIOUS
<1>2. \A k \in 1 .. n : TankMark(gs, k) = TankMark(fs, k)
  <2>1. SameBelow(fs, gs, n - 1) /\ (n > 0 => gs[n].saved = fs[n].saved)
    <3>1. \A k \in 1 .. (n - 1) : k \in 1 .. n
      BY <1>1
    <3>2. n > 0 => n \in 1 .. n
      BY <1>1
    <3> QED BY <3>1, <3>2 DEF SameBelow
  <2> HIDE DEF n
  <2> QED BY <1>1, <2>1, MarksSame DEF n
<1>3. /\ TankMarks(fs) \in Seq(MarkType) /\ Len(TankMarks(fs)) = n
      /\ \A k \in 1 .. n : TankMarks(fs)[k] = TankMark(fs, k)
      /\ TankMarks(gs) \in Seq(MarkType) /\ Len(TankMarks(gs)) = n + 1
      /\ \A k \in 1 .. (n + 1) : TankMarks(gs)[k] = TankMark(gs, k)
  BY MarksFacts
<1>4. m \in MarkType
  <2>1. \A k \in 1 .. Len(TankMarks(gs)) : TankMarks(gs)[k] \in MarkType
    <3> HIDE DEF MarkType
    <3> QED BY <1>3, ElementOfSeq
  <2> QED BY <1>1, <1>3, <2>1
<1>5. m = [credit |-> gs[n + 1].saved.paymasterIdBalances,
           pot    |-> gs[n + 1].saved.deposit + HeldOn(fs, n)]
  <2>1. (n + 1) - 1 = n
    BY <1>1
  <2>2. HeldOn(gs, n) = HeldOn(fs, n)
    BY <1>1, HeldSame
  <2> QED BY <2>1, <2>2 DEF TankMark
<1> HIDE DEF m
<1>6. /\ ms \in Seq(MarkType) /\ Len(ms) = n + 1 /\ ms[n + 1] = m
      /\ \A k \in 1 .. n : ms[k] = TankMarks(fs)[k]
  <2> HIDE DEF MarkType, n
  <2> QED BY <1>3, <1>4, AppendProperties
<1> HIDE DEF ms
<1>7. \A k \in 1 .. (n + 1) : k \in 1 .. n \/ k = n + 1
  BY <1>1
<1>8. \A k \in 1 .. (n + 1) : TankMarks(gs)[k] = ms[k]
  BY <1>2, <1>3, <1>6, <1>7 DEF m
<1>9. TankMarks(gs) = ms
  <2> HIDE DEF MarkType
  <2> QED BY <1>3, <1>6, <1>8, SeqEqual
<1> QED BY <1>5, <1>9 DEF ms

-----------------------------------------------------------------------------
(* GasTank's steps in these terms.                                         *)

LEMMA TankOpens ==
    ASSUME AbsMarks' = Append(AbsMarks, [credit |-> paymasterIdBalances, pot |-> AbsPot]),
           AbsPot' = AbsPot, paymasterIdBalances' = paymasterIdBalances
    PROVE  Tank!TankNext
BY DEF Tank!TankNext, Tank!Open, Tank!Mark, AbsMarks, AbsPot

LEMMA TankKeeps ==
    ASSUME AbsMarks # <<>>, AbsMarks' = SubSeq(AbsMarks, 1, Len(AbsMarks) - 1),
           AbsPot' = AbsPot, paymasterIdBalances' = paymasterIdBalances
    PROVE  Tank!TankNext
BY DEF Tank!TankNext, Tank!Keep, Tank!Outer, AbsMarks, AbsPot

LEMMA TankUndoes ==
    ASSUME AbsMarks # <<>>, AbsMarks' = SubSeq(AbsMarks, 1, Len(AbsMarks) - 1),
           AbsPot' = AbsMarks[Len(AbsMarks)].pot,
           paymasterIdBalances' = AbsMarks[Len(AbsMarks)].credit
    PROVE  Tank!TankNext
BY DEF Tank!TankNext, Tank!Undo, Tank!Outer, AbsMarks, AbsPot

LEMMA TankIsGiven ==
    ASSUME AbsMarks' = AbsMarks, AbsPot' >= AbsPot,
           paymasterIdBalances' = paymasterIdBalances
    PROVE  Tank!TankNext
BY DEF Tank!TankNext, Tank!Donate, AbsMarks, AbsPot

LEMMA TankIsPaid ==
    ASSUME paymasterIdBalances \in [Ids -> Nat], NEW i \in Ids, NEW n \in Nat,
           AbsMarks' = AbsMarks, AbsPot' = AbsPot + n,
           paymasterIdBalances' = [paymasterIdBalances EXCEPT ![i] = @ + n]
    PROVE  Tank!TankNext
<1>1. Tank!Moved(i) = n
  BY DEF Tank!Moved
<1>2. Tank!PayIn(i, Tank!Moved(i))
  BY <1>1 DEF Tank!PayIn, AbsMarks, AbsPot
<1> QED BY <1>2 DEF Tank!TankNext

LEMMA TankPaysOut ==
    ASSUME paymasterIdBalances \in [Ids -> Nat], NEW i \in Ids, NEW n \in Nat,
           n <= paymasterIdBalances[i],
           AbsMarks' = Append(AbsMarks, [credit |-> paymasterIdBalances, pot |-> AbsPot]),
           AbsPot' = AbsPot - n,
           paymasterIdBalances' = [paymasterIdBalances EXCEPT ![i] = @ - n]
    PROVE  Tank!TankNext
<1>1. -Tank!Moved(i) = n
  BY DEF Tank!Moved
<1>2. n \in 0 .. paymasterIdBalances[i]
  OBVIOUS
<1>3. Tank!TakeOut(i, -Tank!Moved(i))
  BY <1>1, <1>2 DEF Tank!TakeOut, Tank!Mark, AbsMarks, AbsPot
<1> QED BY <1>3 DEF Tank!TankNext

LEMMA TankCharges ==
    ASSUME paymasterIdBalances \in [Ids -> Nat], NEW i \in Ids, NEW n \in Nat,
           n <= paymasterIdBalances[i],
           AbsMarks' \in {AbsMarks, SubSeq(AbsMarks, 1, Len(AbsMarks) - 1)},
           AbsPot' <= AbsPot, AbsPot - AbsPot' <= n,
           paymasterIdBalances' = [paymasterIdBalances EXCEPT ![i] = @ - n]
    PROVE  Tank!TankNext
<1>1. -Tank!Moved(i) = n
  BY DEF Tank!Moved
<1>2. n \in 0 .. paymasterIdBalances[i]
  OBVIOUS
<1>3. Tank!Spend(i, -Tank!Moved(i))
  BY <1>1, <1>2 DEF Tank!Spend, Tank!Outer, AbsMarks, AbsPot
<1> QED BY <1>3 DEF Tank!TankNext

LEMMA TankStutters ==
    ASSUME AbsMarks' = AbsMarks, AbsPot' = AbsPot,
           paymasterIdBalances' = paymasterIdBalances
    PROVE  UNCHANGED Tank!tankVars
BY DEF Tank!tankVars, AbsMarks, AbsPot

-----------------------------------------------------------------------------
(* Only a bundle has operations.                                           *)

Plain == \A k \in 1 .. Depth : frames[k].code \notin Bundle => frames[k].ops = <<>>

LEMMA NextPlain == IInv /\ Plain /\ [Next]_vars => Plain'
<1> SUFFICES ASSUME IInv, Plain, [Next]_vars PROVE Plain'
  OBVIOUS
<1>0. TypeOK /\ frames \in Seq(FrameType) /\ Depth \in Nat /\ Chain
  BY DEF IInv, TypeOK, Depth
<1>1. CASE UNCHANGED frames
  BY <1>1 DEF Plain, Depth
<1>2. ASSUME NEW code \in Code, Enter(Frame(code)) PROVE Plain'
  <2>1. Grows(code)
    BY <1>0, <1>2, EnterGrows
  <2>2. \A k \in 1 .. (Depth + 1) : k \in 1 .. Depth \/ k = Depth + 1
    BY <1>0
  <2> QED BY <2>1, <2>2 DEF Grows, Plain, Frame
<1>3. ASSUME frames # <<>>, NEW v, Leave(v) PROVE Plain'
  <2>1. Depth' = Depth - 1 /\ \A k \in 1 .. Depth - 1 : frames'[k] = frames[k]
    BY <1>0, <1>3, LeaveDrops DEF Drops
  <2>2. \A k \in 1 .. Depth - 1 : k \in 1 .. Depth
    BY <1>0
  <2> QED BY <2>1, <2>2 DEF Plain
<1>4. ASSUME frames # <<>>, Top.code \in Bundle, NEW ops,
             frames' = [frames EXCEPT ![Depth].ops = ops]
      PROVE  Plain'
  <2>1. Depth' = Depth /\ (\A k \in 1 .. Depth - 1 : frames'[k] = frames[k]) /\ frames'[Depth].code = Top.code
    BY <1>0, <1>4, OpsStay DEF Stays
  <2>2. \A k \in 1 .. Depth : k \in 1 .. Depth - 1 \/ k = Depth
    BY <1>0
  <2> QED BY <1>4, <2>1, <2>2 DEF Plain
<1>5. ASSUME ExecuteBundle PROVE Plain'
  <2>1. Depth' = Depth /\ (\A k \in 1 .. Depth - 1 : frames'[k] = frames[k]) /\ frames'[Depth].code = "executing"
    BY <1>0, <1>5, ExecuteBundleStays DEF Stays
  <2>2. \A k \in 1 .. Depth : k \in 1 .. Depth - 1 \/ k = Depth
    BY <1>0
  <2> QED BY <2>1, <2>2 DEF Plain, Bundle
<1>6. ASSUME NEW gas, NEW post, PostOp(gas, post) PROVE Plain'
  <2>1. /\ Depth >= 2 /\ Depth' = Depth - 1 /\ \A k \in 1 .. Depth - 2 : frames'[k] = frames[k]
        /\ frames'[Depth - 1].code = frames[Depth - 1].code
    BY <1>0, <1>6, PostOpDrops DEF Drops, Outer
  <2>2. frames[Depth - 1].code = "executing"
    BY <1>0, <1>6, InnerFacts DEF PostOp, Idle
  <2>3. \A k \in 1 .. Depth - 1 : k \in 1 .. Depth /\ (k \in 1 .. Depth - 2 \/ k = Depth - 1)
    BY <1>0
  <2> QED BY <2>1, <2>2, <2>3 DEF Plain, Bundle
<1>7. CASE Transact
  <2>1. PICK code \in {"external", "validating"} : frames' = <<Frame(code)>>
    BY <1>7 DEF Transact
  <2>2. Depth' = 1 /\ frames'[1].ops = <<>> /\ \A k \in 1 .. 1 : k = 1
    BY <2>1 DEF Depth, Frame
  <2> QED BY <2>2 DEF Plain
<1>8. CASE \/ \E n \in Amounts : DepositTo(n) \/ \E i \in Ids : DepositFor(i, n)
           \/ \E s \in Signers : SetSigner(s)
           \/ \E v \in Overheads : SetUnaccountedEPGasOverhead(v)
  BY <1>1, <1>8 DEF DepositTo, DepositFor, SetSigner, SetUnaccountedEPGasOverhead
<1>9. CASE \/ \E n \in Amounts, i \in Ids : WithdrawTo(i, n)
           \/ HandleOps \/ InnerHandleOp \/ CallContract
  <2>1. \E code \in Code : Enter(Frame(code))
    BY <1>9 DEF WithdrawTo, HandleOps, InnerHandleOp, CallContract, Code, EntryPointCode
  <2> QED BY <1>2, <2>1
<1>10. CASE WithdrawDone \/ Return \/ Revert
  BY <1>3, <1>10 DEF WithdrawDone, Return, Revert, Idle
<1>11. CASE \E op \in Operation : ValidatePaymasterUserOp(op)
  <2>1. PICK op \in Operation : ValidatePaymasterUserOp(op)
    BY <1>11
  <2>2. /\ frames # <<>> /\ Top.code = "validating"
        /\ frames' = [frames EXCEPT ![Depth].ops = Append(@, op)]
    BY <2>1 DEF ValidatePaymasterUserOp, Idle
  <2> DEFINE ops == Append(frames[Depth].ops, op)
  <2>3. frames' = [frames EXCEPT ![Depth].ops = ops]
    BY <2>2
  <2> QED BY <1>4, <2>2, <2>3 DEF Bundle
<1>12. CASE \E gas \in GasUsed, post \in PostGas : PostOpReverted(gas, post)
  <2>1. /\ frames # <<>> /\ Top.code = "executing"
        /\ frames' = [frames EXCEPT ![Depth].ops = Tail(@)]
    BY <1>12 DEF PostOpReverted
  <2> DEFINE ops == Tail(frames[Depth].ops)
  <2>2. frames' = [frames EXCEPT ![Depth].ops = ops]
    BY <2>1
  <2> QED BY <1>4, <2>1, <2>2 DEF Bundle
<1>13. CASE UNCHANGED vars
  BY <1>1, <1>13 DEF vars
<1> QED BY <1>5, <1>6, <1>7, <1>8, <1>9, <1>10, <1>11, <1>12, <1>13 DEF Next

LEMMA AlwaysPlain == Spec => []Plain
<1>1. Init => Plain
  <2>1. Init => Depth = 0
    BY DEF Init, Depth
  <2> QED BY <2>1 DEF Plain
<1> QED BY <1>1, NextPlain, Invariance, PTL DEF Spec
-----------------------------------------------------------------------------
(* What a step does to it, and to the marks.                               *)

\* What a step of the stack does to what the EntryPoint holds, and to the marks.
HeldNow == HeldOn(frames, Depth)

LEMMA AbsFacts ==
    ASSUME TypeOK, TypeOK'
    PROVE  /\ frames \in Seq(FrameType) /\ frames' \in Seq(FrameType)
           /\ Depth = Len(frames) /\ Depth' = Len(frames') /\ Depth \in Nat
           /\ paymasterIdBalances \in [Ids -> Nat] /\ deposit \in Nat /\ deposit' \in Nat
           /\ HeldNow \in Nat /\ HeldNow' = HeldOn(frames', Depth')
           /\ AbsPot = deposit + HeldNow /\ AbsPot' = deposit' + HeldNow'
           /\ AbsMarks = TankMarks(frames) /\ AbsMarks' = TankMarks(frames')
<1>1. frames \in Seq(FrameType) /\ frames' \in Seq(FrameType)
  BY DEF TypeOK
<1>2. Depth = Len(frames) /\ Depth' = Len(frames') /\ Depth \in Nat
  BY <1>1 DEF Depth
<1>3. paymasterIdBalances \in [Ids -> Nat] /\ deposit \in Nat /\ deposit' \in Nat
  BY DEF TypeOK, Store, StoreType
<1>4. AbsIs /\ AbsIs'
  BY <1>1, AbsAre
<1>5. HeldNow \in Nat /\ HeldNow' = HeldOn(frames', Depth')
  BY <1>1, <1>2, HeldInNat DEF HeldNow
<1>6. AbsPot = deposit + HeldNow /\ AbsMarks = TankMarks(frames)
  BY <1>2, <1>4 DEF AbsIs, HeldNow
<1>7. AbsPot' = deposit' + HeldNow' /\ AbsMarks' = TankMarks(frames')
  BY <1>2, <1>4 DEF AbsIs, HeldNow
<1> QED BY <1>1, <1>2, <1>3, <1>5, <1>6, <1>7

LEMMA EnterMarks ==
    ASSUME TypeOK, TypeOK', NEW code \in Code, Enter(Frame(code))
    PROVE  /\ HeldNow' = HeldNow
           /\ AbsMarks' = Append(AbsMarks, [credit |-> paymasterIdBalances, pot |-> AbsPot])
<1> DEFINE n == Depth
<1>1. /\ n \in Nat /\ Depth' = n + 1 /\ Len(frames) = n /\ Len(frames') = n + 1
      /\ \A k \in 1 .. n : frames'[k] = frames[k]
      /\ frames'[n + 1] = Frame(code)
  BY AbsFacts, EnterGrows DEF Grows
<1>2. frames'[n + 1].ops = <<>> /\ frames'[n + 1].saved = Store
  BY <1>1 DEF Frame
<1>3. frames \in Seq(FrameType) /\ frames' \in Seq(FrameType)
  BY AbsFacts
<1> HIDE DEF n
<1>4. HeldOn(frames', n) = HeldOn(frames, n)
  <2>1. n \in 0 .. Len(frames) /\ n \in 0 .. Len(frames')
    BY <1>1
  <2> QED BY <1>1, <1>3, <2>1, HeldSame
<1>5. HeldOn(frames', n + 1) = HeldOn(frames', n) /\ HeldOn(frames', n) \in Nat
  <2>1. PICK m \in 1 .. Len(frames') : m = n + 1
    BY <1>1
  <2>2. /\ HeldOn(frames', m) = HeldOn(frames', m - 1) + Prefunds[frames'[m].ops]
        /\ HeldOn(frames', m - 1) \in Nat
    BY <1>3, HeldUp
  <2>3. m - 1 = n
    BY <1>1, <2>1
  <2>4. Prefunds[frames'[m].ops] = 0
    BY <1>2, <2>1, PrefundsFacts
  <2> QED BY <2>1, <2>2, <2>3, <2>4
<1>6. HeldNow' = HeldNow
  BY <1>1, <1>4, <1>5, AbsFacts DEF HeldNow, n
<1>7. TankMarks(frames') = Append(TankMarks(frames),
         [credit |-> frames'[n + 1].saved.paymasterIdBalances,
          pot    |-> frames'[n + 1].saved.deposit + HeldOn(frames, n)])
  BY <1>1, <1>3, MarksGrow
<1>8. /\ frames'[n + 1].saved.paymasterIdBalances = paymasterIdBalances
      /\ frames'[n + 1].saved.deposit = deposit
  BY <1>2 DEF Store
<1>9. deposit + HeldOn(frames, n) = AbsPot
  BY AbsFacts DEF HeldNow, n
<1> QED BY <1>6, <1>7, <1>8, <1>9, AbsFacts

\* The top frame is gone, and nothing else but operations of the one below.
LEMMA DropMarks ==
    ASSUME TypeOK, TypeOK', Drops, \A k \in 1 .. Depth - 2 : frames'[k] = frames[k]
    PROVE  /\ AbsMarks # <<>> /\ AbsMarks' = SubSeq(AbsMarks, 1, Len(AbsMarks) - 1)
           /\ AbsMarks[Len(AbsMarks)].credit = Top.saved.paymasterIdBalances
           /\ AbsMarks[Len(AbsMarks)].pot = Top.saved.deposit + HeldOn(frames, Depth - 1)
<1>1. /\ frames \in Seq(FrameType) /\ frames' \in Seq(FrameType) /\ frames # <<>>
      /\ Depth = Len(frames) /\ Depth >= 1 /\ Depth \in Nat /\ Len(frames') = Depth - 1
      /\ \A k \in 1 .. Depth - 1 : Outer(k)
  BY AbsFacts, TopInType DEF Drops
<1>2. SameBelow(frames, frames', Len(frames') - 1)
  <2>1. Len(frames') - 1 = Depth - 2
    BY <1>1
  <2> QED BY <2>1 DEF SameBelow
<1>3. frames' # <<>> => frames'[Len(frames')].saved = frames[Len(frames')].saved
  <2>1. frames' # <<>> => Len(frames') \in 1 .. Depth - 1
    BY <1>1
  <2> QED BY <1>1, <2>1 DEF Outer
<1>4. AbsMarks' = SubSeq(AbsMarks, 1, Len(AbsMarks) - 1)
  BY <1>1, <1>2, <1>3, MarksDrop, AbsFacts
<1>5. AbsMarks = TankMarks(frames) /\ Len(AbsMarks) = Depth
      /\ AbsMarks \in Seq(MarkType) /\ AbsMarks[Depth] = TankMark(frames, Depth)
  BY <1>1, MarksFacts, AbsFacts
<1>6. AbsMarks # <<>>
  <2>1. Len(AbsMarks) # 0
    BY <1>1, <1>5
  <2> QED BY <2>1
<1> QED BY <1>4, <1>5, <1>6 DEF TankMark, Top

\* The top frame is left with these operations.
LEMMA StayMarks ==
    ASSUME TypeOK, TypeOK', frames # <<>>, Stays
    PROVE  /\ AbsMarks' = AbsMarks
           /\ HeldNow' = HeldNow - Prefunds[Top.ops] + Prefunds[frames'[Depth].ops]
           /\ Prefunds[Top.ops] \in Nat /\ Prefunds[frames'[Depth].ops] \in Nat
<1> DEFINE n == Depth
<1>1. /\ frames \in Seq(FrameType) /\ frames' \in Seq(FrameType)
      /\ n = Len(frames) /\ n >= 1 /\ n \in Nat /\ Len(frames') = n
      /\ \A k \in 1 .. n - 1 : frames'[k] = frames[k]
      /\ frames'[n].saved = frames[n].saved
  BY AbsFacts, TopInType DEF Stays, Outer, Top
<1>2. TankMarks(frames') = TankMarks(frames)
  <2>1. SameBelow(frames, frames', Len(frames) - 1)
    BY <1>1 DEF SameBelow
  <2> HIDE DEF n
  <2> QED BY <1>1, <2>1, MarksStay
<1> HIDE DEF n
<1>3. HeldOn(frames', n - 1) = HeldOn(frames, n - 1)
  <2>1. n - 1 \in 0 .. Len(frames) /\ n - 1 \in 0 .. Len(frames')
    BY <1>1
  <2> QED BY <1>1, <2>1, HeldSame
<1>4. n \in 1 .. Len(frames) /\ n \in 1 .. Len(frames')
  BY <1>1
<1>5. /\ HeldOn(frames, n) = HeldOn(frames, n - 1) + Prefunds[frames[n].ops]
      /\ HeldOn(frames, n - 1) \in Nat /\ Prefunds[frames[n].ops] \in Nat
  BY <1>1, <1>4, HeldUp
<1>6. /\ HeldOn(frames', n) = HeldOn(frames', n - 1) + Prefunds[frames'[n].ops]
      /\ Prefunds[frames'[n].ops] \in Nat
  BY <1>1, <1>4, HeldUp
<1>7. HeldNow = HeldOn(frames, n) /\ HeldNow' = HeldOn(frames', n) /\ Top.ops = frames[n].ops
  BY <1>1, AbsFacts DEF HeldNow, n, Top
<1>8. HeldNow' = HeldNow - Prefunds[Top.ops] + Prefunds[frames'[n].ops]
  BY <1>3, <1>5, <1>6, <1>7
<1> QED BY <1>2, <1>5, <1>6, <1>7, <1>8, AbsFacts DEF n

LEMMA LeaveMarks ==
    ASSUME TypeOK, TypeOK', frames # <<>>, NEW v, Leave(v)
    PROVE  /\ AbsMarks # <<>> /\ AbsMarks' = SubSeq(AbsMarks, 1, Len(AbsMarks) - 1)
           /\ AbsMarks[Len(AbsMarks)].credit = Top.saved.paymasterIdBalances
           /\ AbsMarks[Len(AbsMarks)].pot = Top.saved.deposit + HeldNow'
           /\ Top.ops = <<>> => HeldNow' = HeldNow
<1>1. Drops /\ \A k \in 1 .. Depth - 1 : frames'[k] = frames[k]
  BY LeaveDrops
<1>2. /\ frames \in Seq(FrameType) /\ frames' \in Seq(FrameType)
      /\ Depth = Len(frames) /\ Depth >= 1 /\ Depth \in Nat /\ Len(frames') = Depth - 1
      /\ Depth' = Depth - 1
  BY <1>1, AbsFacts, TopInType DEF Drops
<1>3. \A k \in 1 .. Depth - 2 : frames'[k] = frames[k]
  BY <1>1, <1>2
<1>4. HeldNow' = HeldOn(frames, Depth - 1)
  <2>1. Depth - 1 \in 0 .. Len(frames) /\ Depth - 1 \in 0 .. Len(frames')
    BY <1>2
  <2>2. HeldOn(frames', Depth - 1) = HeldOn(frames, Depth - 1)
    BY <1>1, <1>2, <2>1, HeldSame
  <2> QED BY <1>2, <2>2, AbsFacts
<1>5. ASSUME Top.ops = <<>> PROVE HeldNow' = HeldNow
  <2>1. Depth \in 1 .. Len(frames)
    BY <1>2
  <2>2. /\ HeldOn(frames, Depth) = HeldOn(frames, Depth - 1) + Prefunds[Top.ops]
        /\ HeldOn(frames, Depth - 1) \in Nat
    BY <1>2, <2>1, HeldUp DEF Top
  <2> QED BY <1>4, <1>5, <2>2, PrefundsFacts DEF HeldNow
<1> QED BY <1>1, <1>3, <1>4, <1>5, DropMarks
-----------------------------------------------------------------------------
(* Every step is one of GasTank.                                           *)

\* A settlement, with the operation gone from its bundle, is a charge.
LEMMA SettleSpends ==
    ASSUME TypeOK, TypeOK', Covered, NEW op \in Operation, NEW gas \in GasUsed,
           NEW post \in PostGas, Settle(op, gas, post),
           AbsMarks' \in {AbsMarks, SubSeq(AbsMarks, 1, Len(AbsMarks) - 1)},
           HeldNow' = HeldNow - Prefund(op)
    PROVE  Tank!TankNext
<1> DEFINE i == op.id
           n == Charge(op, gas)
           cost == (gas + post) * op.price
           pre == Prefund(op)
<1>1. /\ n \in Nat /\ cost \in Nat
      /\ paymasterIdBalances'[i] = paymasterIdBalances[i] - n
      /\ deposit' = deposit + pre - cost
  BY SettleFacts
<1>2. i \in Ids /\ pre \in Nat
  BY PrefundInNat
<1>3. /\ n <= paymasterIdBalances[i]
      /\ paymasterIdBalances' = [paymasterIdBalances EXCEPT ![i] = @ - n]
  BY DEF Settle, Deduct
<1>4. paymasterIdBalances[i] - paymasterIdBalances'[i] >= pre - (deposit' - deposit)
  BY SettlePays
<1>5. /\ paymasterIdBalances \in [Ids -> Nat] /\ deposit \in Nat /\ HeldNow \in Nat
      /\ AbsPot = deposit + HeldNow /\ AbsPot' = deposit' + HeldNow'
  BY AbsFacts
<1>6. paymasterIdBalances[i] \in Nat
  BY <1>2, <1>5
<1>7. HeldNow' = HeldNow - pre
  OBVIOUS
<1> HIDE DEF i, n, cost, pre
<1>8. cost <= n
  BY <1>1, <1>2, <1>4, <1>5, <1>6
<1>9. AbsPot' = AbsPot - cost
  BY <1>1, <1>2, <1>5, <1>7
<1>10. AbsPot \in Nat /\ AbsPot' <= AbsPot /\ AbsPot - AbsPot' <= n
  BY <1>1, <1>5, <1>8, <1>9
<1> QED BY <1>1, <1>2, <1>3, <1>5, <1>10, TankCharges

LEMMA TailPrefunds ==
    ASSUME NEW ops \in Seq(Operation), ops # <<>>
    PROVE  /\ Head(ops) \in Operation /\ Tail(ops) \in Seq(Operation)
           /\ Prefunds[Tail(ops)] \in Nat /\ Prefund(Head(ops)) \in Nat
           /\ Prefunds[ops] = Prefund(Head(ops)) + Prefunds[Tail(ops)]
<1>1. Head(ops) \in Operation /\ Tail(ops) \in Seq(Operation)
  BY HeadTail
<1> QED BY <1>1, PrefundsFacts, PrefundInNat

LEMMA PostOpSpends ==
    ASSUME IInv, IInv', Plain, Covered, NEW gas \in GasUsed, NEW post \in PostGas,
           PostOp(gas, post)
    PROVE  Tank!TankNext
<1> DEFINE ops == frames[Depth - 1].ops
<1>0. TypeOK /\ TypeOK' /\ Chain
  BY DEF IInv
<1>1. /\ frames \in Seq(FrameType) /\ frames' \in Seq(FrameType) /\ frames # <<>>
      /\ Top.code = "inner" /\ Depth = Len(frames) /\ Len(frames') = Depth'
      /\ Settle(Head(ops), gas, post)
  BY <1>0, AbsFacts DEF PostOp, Idle
<1>2. /\ Depth \in Nat /\ Depth >= 2 /\ ops \in Seq(Operation) /\ ops # <<>>
  BY <1>0, <1>1, InnerFacts, AbsFacts
<1>3. /\ Drops /\ Depth' = Depth - 1
      /\ \A k \in 1 .. Depth - 2 : frames'[k] = frames[k]
      /\ frames'[Depth - 1].ops = Tail(ops)
  BY PostOpDrops DEF Drops
<1>4. AbsMarks' = SubSeq(AbsMarks, 1, Len(AbsMarks) - 1)
  BY <1>0, <1>3, DropMarks
<1> DEFINE m == Depth - 1
<1>5. /\ m \in Nat /\ m >= 1 /\ m + 1 = Depth /\ m \in 1 .. Len(frames) /\ m \in 1 .. Len(frames')
      /\ Depth \in 1 .. Len(frames) /\ m - 1 \in 0 .. Len(frames) /\ m - 1 \in 0 .. Len(frames')
  BY <1>1, <1>2, <1>3
<1>6. Prefunds[frames[Depth].ops] = 0
  <2>1. frames[Depth].ops = <<>>
    BY <1>1, <1>5 DEF Plain, Bundle, Top
  <2> QED BY <2>1, PrefundsFacts
<1>7. /\ HeldOn(frames, Depth) = HeldOn(frames, m) + Prefunds[frames[Depth].ops]
      /\ HeldOn(frames, m) \in Nat
  BY <1>1, <1>5, HeldUp
<1>8. \A k \in 1 .. m - 1 : frames'[k] = frames[k]
  BY <1>3, <1>2
<1>9. HeldNow' = HeldOn(frames', m) /\ HeldNow = HeldOn(frames, Depth)
  BY <1>0, <1>3, AbsFacts DEF HeldNow
<1> HIDE DEF m
<1>10. HeldOn(frames', m - 1) = HeldOn(frames, m - 1)
  BY <1>1, <1>5, <1>8, HeldSame
<1>11. /\ HeldOn(frames, m) = HeldOn(frames, m - 1) + Prefunds[ops]
       /\ HeldOn(frames, m - 1) \in Nat
  BY <1>1, <1>5, HeldUp DEF m
<1>12. HeldOn(frames', m) = HeldOn(frames', m - 1) + Prefunds[Tail(ops)]
  BY <1>1, <1>3, <1>5, HeldUp DEF m
<1>13. /\ Head(ops) \in Operation /\ Prefunds[Tail(ops)] \in Nat /\ Prefund(Head(ops)) \in Nat
       /\ Prefunds[ops] = Prefund(Head(ops)) + Prefunds[Tail(ops)]
  BY <1>2, TailPrefunds
<1>14. HeldNow' = HeldNow - Prefund(Head(ops))
  BY <1>6, <1>7, <1>9, <1>10, <1>11, <1>12, <1>13
<1> QED BY <1>0, <1>1, <1>4, <1>13, <1>14, SettleSpends

LEMMA PostOpRevertedSpends ==
    ASSUME IInv, IInv', Covered, NEW gas \in GasUsed, NEW post \in PostGas,
           PostOpReverted(gas, post)
    PROVE  Tank!TankNext
<1> DEFINE ops == Top.ops
<1>0. TypeOK /\ TypeOK' /\ Chain
  BY DEF IInv
<1>1. /\ frames \in Seq(FrameType) /\ frames # <<>> /\ Top.code = "executing" /\ ret = Fail
      /\ Settle(Head(ops), gas, post)
      /\ frames' = [frames EXCEPT ![Depth].ops = Tail(@)]
  BY <1>0, AbsFacts DEF PostOpReverted
<1>2. ops \in Seq(Operation) /\ ops # <<>>
  BY <1>0, <1>1, TopInType, PaymasterAssumption DEF Chain
<1>3. frames' = [frames EXCEPT ![Depth].ops = Tail(ops)]
  <2>1. Depth \in 1 .. Len(frames)
    BY <1>1, TopInType DEF Depth
  <2> QED BY <1>1, <2>1 DEF Top
<1>4. Stays /\ frames'[Depth].ops = Tail(ops)
  <2> HIDE DEF ops
  <2> QED BY <1>0, <1>1, <1>3, OpsStay
<1>5. AbsMarks' = AbsMarks /\ HeldNow' = HeldNow - Prefunds[ops] + Prefunds[Tail(ops)]
  BY <1>0, <1>1, <1>4, StayMarks
<1>6. /\ Head(ops) \in Operation /\ Prefunds[Tail(ops)] \in Nat /\ Prefund(Head(ops)) \in Nat
      /\ Prefunds[ops] = Prefund(Head(ops)) + Prefunds[Tail(ops)] /\ HeldNow \in Nat
  BY <1>0, <1>2, TailPrefunds, AbsFacts
<1>7. HeldNow' = HeldNow - Prefund(Head(ops))
  <2> HIDE DEF ops
  <2> QED BY <1>5, <1>6
<1> QED BY <1>0, <1>1, <1>5, <1>6, <1>7, SettleSpends

LEMMA ValidateStutters ==
    ASSUME TypeOK, TypeOK', NEW op \in Operation, ValidatePaymasterUserOp(op)
    PROVE  UNCHANGED Tank!tankVars
<1> DEFINE ops == Append(Top.ops, op)
<1>1. /\ frames \in Seq(FrameType) /\ frames # <<>>
      /\ deposit' = deposit - Prefund(op) /\ paymasterIdBalances' = paymasterIdBalances
      /\ frames' = [frames EXCEPT ![Depth].ops = Append(@, op)]
  BY AbsFacts DEF ValidatePaymasterUserOp, Idle
<1>2. Top.ops \in Seq(Operation)
  BY <1>1, TopInType
<1>3. frames' = [frames EXCEPT ![Depth].ops = ops]
  <2>1. Depth \in 1 .. Len(frames)
    BY <1>1, TopInType DEF Depth
  <2> QED BY <1>1, <2>1 DEF Top
<1>4. Stays /\ frames'[Depth].ops = ops
  <2> HIDE DEF ops
  <2> QED BY <1>1, <1>3, OpsStay
<1>5. AbsMarks' = AbsMarks /\ HeldNow' = HeldNow - Prefunds[Top.ops] + Prefunds[ops]
  BY <1>1, <1>4, StayMarks
<1>6. /\ Prefunds[ops] = Prefunds[Top.ops] + Prefund(op)
      /\ Prefunds[Top.ops] \in Nat /\ Prefund(op) \in Nat
  BY <1>2, PrefundsFacts, PrefundInNat
<1>7. deposit \in Nat /\ HeldNow \in Nat /\ AbsPot = deposit + HeldNow /\ AbsPot' = deposit' + HeldNow'
  BY AbsFacts
<1>8. AbsPot' = AbsPot
  <2> HIDE DEF ops
  <2> QED BY <1>1, <1>5, <1>6, <1>7
<1> QED BY <1>1, <1>5, <1>8, TankStutters

\* Steps that leave the stack as it is.
LEMMA StillMarks ==
    ASSUME TypeOK, TypeOK', UNCHANGED frames
    PROVE  AbsMarks' = AbsMarks /\ HeldNow' = HeldNow
BY AbsFacts DEF HeldNow, Depth

LEMMA TransactMarks ==
    ASSUME TypeOK, TypeOK', Transact
    PROVE  /\ HeldNow' = HeldNow
           /\ AbsMarks' = Append(AbsMarks, [credit |-> paymasterIdBalances, pot |-> AbsPot])
<1>1. PICK code \in {"external", "validating"} : frames' = <<Frame(code)>>
  BY DEF Transact
<1>2. /\ frames = <<>> /\ Len(frames) = 0 /\ Depth = 0 /\ Len(frames') = 1 /\ Depth' = 1
      /\ frames'[1] = Frame(code)
  BY <1>1 DEF Transact, Depth
<1>3. frames'[1].ops = <<>> /\ frames'[1].saved = Store
  BY <1>2 DEF Frame
<1>4. frames \in Seq(FrameType) /\ frames' \in Seq(FrameType)
  BY AbsFacts
<1>5. HeldOn(frames, 0) = 0 /\ HeldOn(frames', 0) = 0
  <2>1. 0 \in 0 .. Len(frames) /\ 0 \in 0 .. Len(frames')
    BY <1>2
  <2> QED BY <1>4, <2>1, HeldInNat
<1>6. HeldOn(frames', 1) = 0
  <2>1. 1 \in 1 .. Len(frames') /\ 1 - 1 = 0
    BY <1>2
  <2>2. HeldOn(frames', 1) = HeldOn(frames', 1 - 1) + Prefunds[frames'[1].ops]
    BY <1>4, <2>1, HeldUp
  <2>3. Prefunds[frames'[1].ops] = 0
    BY <1>3, PrefundsFacts
  <2> QED BY <1>5, <2>1, <2>2, <2>3
<1>7. HeldNow' = HeldNow
  BY <1>2, <1>5, <1>6, AbsFacts DEF HeldNow
<1>8. TankMarks(frames') = Append(TankMarks(frames),
         [credit |-> frames'[0 + 1].saved.paymasterIdBalances,
          pot    |-> frames'[0 + 1].saved.deposit + HeldOn(frames, 0)])
  <2>1. Len(frames') = Len(frames) + 1 /\ \A k \in 1 .. Len(frames) : frames'[k] = frames[k]
    BY <1>2
  <2> QED BY <1>2, <1>4, <2>1, MarksGrow
<1>9. /\ frames'[0 + 1].saved.paymasterIdBalances = paymasterIdBalances
      /\ frames'[0 + 1].saved.deposit = deposit
  BY <1>3 DEF Store
<1>10. deposit + HeldOn(frames, 0) = AbsPot
  BY <1>2, AbsFacts DEF HeldNow
<1> QED BY <1>7, <1>8, <1>9, <1>10, AbsFacts

LEMMA EnterOpens ==
    ASSUME TypeOK, TypeOK', NEW code \in Code, Enter(Frame(code)), UNCHANGED storage
    PROVE  Tank!TankNext
<1>1. paymasterIdBalances' = paymasterIdBalances /\ deposit' = deposit
  BY DEF storage
<1>2. /\ HeldNow' = HeldNow
      /\ AbsMarks' = Append(AbsMarks, [credit |-> paymasterIdBalances, pot |-> AbsPot])
  BY EnterMarks
<1>3. AbsPot' = AbsPot
  BY <1>1, <1>2, AbsFacts
<1> QED BY <1>1, <1>2, <1>3, TankOpens

LEMMA LeaveKeepsTank ==
    ASSUME TypeOK, TypeOK', frames # <<>>, NEW v, Leave(v), Top.ops = <<>>,
           paymasterIdBalances' = paymasterIdBalances, deposit' = deposit
    PROVE  Tank!TankNext
<1>1. /\ AbsMarks # <<>> /\ AbsMarks' = SubSeq(AbsMarks, 1, Len(AbsMarks) - 1)
      /\ HeldNow' = HeldNow
  BY LeaveMarks
<1>2. AbsPot' = AbsPot
  BY <1>1, AbsFacts
<1> QED BY <1>1, <1>2, TankKeeps

LEMMA RevertUndoes ==
    ASSUME TypeOK, TypeOK', Revert
    PROVE  Tank!TankNext
<1>1. /\ frames # <<>> /\ Leave(Fail) /\ deposit' = Top.saved.deposit
      /\ paymasterIdBalances' = Top.saved.paymasterIdBalances
  BY DEF Revert
<1>2. /\ AbsMarks # <<>> /\ AbsMarks' = SubSeq(AbsMarks, 1, Len(AbsMarks) - 1)
      /\ AbsMarks[Len(AbsMarks)].credit = Top.saved.paymasterIdBalances
      /\ AbsMarks[Len(AbsMarks)].pot = Top.saved.deposit + HeldNow'
  BY <1>1, LeaveMarks
<1>3. AbsPot' = AbsMarks[Len(AbsMarks)].pot
  BY <1>1, <1>2, AbsFacts
<1> QED BY <1>1, <1>2, <1>3, TankUndoes

LEMMA WithdrawTakesOut ==
    ASSUME TypeOK, TypeOK', NEW i \in Ids, NEW n \in Amounts, WithdrawTo(i, n)
    PROVE  Tank!TankNext
<1>1. /\ n <= paymasterIdBalances[i] /\ deposit' = deposit - n
      /\ paymasterIdBalances' = [paymasterIdBalances EXCEPT ![i] = @ - n]
      /\ Enter(Frame("withdraw")) /\ "withdraw" \in Code
  BY DEF WithdrawTo, Code
<1>2. n \in Nat
  BY PaymasterAssumption
<1>3. /\ HeldNow' = HeldNow
      /\ AbsMarks' = Append(AbsMarks, [credit |-> paymasterIdBalances, pot |-> AbsPot])
  BY <1>1, EnterMarks
<1>4. /\ AbsPot' = AbsPot - n /\ paymasterIdBalances \in [Ids -> Nat]
  <2>1. /\ deposit \in Nat /\ HeldNow \in Nat /\ paymasterIdBalances \in [Ids -> Nat]
        /\ AbsPot = deposit + HeldNow /\ AbsPot' = deposit' + HeldNow'
    BY AbsFacts
  <2> QED BY <1>1, <1>2, <1>3, <2>1
<1> QED BY <1>1, <1>2, <1>3, <1>4, TankPaysOut

LEMMA MoneyComesIn ==
    ASSUME TypeOK, TypeOK', NEW n \in Amounts
    PROVE  /\ DepositTo(n) => Tank!TankNext
           /\ \A i \in Ids : DepositFor(i, n) => Tank!TankNext
<1>1. n \in Nat
  BY PaymasterAssumption
<1>2. ASSUME frames' = frames, deposit' = deposit + n
      PROVE  AbsMarks' = AbsMarks /\ AbsPot' = AbsPot + n /\ AbsPot \in Nat
             /\ paymasterIdBalances \in [Ids -> Nat]
  <2>1. AbsMarks' = AbsMarks /\ HeldNow' = HeldNow
    BY <1>2, StillMarks
  <2>2. /\ deposit \in Nat /\ HeldNow \in Nat /\ paymasterIdBalances \in [Ids -> Nat]
        /\ AbsPot = deposit + HeldNow /\ AbsPot' = deposit' + HeldNow'
    BY AbsFacts
  <2> QED BY <1>1, <1>2, <2>1, <2>2
<1>3. ASSUME DepositTo(n) PROVE Tank!TankNext
  <2>1. frames' = frames /\ deposit' = deposit + n /\ paymasterIdBalances' = paymasterIdBalances
    BY <1>3 DEF DepositTo
  <2>2. AbsMarks' = AbsMarks /\ AbsPot' >= AbsPot
    BY <1>1, <1>2, <2>1
  <2> QED BY <2>1, <2>2, TankIsGiven
<1>4. ASSUME NEW i \in Ids, DepositFor(i, n) PROVE Tank!TankNext
  <2>1. /\ frames' = frames /\ deposit' = deposit + n
        /\ paymasterIdBalances' = [paymasterIdBalances EXCEPT ![i] = @ + n]
    BY <1>4 DEF DepositFor
  <2> QED BY <1>1, <1>2, <2>1, TankIsPaid
<1> QED BY <1>3, <1>4

LEMMA NextTank ==
    Covered /\ IInv /\ IInv' /\ Plain /\ [Next]_vars => [Tank!TankNext]_(Tank!tankVars)
<1> SUFFICES ASSUME Covered, IInv, IInv', Plain, [Next]_vars
             PROVE  Tank!TankNext \/ UNCHANGED Tank!tankVars
  OBVIOUS
<1>0. TypeOK /\ TypeOK' /\ Depth \in Nat
  BY AbsFacts DEF IInv
<1>1. CASE \E n \in Amounts : DepositTo(n) \/ \E i \in Ids : DepositFor(i, n)
  BY <1>0, <1>1, MoneyComesIn
<1>2. CASE \E n \in Amounts, i \in Ids : WithdrawTo(i, n)
  BY <1>0, <1>2, WithdrawTakesOut
<1>3. CASE WithdrawDone \/ Return
  <2>1. /\ frames # <<>> /\ Leave(None)
        /\ paymasterIdBalances' = paymasterIdBalances /\ deposit' = deposit
        /\ Top.code \notin Bundle \/ Top.ops = <<>>
    BY <1>3 DEF WithdrawDone, Return, Idle, storage, Bundle
  <2>2. Top.ops = <<>>
    <3>1. Depth \in 1 .. Depth
      BY <1>0, <2>1, TopInType DEF TypeOK
    <3> QED BY <2>1, <3>1 DEF Plain, Top
  <2> QED BY <1>0, <2>1, <2>2, LeaveKeepsTank
<1>4. CASE UNCHANGED <<paymasterIdBalances, deposit, frames>>
  <2>1. AbsMarks' = AbsMarks /\ HeldNow' = HeldNow
    BY <1>0, <1>4, StillMarks
  <2>2. AbsPot' = AbsPot
    BY <1>0, <1>4, <2>1, AbsFacts
  <2> QED BY <1>4, <2>1, <2>2, TankStutters
<1>5. CASE \/ \E s \in Signers : SetSigner(s)
           \/ \E v \in Overheads : SetUnaccountedEPGasOverhead(v)
           \/ UNCHANGED vars
  BY <1>4, <1>5 DEF SetSigner, SetUnaccountedEPGasOverhead, vars, storage
<1>6. CASE \E op \in Operation : ValidatePaymasterUserOp(op)
  BY <1>0, <1>6, ValidateStutters
<1>7. CASE \E gas \in GasUsed, post \in PostGas : PostOp(gas, post) \/ PostOpReverted(gas, post)
  BY <1>7, PostOpSpends, PostOpRevertedSpends
<1>8. CASE HandleOps \/ InnerHandleOp \/ CallContract
  <2>1. UNCHANGED storage /\ \E code \in Code : Enter(Frame(code))
    BY <1>8 DEF HandleOps, InnerHandleOp, CallContract, Code, EntryPointCode
  <2> QED BY <1>0, <2>1, EnterOpens
<1>9. CASE ExecuteBundle
  <2>1. /\ frames # <<>> /\ Stays /\ frames'[Depth].ops = Top.ops
        /\ paymasterIdBalances' = paymasterIdBalances /\ deposit' = deposit
    BY <1>0, <1>9, ExecuteBundleStays DEF ExecuteBundle, Idle, storage
  <2>2. AbsMarks' = AbsMarks /\ HeldNow' = HeldNow
    <3>1. /\ AbsMarks' = AbsMarks /\ Prefunds[Top.ops] \in Nat
          /\ HeldNow' = HeldNow - Prefunds[Top.ops] + Prefunds[Top.ops]
      BY <1>0, <2>1, StayMarks
    <3> QED BY <1>0, <3>1, AbsFacts
  <2>3. AbsPot' = AbsPot
    BY <1>0, <2>1, <2>2, AbsFacts
  <2> QED BY <2>1, <2>2, <2>3, TankStutters
<1>10. CASE Transact
  <2>1. paymasterIdBalances' = paymasterIdBalances /\ deposit' = deposit
    BY <1>10 DEF Transact, storage
  <2>2. /\ HeldNow' = HeldNow
        /\ AbsMarks' = Append(AbsMarks, [credit |-> paymasterIdBalances, pot |-> AbsPot])
    BY <1>0, <1>10, TransactMarks
  <2>3. AbsPot' = AbsPot
    BY <1>0, <2>1, <2>2, AbsFacts
  <2> QED BY <2>1, <2>2, <2>3, TankOpens
<1>11. CASE Revert
  BY <1>0, <1>11, RevertUndoes
<1> QED BY <1>1, <1>2, <1>3, <1>5, <1>6, <1>7, <1>8, <1>9, <1>10, <1>11 DEF Next

LEMMA InitTank == Init => Tank!TankInit
<1> SUFFICES ASSUME Init PROVE Tank!TankInit
  OBVIOUS
<1>1. /\ paymasterIdBalances = [i \in Ids |-> 0] /\ deposit = 0
      /\ frames = <<>> /\ Depth = 0 /\ Len(frames) = 0 /\ frames \in Seq(FrameType)
  BY DEF Init, Depth
<1>2. AbsIs
  BY <1>1, AbsAre
<1>3. HeldOn(frames, 0) = 0
  <2>1. 0 \in 0 .. Len(frames)
    BY <1>1
  <2> QED BY <1>1, <2>1, HeldInNat
<1>4. AbsPot = 0
  BY <1>1, <1>2, <1>3 DEF AbsIs
<1>5. AbsMarks = <<>>
  BY <1>1 DEF AbsMarks
<1> QED BY <1>1, <1>4, <1>5 DEF Tank!TankInit, AbsPot, AbsMarks

\* Where the overhead covers the gas of _handlePostOp, the paymaster with the EntryPoint
\* is a tank: a dapp's money changes by its own deposits, withdrawals and charges, and
\* by no more than leaves the pot.  (VerifyingSingletonPaymaster.sol:76-144, 186-201)
THEOREM AlwaysImplementsTank == Covered /\ Spec => ImplementsTank
<1> SUFFICES ASSUME Covered PROVE Spec => ImplementsTank
  OBVIOUS
<1>1. IInv /\ IInv' /\ Plain /\ [Next]_vars => [Tank!TankNext]_(Tank!tankVars)
  BY NextTank
<1>2. Init => Tank!TankInit
  BY InitTank
<1> QED BY <1>1, <1>2, Invariance, AlwaysPlain, PTL DEF ImplementsTank, Tank!TankSpec, Spec
-----------------------------------------------------------------------------
(* Nobody's money is backed twice.                                         *)

\* Every mark, and what there is now, has the money for its credits.
AllBacked(ms) == \A k \in 1 .. Len(ms) : Total(ms[k].credit) <= ms[k].pot

Backed == Total(paymasterIdBalances) <= AbsPot /\ AllBacked(AbsMarks)

LEMMA TotalInNat == ASSUME NEW b \in [Ids -> Nat] PROVE Total(b) \in Nat
<1>1. IsFiniteSet(Ids) /\ \A x \in Ids : b[x] \in Nat
  BY PaymasterAssumption
<1>2. SumOf(Ids, b) \in Nat
  BY <1>1, SumType
<1> QED BY <1>2 DEF Total, SumOf

\* One dapp's credit changes.
LEMMA TotalChanges ==
    ASSUME NEW b \in [Ids -> Nat], NEW c \in [Ids -> Nat], NEW i \in Ids,
           \A j \in Ids : j # i => c[j] = b[j]
    PROVE  Total(c) = Total(b) - b[i] + c[i]
<1>1. IsFiniteSet(Ids) /\ \A j \in Ids : b[j] \in Nat /\ c[j] \in Nat /\ (j # i => c[j] = b[j])
  BY PaymasterAssumption
<1>2. SumOf(Ids, c) - c[i] = SumOf(Ids, b) - b[i] /\ SumOf(Ids, c) \in Nat /\ SumOf(Ids, b) \in Nat
  BY <1>1, SumChange
<1>3. /\ Total(c) - c[i] = Total(b) - b[i] /\ Total(c) \in Nat /\ Total(b) \in Nat
      /\ b[i] \in Nat /\ c[i] \in Nat
  BY <1>1, <1>2 DEF Total, SumOf
<1> QED BY <1>3

LEMMA BackedAppend ==
    ASSUME NEW ms \in Seq(MarkType), AllBacked(ms), NEW m \in MarkType, Total(m.credit) <= m.pot
    PROVE  AllBacked(Append(ms, m))
<1> DEFINE t == Append(ms, m)
<1>1. Len(t) = Len(ms) + 1 /\ Len(ms) \in Nat /\ t[Len(ms) + 1] = m /\ \A k \in 1 .. Len(ms) : t[k] = ms[k]
  <2> HIDE DEF MarkType
  <2> QED BY AppendProperties, LenProperties
<1>2. \A k \in 1 .. Len(t) : k \in 1 .. Len(ms) \/ k = Len(ms) + 1
  BY <1>1
<1> HIDE DEF t
<1>3. AllBacked(t)
  BY <1>1, <1>2 DEF AllBacked
<1> QED BY <1>3 DEF t

LEMMA BackedDrop ==
    ASSUME NEW ms \in Seq(MarkType), ms # <<>>, AllBacked(ms)
    PROVE  AllBacked(SubSeq(ms, 1, Len(ms) - 1))
<1> DEFINE t == SubSeq(ms, 1, Len(ms) - 1)
<1>1. Len(t) = Len(ms) - 1 /\ Len(ms) \in Nat /\ \A k \in 1 .. Len(ms) - 1 : t[k] = ms[k]
  <2> HIDE DEF MarkType
  <2> QED BY Shortened, LenProperties
<1>2. \A k \in 1 .. Len(t) : k \in 1 .. Len(ms) - 1 /\ k \in 1 .. Len(ms)
  BY <1>1
<1> HIDE DEF t
<1>3. AllBacked(t)
  BY <1>1, <1>2 DEF AllBacked
<1> QED BY <1>3 DEF t

LEMMA NextBacked ==
    ASSUME TypeOK, TypeOK', Backed, [Tank!TankNext]_(Tank!tankVars)
    PROVE  Backed'
<1> DEFINE ms == AbsMarks
           ms2 == AbsMarks'
           b == paymasterIdBalances
           b2 == paymasterIdBalances'
           mark == [credit |-> b, pot |-> AbsPot]
           outer == SubSeq(ms, 1, Len(ms) - 1)
<1>1. /\ ms \in Seq(MarkType) /\ ms2 \in Seq(MarkType) /\ Len(ms) \in Nat
      /\ b \in [Ids -> Nat] /\ b2 \in [Ids -> Nat] /\ AbsPot \in Nat /\ AbsPot' \in Nat
  <2>1. ms \in Seq(MarkType) /\ ms2 \in Seq(MarkType)
    BY AbsFacts, MarksFacts
  <2>2. Len(ms) \in Nat
    <3> HIDE DEF MarkType, ms
    <3> QED BY <2>1, LenProperties
  <2>3. HeldNow' \in Nat
    BY AbsFacts, HeldInNat
  <2> QED BY <2>1, <2>2, <2>3, AbsFacts DEF TypeOK, Store, StoreType
<1>2. Total(b) <= AbsPot /\ AllBacked(ms)
  BY DEF Backed
<1>3. SUFFICES Total(b2) <= AbsPot' /\ AllBacked(ms2)
  BY DEF Backed, AllBacked
<1>4. mark \in MarkType /\ mark.credit = b /\ mark.pot = AbsPot
  BY <1>1 DEF MarkType
<1>5. AllBacked(Append(ms, mark))
  <2> HIDE DEF mark, ms, b
  <2> QED BY <1>1, <1>2, <1>4, BackedAppend
<1>6. ms # <<>> => AllBacked(outer)
  BY <1>1, <1>2, BackedDrop
<1>7. ms = <<>> => outer = <<>> /\ AllBacked(outer)
  BY DEF AllBacked
<1>8. Total(b) \in Nat
  BY <1>1, TotalInNat
<1>9. CASE Tank!Open
  <2>1. ms2 = Append(ms, mark) /\ AbsPot' = AbsPot /\ b2 = b
    BY <1>9 DEF Tank!Open, Tank!Mark, AbsMarks, AbsPot
  <2> QED BY <1>2, <1>5, <2>1
<1>10. CASE Tank!Keep
  <2>1. ms # <<>> /\ ms2 = outer /\ AbsPot' = AbsPot /\ b2 = b
    BY <1>10 DEF Tank!Keep, Tank!Outer, AbsMarks, AbsPot
  <2> QED BY <1>2, <1>6, <2>1
<1>11. CASE Tank!Undo
  <2>1. ms # <<>> /\ ms2 = outer /\ AbsPot' = ms[Len(ms)].pot /\ b2 = ms[Len(ms)].credit
    BY <1>11 DEF Tank!Undo, Tank!Outer, AbsMarks, AbsPot
  <2>2. Len(ms) \in 1 .. Len(ms)
    <3>1. Len(ms) # 0
      <4> HIDE DEF ms, MarkType
      <4> QED BY <1>1, <2>1, EmptySeq
    <3> QED BY <1>1, <3>1
  <2> QED BY <1>2, <1>6, <2>1, <2>2 DEF AllBacked
<1>12. CASE Tank!Donate
  <2>1. ms2 = ms /\ AbsPot' >= AbsPot /\ b2 = b
    BY <1>12 DEF Tank!Donate, AbsMarks, AbsPot
  <2> QED BY <1>1, <1>2, <1>8, <2>1
<1>13. ASSUME NEW i \in Ids, Tank!PayIn(i, Tank!Moved(i)) PROVE Total(b2) <= AbsPot' /\ AllBacked(ms2)
  <2> DEFINE n == b2[i] - b[i]
  <2>1. n >= 0 /\ b2 = [b EXCEPT ![i] = b[i] + n] /\ AbsPot' = AbsPot + n /\ ms2 = ms
    BY <1>13 DEF Tank!PayIn, Tank!Moved, AbsMarks, AbsPot
  <2>2. n \in Int /\ b[i] \in Nat /\ b[i] + n \in Nat
    BY <1>1, <2>1
  <2> HIDE DEF n
  <2>3. Total(b2) = Total(b) - b[i] + (b[i] + n)
    <3>1. b2[i] = b[i] + n /\ \A j \in Ids : j # i => b2[j] = b[j]
      BY <1>1, <2>1
    <3>2. Total(b2) = Total(b) - b[i] + b2[i]
      BY <1>1, <3>1, TotalChanges
    <3> QED BY <3>1, <3>2
  <2>4. Total(b2) = Total(b) + n
    BY <1>8, <2>1, <2>2, <2>3
  <2> QED BY <1>1, <1>2, <1>8, <2>1, <2>2, <2>4
<1>14. ASSUME NEW i \in Ids, NEW n, n \in 0 .. b[i], b2 = [b EXCEPT ![i] = @ - n]
       PROVE  Total(b2) = Total(b) - n /\ n \in Nat
  <2>1. b[i] \in Nat /\ n \in Nat /\ b[i] - n \in Nat /\ b2 = [b EXCEPT ![i] = b[i] - n]
    BY <1>1, <1>14
  <2>2. b2[i] = b[i] - n /\ \A j \in Ids : j # i => b2[j] = b[j]
    BY <1>1, <2>1
  <2>3. Total(b2) = Total(b) - b[i] + b2[i]
    BY <1>1, <2>2, TotalChanges
  <2> QED BY <1>8, <2>1, <2>2, <2>3
<1>15. ASSUME NEW i \in Ids, Tank!TakeOut(i, -Tank!Moved(i)) PROVE Total(b2) <= AbsPot' /\ AllBacked(ms2)
  <2> DEFINE n == -Tank!Moved(i)
  <2>1. n \in 0 .. b[i] /\ b2 = [b EXCEPT ![i] = @ - n] /\ AbsPot' = AbsPot - n /\ ms2 = Append(ms, mark)
    BY <1>15 DEF Tank!TakeOut, Tank!Mark, AbsMarks, AbsPot
  <2> HIDE DEF n
  <2>2. Total(b2) = Total(b) - n /\ n \in Nat
    BY <1>14, <2>1
  <2> QED BY <1>1, <1>2, <1>5, <1>8, <2>1, <2>2
<1>16. ASSUME NEW i \in Ids, Tank!Spend(i, -Tank!Moved(i)) PROVE Total(b2) <= AbsPot' /\ AllBacked(ms2)
  <2> DEFINE n == -Tank!Moved(i)
  <2>1. /\ n \in 0 .. b[i] /\ b2 = [b EXCEPT ![i] = @ - n]
        /\ AbsPot' <= AbsPot /\ AbsPot - AbsPot' <= n /\ ms2 \in {ms, outer}
    BY <1>16 DEF Tank!Spend, Tank!Outer, AbsMarks, AbsPot
  <2> HIDE DEF n
  <2>2. Total(b2) = Total(b) - n /\ n \in Nat
    BY <1>14, <2>1
  <2>3. AllBacked(ms2)
    BY <1>2, <1>6, <1>7, <2>1
  <2>4. Total(b2) <= AbsPot'
    <3>1. AbsPot \in Nat /\ AbsPot' \in Nat /\ Total(b) <= AbsPot /\ AbsPot - AbsPot' <= n
      BY <1>1, <1>2, <2>1
    <3> DEFINE tb == Total(b)
               tb2 == Total(b2)
               p == AbsPot
               p2 == AbsPot'
    <3>2. /\ p \in Nat /\ p2 \in Nat /\ tb <= p /\ p - p2 <= n
          /\ tb \in Nat /\ n \in Nat /\ tb2 = tb - n
      BY <1>8, <2>2, <3>1
    <3> HIDE DEF tb, tb2, p, p2
    <3>3. tb2 <= p2
      BY <3>2
    <3> QED BY <3>3 DEF tb2, p2
  <2> QED BY <2>3, <2>4
<1>17. CASE UNCHANGED Tank!tankVars
  <2>1. ms2 = ms /\ AbsPot' = AbsPot /\ b2 = b
    BY <1>17 DEF Tank!tankVars, AbsMarks, AbsPot
  <2> QED BY <1>2, <2>1
<1> QED BY <1>9, <1>10, <1>11, <1>12, <1>13, <1>15, <1>16, <1>17 DEF Tank!TankNext

LEMMA InitBacked == Init => Backed
<1> SUFFICES ASSUME Init PROVE Backed
  OBVIOUS
<1>1. /\ paymasterIdBalances = [i \in Ids |-> 0] /\ AbsPot = 0 /\ AbsMarks = <<>>
  BY InitTank DEF Tank!TankInit, AbsPot, AbsMarks
<1>2. SumOf(Ids, paymasterIdBalances) = 0
  BY <1>1, SumZero, PaymasterAssumption
<1>3. Total(paymasterIdBalances) <= AbsPot
  BY <1>1, <1>2 DEF Total, SumOf
<1>4. AllBacked(AbsMarks)
  BY <1>1 DEF AllBacked
<1> QED BY <1>3, <1>4 DEF Backed

LEMMA BackedIsSolvent == TypeOK /\ Backed => Solvent
<1> SUFFICES ASSUME TypeOK, Backed PROVE Solvent
  OBVIOUS
<1>1. Total(paymasterIdBalances) <= deposit + Held(Depth)
  BY DEF Backed, AbsPot
<1>2. ASSUME NEW k \in 1 .. Depth
      PROVE  Total(frames[k].saved.paymasterIdBalances) <= frames[k].saved.deposit + Held(k - 1)
  <2>1. Len(AbsMarks) = Depth
    BY DEF AbsMarks, TypeOK, Depth
  <2> QED BY <2>1 DEF Backed, AllBacked, AbsMarks
<1> QED BY <1>1, <1>2 DEF Solvent

\* What the dapps own together is in the deposit or held back for operations, now and in
\* every state that a revert would restore.  (VerifyingSingletonPaymaster.sol:76-201)
THEOREM AlwaysSolvent == Spec => []Solvent
<1>1. CASE Covered
  <2>1. Backed /\ IInv /\ IInv' /\ Plain /\ [Next]_vars => Backed'
    BY <1>1, NextTank, NextBacked DEF IInv
  <2>2. Spec => []Backed
    BY <2>1, InitBacked, Invariance, AlwaysPlain, PTL DEF Spec
  <2> QED BY <2>2, BackedIsSolvent, TypeCorrect, PTL
<1>2. CASE ~Covered
  <2>1. Solvent
    BY <1>2 DEF Solvent
  <2> QED BY <2>1, PTL
<1> QED BY <1>1, <1>2
=============================================================================
