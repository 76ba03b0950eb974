-------------------------- MODULE ForwardFlowProofs --------------------------
(***************************************************************************)
(* What ForwardFlow promises, for any accounts, tokens, prices and depth   *)
(* of calls.                                                               *)
(***************************************************************************)
EXTENDS ForwardFlow, Sums

-----------------------------------------------------------------------------
(* The invariant.                                                          *)

\* A frame of a transaction.
Running(f) == f.code \in {"executing", "refunding"}

\* A store that the first n frames of a stack may go with: the nonces count what is
\* settled and the one transaction that is not, and the guard is up with that one.
Fits(fs, n, store) ==
    /\ store.entered <=> \E k \in 1 .. n : Running(fs[k])
    /\ store.nonce = Len(store.settled) + IF store.entered THEN 1 ELSE 0
    /\ \A k \in 1 .. Len(store.settled) : store.settled[k].nonce = k - 1
    /\ \A k \in 1 .. n :
          /\ Running(fs[k]) => fs[k].order.nonce = Len(store.settled)
          /\ Len(fs[k].saved.settled) <= Len(store.settled)

\* So does every store that a revert brings back, and no transaction began in another.
Below(fs, n) ==
    \A k \in 1 .. n :
       /\ Fits(fs, k - 1, fs[k].saved)
       /\ Running(fs[k]) => ~fs[k].saved.entered /\ fs[k].order \in Order

Stack(fs, store) == /\ fs \in Seq(FrameType)
                    /\ Fits(fs, Len(fs), store)
                    /\ Below(fs, Len(fs))

\* What a transaction owes that has been charged.
Charged(f) ==
    f.code = "refunding" =>
       \E used \in GasUsed : f.order.owed = Payment(f.order.terms, used)

AllCharged(fs) == \A k \in 1 .. Len(fs) : Charged(fs[k])

IInv == TypeOK /\ Stack(frames, Store) /\ AllCharged(frames)

-----------------------------------------------------------------------------
(* Stacks.                                                                 *)

Agree(s, t) == s.nonce = t.nonce /\ s.entered = t.entered /\ s.settled = t.settled

LEMMA FitsPrefix ==
    ASSUME NEW fs, NEW gs, NEW n \in Nat, NEW s, NEW t, Fits(fs, n, s), Agree(s, t),
           \A k \in 1 .. n : gs[k] = fs[k]
    PROVE  Fits(gs, n, t)
BY DEF Fits, Agree

LEMMA BelowPrefix ==
    ASSUME NEW fs, NEW gs, NEW n \in Nat, Below(fs, n), \A k \in 1 .. n : gs[k] = fs[k]
    PROVE  Below(gs, n)
<1>1. ASSUME NEW k \in 1 .. n
      PROVE  Fits(gs, k - 1, gs[k].saved)
  <2>1. k - 1 \in Nat /\ \A j \in 1 .. k - 1 : gs[j] = fs[j]
    OBVIOUS
  <2>2. Fits(fs, k - 1, fs[k].saved) /\ Agree(fs[k].saved, fs[k].saved) /\ gs[k] = fs[k]
    BY DEF Below, Agree
  <2>3. Fits(gs, k - 1, fs[k].saved)
    BY <2>1, <2>2, FitsPrefix
  <2> QED BY <2>2, <2>3
<1> QED BY <1>1 DEF Below

LEMMA Appended ==
    ASSUME NEW S, NEW s \in Seq(S), NEW e \in S
    PROVE  /\ Append(s, e) \in Seq(S) /\ Len(s) \in Nat /\ Len(Append(s, e)) = Len(s) + 1
           /\ Append(s, e)[Len(s) + 1] = e /\ \A k \in 1 .. Len(s) : Append(s, e)[k] = s[k]
OBVIOUS

\* One more call.
LEMMA StackGrows ==
    ASSUME NEW fs, NEW s, NEW t, Stack(fs, s), NEW f \in FrameType, Agree(s, f.saved),
           Running(f) => ~f.saved.entered /\ f.order \in Order,
           Fits(Append(fs, f), Len(fs) + 1, t)
    PROVE  Stack(Append(fs, f), t)
<1> DEFINE gs == Append(fs, f)
           n == Len(fs)
<1>1. /\ n \in Nat /\ gs \in Seq(FrameType) /\ Len(gs) = n + 1
      /\ gs[n + 1] = f /\ \A k \in 1 .. n : gs[k] = fs[k]
  BY Appended DEF Stack
<1>2. Below(fs, n) /\ Fits(fs, n, s) /\ Fits(gs, n + 1, t)
  BY DEF Stack
<1> HIDE DEF gs, n
<1>3. Below(gs, n) /\ Fits(gs, n, f.saved)
  BY <1>1, <1>2, BelowPrefix, FitsPrefix
<1>4. \A k \in 1 .. n + 1 : k \in 1 .. n \/ (k = n + 1 /\ k - 1 = n)
  BY <1>1
<1>5. Below(gs, n + 1)
  BY <1>1, <1>3, <1>4 DEF Below
<1>6. Stack(gs, t)
  BY <1>1, <1>2, <1>5 DEF Stack
<1> QED BY <1>6 DEF gs

\* A call that is no transaction.
LEMMA StackCall ==
    ASSUME NEW fs, NEW s, NEW t \in StoreType, Stack(fs, s), Agree(s, t),
           NEW f \in FrameType, ~Running(f), Agree(s, f.saved)
    PROVE  Stack(Append(fs, f), t)
<1> DEFINE gs == Append(fs, f)
           n == Len(fs)
<1>1. /\ n \in Nat /\ gs[n + 1] = f /\ \A k \in 1 .. n : gs[k] = fs[k]
  BY Appended DEF Stack
<1>2. Fits(gs, n, t)
  <2>1. Fits(fs, n, s)
    BY DEF Stack
  <2> HIDE DEF gs, n
  <2> QED BY <1>1, <2>1, FitsPrefix
<1>3. Len(f.saved.settled) = Len(t.settled) /\ Len(t.settled) \in Nat
  BY DEF Agree, StoreType
<1>4. Fits(gs, n + 1, t)
  <2> HIDE DEF gs, n
  <2>1. \A k : k \in 1 .. n + 1 <=> k \in 1 .. n \/ k = n + 1
    BY <1>1
  <2> QED BY <1>1, <1>2, <1>3, <2>1 DEF Fits
<1> QED BY <1>4, StackGrows

\* A transaction: the guard goes up, and it takes the next nonce.
LEMMA StackTransaction ==
    ASSUME NEW fs, NEW s \in StoreType, NEW t, Stack(fs, s),
           ~s.entered, t.entered = TRUE, t.nonce = s.nonce + 1, t.settled = s.settled,
           NEW f \in FrameType, Running(f), f.saved = s, f.order \in Order,
           f.order.nonce = s.nonce
    PROVE  Stack(Append(fs, f), t)
<1> DEFINE gs == Append(fs, f)
           n == Len(fs)
<1>1. /\ n \in Nat /\ gs[n + 1] = f /\ \A k \in 1 .. n : gs[k] = fs[k]
  BY Appended DEF Stack
<1>2. Agree(s, s) /\ Fits(fs, n, s)
  BY DEF Stack, Agree
<1> HIDE DEF gs, n
<1>3. Fits(gs, n, s)
  BY <1>1, <1>2, FitsPrefix
<1>4. Len(s.settled) \in Nat /\ s.nonce = Len(s.settled)
  BY <1>3 DEF StoreType, Fits
<1>5. \A k \in 1 .. n : ~Running(gs[k]) /\ Len(gs[k].saved.settled) <= Len(s.settled)
  BY <1>3 DEF Fits
<1>6. \A k : k \in 1 .. n + 1 <=> k \in 1 .. n \/ k = n + 1
  BY <1>1
<1>7. \A k \in 1 .. Len(t.settled) : t.settled[k].nonce = k - 1
  BY <1>3 DEF Fits
<1>8. t.nonce = Len(t.settled) + 1
  BY <1>4
<1>9. \A k \in 1 .. n + 1 : /\ Running(gs[k]) => gs[k].order.nonce = Len(t.settled)
                            /\ Len(gs[k].saved.settled) <= Len(t.settled)
  BY <1>1, <1>4, <1>5, <1>6
<1>10. \E k \in 1 .. n + 1 : Running(gs[k])
  BY <1>1, <1>6
<1>11. Fits(gs, n + 1, t)
  BY <1>7, <1>8, <1>9, <1>10 DEF Fits
<1> QED BY <1>2, <1>11, StackGrows DEF gs, n

LEMMA Shortened ==
    ASSUME NEW S, NEW s \in Seq(S), s # <<>>, NEW t, t = SubSeq(s, 1, Len(s) - 1)
    PROVE  /\ t \in Seq(S) /\ Len(t) = Len(s) - 1 /\ Len(s) \in Nat /\ Len(s) >= 1
           /\ \A k \in 1 .. Len(s) - 1 : t[k] = s[k]
<1> DEFINE n == Len(s) - 1
<1>1. n \in Nat /\ \A i \in 1 .. n : s[i] \in S
  OBVIOUS
<1> HIDE DEF n
<1>2. /\ SubSeq(s, 1, n) \in Seq(S)
      /\ Len(SubSeq(s, 1, n)) = IF 1 <= n THEN n - 1 + 1 ELSE 0
      /\ \A i \in 1 .. n - 1 + 1 : SubSeq(s, 1, n)[i] = s[1 + i - 1]
  BY <1>1, SubSeqProperties
<1>3. t = SubSeq(s, 1, n)
  BY DEF n
<1>4. Len(t) = n
  BY <1>1, <1>2, <1>3
<1>5. \A k \in 1 .. n : k \in 1 .. n - 1 + 1 /\ 1 + k - 1 = k
  BY <1>1
<1>6. \A k \in 1 .. n : t[k] = s[k]
  BY <1>2, <1>3, <1>5
<1>7. Len(s) \in Nat /\ Len(s) >= 1
  OBVIOUS
<1> QED BY <1>2, <1>3, <1>4, <1>6, <1>7 DEF n

\* A call ends, with a store that goes with what is left.
LEMMA StackEnd ==
    ASSUME NEW fs, NEW s, NEW t, Stack(fs, s), fs # <<>>, Fits(fs, Len(fs) - 1, t)
    PROVE  Stack(SubSeq(fs, 1, Len(fs) - 1), t)
<1> DEFINE gs == SubSeq(fs, 1, Len(fs) - 1)
           n == Len(fs) - 1
<1>1. /\ fs \in Seq(FrameType) /\ Below(fs, Len(fs)) /\ Fits(fs, n, t) /\ Agree(t, t)
  BY DEF Stack, Agree
<1>2. /\ n \in Nat /\ n + 1 = Len(fs) /\ gs \in Seq(FrameType) /\ Len(gs) = n
      /\ \A k \in 1 .. n : gs[k] = fs[k]
  BY <1>1, Shortened
<1> HIDE DEF gs, n
<1>3. Below(fs, n)
  <2>1. \A k \in 1 .. n : k \in 1 .. Len(fs)
    BY <1>2
  <2> QED BY <1>1, <2>1 DEF Below
<1>4. Below(gs, n) /\ Fits(gs, n, t)
  BY <1>1, <1>2, <1>3, BelowPrefix, FitsPrefix
<1>5. Stack(gs, t)
  BY <1>2, <1>4 DEF Stack
<1> QED BY <1>5 DEF gs

\* It returns, and was no transaction.
LEMMA StackReturn ==
    ASSUME NEW fs, NEW s, NEW t, Stack(fs, s), fs # <<>>, ~Running(fs[Len(fs)]), Agree(s, t)
    PROVE  Stack(SubSeq(fs, 1, Len(fs) - 1), t)
<1> DEFINE n == Len(fs)
<1>1. n \in Nat /\ n >= 1 /\ Fits(fs, n, s) /\ ~Running(fs[n])
  BY DEF Stack
<1> HIDE DEF n
<1>2. \A k : k \in 1 .. n <=> k \in 1 .. n - 1 \/ k = n
  BY <1>1
<1>3. Fits(fs, n - 1, t)
  BY <1>1, <1>2 DEF Fits, Agree
<1> QED BY <1>3, StackEnd DEF n

\* It reverts.
LEMMA StackRevert ==
    ASSUME NEW fs, NEW s, Stack(fs, s), fs # <<>>
    PROVE  /\ Stack(SubSeq(fs, 1, Len(fs) - 1), fs[Len(fs)].saved)
           /\ Len(fs[Len(fs)].saved.settled) <= Len(s.settled)
<1>1. Len(fs) \in 1 .. Len(fs)
  BY DEF Stack
<1>2. /\ Fits(fs, Len(fs) - 1, fs[Len(fs)].saved)
      /\ Len(fs[Len(fs)].saved.settled) <= Len(s.settled)
  BY <1>1 DEF Stack, Below, Fits
<1> QED BY <1>2, StackEnd

\* A transaction is settled.
LEMMA StackSettle ==
    ASSUME NEW fs, NEW s \in StoreType, NEW t, Stack(fs, s), fs # <<>>,
           Running(fs[Len(fs)]), NEW order \in Order, order.nonce = fs[Len(fs)].order.nonce,
           t.entered = FALSE, t.nonce = s.nonce, t.settled = Append(s.settled, order)
    PROVE  Stack(SubSeq(fs, 1, Len(fs) - 1), t)
<1> DEFINE n == Len(fs)
           top == fs[n]
           m == Len(s.settled)
<1>1. n \in Nat /\ n >= 1 /\ n \in 1 .. n /\ \A k \in 1 .. n - 1 : k \in 1 .. n
  BY DEF Stack
<1>2. Fits(fs, n, s) /\ Fits(fs, n - 1, top.saved) /\ ~top.saved.entered
  BY <1>1 DEF Stack, Below
<1>3. \A k \in 1 .. n - 1 : ~Running(fs[k])
  BY <1>2 DEF Fits
<1>4. s.settled \in Seq(Order) /\ m \in Nat
  BY DEF StoreType
<1>5. s.nonce = m + 1 /\ top.order.nonce = m
  BY <1>1, <1>2 DEF Fits
<1>6. /\ Len(t.settled) = m + 1 /\ t.settled[m + 1] = order
      /\ \A k \in 1 .. m : t.settled[k] = s.settled[k]
  BY <1>4, Appended
<1>7. \A k \in 1 .. m : s.settled[k].nonce = k - 1
  BY <1>2 DEF Fits
<1>8. \A k \in 1 .. n - 1 : Len(fs[k].saved.settled) <= m
  BY <1>1, <1>2 DEF Fits
<1>9. \A k \in 1 .. n - 1 : Len(fs[k].saved.settled) <= m + 1
  <2>1. \A k \in 1 .. n - 1 : Len(fs[k].saved.settled) \in Nat
    BY <1>1 DEF Stack, FrameType, StoreType
  <2> HIDE DEF n, m
  <2> QED BY <1>4, <1>8, <2>1
<1> HIDE DEF n, top, m
<1>10. \A k \in 1 .. Len(t.settled) : t.settled[k].nonce = k - 1
  <2>1. \A k \in 1 .. m + 1 : k \in 1 .. m \/ (k = m + 1 /\ k - 1 = m)
    BY <1>4
  <2> QED BY <1>5, <1>6, <1>7, <2>1 DEF top, n
<1>11. Fits(fs, n - 1, t)
  BY <1>3, <1>5, <1>6, <1>9, <1>10 DEF Fits
<1> QED BY <1>11, StackEnd DEF n

\* A transaction's refund is due: its frame goes on with what is owed.
LEMMA StackOwes ==
    ASSUME NEW fs, NEW s, NEW gs \in Seq(FrameType), Stack(fs, s), fs # <<>>,
           Len(gs) = Len(fs), \A k \in 1 .. Len(fs) - 1 : gs[k] = fs[k],
           NEW g, g = gs[Len(fs)], Running(fs[Len(fs)]), Running(g), g.order \in Order,
           g.order.nonce = fs[Len(fs)].order.nonce, g.saved = fs[Len(fs)].saved
    PROVE  Stack(gs, s)
<1> DEFINE n == Len(fs)
<1>1. fs \in Seq(FrameType) /\ n \in Nat /\ n >= 1 /\ n \in 1 .. n
  BY DEF Stack
<1>2. \A k \in 1 .. n : gs[k] = IF k = n THEN g ELSE fs[k]
  <2>1. \A k \in 1 .. n : k = n \/ k \in 1 .. n - 1
    BY <1>1
  <2> QED BY <1>1, <2>1
<1>3. \A k \in 1 .. n : /\ Running(gs[k]) <=> Running(fs[k])
                        /\ gs[k].order.nonce = fs[k].order.nonce
                        /\ gs[k].saved = fs[k].saved
                        /\ Running(gs[k]) => gs[k].order \in Order
  BY <1>2 DEF Stack, Below
<1>4. Below(fs, n) /\ Fits(fs, n, s)
  BY DEF Stack
<1> HIDE DEF n
<1>5. Fits(gs, n, s)
  BY <1>3, <1>4 DEF Fits
<1>6. ASSUME NEW k \in 1 .. n
      PROVE  Fits(gs, k - 1, gs[k].saved)
  <2>1. Fits(fs, k - 1, fs[k].saved) /\ \A j \in 1 .. k - 1 : j \in 1 .. n
    BY <1>1, <1>4 DEF Below
  <2>2. Fits(gs, k - 1, fs[k].saved)
    BY <1>3, <2>1 DEF Fits
  <2> QED BY <1>3, <2>2
<1>7. Below(gs, n)
  BY <1>3, <1>4, <1>6 DEF Below
<1> QED BY <1>5, <1>7 DEF Stack, n

-----------------------------------------------------------------------------
(* What has been charged.                                                  *)

LEMMA AppendCharged ==
    ASSUME NEW S, NEW fs \in Seq(S), NEW f \in S, AllCharged(fs), Charged(f)
    PROVE  AllCharged(Append(fs, f))
<1> DEFINE gs == Append(fs, f)
           n == Len(fs)
<1>1. /\ n \in Nat /\ Len(gs) = n + 1 /\ gs[n + 1] = f /\ \A k \in 1 .. n : gs[k] = fs[k]
  BY Appended
<1>2. \A k \in 1 .. n : Charged(fs[k])
  BY DEF AllCharged
<1> HIDE DEF gs, n
<1>3. \A k \in 1 .. n + 1 : k \in 1 .. n \/ k = n + 1
  BY <1>1
<1>4. \A k \in 1 .. n + 1 : Charged(gs[k])
  BY <1>1, <1>2, <1>3
<1>5. AllCharged(gs)
  BY <1>1, <1>4 DEF AllCharged
<1> QED BY <1>5 DEF gs

LEMMA EndCharged ==
    ASSUME NEW S, NEW fs \in Seq(S), fs # <<>>, AllCharged(fs)
    PROVE  AllCharged(SubSeq(fs, 1, Len(fs) - 1))
<1> DEFINE gs == SubSeq(fs, 1, Len(fs) - 1)
           n == Len(fs) - 1
<1>1. Len(gs) = n /\ \A k \in 1 .. n : gs[k] = fs[k] /\ k \in 1 .. Len(fs)
  <2>1. /\ Len(gs) = Len(fs) - 1 /\ Len(fs) \in Nat
        /\ \A k \in 1 .. Len(fs) - 1 : gs[k] = fs[k]
    BY Shortened
  <2> HIDE DEF gs
  <2> QED BY <2>1
<1> HIDE DEF gs, n
<1>2. AllCharged(gs)
  BY <1>1 DEF AllCharged
<1> QED BY <1>2 DEF gs

LEMMA SamePrice ==
    ASSUME gasprice' = gasprice, AllCharged(frames')
    PROVE  AllCharged(frames)'
BY DEF AllCharged, Charged, Payment

-----------------------------------------------------------------------------
(* Types.                                                                  *)

LEMMA Types ==
    ASSUME TypeOK
    PROVE  /\ nonce \in 0 .. MaxNonce /\ entered \in BOOLEAN /\ enabled \in SUBSET Accounts
           /\ funds \in [Accounts -> Nat] /\ drawn \in [Accounts -> Nat]
           /\ settled \in Seq(Order) /\ gasprice \in Nat /\ gasprice \in GasPrices
           /\ frames \in Seq(FrameType) /\ Depth \in Nat /\ Depth = Len(frames)
           /\ Store \in StoreType /\ Agree(Store, Store)
           /\ Store.nonce = nonce /\ Store.entered = entered /\ Store.settled = settled
BY ForwardAssumption DEF TypeOK, Store, StoreType, Depth, Agree

LEMMA TopInType ==
    ASSUME TypeOK, frames # <<>>
    PROVE  /\ Depth >= 1 /\ Top = frames[Len(frames)] /\ Top \in FrameType
           /\ Top.saved \in StoreType
<1>1. Depth = Len(frames) /\ Depth \in Nat /\ Depth >= 1 /\ frames \in Seq(FrameType)
  BY Types
<1>2. Top = frames[Depth] /\ Top \in FrameType
  BY <1>1 DEF Top
<1> QED BY <1>1, <1>2 DEF FrameType

LEMMA NewOrderInType ==
    ASSUME NEW a \in Accounts, NEW t \in Terms, NEW n \in 0 .. MaxNonce - 1 \cup {None},
           NEW x \in Nat
    PROVE  /\ NewOrder(a, t, n) \in Order /\ NewOrder(a, t, n).nonce = n
           /\ [NewOrder(a, t, n) EXCEPT !.owed = x] \in Order
BY DEF NewOrder, Order

LEMMA FrameInType ==
    ASSUME NEW code \in ModuleCode \cup {"external"}, NEW order \in Order \cup {None},
           NEW st \in StoreType
    PROVE  /\ Frame(code, order, st) \in FrameType
           /\ Frame(code, order, st).code = code /\ Frame(code, order, st).order = order
           /\ Frame(code, order, st).saved = st
BY DEF Frame, FrameType

LEMMA PaymentInNat ==
    ASSUME TypeOK, NEW t \in Terms, t.tokenGasPriceFactor # 0, NEW used \in GasUsed
    PROVE  Payment(t, used) \in Nat
<1>1. /\ used \in Nat /\ gasprice \in Nat /\ t.gasPrice \in Nat
      /\ t.tokenGasPriceFactor \in Nat \ {0}
  BY Types, ForwardAssumption DEF TermsType
<1>2. CASE t.gasToken = Ether
  BY <1>1, <1>2 DEF Payment
<1>3. CASE t.gasToken # Ether
  <2> DEFINE x == used * t.gasPrice
             d == t.tokenGasPriceFactor
  <2>1. x \in Nat /\ d \in Nat /\ d > 0 /\ Payment(t, used) = x \div d
    BY <1>1, <1>3 DEF Payment
  <2> HIDE DEF x, d
  <2>2. x \div d \in Nat
    BY <2>1
  <2> QED BY <2>1, <2>2
<1> QED BY <1>2, <1>3

LEMMA DrawInType ==
    ASSUME TypeOK, NEW a \in Accounts, NEW token, NEW n \in Nat, Draw(a, token, n)
    PROVE  funds' \in [Accounts -> Nat] /\ drawn' \in [Accounts -> Nat]
<1>1. CASE token \in Liars
  BY <1>1, Types DEF Draw
<1>2. CASE token \notin Liars
  <2>1. /\ n <= funds[a] /\ funds[a] \in Nat /\ drawn[a] \in Nat
        /\ funds' = [funds EXCEPT ![a] = funds[a] - n]
        /\ drawn' = [drawn EXCEPT ![a] = drawn[a] + n]
    BY <1>2, Types DEF Draw
  <2>2. funds[a] - n \in Nat /\ drawn[a] + n \in Nat
    BY <2>1
  <2> QED BY <2>1, <2>2, Types
<1> QED BY <1>1, <1>2

\* The store there is next.
LEMMA StoreNext ==
    ASSUME nonce' \in 0 .. MaxNonce, entered' \in BOOLEAN, enabled' \in SUBSET Accounts,
           funds' \in [Accounts -> Nat], drawn' \in [Accounts -> Nat], settled' \in Seq(Order)
    PROVE  /\ Store' \in StoreType /\ Store'.nonce = nonce' /\ Store'.entered = entered'
           /\ Store'.settled = settled'
BY DEF Store, StoreType

-----------------------------------------------------------------------------
(* The steps.                                                              *)

\* What a step has to keep.
Kept == TypeOK' /\ Stack(frames', Store') /\ AllCharged(frames)'

\* A call by the module, with the frames and the store it leaves.
LEMMA CallStep ==
    ASSUME IInv, NEW fs, NEW s, NEW st \in StoreType, Calls(fs, st), Stack(fs, s),
           Agree(s, st), Agree(s, Store'), Store' \in StoreType, AllCharged(fs),
           gasprice' = gasprice
    PROVE  Kept
<1> DEFINE f == Frame("external", None, st)
<1>1. f \in FrameType /\ f.code = "external" /\ f.saved = st
  BY FrameInType
<1>2. frames' = Append(fs, f) /\ ret' = None
  BY DEF Calls
<1>3. fs \in Seq(FrameType)
  BY DEF Stack
<1> HIDE DEF f
<1>4. Stack(frames', Store')
  BY <1>1, <1>2, StackCall DEF Running
<1>5. AllCharged(frames')
  BY <1>1, <1>2, <1>3, AppendCharged DEF Charged
<1>6. frames' \in Seq(FrameType)
  BY <1>4 DEF Stack
<1>7. TypeOK'
  BY <1>2, <1>6 DEF TypeOK, IInv
<1> QED BY <1>4, <1>5, <1>7, SamePrice DEF Kept

\* A call ends.
LEMMA LeaveStep ==
    ASSUME IInv, frames # <<>>, NEW v \in {OK, Fail}, Leave(v), Store' \in StoreType,
           Stack(SubSeq(frames, 1, Len(frames) - 1), Store'), gasprice' = gasprice
    PROVE  Kept
<1>1. frames' = SubSeq(frames, 1, Len(frames) - 1) /\ ret' \in {OK, None, Fail}
  BY DEF Leave, Delivered, Depth
<1>2. AllCharged(frames')
  BY <1>1, EndCharged, Types DEF IInv
<1>3. frames' \in Seq(FrameType)
  BY <1>1 DEF Stack
<1>4. TypeOK'
  BY <1>1, <1>3 DEF TypeOK, IInv
<1> QED BY <1>1, <1>2, <1>4, SamePrice DEF Kept

\* A transaction is settled.
LEMMA SettleStep ==
    ASSUME IInv, frames # <<>>, Running(Top), Settle(Top.order),
           UNCHANGED <<nonce, enabled, funds, drawn, gasprice>>
    PROVE  /\ Kept /\ Top.order \in Order
           /\ settled' = Append(settled, Top.order) /\ settled'[Len(settled')] = Top.order
<1>1. /\ Top.order \in Order /\ Depth \in 1 .. Len(frames) /\ Top = frames[Len(frames)]
  <2>1. Depth \in 1 .. Len(frames) /\ Top = frames[Len(frames)] /\ Top = frames[Depth]
    BY TopInType, Types DEF IInv
  <2> QED BY <2>1 DEF IInv, Stack, Below
<1>2. /\ settled' = Append(settled, Top.order) /\ entered' = FALSE /\ Leave(OK)
  BY DEF Settle
<1>3. settled' \in Seq(Order) /\ settled'[Len(settled')] = Top.order
  <2>1. settled \in Seq(Order)
    BY Types DEF IInv
  <2> QED BY <1>1, <1>2, <2>1, Appended
<1>4. /\ Store' \in StoreType /\ Store'.nonce = Store.nonce /\ Store'.entered = FALSE
      /\ Store'.settled = Append(Store.settled, Top.order)
      /\ Store \in StoreType
  BY <1>2, <1>3, StoreNext, Types DEF IInv
<1>5. Stack(SubSeq(frames, 1, Len(frames) - 1), Store')
  BY <1>1, <1>4, StackSettle DEF IInv
<1>6. Kept
  BY <1>2, <1>4, <1>5, LeaveStep
<1> QED BY <1>1, <1>2, <1>3, <1>6

LEMMA ExecTransactionStep ==
    ASSUME IInv, NEW a \in Accounts, NEW t \in Terms, ExecTransaction(a, t)
    PROVE  Kept /\ settled' = settled
<1> DEFINE order == NewOrder(a, t, nonce)
           f == Frame("executing", order, Store)
           st == [Store EXCEPT !.nonce = NewNonce(@), !.entered = TRUE]
           fs == Append(frames, f)
<1>0. /\ TypeOK /\ Stack(frames, Store) /\ AllCharged(frames)
      /\ nonce \in 0 .. MaxNonce /\ Store \in StoreType /\ frames \in Seq(FrameType)
  BY Types DEF IInv
<1>1. /\ ~entered /\ nonce < MaxNonce /\ entered' = TRUE /\ nonce' = nonce + 1
      /\ Calls(fs, st)
      /\ UNCHANGED <<enabled, funds, drawn, settled, gasprice>>
  BY DEF ExecTransaction, NewNonce
<1>2. order \in Order /\ order.nonce = nonce
  <2>1. nonce \in 0 .. MaxNonce - 1
    BY <1>0, <1>1, ForwardAssumption
  <2> QED BY <2>1, NewOrderInType
<1>3. f \in FrameType /\ f.code = "executing" /\ f.order = order /\ f.saved = Store
  BY <1>0, <1>2, FrameInType DEF ModuleCode
<1>4. nonce + 1 \in 0 .. MaxNonce
  BY <1>0, <1>1, ForwardAssumption
<1>5. /\ st \in StoreType /\ st.nonce = nonce + 1 /\ st.entered = TRUE
      /\ st.settled = Store.settled
  BY <1>0, <1>4 DEF NewNonce, Store, StoreType
<1>6. /\ Store' \in StoreType /\ Store'.nonce = nonce + 1 /\ Store'.entered = TRUE
      /\ Store'.settled = settled /\ Store.settled = settled
      /\ Store.nonce = nonce /\ Store.entered = entered
  BY <1>0, <1>1, <1>4, StoreNext, Types
<1> HIDE DEF order, f, st, fs
<1>7. Stack(fs, st)
  BY <1>0, <1>1, <1>2, <1>3, <1>5, <1>6, StackTransaction DEF Running, fs
<1>8. AllCharged(fs)
  BY <1>0, <1>3, AppendCharged DEF Charged, fs
<1>9. Agree(st, st) /\ Agree(st, Store')
  BY <1>5, <1>6 DEF Agree
<1> QED BY <1>1, <1>5, <1>6, <1>7, <1>8, <1>9, CallStep

LEMMA FrameReplaced ==
    ASSUME NEW fs \in Seq(FrameType), NEW d \in 1 .. Len(fs), NEW f \in FrameType,
           NEW gs, gs = [fs EXCEPT ![d] = f]
    PROVE  /\ gs \in Seq(FrameType) /\ Len(gs) = Len(fs) /\ gs[d] = f
           /\ \A k \in 1 .. Len(fs) : k # d => gs[k] = fs[k]
BY ExceptSeq

\* What becomes of a frame whose refund is taken.
Refunding(fs, d) == [fs EXCEPT ![d].code = "refunding"]
Owing(fs, d, x)  == [fs EXCEPT ![d].order.owed = x]

LEMMA RefundingInType ==
    ASSUME NEW fs \in Seq(FrameType), NEW d \in 1 .. Len(fs)
    PROVE  LET gs == Refunding(fs, d)
           IN  /\ gs \in Seq(FrameType) /\ Len(gs) = Len(fs)
               /\ \A k \in 1 .. Len(fs) : k # d => gs[k] = fs[k]
               /\ gs[d].code = "refunding" /\ gs[d].order = fs[d].order
               /\ gs[d].saved = fs[d].saved
<1>1. fs[d] \in FrameType
  OBVIOUS
<1>2. PICK f : f = [fs[d] EXCEPT !.code = "refunding"]
  OBVIOUS
<1>3. /\ f \in FrameType /\ f.code = "refunding" /\ f.order = fs[d].order
      /\ f.saved = fs[d].saved
  BY <1>1, <1>2 DEF FrameType, ModuleCode
<1>4. Refunding(fs, d) = [fs EXCEPT ![d] = f]
  BY <1>2 DEF Refunding
<1>5. PICK gs : gs = Refunding(fs, d)
  OBVIOUS
<1>6. /\ gs \in Seq(FrameType) /\ Len(gs) = Len(fs) /\ gs[d] = f
      /\ \A k \in 1 .. Len(fs) : k # d => gs[k] = fs[k]
  BY <1>3, <1>4, <1>5, FrameReplaced
<1> QED BY <1>3, <1>5, <1>6

LEMMA OwingInType ==
    ASSUME NEW fs \in Seq(FrameType), NEW d \in 1 .. Len(fs), fs[d].order \in Order,
           NEW x \in Nat
    PROVE  LET gs == Owing(fs, d, x)
           IN  /\ gs \in Seq(FrameType) /\ Len(gs) = Len(fs)
               /\ \A k \in 1 .. Len(fs) : k # d => gs[k] = fs[k]
               /\ gs[d].code = fs[d].code /\ gs[d].saved = fs[d].saved
               /\ gs[d].order \in Order /\ gs[d].order.owed = x
               /\ gs[d].order.terms = fs[d].order.terms
               /\ gs[d].order.nonce = fs[d].order.nonce
<1>1. fs[d] \in FrameType
  OBVIOUS
<1>2. PICK o : o = [fs[d].order EXCEPT !.owed = x]
  OBVIOUS
<1>3. /\ o \in Order /\ o.owed = x /\ o.terms = fs[d].order.terms
      /\ o.nonce = fs[d].order.nonce
  BY <1>2 DEF Order
<1>4. PICK f : f = [fs[d] EXCEPT !.order = o]
  OBVIOUS
<1>5. f \in FrameType /\ f.order = o /\ f.code = fs[d].code /\ f.saved = fs[d].saved
  BY <1>1, <1>3, <1>4 DEF FrameType
<1>6. Owing(fs, d, x) = [fs EXCEPT ![d] = f]
  BY <1>2, <1>4 DEF Owing
<1>7. PICK gs : gs = Owing(fs, d, x)
  OBVIOUS
<1>8. /\ gs \in Seq(FrameType) /\ Len(gs) = Len(fs) /\ gs[d] = f
      /\ \A k \in 1 .. Len(fs) : k # d => gs[k] = fs[k]
  BY <1>5, <1>6, <1>7, FrameReplaced
<1> QED BY <1>3, <1>5, <1>7, <1>8

LEMMA HandlePaymentStep ==
    ASSUME IInv, NEW used \in GasUsed, HandlePayment(used)
    PROVE  Kept /\ settled' = settled
<1> DEFINE order == Top.order
           n == Payment(order.terms, used)
           fs == [frames EXCEPT ![Depth].code = "refunding", ![Depth].order.owed = n]
           g == fs[Depth]
<1>0. /\ TypeOK /\ Stack(frames, Store) /\ AllCharged(frames) /\ Store \in StoreType
      /\ Agree(Store, Store) /\ frames \in Seq(FrameType) /\ Depth = Len(frames)
      /\ Depth \in Nat
  BY Types DEF IInv
<1>1. /\ frames # <<>> /\ Top.code = "executing" /\ order.terms.tokenGasPriceFactor # 0
      /\ Draw(order.account, order.terms.gasToken, n) /\ Calls(fs, Store)
      /\ UNCHANGED <<nonce, entered, enabled, settled, gasprice>>
  BY DEF HandlePayment, TargetDone
<1>2. Depth \in 1 .. Len(frames) /\ Top = frames[Depth] /\ Top \in FrameType
  BY <1>0, <1>1, TopInType
<1>3. order \in Order /\ order.account \in Accounts /\ order.terms \in Terms
  BY <1>0, <1>1, <1>2 DEF Stack, Below, Running, Order
<1>4. n \in Nat
  BY <1>0, <1>1, <1>3, PaymentInNat
<1>5. /\ fs \in Seq(FrameType) /\ Len(fs) = Len(frames)
      /\ \A k \in 1 .. Len(frames) : k # Depth => fs[k] = frames[k]
      /\ g.code = "refunding" /\ g.saved = Top.saved
      /\ g.order \in Order /\ g.order.owed = n
      /\ g.order.terms = order.terms /\ g.order.nonce = order.nonce
  <2> HIDE DEF n
  <2>1. frames[Depth].order \in Order
    BY <1>2, <1>3
  <2> DEFINE hs == Refunding(frames, Depth)
             gs == Owing(hs, Depth, n)
  <2>2. /\ hs \in Seq(FrameType) /\ Len(hs) = Len(frames)
        /\ \A k \in 1 .. Len(frames) : k # Depth => hs[k] = frames[k]
        /\ hs[Depth].code = "refunding" /\ hs[Depth].order = frames[Depth].order
        /\ hs[Depth].saved = frames[Depth].saved
    BY <1>0, <1>2, RefundingInType
  <2> HIDE DEF hs
  <2>3. /\ gs \in Seq(FrameType) /\ Len(gs) = Len(hs)
        /\ \A k \in 1 .. Len(hs) : k # Depth => gs[k] = hs[k]
        /\ gs[Depth].code = hs[Depth].code /\ gs[Depth].saved = hs[Depth].saved
        /\ gs[Depth].order \in Order /\ gs[Depth].order.owed = n
        /\ gs[Depth].order.terms = hs[Depth].order.terms
        /\ gs[Depth].order.nonce = hs[Depth].order.nonce
    BY <1>2, <1>4, <2>1, <2>2, OwingInType
  <2>4. fs = gs
    BY DEF hs, Refunding, Owing
  <2> HIDE DEF fs, gs
  <2> QED BY <1>2, <2>2, <2>3, <2>4
<1> HIDE DEF fs, g
<1>6. Stack(fs, Store)
  <2>1. /\ \A k \in 1 .. Len(frames) - 1 : fs[k] = frames[k]
        /\ g = fs[Len(frames)] /\ frames[Len(frames)] = Top /\ frames # <<>>
    BY <1>0, <1>1, <1>2, <1>5 DEF g
  <2> QED BY <1>0, <1>1, <1>5, <2>1, StackOwes DEF Running
<1>7. AllCharged(fs)
  <2>1. Charged(g)
    BY <1>5 DEF Charged
  <2>2. \A k \in 1 .. Len(frames) : fs[k] = IF k = Depth THEN g ELSE frames[k]
    BY <1>5 DEF g
  <2> QED BY <1>0, <1>5, <2>1, <2>2 DEF AllCharged
<1> HIDE DEF n
<1>8. funds' \in [Accounts -> Nat] /\ drawn' \in [Accounts -> Nat]
  BY <1>0, <1>1, <1>3, <1>4, DrawInType
<1>9. Store' \in StoreType /\ Agree(Store, Store')
  BY <1>0, <1>1, <1>8, StoreNext, Types DEF Agree
<1> QED BY <1>0, <1>1, <1>6, <1>7, <1>9, CallStep

\* An estimate: its frame is none of a transaction.
LEMMA EstimateStep ==
    ASSUME IInv, NEW order \in Order, Store' \in StoreType, Agree(Store, Store'),
           Calls(Append(frames, Frame("estimating", order, Store)), Store),
           gasprice' = gasprice
    PROVE  Kept
<1> DEFINE f == Frame("estimating", order, Store)
           fs == Append(frames, f)
<1>0. /\ Stack(frames, Store) /\ AllCharged(frames) /\ Store \in StoreType
      /\ Agree(Store, Store) /\ frames \in Seq(FrameType)
  BY Types DEF IInv
<1>1. f \in FrameType /\ f.code = "estimating" /\ f.saved = Store
  BY <1>0, FrameInType DEF ModuleCode
<1>2. Calls(fs, Store)
  OBVIOUS
<1> HIDE DEF f
<1>3. Stack(fs, Store)
  BY <1>0, <1>1, StackCall DEF Running
<1>4. AllCharged(fs)
  BY <1>0, <1>1, AppendCharged DEF Charged
<1> HIDE DEF fs
<1> QED BY <1>0, <1>2, <1>3, <1>4, CallStep

LEMMA HandlePaymentRevertStep ==
    ASSUME IInv, NEW a \in Accounts, NEW t \in Terms, NEW used \in GasUsed,
           HandlePaymentRevert(a, t, used)
    PROVE  Kept /\ settled' = settled
<1> DEFINE n == Payment(t, used)
           order == [NewOrder(a, t, None) EXCEPT !.owed = n]
<1>1. /\ t.tokenGasPriceFactor # 0 /\ Draw(a, t.gasToken, n)
      /\ Calls(Append(frames, Frame("estimating", order, Store)), Store)
      /\ UNCHANGED <<nonce, entered, enabled, settled, gasprice>>
  BY DEF HandlePaymentRevert
<1>2. n \in Nat
  BY <1>1, PaymentInNat DEF IInv
<1> HIDE DEF n
<1>3. order \in Order
  BY <1>2, NewOrderInType
<1>4. funds' \in [Accounts -> Nat] /\ drawn' \in [Accounts -> Nat]
  BY <1>1, <1>2, DrawInType DEF IInv
<1>5. Store' \in StoreType /\ Agree(Store, Store')
  BY <1>1, <1>4, StoreNext, Types DEF Agree, IInv
<1> HIDE DEF order
<1> QED BY <1>1, <1>3, <1>5, EstimateStep

LEMMA RequiredTxGasStep ==
    ASSUME IInv, NEW a \in Accounts, NEW t \in Terms, RequiredTxGas(a, t)
    PROVE  Kept /\ settled' = settled
<1>1. /\ Calls(Append(frames, Frame("estimating", NewOrder(a, t, None), Store)), Store)
      /\ UNCHANGED <<storage, gasprice>>
  BY DEF RequiredTxGas
<1>2. NewOrder(a, t, None) \in Order
  BY NewOrderInType
<1>3. Store' \in StoreType /\ Agree(Store, Store') /\ settled' = settled
  <2>1. /\ nonce' = nonce /\ entered' = entered /\ enabled' = enabled /\ funds' = funds
        /\ drawn' = drawn /\ settled' = settled
    BY <1>1 DEF storage
  <2> QED BY <2>1, StoreNext, Types DEF Agree, IInv
<1> QED BY <1>1, <1>2, <1>3, EstimateStep

\* What accounts do without the module.
LEMMA AccountStep ==
    ASSUME IInv, NEW a \in Accounts, SetEnabled(a) \/ Spend(a)
    PROVE  Kept /\ settled' = settled
<1>0. TypeOK /\ Stack(frames, Store) /\ AllCharged(frames)
  BY DEF IInv
<1>1. /\ nonce' = nonce /\ entered' = entered /\ drawn' = drawn /\ settled' = settled
      /\ gasprice' = gasprice /\ frames' = frames /\ ret' = ret
  BY DEF SetEnabled, Spend
<1>2. enabled' \in SUBSET Accounts /\ funds' \in [Accounts -> Nat]
  <2>1. CASE SetEnabled(a)
    BY <1>0, <2>1, Types DEF SetEnabled
  <2>2. CASE Spend(a)
    <3>1. PICK n \in 0 .. funds[a] : funds' = [funds EXCEPT ![a] = n]
      BY <2>2 DEF Spend
    <3>2. funds[a] \in Nat /\ enabled' = enabled
      BY <1>0, <2>2, Types DEF Spend
    <3> QED BY <1>0, <3>1, <3>2, Types
  <2> QED BY <2>1, <2>2
<1>3. Store' \in StoreType /\ Agree(Store, Store')
  BY <1>0, <1>1, <1>2, StoreNext, Types DEF Agree
<1>4. Stack(frames', Store')
  <2>1. /\ frames \in Seq(FrameType) /\ Fits(frames, Len(frames), Store)
        /\ Below(frames, Len(frames)) /\ Len(frames) \in Nat
    BY <1>0, Types DEF Stack
  <2>2. Fits(frames, Len(frames), Store')
    BY <1>3, <2>1, FitsPrefix
  <2> QED BY <1>1, <2>1, <2>2 DEF Stack
<1>5. TypeOK'
  BY <1>0, <1>1, <1>3 DEF TypeOK
<1>6. AllCharged(frames)'
  BY <1>0, <1>1, SamePrice
<1> QED BY <1>1, <1>4, <1>5, <1>6 DEF Kept

LEMMA TransactStep ==
    ASSUME IInv, Transact
    PROVE  Kept /\ settled' = settled
<1> DEFINE f == Frame("external", None, Store)
<1>0. /\ TypeOK /\ Stack(frames, Store) /\ Store \in StoreType /\ Agree(Store, Store)
      /\ frames = <<>> /\ gasprice' \in GasPrices /\ frames' = <<f>> /\ ret' = None
  BY Types DEF IInv, Transact
<1>1. f \in FrameType /\ f.code = "external" /\ f.saved = Store
  BY <1>0, FrameInType
<1>2. /\ nonce' = nonce /\ entered' = entered /\ enabled' = enabled /\ funds' = funds
      /\ drawn' = drawn /\ settled' = settled
  BY DEF Transact, storage
<1>3. Store' \in StoreType /\ Agree(Store, Store')
  BY <1>0, <1>2, StoreNext, Types DEF Agree
<1>4. frames' = Append(frames, f)
  BY <1>0
<1> HIDE DEF f
<1>5. Stack(frames', Store')
  BY <1>0, <1>1, <1>3, <1>4, StackCall DEF Running
<1>6. AllCharged(frames)'
  BY <1>0, <1>1 DEF AllCharged, Charged
<1>7. TypeOK'
  BY <1>0, <1>3, <1>5 DEF TypeOK, Stack
<1> QED BY <1>2, <1>5, <1>6, <1>7 DEF Kept

LEMMA ReturnStep ==
    ASSUME IInv, Return
    PROVE  Kept /\ settled' = settled
<1>1. /\ frames # <<>> /\ Top.code = "external" /\ Leave(OK) /\ gasprice' = gasprice
      /\ nonce' = nonce /\ entered' = entered /\ enabled' = enabled /\ funds' = funds
      /\ drawn' = drawn /\ settled' = settled
  BY DEF Return, External, storage
<1>2. Store' \in StoreType /\ Agree(Store, Store')
  BY <1>1, StoreNext, Types DEF Agree, IInv
<1>3. ~Running(frames[Len(frames)])
  BY <1>1, TopInType DEF IInv, Running
<1>4. Stack(SubSeq(frames, 1, Len(frames) - 1), Store')
  BY <1>1, <1>2, <1>3, StackReturn DEF IInv
<1> QED BY <1>1, <1>2, <1>4, LeaveStep

LEMMA RevertStep ==
    ASSUME IInv, Revert
    PROVE  Kept /\ Len(settled') <= Len(settled)
<1>1. frames # <<>> /\ Leave(Fail) /\ gasprice' = gasprice
  BY DEF Revert
<1>2. Top = frames[Len(frames)] /\ Top.saved \in StoreType
  BY <1>1, TopInType DEF IInv
<1>3. Store' = Top.saved /\ settled' = Top.saved.settled
  BY <1>2 DEF Revert, Store, StoreType
<1>4. /\ Stack(SubSeq(frames, 1, Len(frames) - 1), Store')
      /\ Len(settled') <= Len(Store.settled)
  BY <1>1, <1>2, <1>3, StackRevert DEF IInv
<1>5. Len(settled') <= Len(settled)
  BY <1>4, Types DEF IInv
<1> QED BY <1>1, <1>2, <1>3, <1>4, <1>5, LeaveStep

\* A settled transaction has no price, or has been charged.
LEMMA SettledStep ==
    ASSUME IInv, ExecWithoutRefund \/ RefundDone
    PROVE  /\ Kept
           /\ LET order == settled'[Len(settled')]
              IN  order.terms.gasPrice # 0 =>
                     \E used \in GasUsed : order.owed = Payment(order.terms, used)
<1> DEFINE order == settled'[Len(settled')]
<1>1. CASE ExecWithoutRefund
  <2>1. /\ frames # <<>> /\ Top.code = "executing" /\ Top.order.terms.gasPrice = 0
        /\ Settle(Top.order) /\ UNCHANGED <<nonce, enabled, funds, drawn, gasprice>>
    BY <1>1 DEF ExecWithoutRefund, TargetDone
  <2>2. Kept /\ order = Top.order
    BY <2>1, SettleStep DEF Running
  <2> QED BY <2>1, <2>2
<1>2. CASE RefundDone
  <2>1. /\ frames # <<>> /\ Top.code = "refunding"
        /\ Settle(Top.order) /\ UNCHANGED <<nonce, enabled, funds, drawn, gasprice>>
    BY <1>2 DEF RefundDone
  <2>2. Kept /\ order = Top.order
    BY <2>1, SettleStep DEF Running
  <2>3. Charged(Top)
    <3>1. Depth \in 1 .. Len(frames) /\ Top = frames[Depth]
      BY <2>1, TopInType, Types DEF IInv, Top
    <3> QED BY <3>1 DEF IInv, AllCharged
  <2> QED BY <2>1, <2>2, <2>3 DEF Charged
<1> QED BY <1>1, <1>2

LEMMA InitIInv == Init => IInv
<1> SUFFICES ASSUME Init PROVE IInv
  OBVIOUS
<1>1. /\ nonce = 0 /\ entered = FALSE /\ enabled \in SUBSET Accounts
      /\ funds \in [Accounts -> 0 .. MaxFunds] /\ drawn = [a \in Accounts |-> 0]
      /\ settled = <<>> /\ frames = <<>> /\ gasprice \in GasPrices /\ ret = None
  BY DEF Init
<1>2. Store \in StoreType /\ Store.entered = FALSE /\ Store.nonce = 0 /\ Store.settled = <<>>
  <2>1. nonce \in 0 .. MaxNonce /\ funds \in [Accounts -> Nat] /\ settled \in Seq(Order)
    BY <1>1, ForwardAssumption
  <2> QED BY <1>1, <2>1 DEF Store, StoreType
<1>3. TypeOK
  BY <1>1, <1>2 DEF TypeOK
<1>4. Stack(frames, Store)
  BY <1>1, <1>2 DEF Stack, Below, Fits
<1>5. AllCharged(frames)
  BY <1>1 DEF AllCharged
<1> QED BY <1>3, <1>4, <1>5 DEF IInv

\* What the transaction that was settled last owes.
Grown == LET order == settled'[Len(settled')]
         IN  order.terms.gasPrice # 0 =>
                \E used \in GasUsed : order.owed = Payment(order.terms, used)

LEMMA NextStep ==
    ASSUME IInv, Next
    PROVE  Kept /\ (Len(settled') > Len(settled) => Grown)
<1>0. Len(settled) \in Nat
  BY Types DEF IInv
<1>1. ASSUME NEW a \in Accounts, SetEnabled(a) \/ Spend(a)
      PROVE  Kept /\ settled' = settled
  BY <1>1, AccountStep
<1>2. ASSUME NEW a \in Accounts, NEW t \in Terms, ExecTransaction(a, t) \/ RequiredTxGas(a, t)
      PROVE  Kept /\ settled' = settled
  BY <1>2, ExecTransactionStep, RequiredTxGasStep
<1>3. ASSUME NEW a \in Accounts, NEW t \in Terms, NEW used \in GasUsed,
             HandlePaymentRevert(a, t, used)
      PROVE  Kept /\ settled' = settled
  BY <1>3, HandlePaymentRevertStep
<1>4. ASSUME NEW used \in GasUsed, HandlePayment(used)
      PROVE  Kept /\ settled' = settled
  BY <1>4, HandlePaymentStep
<1>5. CASE Transact \/ Return
  BY <1>0, <1>5, TransactStep, ReturnStep
<1>6. CASE Revert
  <2>1. Kept /\ Len(settled') <= Len(settled)
    BY <1>6, RevertStep
  <2>2. Len(settled') \in Nat
    <3>1. settled' \in Seq(Order)
      BY <2>1 DEF Kept, TypeOK, Store, StoreType
    <3> QED BY <3>1
  <2> QED BY <1>0, <2>1, <2>2
<1>7. CASE ExecWithoutRefund \/ RefundDone
  BY <1>7, SettledStep DEF Grown
<1> QED BY <1>0, <1>1, <1>2, <1>3, <1>4, <1>5, <1>6, <1>7 DEF Next

LEMMA NextIInv == IInv /\ [Next]_vars => IInv'
<1> SUFFICES ASSUME IInv, [Next]_vars PROVE IInv'
  OBVIOUS
<1>1. CASE Next
  BY <1>1, NextStep DEF Kept, IInv
<1>2. CASE UNCHANGED vars
  <2>1. /\ frames' = frames /\ gasprice' = gasprice /\ ret' = ret /\ Store' = Store
    BY <1>2 DEF vars, storage, Store
  <2> QED BY <2>1, SamePrice DEF IInv, TypeOK
<1> QED BY <1>1, <1>2

\* The inductive invariant behind the theorems.
THEOREM Invariance == Spec => []IInv
BY InitIInv, NextIInv, PTL DEF Spec

\* Types, at any depth of calls: no account pays what it does not have.
THEOREM TypeCorrect == Spec => []TypeOK
<1>1. IInv => TypeOK
  BY DEF IInv
<1> QED BY <1>1, Invariance, PTL

\* At most one transaction is under way, and the guard says which.
LEMMA NoncesCount == IInv => EachNonceOnce
<1> SUFFICES ASSUME IInv PROVE EachNonceOnce
  OBVIOUS
<1>0. /\ Depth \in Nat /\ Depth = Len(frames) /\ entered \in BOOLEAN
      /\ Fits(frames, Depth, Store) /\ Below(frames, Depth)
      /\ Store.nonce = nonce /\ Store.entered = entered /\ Store.settled = settled
      /\ Len(settled) \in Nat /\ settled \in Seq(Order)
  BY Types DEF IInv, Stack
<1>1. \A k \in DOMAIN settled : settled[k].nonce = k - 1
  <2>1. DOMAIN settled = 1 .. Len(settled)
    BY <1>0
  <2> QED BY <1>0, <2>1 DEF Fits
<1>2. Open = {k \in 1 .. Depth : Running(frames[k])}
  BY DEF Open, Running
<1>3. ASSUME NEW j \in Open, NEW k \in Open, j < k
      PROVE  FALSE
  <2>1. j \in 1 .. k - 1 /\ Running(frames[j]) /\ Running(frames[k]) /\ k \in 1 .. Depth
    BY <1>0, <1>2, <1>3
  <2> QED BY <1>0, <2>1 DEF Below, Fits
<1>4. CASE entered
  <2>1. PICK k \in Open : TRUE
    BY <1>0, <1>2, <1>4 DEF Fits
  <2>2. \A j \in Open : j = k
    BY <1>2, <1>3, <2>1
  <2>3. Open = {k}
    BY <2>1, <2>2
  <2>4. nonce = Len(settled) + 1
    BY <1>0, <1>4 DEF Fits
  <2> QED BY <1>0, <1>1, <2>3, <2>4, FS_Singleton DEF EachNonceOnce
<1>5. CASE ~entered
  <2>1. Open = {}
    BY <1>0, <1>2, <1>5 DEF Fits
  <2>2. nonce = Len(settled)
    BY <1>0, <1>5 DEF Fits
  <2> QED BY <1>0, <1>1, <2>1, <2>2, FS_EmptySet DEF EachNonceOnce
<1> QED BY <1>0, <1>4, <1>5

\* Whatever reverts and whoever calls the module again: transactions stand in the order
\* of their nonces, each nonce once.  (ForwardFlowModule.sol:234)
THEOREM EachNonceAlwaysOnce == Spec => []EachNonceOnce
BY Invariance, NoncesCount, PTL

\* For any tokens and prices: a transaction that asks for a refund stands only with the
\* refund taken.  (ForwardFlowModule.sol:282-294)
THEOREM NoneEverEscapesTheRefund == Spec => NoneEscapesTheRefund
<1>1. IInv /\ [Next]_vars =>
         [Len(settled') > Len(settled) =>
             LET order == settled'[Len(settled')]
             IN  order.terms.gasPrice # 0 =>
                    \E used \in GasUsed : order.owed = Payment(order.terms, used)]_vars
  BY NextStep DEF Grown
<1> QED BY <1>1, Invariance, PTL DEF NoneEscapesTheRefund, Spec

-----------------------------------------------------------------------------
(* What has been taken: the books.                                         *)

\* What an order adds to what has been drawn from an account, and what a call does whose
\* money has moved.
Due(o, a)   == IF o.account = a /\ o.terms.gasToken \notin Liars THEN o.owed ELSE 0
Taken(f, a) == IF f.code \in {"refunding", "estimating"} THEN Due(f.order, a) ELSE 0

\* Of the first n orders, and of the first n calls.
DueUpTo(orders, n, a) == Size(1 .. n, [k \in 1 .. n |-> Due(orders[k], a)])
TakenUpTo(fs, n, a)   == Size(1 .. n, [k \in 1 .. n |-> Taken(fs[k], a)])

\* A store that the first n calls may go with: what was drawn is what they and the
\* settled orders come to.
Balanced(fs, n, s) ==
    \A a \in Accounts :
       s.drawn[a] = DueUpTo(s.settled, Len(s.settled), a) + TakenUpTo(fs, n, a)

\* A call of the module knows its order, and owes nothing while the target runs.
Paid(f) == /\ f.code \in ModuleCode => f.order \in Order
           /\ f.code = "executing" => f.order.owed = 0

\* A revert takes back what the call below has moved, too.
SavedBalanced(fs) ==
    \A k \in 1 .. Len(fs) : Paid(fs[k]) /\ Balanced(fs, k - 2, fs[k].saved)

\* The calls whose money has moved: a call's has that was called and has not failed.
Moved == IF ret = OK THEN Depth ELSE Depth - 1

Books == SavedBalanced(frames) /\ Balanced(frames, Moved, Store)

\* Sums over a row, without its last number.
LEMMA RowUp ==
    ASSUME NEW n \in Nat, n >= 1, NEW f, NEW g,
           \A k \in 1 .. n : f[k] \in Nat, \A k \in 1 .. n - 1 : g[k] = f[k]
    PROVE  /\ Size(1 .. n, f) = Size(1 .. n - 1, g) + f[n]
           /\ Size(1 .. n - 1, g) \in Nat /\ Size(1 .. n, f) \in Nat
<1>1. Size(1 .. n, f) = Size(1 .. (n - 1), f) + f[n] /\ Size(1 .. (n - 1), f) \in Nat
  BY SizeUp
<1>2. Size(1 .. (n - 1), g) = Size(1 .. (n - 1), f)
  BY SizeSame
<1>3. f[n] \in Nat
  OBVIOUS
<1> QED BY <1>1, <1>2, <1>3

LEMMA DueInNat ==
    ASSUME NEW a, NEW o \in Order
    PROVE  Due(o, a) \in Nat
BY DEF Due, Order

LEMMA TakenInNat ==
    ASSUME NEW a, NEW f, Paid(f)
    PROVE  Taken(f, a) \in Nat
BY DueInNat DEF Taken, Paid, ModuleCode

LEMMA DueInSum ==
    ASSUME NEW a, NEW orders \in Seq(Order)
    PROVE  DueUpTo(orders, Len(orders), a) \in Nat
<1> DEFINE f == [k \in 1 .. Len(orders) |-> Due(orders[k], a)]
<1>1. Len(orders) \in Nat /\ \A k \in 1 .. Len(orders) : orders[k] \in Order
  OBVIOUS
<1>2. \A k \in 1 .. Len(orders) : f[k] \in Nat
  BY <1>1, DueInNat
<1>3. IsFiniteSet(1 .. Len(orders))
  BY <1>1, FS_Interval
<1> HIDE DEF f
<1>4. Size(1 .. Len(orders), f) \in Nat
  BY <1>2, <1>3, UnitsFinite
<1> QED BY <1>4 DEF f, DueUpTo

\* One more order.
LEMMA DueAppend ==
    ASSUME NEW a, NEW orders \in Seq(Order), NEW o \in Order
    PROVE  DueUpTo(Append(orders, o), Len(Append(orders, o)), a)
              = DueUpTo(orders, Len(orders), a) + Due(o, a)
<1> DEFINE os == Append(orders, o)
           n == Len(orders)
           f == [k \in 1 .. n + 1 |-> Due(os[k], a)]
           g == [k \in 1 .. n |-> Due(orders[k], a)]
<1>1. /\ os \in Seq(Order) /\ n \in Nat /\ Len(os) = n + 1 /\ os[n + 1] = o
      /\ \A k \in 1 .. n : os[k] = orders[k]
  BY Appended
<1>2. \A k \in 1 .. n + 1 : os[k] \in Order
  BY <1>1
<1> HIDE DEF os, n
<1>3. \A k \in 1 .. n + 1 : f[k] \in Nat
  BY <1>2, DueInNat
<1>4. f[n + 1] = Due(o, a) /\ \A k \in 1 .. n : g[k] = f[k]
  BY <1>1
<1> HIDE DEF f, g
<1>5. PICK m \in Nat : m = n + 1 /\ m >= 1 /\ m - 1 = n
  BY <1>1
<1>6. Size(1 .. m, f) = Size(1 .. m - 1, g) + f[m]
  BY <1>3, <1>4, <1>5, RowUp
<1>7. DueUpTo(os, n + 1, a) = Size(1 .. n + 1, f) /\ DueUpTo(orders, n, a) = Size(1 .. n, g)
  BY DEF DueUpTo, f, g
<1>8. DueUpTo(os, Len(os), a) = DueUpTo(orders, n, a) + Due(o, a)
  BY <1>1, <1>4, <1>5, <1>6, <1>7
<1> QED BY <1>8 DEF os, n

\* One more call.
LEMMA TakenUp ==
    ASSUME NEW a, NEW fs, NEW n \in Nat, n >= 1, \A k \in 1 .. n : Paid(fs[k])
    PROVE  /\ TakenUpTo(fs, n, a) = TakenUpTo(fs, n - 1, a) + Taken(fs[n], a)
           /\ TakenUpTo(fs, n - 1, a) \in Nat /\ Taken(fs[n], a) \in Nat
<1> DEFINE f == [k \in 1 .. n |-> Taken(fs[k], a)]
           g == [k \in 1 .. n - 1 |-> Taken(fs[k], a)]
<1>1. \A k \in 1 .. n : f[k] \in Nat
  BY TakenInNat
<1>2. f[n] = Taken(fs[n], a) /\ f[n] \in Nat /\ \A k \in 1 .. n - 1 : g[k] = f[k]
  BY <1>1
<1> HIDE DEF f, g
<1>3. Size(1 .. n, f) = Size(1 .. n - 1, g) + f[n] /\ Size(1 .. n - 1, g) \in Nat
  BY <1>1, <1>2, RowUp
<1> QED BY <1>2, <1>3 DEF TakenUpTo, f, g

\* No calls have moved nothing.
LEMMA TakenNone ==
    ASSUME NEW a, NEW fs, NEW n \in Int, n < 1
    PROVE  TakenUpTo(fs, n, a) = 0
<1>1. 1 .. n = {}
  OBVIOUS
<1> QED BY <1>1, SizeEmpty DEF TakenUpTo

LEMMA BalancedPrefix ==
    ASSUME NEW fs, NEW gs, NEW n \in Int, NEW s, NEW t, Balanced(fs, n, s),
           s.drawn = t.drawn, s.settled = t.settled, \A k \in 1 .. n : gs[k] = fs[k]
    PROVE  Balanced(gs, n, t)
<1>1. \A a : [k \in 1 .. n |-> Taken(gs[k], a)] = [k \in 1 .. n |-> Taken(fs[k], a)]
  OBVIOUS
<1>2. \A a : TakenUpTo(gs, n, a) = TakenUpTo(fs, n, a)
  BY <1>1 DEF TakenUpTo
<1> QED BY <1>2 DEF Balanced

\* A call that has moved nothing makes no difference.
LEMMA BalancedIdle ==
    ASSUME NEW fs, NEW n \in Nat, NEW s, \A k \in 1 .. n : Paid(fs[k]),
           n >= 1 => \A a \in Accounts : Taken(fs[n], a) = 0
    PROVE  Balanced(fs, n, s) <=> Balanced(fs, n - 1, s)
<1>1. CASE n = 0
  <2>1. \A a : TakenUpTo(fs, n, a) = 0 /\ TakenUpTo(fs, n - 1, a) = 0
    BY <1>1, TakenNone
  <2> QED BY <2>1 DEF Balanced
<1>2. CASE n >= 1
  <2>1. \A a \in Accounts : TakenUpTo(fs, n, a) = TakenUpTo(fs, n - 1, a) + 0
                            /\ TakenUpTo(fs, n - 1, a) \in Nat
    BY <1>2, TakenUp
  <2>2. \A a \in Accounts : TakenUpTo(fs, n, a) = TakenUpTo(fs, n - 1, a)
    BY <2>1
  <2> QED BY <2>2 DEF Balanced
<1> QED BY <1>1, <1>2

\* A call that has moved an account's money.
LEMMA BalancedUp ==
    ASSUME NEW fs, NEW n \in Nat, n >= 1, NEW s, NEW t \in StoreType,
           \A k \in 1 .. n : Paid(fs[k]), Balanced(fs, n - 1, s),
           t.settled = s.settled, s.drawn \in [Accounts -> Nat],
           \A a \in Accounts : t.drawn[a] = s.drawn[a] + Taken(fs[n], a)
    PROVE  Balanced(fs, n, t)
<1> SUFFICES ASSUME NEW a \in Accounts
             PROVE  t.drawn[a] = DueUpTo(t.settled, Len(t.settled), a) + TakenUpTo(fs, n, a)
  BY DEF Balanced
<1>1. s.drawn[a] = DueUpTo(t.settled, Len(t.settled), a) + TakenUpTo(fs, n - 1, a)
  BY DEF Balanced
<1>2. /\ TakenUpTo(fs, n, a) = TakenUpTo(fs, n - 1, a) + Taken(fs[n], a)
      /\ TakenUpTo(fs, n - 1, a) \in Nat /\ Taken(fs[n], a) \in Nat
  BY TakenUp
<1>3. DueUpTo(t.settled, Len(t.settled), a) \in Nat
  <2>1. t.settled \in Seq(Order)
    BY DEF StoreType
  <2> QED BY <2>1, DueInSum
<1> QED BY <1>1, <1>2, <1>3

\* A call more, and a call less.
LEMMA SavedAppend ==
    ASSUME NEW fs \in Seq(FrameType), NEW f \in FrameType, SavedBalanced(fs), Paid(f),
           Balanced(fs, Len(fs) - 1, f.saved)
    PROVE  SavedBalanced(Append(fs, f))
<1> DEFINE gs == Append(fs, f)
           n == Len(fs)
<1>1. /\ n \in Nat /\ Len(gs) = n + 1 /\ gs[n + 1] = f /\ \A k \in 1 .. n : gs[k] = fs[k]
  BY Appended
<1>2. \A k \in 1 .. n : Paid(fs[k]) /\ Balanced(fs, k - 2, fs[k].saved)
  BY DEF SavedBalanced
<1>3. Balanced(fs, n - 1, f.saved)
  OBVIOUS
<1> HIDE DEF gs, n
<1>4. ASSUME NEW k \in 1 .. n + 1
      PROVE  Paid(gs[k]) /\ Balanced(gs, k - 2, gs[k].saved)
  <2>1. k - 2 \in Int /\ \A j \in 1 .. k - 2 : gs[j] = fs[j]
    BY <1>1
  <2>2. CASE k = n + 1
    <3>1. k - 2 = n - 1 /\ gs[k] = f
      BY <1>1, <2>2
    <3>2. Balanced(fs, k - 2, gs[k].saved)
      BY <1>3, <3>1
    <3> QED BY <2>1, <3>1, <3>2, BalancedPrefix
  <2>3. CASE k \in 1 .. n
    <3>1. Balanced(fs, k - 2, gs[k].saved) /\ Paid(gs[k])
      BY <1>1, <1>2, <2>3
    <3> QED BY <2>1, <3>1, BalancedPrefix
  <2> QED BY <1>1, <2>2, <2>3
<1>5. SavedBalanced(gs)
  BY <1>1, <1>4 DEF SavedBalanced
<1> QED BY <1>5 DEF gs

LEMMA SavedEnd ==
    ASSUME NEW fs \in Seq(FrameType), fs # <<>>, SavedBalanced(fs),
           NEW gs, gs = SubSeq(fs, 1, Len(fs) - 1)
    PROVE  SavedBalanced(gs)
<1>1. /\ Len(gs) = Len(fs) - 1 /\ Len(fs) \in Nat
      /\ \A k \in 1 .. Len(fs) - 1 : gs[k] = fs[k]
  BY Shortened
<1>2. ASSUME NEW k \in 1 .. Len(gs)
      PROVE  Paid(gs[k]) /\ Balanced(gs, k - 2, gs[k].saved)
  <2>1. k \in 1 .. Len(fs) /\ gs[k] = fs[k] /\ k - 2 \in Int /\ \A j \in 1 .. k - 2 : gs[j] = fs[j]
    BY <1>1
  <2>2. PICK s : s = fs[k].saved
    OBVIOUS
  <2>3. Paid(fs[k]) /\ Balanced(fs, k - 2, s)
    BY <2>1, <2>2 DEF SavedBalanced
  <2>4. Balanced(gs, k - 2, s)
    BY ONLY <2>1, <2>3, BalancedPrefix
  <2> QED BY <2>1, <2>2, <2>3, <2>4
<1> QED BY <1>2 DEF SavedBalanced

\* What a step has to keep of the books.
KeptBooks == SavedBalanced(frames') /\ Balanced(frames', Moved', Store')

LEMMA StoreMoney ==
    ASSUME TypeOK
    PROVE  /\ Store.drawn = drawn /\ Store.settled = settled /\ Store'.drawn = drawn'
           /\ Store'.settled = settled' /\ Store.drawn \in [Accounts -> Nat]
           /\ Store \in StoreType /\ frames \in Seq(FrameType)
           /\ Depth \in Nat /\ Depth = Len(frames)
BY Types DEF Store

\* A call by the module.
LEMMA CallBooks ==
    ASSUME NEW fs \in Seq(FrameType), NEW st \in StoreType, Calls(fs, st), SavedBalanced(fs),
           Balanced(fs, Len(fs) - 1, st), Balanced(fs, Len(fs), Store')
    PROVE  KeptBooks
<1> DEFINE f == Frame("external", None, st)
<1>1. f \in FrameType /\ f.code = "external" /\ f.saved = st
  <2>1. "external" \in ModuleCode \cup {"external"} /\ None \in Order \cup {None}
    OBVIOUS
  <2> QED BY <2>1, st \in StoreType DEF Frame, FrameType
<1>2. frames' = Append(fs, f) /\ ret' = None
  BY DEF Calls
<1>3. Paid(f)
  BY <1>1 DEF Paid, ModuleCode
<1> HIDE DEF f
<1>4. SavedBalanced(frames')
  BY <1>1, <1>2, <1>3, SavedAppend
<1>5. /\ Len(fs) \in Nat /\ Len(frames') = Len(fs) + 1
      /\ \A k \in 1 .. Len(fs) : frames'[k] = fs[k]
  BY <1>1, <1>2, Appended
<1>6. Moved' = Len(fs)
  BY <1>2, <1>5, ForwardAssumption DEF Moved, Depth
<1>7. Balanced(frames', Len(fs), Store')
  BY <1>5, BalancedPrefix
<1> QED BY <1>4, <1>6, <1>7 DEF KeptBooks

\* A call returns, or fails.
LEMMA LeaveBooks ==
    ASSUME TypeOK, SavedBalanced(frames), frames # <<>>, NEW v \in {OK, Fail}, Leave(v),
           v = OK => Balanced(frames, Depth - 1, Store'),
           v = Fail => Balanced(frames, Depth - 2, Store')
    PROVE  KeptBooks
<1> DEFINE n == Depth - 1
<1>0. frames \in Seq(FrameType) /\ Depth = Len(frames) /\ OK # Fail /\ OK # None
  BY StoreMoney, ForwardAssumption
<1>1. /\ frames' = SubSeq(frames, 1, Len(frames) - 1)
      /\ ret' = IF Depth = 1 THEN None ELSE Delivered(frames[Depth - 1].code, v)
  BY <1>0 DEF Leave
<1>2. /\ n \in Nat /\ Len(frames') = n /\ Depth = n + 1
      /\ \A k \in 1 .. n : frames'[k] = frames[k]
  BY <1>0, <1>1, Shortened
<1>3. SavedBalanced(frames')
  BY <1>0, <1>1, SavedEnd
<1>4. \A k \in 1 .. n : Paid(frames'[k])
  BY <1>2, <1>3 DEF SavedBalanced
<1>5. Moved' = IF ret' = OK THEN n ELSE n - 1
  BY <1>2 DEF Moved, Depth
<1> HIDE DEF n
<1>6. CASE v = Fail
  <2>1. Moved' = n - 1 /\ n - 1 = Depth - 2
    BY <1>0, <1>1, <1>2, <1>5, <1>6 DEF Delivered
  <2>2. Balanced(frames, n - 1, Store') /\ n - 1 \in Int /\ \A k \in 1 .. n - 1 : frames'[k] = frames[k]
    BY <1>0, <1>2, <1>6, <2>1
  <2>3. Balanced(frames', n - 1, Store')
    BY <2>2, BalancedPrefix
  <2> QED BY <1>3, <2>1, <2>3 DEF KeptBooks
<1>7. CASE v = OK
  <2>1. Balanced(frames, n, Store') /\ n \in Int
    BY <1>2, <1>7
  <2>2. Balanced(frames', n, Store')
    BY <1>2, <2>1, BalancedPrefix
  <2>3. CASE ret' = OK
    BY <1>3, <1>5, <2>2, <2>3 DEF KeptBooks
  <2>4. CASE ret' # OK
    <3>1. ASSUME n >= 1 PROVE frames'[n].code \notin ModuleCode
      <4>1. n \in 1 .. n /\ frames'[n] = frames[n] /\ Depth # 1 /\ Depth - 1 = n
        BY <1>2, <3>1
      <4>2. ret' = Delivered(frames[n].code, OK)
        BY <1>1, <1>7, <4>1
      <4> QED BY <2>4, <4>1, <4>2 DEF Delivered
    <3>2. n >= 1 => \A a \in Accounts : Taken(frames'[n], a) = 0
      BY <3>1 DEF Taken, ModuleCode
    <3>3. Balanced(frames', n - 1, Store')
      BY <1>2, <1>4, <2>2, <3>2, BalancedIdle
    <3> QED BY <1>3, <1>5, <2>4, <3>3 DEF KeptBooks
  <2> QED BY <2>3, <2>4
<1> QED BY <1>6, <1>7

\* A top call that has moved nothing: the books balance with it or without.
LEMMA TopIdle ==
    ASSUME TypeOK, Books, frames # <<>>, \A a \in Accounts : Taken(Top, a) = 0
    PROVE  Balanced(frames, Depth, Store) /\ Balanced(frames, Depth - 1, Store)
<1>1. /\ Depth \in Nat /\ Depth = Len(frames) /\ Top = frames[Depth]
  BY StoreMoney DEF Top
<1>2. \A k \in 1 .. Depth : Paid(frames[k])
  BY <1>1 DEF Books, SavedBalanced
<1>3. Balanced(frames, Depth, Store) <=> Balanced(frames, Depth - 1, Store)
  BY <1>1, <1>2, BalancedIdle
<1> QED BY <1>3 DEF Books, Moved

\* The call on top is one whose order is known.
LEMMA TopPaid ==
    ASSUME TypeOK, Books, frames # <<>>
    PROVE  Paid(Top) /\ Top \in FrameType /\ Depth >= 1 /\ Top = frames[Depth]
<1>1. /\ Depth \in 1 .. Len(frames) /\ Top = frames[Depth] /\ Top \in FrameType
  BY TopInType, StoreMoney
<1> QED BY <1>1 DEF Books, SavedBalanced

\* What the account's call moves is what is due.
LEMMA DrawMoves ==
    ASSUME TypeOK, NEW o \in Order, Draw(o.account, o.terms.gasToken, o.owed)
    PROVE  \A a \in Accounts : drawn'[a] = drawn[a] + Due(o, a)
<1>0. drawn \in [Accounts -> Nat] /\ o.owed \in Nat
  BY Types DEF Order
<1>1. CASE o.terms.gasToken \in Liars
  <2>1. drawn' = drawn /\ \A a : Due(o, a) = 0
    BY <1>1 DEF Draw, Due
  <2> QED BY <1>0, <2>1
<1>2. CASE o.terms.gasToken \notin Liars
  <2>1. drawn' = [drawn EXCEPT ![o.account] = @ + o.owed]
    BY <1>2 DEF Draw
  <2>2. ASSUME NEW a \in Accounts
        PROVE  drawn'[a] = drawn[a] + Due(o, a)
    <3>1. CASE a = o.account
      BY <1>0, <1>2, <2>1, <3>1 DEF Due
    <3>2. CASE a # o.account
      BY <1>0, <1>2, <2>1, <3>2 DEF Due
    <3> QED BY <3>1, <3>2
  <2> QED BY <2>2
<1> QED BY <1>1, <1>2

-----------------------------------------------------------------------------
(* The steps keep the books.                                               *)

LEMMA ExecTransactionBooks ==
    ASSUME IInv, Books, NEW a \in Accounts, NEW t \in Terms, ExecTransaction(a, t)
    PROVE  KeptBooks
<1> DEFINE order == NewOrder(a, t, nonce)
           f == Frame("executing", order, Store)
           st == [Store EXCEPT !.nonce = NewNonce(@), !.entered = TRUE]
           fs == Append(frames, f)
<1>0. /\ TypeOK /\ Store \in StoreType /\ frames \in Seq(FrameType) /\ Depth = Len(frames)
      /\ Depth \in Nat /\ nonce \in 0 .. MaxNonce
  BY Types DEF IInv
<1>1. /\ nonce < MaxNonce /\ nonce' = nonce + 1 /\ frames # <<>> /\ ret = None
      /\ Top.code = "external" /\ Calls(fs, st) /\ drawn' = drawn /\ settled' = settled
  BY DEF ExecTransaction, NewNonce, External
<1>2. order \in Order /\ order.owed = 0
  <2>1. nonce \in 0 .. MaxNonce - 1
    BY <1>0, <1>1, ForwardAssumption
  <2> QED BY <2>1, NewOrderInType DEF NewOrder
<1>3. f \in FrameType /\ f.code = "executing" /\ f.order = order /\ f.saved = Store
  BY <1>0, <1>2, FrameInType DEF ModuleCode
<1>4. st \in StoreType /\ st.drawn = Store.drawn /\ st.settled = Store.settled
  <2>1. nonce + 1 \in 0 .. MaxNonce
    BY <1>0, <1>1, ForwardAssumption
  <2> QED BY <1>0, <2>1 DEF NewNonce, Store, StoreType
<1>5. Store'.drawn = Store.drawn /\ Store'.settled = Store.settled
  BY <1>0, <1>1, StoreMoney
<1>6. \A a1 \in Accounts : Taken(Top, a1) = 0
  BY <1>1 DEF Taken
<1>7. Balanced(frames, Depth, Store) /\ Balanced(frames, Depth - 1, Store)
  BY <1>0, <1>1, <1>6, TopIdle
<1> HIDE DEF order, f, st
<1>8. /\ fs \in Seq(FrameType) /\ Len(fs) = Depth + 1 /\ fs[Depth + 1] = f
      /\ \A k \in 1 .. Depth : fs[k] = frames[k]
  BY <1>0, <1>3, Appended
<1>9. Paid(f)
  BY <1>2, <1>3 DEF Paid
<1>10. SavedBalanced(fs)
  BY <1>0, <1>3, <1>7, <1>9, SavedAppend DEF Books
<1> HIDE DEF fs
<1>11. Balanced(fs, Depth, st) /\ Balanced(fs, Depth, Store')
  BY <1>0, <1>4, <1>5, <1>7, <1>8, BalancedPrefix
<1>12. Balanced(fs, Depth + 1, Store')
  <2>1. \A k \in 1 .. Depth + 1 : Paid(fs[k])
    BY <1>8, <1>10 DEF SavedBalanced
  <2>2. \A a1 \in Accounts : Taken(fs[Depth + 1], a1) = 0
    BY <1>3, <1>8 DEF Taken
  <2>3. PICK m \in Nat : m = Depth + 1 /\ m - 1 = Depth
    BY <1>0
  <2>4. Balanced(fs, m, Store')
    BY <1>11, <2>1, <2>2, <2>3, BalancedIdle
  <2> QED BY <2>3, <2>4
<1>13. Len(fs) = Depth + 1 /\ Len(fs) - 1 = Depth
  BY <1>0, <1>8
<1> QED BY <1>1, <1>4, <1>8, <1>10, <1>11, <1>12, <1>13, CallBooks

\* The frame of a transaction whose refund is being taken.
LEMMA HandlePaymentBooks ==
    ASSUME IInv, Books, NEW used \in GasUsed, HandlePayment(used)
    PROVE  KeptBooks
<1> DEFINE order == Top.order
           n == Payment(order.terms, used)
           fs == [frames EXCEPT ![Depth].code = "refunding", ![Depth].order.owed = n]
           g == fs[Depth]
<1>0. /\ TypeOK /\ Store \in StoreType /\ frames \in Seq(FrameType) /\ Depth = Len(frames)
      /\ Depth \in Nat
  BY Types DEF IInv
<1>1. /\ frames # <<>> /\ Top.code = "executing" /\ order.terms.tokenGasPriceFactor # 0
      /\ Draw(order.account, order.terms.gasToken, n) /\ Calls(fs, Store)
      /\ UNCHANGED <<nonce, entered, enabled, settled, gasprice>>
  BY DEF HandlePayment, TargetDone
<1>2. Depth \in 1 .. Len(frames) /\ Top = frames[Depth] /\ Top \in FrameType /\ Paid(Top)
  BY <1>0, <1>1, TopPaid
<1>3. /\ order \in Order /\ order.account \in Accounts /\ order.terms \in Terms
      /\ order.owed = 0
  BY <1>1, <1>2 DEF Paid, ModuleCode, Order
<1>4. n \in Nat
  BY <1>0, <1>1, <1>3, PaymentInNat
<1>5. PICK o : o = [order EXCEPT !.owed = n]
  OBVIOUS
<1>6. /\ o \in Order /\ o.owed = n /\ o.account = order.account /\ o.terms = order.terms
  BY <1>3, <1>4, <1>5 DEF Order
<1>7. PICK h : h = [Top EXCEPT !.code = "refunding", !.order = o]
  OBVIOUS
<1>8. h \in FrameType /\ h.code = "refunding" /\ h.order = o /\ h.saved = Top.saved
  BY <1>2, <1>6, <1>7 DEF FrameType, ModuleCode
<1>9. fs = [frames EXCEPT ![Depth] = h]
  BY <1>0, <1>2, <1>5, <1>7 DEF FrameType, Order
<1> HIDE DEF order, n, fs, g
<1>10. /\ fs \in Seq(FrameType) /\ Len(fs) = Len(frames) /\ fs[Depth] = h
       /\ \A k \in 1 .. Len(frames) : k # Depth => fs[k] = frames[k]
  BY <1>0, <1>2, <1>8, <1>9, FrameReplaced
<1>11. Draw(o.account, o.terms.gasToken, o.owed)
  BY <1>1, <1>6
<1>12. \A a \in Accounts : drawn'[a] = drawn[a] + Due(o, a)
  BY <1>0, <1>6, <1>11, DrawMoves
<1>13. Store' \in StoreType
  <2>1. funds' \in [Accounts -> Nat] /\ drawn' \in [Accounts -> Nat]
    BY <1>0, <1>1, <1>3, <1>4, DrawInType
  <2> QED BY <1>0, <1>1, <2>1, StoreNext, Types
<1>14. Balanced(frames, Depth - 1, Store)
  <2>1. \A a \in Accounts : Taken(Top, a) = 0
    BY <1>1 DEF Taken
  <2> QED BY <1>0, <1>1, <2>1, TopIdle
<1>15. Paid(h)
  BY <1>6, <1>8 DEF Paid
<1>16. SavedBalanced(fs)
  <2> SUFFICES ASSUME NEW k \in 1 .. Len(frames)
               PROVE  Paid(fs[k]) /\ Balanced(fs, k - 2, fs[k].saved)
    BY <1>10 DEF SavedBalanced
  <2>1. fs[k].saved = frames[k].saved /\ Paid(fs[k])
    BY <1>2, <1>8, <1>10, <1>15 DEF Books, SavedBalanced
  <2>2. PICK s : s = frames[k].saved
    OBVIOUS
  <2>3. Balanced(frames, k - 2, s)
    BY <2>2 DEF Books, SavedBalanced
  <2>4. k - 2 \in Int /\ \A j \in 1 .. k - 2 : fs[j] = frames[j]
    BY <1>0, <1>10
  <2>5. Balanced(fs, k - 2, s)
    BY ONLY <2>3, <2>4, BalancedPrefix
  <2> QED BY <2>1, <2>2, <2>5
<1>17. Balanced(fs, Depth - 1, Store)
  <2>1. Depth - 1 \in Int /\ \A j \in 1 .. Depth - 1 : fs[j] = frames[j]
    BY <1>0, <1>10
  <2> QED BY <1>14, <2>1, BalancedPrefix
<1>18. Balanced(fs, Depth, Store')
  <2>1. /\ Store'.settled = Store.settled /\ Store.drawn \in [Accounts -> Nat]
        /\ \A a \in Accounts : Store'.drawn[a] = Store.drawn[a] + Taken(fs[Depth], a)
    BY <1>0, <1>1, <1>8, <1>10, <1>12, StoreMoney DEF Taken
  <2>2. \A k \in 1 .. Depth : Paid(fs[k])
    BY <1>0, <1>10, <1>16 DEF SavedBalanced
  <2>3. Depth >= 1
    BY <1>2
  <2> QED BY <1>0, <1>13, <1>17, <2>1, <2>2, <2>3, BalancedUp
<1>19. Len(fs) = Depth
  BY <1>0, <1>10
<1> QED BY <1>0, <1>1, <1>10, <1>16, <1>17, <1>18, <1>19, CallBooks

\* An estimate, and what it has drawn.
LEMMA EstimateBooks ==
    ASSUME IInv, Books, External, NEW order \in Order, Store' \in StoreType,
           settled' = settled, \A a \in Accounts : drawn'[a] = drawn[a] + Due(order, a),
           Calls(Append(frames, Frame("estimating", order, Store)), Store)
    PROVE  KeptBooks
<1> DEFINE f == Frame("estimating", order, Store)
           fs == Append(frames, f)
<1>0. /\ TypeOK /\ Store \in StoreType /\ frames \in Seq(FrameType) /\ Depth = Len(frames)
      /\ Depth \in Nat
  BY Types DEF IInv
<1>1. f \in FrameType /\ f.code = "estimating" /\ f.saved = Store /\ f.order = order
  BY <1>0, FrameInType DEF ModuleCode
<1>2. Calls(fs, Store) /\ Paid(f)
  BY <1>1 DEF Paid
<1>3. Balanced(frames, Depth, Store) /\ Balanced(frames, Depth - 1, Store)
  <2>1. \A a \in Accounts : Taken(Top, a) = 0
    BY DEF Taken, External
  <2> QED BY <1>0, <2>1, TopIdle DEF External
<1> HIDE DEF f
<1>4. /\ fs \in Seq(FrameType) /\ Len(fs) = Depth + 1 /\ fs[Depth + 1] = f
      /\ \A k \in 1 .. Depth : fs[k] = frames[k]
  BY <1>0, <1>1, Appended
<1>5. SavedBalanced(fs)
  BY <1>0, <1>1, <1>2, <1>3, SavedAppend DEF Books
<1> HIDE DEF fs
<1>6. Balanced(fs, Depth, Store)
  BY <1>0, <1>3, <1>4, BalancedPrefix
<1>7. PICK m \in Nat : m = Depth + 1 /\ m - 1 = Depth /\ m >= 1 /\ Len(fs) = m
  BY <1>0, <1>4
<1>8. Balanced(fs, m, Store')
  <2>1. /\ Store'.settled = Store.settled /\ Store.drawn \in [Accounts -> Nat]
        /\ \A a \in Accounts : Store'.drawn[a] = Store.drawn[a] + Taken(fs[m], a)
    BY <1>0, <1>1, <1>4, <1>7, StoreMoney DEF Taken
  <2>2. \A k \in 1 .. m : Paid(fs[k])
    BY <1>5, <1>7 DEF SavedBalanced
  <2> QED BY <1>6, <1>7, <2>1, <2>2, BalancedUp
<1> QED BY <1>0, <1>2, <1>4, <1>5, <1>6, <1>7, <1>8, CallBooks

LEMMA HandlePaymentRevertBooks ==
    ASSUME IInv, Books, NEW a \in Accounts, NEW t \in Terms, NEW used \in GasUsed,
           HandlePaymentRevert(a, t, used)
    PROVE  KeptBooks
<1> DEFINE n == Payment(t, used)
           order == [NewOrder(a, t, None) EXCEPT !.owed = n]
<1>1. /\ External /\ t.tokenGasPriceFactor # 0 /\ Draw(a, t.gasToken, n)
      /\ Calls(Append(frames, Frame("estimating", order, Store)), Store)
      /\ UNCHANGED <<nonce, entered, enabled, settled, gasprice>>
  BY DEF HandlePaymentRevert
<1>2. n \in Nat
  BY <1>1, PaymentInNat DEF IInv
<1> HIDE DEF n
<1>3. order \in Order /\ order.account = a /\ order.terms = t /\ order.owed = n
  BY <1>2 DEF NewOrder, Order
<1>4. Store' \in StoreType
  <2>1. funds' \in [Accounts -> Nat] /\ drawn' \in [Accounts -> Nat]
    BY <1>1, <1>2, DrawInType DEF IInv
  <2> QED BY <1>1, <2>1, StoreNext, Types DEF IInv
<1> HIDE DEF order
<1>5. \A b \in Accounts : drawn'[b] = drawn[b] + Due(order, b)
  BY <1>1, <1>3, DrawMoves DEF IInv
<1> QED BY <1>1, <1>3, <1>4, <1>5, EstimateBooks

LEMMA RequiredTxGasBooks ==
    ASSUME IInv, Books, NEW a \in Accounts, NEW t \in Terms, RequiredTxGas(a, t)
    PROVE  KeptBooks
<1>1. /\ External
      /\ Calls(Append(frames, Frame("estimating", NewOrder(a, t, None), Store)), Store)
      /\ nonce' = nonce /\ entered' = entered /\ enabled' = enabled /\ funds' = funds
      /\ drawn' = drawn /\ settled' = settled
  BY DEF RequiredTxGas, storage
<1>2. NewOrder(a, t, None) \in Order /\ NewOrder(a, t, None).owed = 0
  BY NewOrderInType DEF NewOrder
<1>3. Store' \in StoreType
  BY <1>1, StoreNext, Types DEF IInv
<1>4. \A b \in Accounts : drawn'[b] = drawn[b] + Due(NewOrder(a, t, None), b)
  <2>1. drawn \in [Accounts -> Nat]
    BY Types DEF IInv
  <2> QED BY <1>1, <1>2, <2>1 DEF Due
<1> QED BY <1>1, <1>2, <1>3, <1>4, EstimateBooks

\* What moves no call and none of the money that was drawn.
LEMMA AccountBooks ==
    ASSUME IInv, Books, NEW a \in Accounts, SetEnabled(a) \/ Spend(a)
    PROVE  KeptBooks
<1>1. drawn' = drawn /\ settled' = settled /\ frames' = frames /\ ret' = ret
  BY DEF SetEnabled, Spend
<1>2. /\ Store'.drawn = Store.drawn /\ Store'.settled = Store.settled
      /\ Moved' = Moved /\ Moved \in Int
  BY <1>1, StoreMoney DEF IInv, Moved, Depth
<1>3. Balanced(frames, Moved, Store')
  BY <1>2, BalancedPrefix DEF Books
<1> QED BY <1>1, <1>2, <1>3 DEF Books, KeptBooks

LEMMA TransactBooks ==
    ASSUME IInv, Books, Transact
    PROVE  KeptBooks
<1> DEFINE f == Frame("external", None, Store)
<1>0. /\ TypeOK /\ Store \in StoreType /\ frames = <<>> /\ frames' = <<f>> /\ ret' = None
      /\ drawn' = drawn /\ settled' = settled
  BY Types DEF IInv, Transact, storage
<1>1. f \in FrameType /\ f.code = "external" /\ f.saved = Store
  BY <1>0, FrameInType
<1>2. /\ Store'.drawn = Store.drawn /\ Store'.settled = Store.settled
      /\ Depth = 0 /\ frames \in Seq(FrameType)
  BY <1>0, StoreMoney DEF Depth
<1> HIDE DEF f
<1>3. frames' = Append(frames, f) /\ Len(frames) = 0 /\ Len(frames') = 1
  BY <1>0
<1>4. Balanced(frames, 0, Store)
  <2>1. Balanced(frames, Moved, Store) /\ Moved \in {0, -1}
    BY <1>2 DEF Books, Moved
  <2>2. \A a : TakenUpTo(frames, 0, a) = 0 /\ TakenUpTo(frames, -1, a) = 0
    BY TakenNone
  <2> QED BY <2>1, <2>2 DEF Balanced
<1>5. Balanced(frames, -1, Store)
  <2>1. \A a : TakenUpTo(frames, 0, a) = 0 /\ TakenUpTo(frames, -1, a) = 0
    BY TakenNone
  <2> QED BY <1>4, <2>1 DEF Balanced
<1>6. SavedBalanced(frames')
  <2>1. Paid(f)
    BY <1>1 DEF Paid, ModuleCode
  <2>2. Balanced(frames, Len(frames) - 1, f.saved)
    <3>1. Len(frames) - 1 = -1
      BY <1>3
    <3> QED BY <1>1, <1>5, <3>1
  <2>3. SavedBalanced(frames)
    BY DEF Books
  <2> QED BY <1>1, <1>2, <1>3, <2>1, <2>2, <2>3, SavedAppend
<1>7. Balanced(frames', 0, Store')
  <2>1. \A k \in 1 .. 0 : frames'[k] = frames[k]
    OBVIOUS
  <2> QED BY <1>2, <1>4, <2>1, BalancedPrefix
<1>8. Moved' = 0
  BY <1>0, <1>3, ForwardAssumption DEF Moved, Depth
<1> QED BY <1>6, <1>7, <1>8 DEF KeptBooks

LEMMA ReturnBooks ==
    ASSUME IInv, Books, Return
    PROVE  KeptBooks
<1>1. /\ frames # <<>> /\ Top.code = "external" /\ Leave(OK) /\ drawn' = drawn
      /\ settled' = settled
  BY DEF Return, External, storage
<1>2. /\ Store'.drawn = Store.drawn /\ Store'.settled = Store.settled /\ Depth - 1 \in Int
      /\ TypeOK /\ OK # Fail
  BY <1>1, StoreMoney, ForwardAssumption DEF IInv
<1>3. Balanced(frames, Depth - 1, Store)
  <2>1. \A a \in Accounts : Taken(Top, a) = 0
    BY <1>1 DEF Taken
  <2> QED BY <1>1, <1>2, <2>1, TopIdle
<1>4. Balanced(frames, Depth - 1, Store')
  BY <1>2, <1>3, BalancedPrefix
<1> QED BY <1>1, <1>2, <1>4, LeaveBooks DEF Books

LEMMA RevertBooks ==
    ASSUME IInv, Books, Revert
    PROVE  KeptBooks
<1>1. frames # <<>> /\ Leave(Fail) /\ TypeOK /\ OK # Fail
  BY ForwardAssumption DEF Revert, IInv
<1>2. Depth \in 1 .. Len(frames) /\ Top = frames[Depth] /\ Top.saved \in StoreType
  BY <1>1, TopPaid, TopInType, StoreMoney
<1>3. Store' = Top.saved
  BY <1>2 DEF Revert, Store, StoreType
<1>4. Balanced(frames, Depth - 2, Store')
  BY <1>2, <1>3 DEF Books, SavedBalanced
<1> QED BY <1>1, <1>4, LeaveBooks DEF Books

\* A transaction is settled without a refund: it owes nothing.  With its refund taken, what
\* was on its way is now settled.
LEMMA SettleBooks ==
    ASSUME IInv, Books, ExecWithoutRefund \/ RefundDone
    PROVE  KeptBooks
<1>1. /\ frames # <<>> /\ Settle(Top.order) /\ drawn' = drawn /\ TypeOK
      /\ Top.code = "executing" \/ (Top.code = "refunding" /\ ret = OK)
      /\ UNCHANGED <<nonce, enabled, funds, drawn, gasprice>>
  BY DEF ExecWithoutRefund, RefundDone, TargetDone, IInv
<1>2. /\ Depth \in 1 .. Len(frames) /\ Top = frames[Depth] /\ Paid(Top) /\ Depth \in Nat
      /\ Depth = Len(frames)
  BY <1>1, TopPaid, StoreMoney
<1>3. Top.order \in Order /\ settled \in Seq(Order) /\ drawn \in [Accounts -> Nat]
  BY <1>1, <1>2, Types DEF Paid, ModuleCode
<1>4. settled' = Append(settled, Top.order) /\ Leave(OK) /\ OK # Fail
  BY <1>1, ForwardAssumption DEF Settle
<1>5. /\ Store.drawn = drawn /\ Store.settled = settled /\ Store'.drawn = drawn
      /\ Store'.settled = Append(settled, Top.order)
  BY <1>1, <1>4, StoreMoney
<1>6. Balanced(frames, Depth, Store)
  <2>1. CASE Top.code = "executing"
    <3>1. \A a \in Accounts : Taken(Top, a) = 0
      BY <2>1 DEF Taken
    <3> QED BY <1>1, <3>1, TopIdle
  <2>2. CASE ret = OK
    BY <2>2 DEF Books, Moved
  <2> QED BY <1>1, <2>1, <2>2
<1>7. \A a \in Accounts : Taken(Top, a) = Due(Top.order, a)
  BY <1>1, <1>2 DEF Taken, Due, Paid
<1>8. ASSUME NEW a \in Accounts
      PROVE  Store'.drawn[a] = DueUpTo(Store'.settled, Len(Store'.settled), a)
                                  + TakenUpTo(frames, Depth - 1, a)
  <2>1. drawn[a] = DueUpTo(settled, Len(settled), a) + TakenUpTo(frames, Depth, a)
    BY <1>5, <1>6 DEF Balanced
  <2>2. /\ TakenUpTo(frames, Depth, a) = TakenUpTo(frames, Depth - 1, a) + Taken(Top, a)
        /\ TakenUpTo(frames, Depth - 1, a) \in Nat /\ Taken(Top, a) \in Nat
    <3>1. Depth >= 1 /\ \A k \in 1 .. Depth : Paid(frames[k])
      BY <1>2 DEF Books, SavedBalanced
    <3> QED BY <1>2, <3>1, TakenUp
  <2>3. /\ DueUpTo(Store'.settled, Len(Store'.settled), a)
              = DueUpTo(settled, Len(settled), a) + Due(Top.order, a)
        /\ DueUpTo(settled, Len(settled), a) \in Nat
    BY <1>3, <1>5, DueAppend, DueInSum
  <2> QED BY <1>5, <1>7, <2>1, <2>2, <2>3
<1>9. Balanced(frames, Depth - 1, Store')
  BY <1>8 DEF Balanced
<1> QED BY <1>1, <1>4, <1>9, LeaveBooks DEF Books

LEMMA InitBooks == Init => Books
<1> SUFFICES ASSUME Init PROVE Books
  OBVIOUS
<1>1. frames = <<>> /\ ret = None /\ settled = <<>> /\ drawn = [a \in Accounts |-> 0]
  BY DEF Init
<1>2. Depth = 0 /\ Moved = -1
  BY <1>1, ForwardAssumption DEF Depth, Moved
<1>3. \A a : TakenUpTo(frames, -1, a) = 0
  BY TakenNone
<1>4. \A a : DueUpTo(<<>>, 0, a) = 0
  <2>1. 1 .. 0 = {}
    OBVIOUS
  <2> QED BY <2>1, SizeEmpty DEF DueUpTo
<1>5. Store.drawn = drawn /\ Store.settled = <<>> /\ Len(Store.settled) = 0
  BY <1>1 DEF Store
<1>6. Balanced(frames, Moved, Store)
  BY <1>1, <1>2, <1>3, <1>4, <1>5 DEF Balanced
<1> QED BY <1>1, <1>6 DEF Books, SavedBalanced

LEMMA NextBooks == IInv /\ Books /\ [Next]_vars => Books'
<1> SUFFICES ASSUME IInv, Books, [Next]_vars PROVE Books'
  OBVIOUS
<1>1. CASE Next
  <2>1. KeptBooks
    BY <1>1, ExecTransactionBooks, RequiredTxGasBooks, HandlePaymentRevertBooks,
       HandlePaymentBooks, AccountBooks, TransactBooks, ReturnBooks, RevertBooks,
       SettleBooks DEF Next
  <2> QED BY <2>1 DEF KeptBooks, Books
<1>2. CASE UNCHANGED vars
  <2>1. frames' = frames /\ Store' = Store /\ Moved' = Moved
    BY <1>2 DEF vars, storage, Store, Moved, Depth
  <2> QED BY <2>1 DEF Books
<1> QED BY <1>1, <1>2

\* The model's sum is the one over a row that ends with the last order.
LEMMA OwedIsDue ==
    ASSUME NEW a, NEW n \in Nat, NEW orders, DOMAIN orders = 1 .. n,
           \A k \in 1 .. n : orders[k] \in Order
    PROVE  Owed(a, orders, Liars) = DueUpTo(orders, n, a)
<1> DEFINE due == [k \in DOMAIN orders |-> IF /\ orders[k].account = a
                                              /\ orders[k].terms.gasToken \notin Liars
                                           THEN orders[k].owed ELSE 0]
<1>1. due = [k \in 1 .. n |-> Due(orders[k], a)]
  BY DEF Due
<1>2. \A k \in 1 .. n : due[k] \in Nat
  BY <1>1, DueInNat
<1>3. IsFiniteSet(1 .. n)
  BY FS_Interval
<1>4. Owed(a, orders, Liars) = SumOf(DOMAIN orders, due)
  BY DEF Owed, SumOf
<1> HIDE DEF due
<1>5. SumOf(1 .. n, due) = Size(1 .. n, due)
  BY <1>2, <1>3, SumIsSize
<1> QED BY <1>1, <1>4, <1>5 DEF DueUpTo

\* A sum over some calls is the sum over all, what the others do being left out.
LEMMA BooksBalance == IInv /\ Books => DrawnIsOwed
<1> SUFFICES ASSUME IInv, Books, NEW a \in Accounts PROVE drawn[a] = Orders(Liars, a)
  BY DEF DrawnIsOwed
<1>0. /\ TypeOK /\ Depth \in Nat /\ Depth = Len(frames) /\ settled \in Seq(Order)
      /\ frames \in Seq(FrameType) /\ Store.drawn = drawn /\ Store.settled = settled
  BY Types, StoreMoney DEF IInv
<1>1. drawn[a] = DueUpTo(settled, Len(settled), a) + TakenUpTo(frames, Moved, a)
  BY <1>0 DEF Books, Balanced
<1>2. Owed(a, settled, Liars) = DueUpTo(settled, Len(settled), a)
  <2>1. Len(settled) \in Nat /\ DOMAIN settled = 1 .. Len(settled)
        /\ \A k \in 1 .. Len(settled) : settled[k] \in Order
    BY <1>0
  <2> QED BY <2>1, OwedIsDue
<1> DEFINE orders == [k \in Drawing |-> frames[k].order]
           due == [k \in DOMAIN orders |-> IF /\ orders[k].account = a
                                              /\ orders[k].terms.gasToken \notin Liars
                                           THEN orders[k].owed ELSE 0]
           taken == [k \in 1 .. Moved |-> Taken(frames[k], a)]
<1>3. Drawing = {k \in 1 .. Moved : frames[k].code \in {"refunding", "estimating"}}
  BY <1>0 DEF Drawing, Moved
<1>4. \A k \in Drawing : due[k] = Due(frames[k].order, a) /\ due[k] = taken[k]
  BY <1>3 DEF Due, Taken
<1>5. \A k \in 1 .. Moved : taken[k] \in Nat /\ (k \notin Drawing => taken[k] = 0)
  <2>1. \A k \in 1 .. Moved : Paid(frames[k])
    BY <1>0 DEF Moved, Books, SavedBalanced
  <2> QED BY <1>3, <2>1, TakenInNat DEF Taken
<1>6. Owed(a, orders, Liars) = SumOf(DOMAIN orders, due)
  BY DEF Owed, SumOf
<1>7. DOMAIN orders = Drawing /\ IsFiniteSet(Drawing) /\ Drawing \subseteq 1 .. Moved
  <2>1. Moved \in Int
    BY <1>0 DEF Moved
  <2>2. IsFiniteSet(1 .. Moved)
    BY <2>1, FS_Interval
  <2> QED BY <1>3, <2>2, FS_Subset
<1> HIDE DEF orders, due, taken
<1>8. SumOf(Drawing, due) = Size(Drawing, due)
  BY <1>4, <1>5, <1>7, SumIsSize
<1>9. Units(Drawing, due) = Units(1 .. Moved, taken)
  <2>1. \A k \in 1 .. Moved : k \notin Drawing => 1 .. taken[k] = {}
    BY <1>5
  <2> QED BY <1>4, <1>7, <2>1 DEF Units
<1>10. Owed(a, orders, Liars) = TakenUpTo(frames, Moved, a)
  BY <1>6, <1>7, <1>8, <1>9 DEF Size, TakenUpTo, taken
<1> QED BY <1>1, <1>2, <1>10 DEF Orders, orders

\* Whatever calls nest and revert, and at any prices: the module has taken from an account
\* what its own transactions owe, and nothing else.  (ForwardFlowModule.sol:116-202, 396-446)
THEOREM DrawnIsAlwaysOwed == Spec => []DrawnIsOwed
<1>1. Init => IInv /\ Books
  BY InitIInv, InitBooks
<1>2. (IInv /\ Books) /\ [Next]_vars => (IInv /\ Books)'
  BY NextIInv, NextBooks
<1>3. IInv /\ Books => DrawnIsOwed
  BY BooksBalance
<1> QED BY <1>1, <1>2, <1>3, PTL DEF Spec
=============================================================================
