-------------------------- MODULE DeploymentProofs --------------------------
(***************************************************************************)
(* What Deployment promises, on any chain, for any modules, any fee and    *)
(* any number of faults.                                                   *)
(*                                                                         *)
(* Each promise rests on what a pending transaction may still do when it   *)
(* is mined, which is after any number of runs, perhaps: Fits says what it *)
(* needs of the chain, and that nothing takes it away again.               *)
(***************************************************************************)
EXTENDS Deployment, SequenceTheorems, TLAPS

-----------------------------------------------------------------------------
(* The invariant.                                                          *)

Senders == {"signer", "funding", "key"}
Owners  == {"nobody", "signer", "configured"}
Kinds   == {"deploy", "addStake", "transferOwnership", "fund", "create"}
Awaits  == {"deploying", "staking", "handing", "funding", "creating"}
Places  == Idle \cup Awaits \cup {"step", "stake", "handover", "fund", "create"}
Things  == {Steps[n] : n \in Nat}

TxType == [kind : Kinds, on : Things \cup Int, mine : BOOLEAN]

ScriptType == [at : Places, step : Nat, base : BOOLEAN, entry : BOOLEAN,
               contractOwner : Owners, recorded : SUBSET Things, fundsNeeded : Int]

\* The transactions of the pool.
Txs == {t \in TxType : \E s \in Senders : \E k \in 1 .. Len(pool[s]) : t = pool[s][k]}

\* A contract that may be handed over: it is already, or it has its stake.
Secured(c) == \/ owner[c] = "configured"
              \/ owner[c] = "signer" /\ stakes[c] > 0

\* What the script that waits waits for.
Awaited(t) ==
    CASE script.at = "deploying" -> t.kind = "deploy" /\ t.on = Step
      [] script.at = "staking"   -> t.kind = "addStake" /\ t.on = Step
      [] script.at = "handing"   -> t.kind = "transferOwnership"
      [] script.at = "funding"   -> t.kind = "fund"
      [] script.at = "creating"  -> t.kind = "create"
      [] OTHER                   -> FALSE

ChainFine ==
    /\ owner \in [Staked -> Owners] /\ stakes \in [Staked -> Nat]
    /\ key \in [nonce : Int, balance : Int]
    /\ "SmartAccountFactory" \in code => "SmartAccount" \in code
    /\ \A c \in Staked : c \in code <=> owner[c] # "nobody"
    /\ \A c \in Staked : c \notin lost => stakes[c] <= 1

ScriptFine ==
    /\ script \in ScriptType
    /\ script.recorded \subseteq code
    /\ script.base => "SmartAccount" \in code
    /\ script.at \in {"stake", "staking", "handover", "handing"} =>
          Step \in Staked /\ Step \in code
    /\ script.at = "handover" /\ script.contractOwner # "configured" => Secured(Step)

\* A transaction that is pending.
Fits(t) ==
    /\ t.kind = "fund" => t.on \in Int
    /\ t.kind = "deploy" /\ t.on = "SmartAccountFactory" => "SmartAccount" \in code
    /\ t.kind = "transferOwnership" => t.on \in Staked /\ Secured(t.on)
    /\ t.kind = "addStake" => /\ t.on \in Staked
                              /\ t.on \notin lost => t.mine /\ stakes[t.on] = 0
    /\ t.mine => Awaited(t)

\* The script waits for one transaction at most.
OneAwaited ==
    \A s, r \in Senders : \A k \in 1 .. Len(pool[s]), l \in 1 .. Len(pool[r]) :
       pool[s][k].mine /\ pool[r][l].mine => s = r /\ k = l

PoolFine == pool \in [Senders -> Seq(TxType)] /\ OneAwaited /\ \A t \in Txs : Fits(t)

IInv == ChainFine /\ ScriptFine /\ PoolFine

-----------------------------------------------------------------------------
(* The pool.                                                               *)

PoolTyped == pool \in [Senders -> Seq(TxType)]

NoneAwaited == \A t \in Txs : ~t.mine

LEMMA TxsAre ==
    ASSUME PoolTyped, NEW s \in Senders, NEW k \in 1 .. Len(pool[s])
    PROVE  pool[s][k] \in Txs /\ pool[s][k] \in TxType
<1>1. pool[s] \in Seq(TxType)
  BY DEF PoolTyped
<1>2. pool[s][k] \in TxType
  BY <1>1
<1> QED BY <1>2 DEF Txs

LEMMA SubmitPool ==
    ASSUME PoolTyped, NoneAwaited, NEW from \in Senders, NEW tx \in TxType,
           Submit(from, tx)
    PROVE  PoolTyped' /\ OneAwaited' /\ Txs' \subseteq Txs \cup {tx}
<1>1. pool[from] \in Seq(TxType)
  BY DEF PoolTyped
<1>2. /\ Append(pool[from], tx) \in Seq(TxType)
      /\ Len(Append(pool[from], tx)) = Len(pool[from]) + 1
      /\ \A k \in 1 .. Len(pool[from]) : Append(pool[from], tx)[k] = pool[from][k]
      /\ Append(pool[from], tx)[Len(pool[from]) + 1] = tx
      /\ Len(pool[from]) \in Nat
  BY <1>1, AppendProperties
<1>3. /\ pool' = [pool EXCEPT ![from] = Append(pool[from], tx)]
      /\ pool'[from] = Append(pool[from], tx)
      /\ \A s \in Senders : s # from => pool'[s] = pool[s]
  BY DEF Submit, PoolTyped
<1>4. PoolTyped'
  BY <1>1, <1>2, <1>3 DEF PoolTyped
<1>5. ASSUME NEW s \in Senders, NEW k \in 1 .. Len(pool'[s])
      PROVE  \/ k \in 1 .. Len(pool[s]) /\ pool'[s][k] = pool[s][k]
             \/ s = from /\ k = Len(pool[from]) + 1 /\ pool'[s][k] = tx
  <2>1. CASE s = from
    BY <2>1, <1>2, <1>3
  <2>2. CASE s # from
    BY <2>2, <1>3
  <2> QED BY <2>1, <2>2
<1>6. ASSUME NEW s \in Senders, NEW k \in 1 .. Len(pool'[s]), pool'[s][k].mine
      PROVE  s = from /\ k = Len(pool[from]) + 1
  BY <1>5, <1>6, TxsAre DEF NoneAwaited
<1>7. OneAwaited'
  BY <1>6 DEF OneAwaited
<1>8. Txs' \subseteq Txs \cup {tx}
  <2> SUFFICES ASSUME NEW t \in Txs', t # tx
               PROVE  t \in Txs
    OBVIOUS
  <2>1. PICK s \in Senders : \E k \in 1 .. Len(pool'[s]) : t = pool'[s][k]
    BY DEF Txs
  <2>2. PICK k \in 1 .. Len(pool'[s]) : t = pool'[s][k]
    BY <2>1
  <2>3. k \in 1 .. Len(pool[s]) /\ t = pool[s][k]
    BY <1>5, <2>2
  <2> QED BY <2>3, TxsAre
<1> QED BY <1>4, <1>7, <1>8

LEMMA AbandonedPool ==
    ASSUME PoolTyped, pool' = Abandoned
    PROVE  /\ PoolTyped' /\ OneAwaited' /\ NoneAwaited'
           /\ \A t \in Txs' : \E u \in Txs : t = [u EXCEPT !.mine = FALSE]
<1>1. DOMAIN pool = Senders
  BY DEF PoolTyped
<1>2. ASSUME NEW s \in Senders
      PROVE  /\ pool'[s] \in Seq(TxType) /\ Len(pool'[s]) = Len(pool[s])
             /\ \A k \in 1 .. Len(pool[s]) : pool'[s][k] = [pool[s][k] EXCEPT !.mine = FALSE]
  <2>1. pool[s] \in Seq(TxType)
    BY DEF PoolTyped
  <2>2. DOMAIN pool[s] = 1 .. Len(pool[s]) /\ Len(pool[s]) \in Nat
    BY <2>1
  <2>3. pool'[s] = [k \in 1 .. Len(pool[s]) |-> [pool[s][k] EXCEPT !.mine = FALSE]]
    BY <1>1, <2>2 DEF Abandoned
  <2>4. \A k \in 1 .. Len(pool[s]) : [pool[s][k] EXCEPT !.mine = FALSE] \in TxType
    <3> TAKE k \in 1 .. Len(pool[s])
    <3>1. pool[s][k] \in TxType
      BY <2>1
    <3> QED BY <3>1 DEF TxType
  <2>5. pool'[s] \in Seq(TxType)
    BY <2>2, <2>3, <2>4, IsASeq
  <2> QED BY <2>2, <2>3, <2>5
<1>3. PoolTyped'
  <2>1. pool' = [s \in Senders |-> pool'[s]]
    BY <1>1 DEF Abandoned
  <2> QED BY <2>1, <1>2 DEF PoolTyped
<1>4. \A s \in Senders : \A k \in 1 .. Len(pool'[s]) : ~pool'[s][k].mine
  <2> TAKE s \in Senders
  <2> TAKE k \in 1 .. Len(pool'[s])
  <2>1. pool[s][k] \in TxType /\ pool'[s][k] = [pool[s][k] EXCEPT !.mine = FALSE]
    BY <1>2, TxsAre
  <2> QED BY <2>1 DEF TxType
<1>5. OneAwaited'
  BY <1>4 DEF OneAwaited
<1>6. NoneAwaited'
  BY <1>4 DEF NoneAwaited, Txs
<1>7. ASSUME NEW t \in Txs'
      PROVE  \E u \in Txs : t = [u EXCEPT !.mine = FALSE]
  <2>1. PICK s \in Senders : \E k \in 1 .. Len(pool'[s]) : t = pool'[s][k]
    BY DEF Txs
  <2>2. PICK k \in 1 .. Len(pool'[s]) : t = pool'[s][k]
    BY <2>1
  <2>3. k \in 1 .. Len(pool[s]) /\ t = [pool[s][k] EXCEPT !.mine = FALSE]
    BY <1>2, <2>2
  <2> QED BY <2>3, TxsAre
<1> QED BY <1>3, <1>5, <1>6, <1>7

LEMMA MinedPool ==
    ASSUME PoolTyped, OneAwaited, NEW s \in Senders, pool[s] # <<>>,
           pool' = [pool EXCEPT ![s] = Tail(@)]
    PROVE  /\ PoolTyped' /\ OneAwaited'
           /\ Txs' \subseteq Txs /\ Head(pool[s]) \in Txs
           /\ Head(pool[s]).mine => NoneAwaited'
<1>1. pool[s] \in Seq(TxType)
  BY DEF PoolTyped
<1>2. /\ Len(pool[s]) \in Nat /\ Len(pool[s]) > 0 /\ Head(pool[s]) = pool[s][1]
      /\ Tail(pool[s]) \in Seq(TxType) /\ Len(Tail(pool[s])) = Len(pool[s]) - 1
      /\ \A k \in 1 .. Len(pool[s]) - 1 : Tail(pool[s])[k] = pool[s][k + 1]
  BY <1>1, HeadTailProperties
<1>3. /\ pool' = [pool EXCEPT ![s] = Tail(pool[s])]
      /\ pool'[s] = Tail(pool[s])
      /\ \A r \in Senders : r # s => pool'[r] = pool[r]
  BY DEF PoolTyped
<1>4. PoolTyped'
  BY <1>2, <1>3 DEF PoolTyped
<1>5. ASSUME NEW r \in Senders, NEW k \in 1 .. Len(pool'[r])
      PROVE  \/ r # s /\ k \in 1 .. Len(pool[r]) /\ pool'[r][k] = pool[r][k]
             \/ r = s /\ k + 1 \in 1 .. Len(pool[s]) /\ pool'[r][k] = pool[s][k + 1]
  <2>1. CASE r = s
    <3>1. k \in 1 .. Len(pool[s]) - 1 /\ pool'[r][k] = Tail(pool[s])[k]
      BY <2>1, <1>2, <1>3
    <3>2. k + 1 \in 1 .. Len(pool[s])
      BY <3>1, <1>2
    <3> QED BY <2>1, <3>1, <3>2, <1>2
  <2>2. CASE r # s
    BY <2>2, <1>3
  <2> QED BY <2>1, <2>2
<1>6. Head(pool[s]) \in Txs
  BY <1>2, TxsAre
<1>7. Txs' \subseteq Txs
  <2> SUFFICES ASSUME NEW t \in Txs'
               PROVE  t \in Txs
    OBVIOUS
  <2>1. PICK r \in Senders : \E k \in 1 .. Len(pool'[r]) : t = pool'[r][k]
    BY DEF Txs
  <2>2. PICK k \in 1 .. Len(pool'[r]) : t = pool'[r][k]
    BY <2>1
  <2> QED BY <1>5, <2>2, TxsAre
<1>8. OneAwaited'
  <2> SUFFICES ASSUME NEW r \in Senders, NEW q \in Senders,
                      NEW k \in 1 .. Len(pool'[r]), NEW l \in 1 .. Len(pool'[q]),
                      pool'[r][k].mine, pool'[q][l].mine
               PROVE  r = q /\ k = l
    BY DEF OneAwaited
  <2> DEFINE i == IF r = s THEN k + 1 ELSE k
             j == IF q = s THEN l + 1 ELSE l
  <2>1. i \in 1 .. Len(pool[r]) /\ pool'[r][k] = pool[r][i]
    BY <1>5
  <2>2. j \in 1 .. Len(pool[q]) /\ pool'[q][l] = pool[q][j]
    BY <1>5
  <2>3. r = q /\ i = j
    BY <2>1, <2>2 DEF OneAwaited
  <2> QED BY <2>3
<1>9. ASSUME Head(pool[s]).mine
      PROVE  NoneAwaited'
  <2> SUFFICES ASSUME NEW t \in Txs', t.mine
               PROVE  FALSE
    BY DEF NoneAwaited
  <2>1. PICK r \in Senders : \E k \in 1 .. Len(pool'[r]) : t = pool'[r][k]
    BY DEF Txs
  <2>2. PICK k \in 1 .. Len(pool'[r]) : t = pool'[r][k]
    BY <2>1
  <2> DEFINE i == IF r = s THEN k + 1 ELSE k
  <2>3. i \in 1 .. Len(pool[r]) /\ pool[r][i] = t /\ (r = s => i # 1)
    BY <1>5, <2>2
  <2>4. 1 \in 1 .. Len(pool[s]) /\ pool[s][1].mine
    BY <1>2, <1>9
  <2> HIDE DEF i
  <2> QED BY <2>3, <2>4 DEF OneAwaited
<1> QED BY <1>4, <1>6, <1>7, <1>8, <1>9

-----------------------------------------------------------------------------
(* The script.                                                             *)

LEMMA StepIn == ASSUME script \in ScriptType PROVE Step \in Things
BY DEF Step, Things, ScriptType

LEMMA AfterIs ==
    ASSUME NEW s \in ScriptType
    PROVE  /\ After(s) \in ScriptType /\ After(s).at \in {"step", "done"}
           /\ After(s).base = s.base /\ After(s).recorded = s.recorded
<1>1. CASE s.step = Len(Steps)
  <2>1. After(s) = [s EXCEPT !.at = "done"]
    BY <1>1 DEF After
  <2> QED BY <2>1 DEF ScriptType, Places, Idle
<1>2. CASE s.step # Len(Steps)
  <2>1. After(s) = [s EXCEPT !.at = "step", !.step = @ + 1]
    BY <1>2 DEF After
  <2>2. s.step + 1 \in Nat
    BY DEF ScriptType
  <2> QED BY <2>1, <2>2 DEF ScriptType, Places
<1> QED BY <1>1, <1>2

LEMMA RunIs ==
    ASSUME NEW at \in Places
    PROVE  /\ Run(at) \in ScriptType /\ Run(at).at = at
           /\ Run(at).base = FALSE /\ Run(at).recorded = {}
BY DEF Run, ScriptType, Owners

LEMMA GotoIs ==
    ASSUME script \in ScriptType, NEW at \in Places, Goto(at)
    PROVE  /\ script' \in ScriptType /\ script'.at = at /\ script'.step = script.step
           /\ script'.base = script.base /\ script'.recorded = script.recorded
           /\ script'.contractOwner = script.contractOwner
BY DEF Goto, ScriptType

LEMMA ContinueUnfolds ==
    ASSUME NEW ok, Continue(ok)
    PROVE  LET s == [script EXCEPT !.recorded = IF ok THEN @ \cup {Step} ELSE @]
           IN  /\ Step = "EntryPoint" => script' = After([s EXCEPT !.entry = ok])
               /\ Step = "SmartAccount" => script' = After([s EXCEPT !.base = ok])
<1>1. Step = "EntryPoint" => Step # "SmartAccount" /\ Step \notin Staked
  BY DEF Staked
<1>2. Step = "SmartAccount" => Step # "EntryPoint" /\ Step \notin Staked
  BY DEF Staked
<1>3. CASE Step = "EntryPoint"
  BY <1>1, <1>3 DEF Continue, Returned
<1>4. CASE Step = "SmartAccount"
  BY <1>2, <1>4 DEF Continue, Returned
<1> QED BY <1>3, <1>4

LEMMA ContinueIs ==
    ASSUME script \in ScriptType, NEW ok \in BOOLEAN, Continue(ok)
    PROVE  /\ script' \in ScriptType
           /\ script'.at \in {"step", "done", "stake", "failed"}
           /\ script'.at = "stake" => ok /\ Step \in Staked /\ script'.step = script.step
           /\ script'.base => script.base \/ (ok /\ Step = "SmartAccount")
           /\ \A n \in script'.recorded : n \in script.recorded \/ (ok /\ n = Step)
<1> DEFINE s == [script EXCEPT !.recorded = IF ok THEN @ \cup {Step} ELSE @]
<1>1. /\ s \in ScriptType /\ (\A n \in s.recorded : n \in script.recorded \/ (ok /\ n = Step))
      /\ s.base = script.base /\ s.step = script.step
  BY StepIn DEF ScriptType
<1>2. CASE Step = "EntryPoint"
  <2>1. [s EXCEPT !.entry = ok] \in ScriptType /\ [s EXCEPT !.entry = ok].base = s.base
        /\ [s EXCEPT !.entry = ok].recorded = s.recorded
    BY <1>1 DEF ScriptType
  <2>2. script' = After([s EXCEPT !.entry = ok])
    BY <1>2, ContinueUnfolds
  <2> HIDE DEF s
  <2> QED BY <1>1, <2>1, <2>2, AfterIs
<1>3. CASE Step = "SmartAccount"
  <2>1. [s EXCEPT !.base = ok] \in ScriptType /\ [s EXCEPT !.base = ok].base = ok
        /\ [s EXCEPT !.base = ok].recorded = s.recorded
    BY <1>1 DEF ScriptType
  <2>2. script' = After([s EXCEPT !.base = ok])
    BY <1>3, ContinueUnfolds
  <2> HIDE DEF s
  <2> QED BY <1>1, <1>3, <2>1, <2>2, AfterIs
<1>4. CASE Step \in Staked
  <2>1. \E at \in {"stake", "failed"} : script' = [s EXCEPT !.at = at] /\ (at = "stake" => ok)
    BY <1>4 DEF Continue, Returned, Staked
  <2>2. PICK at \in {"stake", "failed"} : script' = [s EXCEPT !.at = at] /\ (at = "stake" => ok)
    BY <2>1
  <2>3. /\ script' \in ScriptType /\ script'.at = at /\ script'.step = s.step
        /\ script'.base = s.base /\ script'.recorded = s.recorded
    BY <1>1, <2>2 DEF ScriptType, Places, Idle
  <2> HIDE DEF s
  <2> QED BY <1>1, <1>4, <2>2, <2>3
<1>5. CASE Step \notin {"EntryPoint", "SmartAccount"} \cup Staked
  <2>1. script' = After(s)
    BY <1>5 DEF Continue, Returned
  <2> HIDE DEF s
  <2> QED BY <1>1, <2>1, AfterIs
<1> QED BY <1>2, <1>3, <1>4, <1>5

-----------------------------------------------------------------------------
(* What stays true.                                                        *)

LEMMA NothingAwaited ==
    ASSUME IInv, script.at \notin Awaits
    PROVE  NoneAwaited
BY DEF IInv, PoolFine, NoneAwaited, Fits, Awaited, Awaits

\* A transaction for which nobody waits.
LEMMA FitsStays ==
    ASSUME NEW t \in TxType, Fits(t), ~t.mine, onchain' = onchain, lost' = lost
    PROVE  Fits(t)'
BY DEF Fits, onchain, Secured

LEMMA ChainStays ==
    ASSUME ChainFine, onchain' = onchain, lost \subseteq lost'
    PROVE  ChainFine'
BY DEF ChainFine, onchain

\* The pool is as it was, and nobody waits.
LEMMA PoolStays ==
    ASSUME IInv, script.at \notin Awaits, onchain' = onchain, lost' = lost, pool' = pool
    PROVE  PoolFine'
<1>1. NoneAwaited
  BY NothingAwaited
<1>2. Txs' = Txs
  BY DEF Txs
<1>3. OneAwaited'
  BY DEF IInv, PoolFine, OneAwaited
<1>4. \A t \in Txs' : Fits(t)'
  BY <1>1, <1>2, FitsStays DEF IInv, PoolFine, NoneAwaited, Txs
<1> QED BY <1>3, <1>4 DEF IInv, PoolFine

\* Something is submitted for which the script waits from now on.
LEMMA PoolGains ==
    ASSUME IInv, script.at \notin Awaits, onchain' = onchain, lost' = lost,
           NEW from \in Senders, NEW tx \in TxType, Submit(from, tx), Fits(tx)'
    PROVE  PoolFine'
<1>1. NoneAwaited
  BY NothingAwaited
<1>2. PoolTyped' /\ OneAwaited' /\ Txs' \subseteq Txs \cup {tx}
  BY <1>1, SubmitPool DEF IInv, PoolFine, PoolTyped
<1>3. \A t \in Txs : Fits(t)'
  BY <1>1, FitsStays DEF IInv, PoolFine, NoneAwaited, Txs
<1>4. \A t \in Txs' : Fits(t)'
  BY <1>2, <1>3
<1> QED BY <1>2, <1>4 DEF PoolFine, PoolTyped

\* Whatever the script waited for, nobody does any more.
LEMMA PoolAbandoned ==
    ASSUME IInv, onchain' = onchain, pool' = Abandoned, lost \subseteq lost',
           \A t \in Txs : t.mine /\ t.kind = "addStake" => t.on \in lost'
    PROVE  PoolFine'
<1>1. /\ PoolTyped' /\ OneAwaited' /\ NoneAwaited'
      /\ \A t \in Txs' : \E u \in Txs : t = [u EXCEPT !.mine = FALSE]
  BY AbandonedPool DEF IInv, PoolFine, PoolTyped
<1>2. ASSUME NEW t \in Txs' PROVE Fits(t)'
  <2>1. PICK u \in Txs : t = [u EXCEPT !.mine = FALSE]
    BY <1>1
  <2>2. u \in TxType /\ Fits(u)
    BY DEF IInv, PoolFine, Txs
  <2>3. t.kind = u.kind /\ t.on = u.on /\ t.mine = FALSE
    BY <2>1, <2>2 DEF TxType
  <2>4. u.kind = "addStake" => u.on \in Staked /\ u.on \in lost'
    BY <2>2 DEF Fits
  <2> QED BY <2>2, <2>3, <2>4 DEF Fits, onchain, Secured
<1> QED BY <1>1, <1>2 DEF PoolFine, PoolTyped

\* The script is where it expects nothing of its step.
LEMMA ScriptFree ==
    ASSUME ScriptFine, code \subseteq code', script' \in ScriptType,
           script'.recorded \subseteq code', script'.base => "SmartAccount" \in code',
           script'.at \notin {"stake", "staking", "handover", "handing"}
    PROVE  ScriptFine'
BY DEF ScriptFine

LEMMA Continues ==
    ASSUME ScriptFine, NEW ok \in BOOLEAN, Continue(ok), code \subseteq code',
           ok => Step \in code'
    PROVE  ScriptFine'
<1>1. /\ script' \in ScriptType
      /\ script'.at \in {"step", "done", "stake", "failed"}
      /\ script'.at = "stake" => ok /\ Step \in Staked /\ script'.step = script.step
      /\ script'.base => script.base \/ (ok /\ Step = "SmartAccount")
      /\ \A n \in script'.recorded : n \in script.recorded \/ (ok /\ n = Step)
  BY ContinueIs DEF ScriptFine
<1>2. script'.recorded \subseteq code'
  BY <1>1 DEF ScriptFine
<1>3. script'.base => "SmartAccount" \in code'
  BY <1>1 DEF ScriptFine
<1>4. script'.at = "stake" => Step' \in Staked /\ Step' \in code'
  <2>1. script'.step = script.step => Step' = Step
    BY DEF Step
  <2> QED BY <1>1, <2>1
<1> QED BY <1>1, <1>2, <1>3, <1>4 DEF ScriptFine

-----------------------------------------------------------------------------
(* The steps of the scripts.                                               *)

LEMMA StartIInv ==
    ASSUME IInv, NEW configured \in BOOLEAN, MainDeploy(configured) \/ MainDeployDeployer
    PROVE  IInv'
<1>1. script.at \notin Awaits /\ onchain' = onchain /\ lost' = lost /\ pool' = pool
  BY DEF MainDeploy, MainDeployDeployer, onchain, Running, Idle, Awaits
<1>2. ChainFine' /\ PoolFine'
  BY <1>1, ChainStays, PoolStays DEF IInv
<1>3. /\ script' \in ScriptType /\ script'.base = FALSE /\ script'.recorded = {}
      /\ script'.at \in {"step", "failed", "ended", "fund", "create"}
  <2>1. CASE MainDeploy(configured)
    <3>1. \E at \in {"step", "failed"} : script' = Run(at)
      BY <2>1 DEF MainDeploy
    <3> QED BY <3>1, RunIs DEF Places, Idle
  <2>2. CASE MainDeployDeployer
    <3>1. \/ \E at \in {"ended", "create"} : script' = Run(at)
          \/ script' = [Run("fund") EXCEPT !.fundsNeeded = Fee - key.balance]
      BY <2>2 DEF MainDeployDeployer
    <3>2. Fee - key.balance \in Int
      BY DeploymentAssumption DEF IInv, ChainFine
    <3>3. CASE script' = [Run("fund") EXCEPT !.fundsNeeded = Fee - key.balance]
      BY <3>2, <3>3 DEF Run, ScriptType, Places, Owners
    <3> QED BY <3>1, <3>3, RunIs DEF Places, Idle
  <2> QED BY <2>1, <2>2
<1>4. ScriptFine'
  BY <1>1, <1>3 DEF ScriptFine, onchain
<1> QED BY <1>2, <1>4 DEF IInv

\* A step that only goes on.
LEMMA AfterIInv ==
    ASSUME IInv, script.at \notin Awaits, script' = After(script),
           onchain' = onchain, lost' = lost, pool' = pool
    PROVE  IInv'
<1>1. ChainFine' /\ PoolFine'
  BY ChainStays, PoolStays DEF IInv
<1>2. /\ script' \in ScriptType /\ script'.at \in {"step", "done"}
      /\ script'.base = script.base /\ script'.recorded = script.recorded
  BY AfterIs DEF IInv, ScriptFine
<1>3. ScriptFine'
  BY <1>2, ScriptFree DEF IInv, ScriptFine, onchain
<1> QED BY <1>1, <1>3 DEF IInv

\* One that throws.
LEMMA ThrowIInv ==
    ASSUME IInv, script.at \notin Awaits, Throw,
           onchain' = onchain, lost' = lost, pool' = pool
    PROVE  IInv'
<1>1. ChainFine' /\ PoolFine'
  BY ChainStays, PoolStays DEF IInv
<1>2. /\ script' \in ScriptType /\ script'.at = "failed"
      /\ script'.base = script.base /\ script'.recorded = script.recorded
  BY DEF IInv, ScriptFine, Throw, ScriptType, Places, Idle
<1>3. ScriptFine'
  BY <1>2, ScriptFree DEF IInv, ScriptFine, onchain
<1> QED BY <1>1, <1>3 DEF IInv

LEMMA TxIs ==
    ASSUME NEW kind \in Kinds, NEW on \in Things \cup Int
    PROVE  /\ Tx(kind, on) \in TxType /\ Tx(kind, on).kind = kind
           /\ Tx(kind, on).on = on /\ Tx(kind, on).mine = TRUE
BY DEF Tx, TxType

LEMMA DeployIInv ==
    ASSUME IInv, DeployGeneric
    PROVE  IInv'
<1>1. script.at = "step" /\ script.at \notin Awaits /\ onchain' = onchain /\ lost' = lost
  BY DEF DeployGeneric, onchain, Awaits
<1>2. CASE \E ok \in BOOLEAN : Continue(ok) /\ (ok => Step \in code) /\ pool' = pool
  <2>1. PICK ok \in BOOLEAN : Continue(ok) /\ (ok => Step \in code)
    BY <1>2
  <2>2. ScriptFine'
    BY <1>1, <2>1, Continues DEF IInv, onchain
  <2> QED BY <1>1, <1>2, <2>2, ChainStays, PoolStays DEF IInv
<1>3. CASE Goto("deploying") /\ Submit("signer", Tx("deploy", Step))
  <2>0. PICK tx \in TxType : tx = Tx("deploy", Step)
    BY TxIs, StepIn DEF IInv, ScriptFine, Kinds
  <2>1. tx \in TxType /\ tx.kind = "deploy" /\ tx.on = Step /\ tx.mine
    BY <2>0, TxIs, StepIn DEF IInv, ScriptFine, Kinds
  <2>2. /\ script' \in ScriptType /\ script'.at = "deploying" /\ script'.step = script.step
        /\ script'.base = script.base /\ script'.recorded = script.recorded
    BY <1>3, GotoIs DEF IInv, ScriptFine, Places, Awaits
  <2>3. Step = "SmartAccountFactory" => "SmartAccount" \in code
    <3>1. CanDeploy
      BY DEF DeployGeneric, Generic
    <3>2. Step = "SmartAccountFactory" => script.base
      BY <3>1 DEF CanDeploy
    <3> QED BY <3>2 DEF IInv, ScriptFine
  <2>4. Step' = Step
    BY <2>2 DEF Step
  <2>5. Fits(tx)'
    BY <1>1, <2>1, <2>2, <2>3, <2>4 DEF Fits, Awaited, onchain
  <2>6. PoolFine'
    BY <1>1, <1>3, <2>1, <2>5, <2>0, PoolGains DEF Senders
  <2>7. ScriptFine'
    BY <1>1, <2>2, ScriptFree DEF IInv, ScriptFine, onchain
  <2> QED BY <1>1, <2>6, <2>7, ChainStays DEF IInv
<1> QED BY <1>2, <1>3 DEF DeployGeneric

\* The script waits for what it has submitted about its step.
LEMMA StakeIInv ==
    ASSUME IInv, CheckStake
    PROVE  IInv'
<1>1. script.at = "stake" /\ script.at \notin Awaits /\ onchain' = onchain /\ lost' = lost
  BY DEF CheckStake, onchain, Awaits
<1>2. script \in ScriptType /\ Step \in Staked /\ Step \in code /\ Step \in Things
  BY <1>1, StepIn DEF IInv, ScriptFine
<1>3. CASE script' = After(script) /\ pool' = pool
  BY <1>1, <1>3, AfterIInv
<1>4. ASSUME NEW at \in {"staking", "handover"}, NEW who \in Owners,
             script' = [script EXCEPT !.at = at, !.contractOwner = who],
             at = "handover" => who = owner[Step] /\ who # "signer"
      PROVE  ScriptFine' /\ script'.at = at /\ Step' = Step
  <2>1. /\ script' \in ScriptType /\ script'.at = at /\ script'.step = script.step
        /\ script'.base = script.base /\ script'.recorded = script.recorded
        /\ script'.contractOwner = who
    BY <1>2, <1>4 DEF ScriptType, Places, Awaits
  <2>2. Step' = Step
    BY <2>1 DEF Step
  <2>3. at = "handover" => who = "configured"
    BY <1>2, <1>4 DEF IInv, ChainFine, Owners
  <2> QED BY <1>1, <1>2, <2>1, <2>2, <2>3 DEF IInv, ScriptFine, onchain
<1>5. CASE stakes[Step] <= 0 /\ owner[Step] = "signer"
           /\ Submit("signer", Tx("addStake", Step))
           /\ script' = [script EXCEPT !.at = "staking", !.contractOwner = "signer"]
  <2>0. PICK tx \in TxType : tx = Tx("addStake", Step)
    BY TxIs, <1>2 DEF Kinds
  <2>1. tx \in TxType /\ tx.kind = "addStake" /\ tx.on = Step /\ tx.mine
    BY <2>0, <1>2, TxIs DEF Kinds
  <2>2. ScriptFine' /\ script'.at = "staking" /\ Step' = Step
    BY <1>4, <1>5 DEF Owners
  <2>3. stakes'[Step] = 0
    BY <1>1, <1>2, <1>5 DEF IInv, ChainFine, onchain
  <2>4. Fits(tx)'
    BY <1>2, <2>1, <2>2, <2>3 DEF Fits, Awaited
  <2>5. PoolFine'
    BY <1>1, <1>5, <2>1, <2>4, <2>0, PoolGains DEF Senders
  <2> QED BY <1>1, <2>2, <2>5, ChainStays DEF IInv
<1>6. CASE owner[Step] # "signer" /\ pool' = pool
           /\ script' = [script EXCEPT !.at = "handover", !.contractOwner = owner[Step]]
  <2>1. owner[Step] \in Owners
    BY <1>2 DEF IInv, ChainFine
  <2>2. ScriptFine'
    BY <1>4, <1>6, <2>1
  <2> QED BY <1>1, <1>6, <2>2, ChainStays, PoolStays DEF IInv
<1>7. stakes[Step] > 0 \/ stakes[Step] <= 0
  BY <1>2 DEF IInv, ChainFine
<1> QED BY <1>3, <1>5, <1>6, <1>7 DEF CheckStake

LEMMA HandOverIInv ==
    ASSUME IInv, HandOver
    PROVE  IInv'
<1>1. script.at = "handover" /\ script.at \notin Awaits /\ onchain' = onchain /\ lost' = lost
  BY DEF HandOver, onchain, Awaits
<1>2. script \in ScriptType /\ Step \in Staked /\ Step \in code /\ Step \in Things
  BY <1>1, StepIn DEF IInv, ScriptFine
<1>3. CASE script' = After(script) /\ pool' = pool
  BY <1>1, <1>3, AfterIInv
<1>4. CASE script.contractOwner # "configured"
           /\ Submit("signer", Tx("transferOwnership", Step)) /\ Goto("handing")
  <2>0. PICK tx \in TxType : tx = Tx("transferOwnership", Step)
    BY TxIs, <1>2 DEF Kinds
  <2>1. tx \in TxType /\ tx.kind = "transferOwnership" /\ tx.on = Step /\ tx.mine
    BY <2>0, <1>2, TxIs DEF Kinds
  <2>2. /\ script' \in ScriptType /\ script'.at = "handing" /\ script'.step = script.step
        /\ script'.base = script.base /\ script'.recorded = script.recorded
    BY <1>2, <1>4, GotoIs DEF Places, Awaits
  <2>3. Step' = Step
    BY <2>2 DEF Step
  <2>4. Secured(Step)
    BY <1>1, <1>4 DEF IInv, ScriptFine
  <2>5. Fits(tx)'
    BY <1>1, <1>2, <2>1, <2>2, <2>4 DEF Fits, Awaited, Secured, onchain
  <2>6. PoolFine'
    BY <1>1, <1>4, <2>1, <2>5, <2>0, PoolGains DEF Senders
  <2>7. ScriptFine'
    BY <1>1, <1>2, <2>2, <2>3 DEF IInv, ScriptFine, onchain
  <2> QED BY <1>1, <2>6, <2>7, ChainStays DEF IInv
<1> QED BY <1>3, <1>4 DEF HandOver

LEMMA FundIInv ==
    ASSUME IInv, Fund
    PROVE  IInv'
<1>1. script.at = "fund" /\ script.at \notin Awaits /\ onchain' = onchain /\ lost' = lost
  BY DEF Fund, onchain, Awaits
<1>2. script \in ScriptType /\ script.fundsNeeded \in Int
  BY DEF IInv, ScriptFine, ScriptType
<1>3. CASE Throw /\ pool' = pool
  BY <1>1, <1>3, ThrowIInv
<1>4. CASE Submit("funding", Tx("fund", script.fundsNeeded)) /\ Goto("funding")
  <2>0. PICK tx \in TxType : tx = Tx("fund", script.fundsNeeded)
    BY TxIs, <1>2 DEF Kinds
  <2>1. tx \in TxType /\ tx.kind = "fund" /\ tx.on \in Int /\ tx.mine
    BY <2>0, <1>2, TxIs DEF Kinds
  <2>2. /\ script' \in ScriptType /\ script'.at = "funding"
        /\ script'.base = script.base /\ script'.recorded = script.recorded
    BY <1>2, <1>4, GotoIs DEF Places, Awaits
  <2>3. Fits(tx)'
    BY <2>1, <2>2 DEF Fits, Awaited
  <2>4. PoolFine'
    BY <1>1, <1>4, <2>1, <2>3, <2>0, PoolGains DEF Senders
  <2>5. ScriptFine'
    BY <1>1, <2>2, ScriptFree DEF IInv, ScriptFine, onchain
  <2> QED BY <1>1, <2>4, <2>5, ChainStays DEF IInv
<1> QED BY <1>3, <1>4 DEF Fund

LEMMA CreateIInv ==
    ASSUME IInv, Create
    PROVE  IInv'
<1>1. script.at = "create" /\ script.at \notin Awaits /\ onchain' = onchain /\ lost' = lost
  BY DEF Create, onchain, Awaits
<1>2. script \in ScriptType /\ key.balance \in Int
  BY DEF IInv, ScriptFine, ChainFine
<1>3. CASE Throw /\ pool' = pool
  BY <1>1, <1>3, ThrowIInv
<1>4. CASE Submit("key", Tx("create", key.balance)) /\ Goto("creating")
  <2>0. PICK tx \in TxType : tx = Tx("create", key.balance)
    BY TxIs, <1>2 DEF Kinds
  <2>1. tx \in TxType /\ tx.kind = "create" /\ tx.mine
    BY <2>0, <1>2, TxIs DEF Kinds
  <2>2. /\ script' \in ScriptType /\ script'.at = "creating"
        /\ script'.base = script.base /\ script'.recorded = script.recorded
    BY <1>2, <1>4, GotoIs DEF Places, Awaits
  <2>3. Fits(tx)'
    BY <2>1, <2>2 DEF Fits, Awaited
  <2>4. PoolFine'
    BY <1>1, <1>4, <2>1, <2>3, <2>0, PoolGains DEF Senders
  <2>5. ScriptFine'
    BY <1>1, <2>2, ScriptFree DEF IInv, ScriptFine, onchain
  <2> QED BY <1>1, <2>4, <2>5, ChainStays DEF IInv
<1> QED BY <1>3, <1>4 DEF Create

-----------------------------------------------------------------------------
(* The steps of the chain.                                                 *)

\* What a transaction may change, whoever waits for it.
LEMMA MinedChain ==
    ASSUME IInv, NEW s \in Senders, NEW ok \in BOOLEAN, Mined(s, ok),
           NEW tx \in TxType, tx = Head(pool[s]), Fits(tx)
    PROVE  /\ ChainFine' /\ code \subseteq code'
           /\ \A c \in Staked : Secured(c) => Secured(c)'
           /\ \A c \in Staked : stakes'[c] = stakes[c] \/ (tx.kind = "addStake" /\ tx.on = c)
           /\ \A c \in Staked : owner[c] = "signer" /\ owner'[c] = "configured" => stakes[c] > 0
<1>1. /\ ok => Succeeds(tx) /\ Effect(tx)
      /\ ~ok => UNCHANGED <<code, stakes, owner, deployers>>
      /\ Account(tx) /\ lost' = lost
  BY DEF Mined
<1>2. /\ owner \in [Staked -> Owners] /\ stakes \in [Staked -> Nat]
      /\ key \in [nonce : Int, balance : Int]
  BY DEF IInv, ChainFine
<1>3. key' \in [nonce : Int, balance : Int]
  <2>1. CASE tx.kind = "fund"
    BY <2>1, <1>1, <1>2 DEF Account, Fits
  <2>2. CASE tx.kind = "create"
    <3>1. PICK c \in Costs : key' = [nonce |-> key.nonce + 1, balance |-> key.balance - c]
      BY <2>2, <1>1 DEF Account
    <3>2. c \in Int
      BY DeploymentAssumption
    <3> QED BY <3>1, <3>2, <1>2
  <2>3. CASE tx.kind \notin {"fund", "create"}
    BY <2>3, <1>1, <1>2 DEF Account
  <2> QED BY <2>1, <2>2, <2>3
<1>4. CASE ok /\ tx.kind = "deploy"
  <2>1. /\ tx.on \notin code /\ code' = code \cup {tx.on} /\ stakes' = stakes
        /\ owner' = IF tx.on \in Staked THEN [owner EXCEPT ![tx.on] = "signer"] ELSE owner
    BY <1>1, <1>4 DEF Succeeds, Effect
  <2>2. tx.on = "SmartAccountFactory" => "SmartAccount" \in code
    BY <1>4 DEF Fits
  <2>3. owner' \in [Staked -> Owners] /\ \A c \in Staked : c # tx.on => owner'[c] = owner[c]
    BY <2>1, <1>2 DEF Owners
  <2>4. tx.on \in Staked => owner'[tx.on] = "signer" /\ owner[tx.on] = "nobody"
    BY <2>1, <1>2 DEF IInv, ChainFine
  <2>5. \A c \in Staked : c \in code' <=> owner'[c] # "nobody"
    BY <2>1, <2>3, <2>4 DEF IInv, ChainFine
  <2>6. \A c \in Staked : Secured(c) => Secured(c)'
    BY <2>1, <2>3, <2>4 DEF Secured
  <2>7. ChainFine'
    BY <1>1, <1>2, <1>3, <2>1, <2>2, <2>3, <2>5 DEF IInv, ChainFine
  <2> QED BY <2>1, <2>3, <2>4, <2>6, <2>7
<1>5. CASE ok /\ tx.kind = "addStake"
  <2>1. /\ owner[tx.on] = "signer" /\ code' = code /\ owner' = owner
        /\ stakes' = [stakes EXCEPT ![tx.on] = @ + 1]
    BY <1>1, <1>5 DEF Succeeds, Effect
  <2>2. tx.on \in Staked /\ (tx.on \notin lost => stakes[tx.on] = 0)
    BY <1>5 DEF Fits
  <2>3. /\ stakes' \in [Staked -> Nat] /\ stakes'[tx.on] = stakes[tx.on] + 1
        /\ \A c \in Staked : c # tx.on => stakes'[c] = stakes[c]
    BY <2>1, <2>2, <1>2
  <2>4. \A c \in Staked : Secured(c) => Secured(c)'
    BY <1>2, <2>1, <2>3 DEF Secured
  <2>5. \A c \in Staked : c \notin lost' => stakes'[c] <= 1
    BY <1>1, <1>2, <2>2, <2>3 DEF IInv, ChainFine
  <2>6. ChainFine'
    BY <1>1, <1>2, <1>3, <2>1, <2>3, <2>5 DEF IInv, ChainFine
  <2> QED BY <1>5, <2>1, <2>3, <2>4, <2>6
<1>6. CASE ok /\ tx.kind = "transferOwnership"
  <2>1. /\ owner[tx.on] = "signer" /\ code' = code /\ stakes' = stakes
        /\ owner' = [owner EXCEPT ![tx.on] = "configured"]
    BY <1>1, <1>6 DEF Succeeds, Effect
  <2>2. tx.on \in Staked /\ Secured(tx.on)
    BY <1>6 DEF Fits
  <2>3. /\ owner' \in [Staked -> Owners] /\ owner'[tx.on] = "configured"
        /\ \A c \in Staked : c # tx.on => owner'[c] = owner[c]
    BY <2>1, <2>2, <1>2 DEF Owners
  <2>4. \A c \in Staked : Secured(c) => Secured(c)'
    BY <2>1, <2>3 DEF Secured
  <2>5. \A c \in Staked : c \in code' <=> owner'[c] # "nobody"
    BY <2>1, <2>2, <2>3 DEF IInv, ChainFine
  <2>6. ChainFine'
    BY <1>1, <1>2, <1>3, <2>1, <2>3, <2>5 DEF IInv, ChainFine
  <2>7. stakes[tx.on] > 0
    BY <2>1, <2>2 DEF Secured
  <2> QED BY <2>1, <2>3, <2>4, <2>6, <2>7
<1>7. CASE ~ok \/ tx.kind \notin {"deploy", "addStake", "transferOwnership"}
  <2>1. code' = code /\ stakes' = stakes /\ owner' = owner
    BY <1>1, <1>7 DEF Effect
  <2>2. ChainFine'
    BY <1>1, <1>3, <2>1 DEF IInv, ChainFine
  <2> QED BY <2>1, <2>2 DEF Secured
<1> QED BY <1>4, <1>5, <1>6, <1>7

LEMMA MinedIInv ==
    ASSUME IInv, NEW s \in Senders, NEW ok \in BOOLEAN, Mined(s, ok)
    PROVE  IInv'
<1>1. PoolTyped /\ OneAwaited /\ \A t \in Txs : Fits(t)
  BY DEF IInv, PoolFine, PoolTyped
<1>2. /\ PoolTyped' /\ OneAwaited' /\ Txs' \subseteq Txs /\ Head(pool[s]) \in Txs
      /\ Head(pool[s]).mine => NoneAwaited'
  BY <1>1, MinedPool DEF Mined
<1>3. PICK tx \in Txs : tx = Head(pool[s])
  BY <1>2
<1>4. tx \in TxType /\ Fits(tx)
  BY <1>1 DEF Txs
<1>5. /\ ChainFine' /\ code \subseteq code'
      /\ \A c \in Staked : Secured(c) => Secured(c)'
      /\ \A c \in Staked : stakes'[c] = stakes[c] \/ (tx.kind = "addStake" /\ tx.on = c)
  BY <1>3, <1>4, MinedChain
<1>6. /\ tx.mine => Resume(ok)
      /\ ~tx.mine => script' = script
      /\ lost' = lost
      /\ ok => Succeeds(tx) /\ Effect(tx)
  BY <1>3 DEF Mined
<1>7. ASSUME NEW t \in Txs' PROVE Fits(t)'
  <2>1. Fits(t) /\ t \in TxType
    BY <1>1, <1>2 DEF Txs
  <2>2. t.mine => ~tx.mine /\ script' = script
    BY <1>2, <1>3, <1>6 DEF NoneAwaited
  <2>3. t.mine => Awaited(t)'
    <3>1. script' = script /\ Awaited(t) => Awaited(t)'
      BY DEF Awaited, Step
    <3> QED BY <2>1, <2>2, <3>1 DEF Fits
  <2>4. t.kind = "addStake" => /\ t.on \in Staked
                               /\ t.on \notin lost' => t.mine /\ stakes'[t.on] = 0
    <3> SUFFICES ASSUME t.kind = "addStake", t.on \notin lost
                 PROVE  t.mine /\ stakes'[t.on] = 0
      BY <1>6, <2>1 DEF Fits
    <3>1. t.mine /\ stakes[t.on] = 0 /\ t.on \in Staked
      BY <2>1 DEF Fits
    <3>2. ~tx.mine
      BY <2>2, <3>1
    <3>3. ~(tx.kind = "addStake" /\ tx.on = t.on)
      BY <1>4, <3>2 DEF Fits
    <3> QED BY <1>5, <3>1, <3>3
  <2> QED BY <1>5, <2>1, <2>3, <2>4 DEF Fits
<1>8. ScriptFine'
  <2>1. CASE ~tx.mine
    <3>1. script' = script /\ Step' = Step
      BY <2>1, <1>6 DEF Step
    <3> QED BY <3>1, <1>5 DEF IInv, ScriptFine
  <2>2. CASE tx.mine
    <3>1. Awaited(tx) /\ Resume(ok)
      BY <2>2, <1>4, <1>6 DEF Fits
    <3>2. CASE script.at = "deploying"
      <4>1. Continue(ok)
        BY <3>1, <3>2 DEF Resume
      <4>2. ok => Step \in code'
        BY <1>6, <3>1, <3>2 DEF Awaited, Effect
      <4> QED BY <1>5, <4>1, <4>2, Continues DEF IInv
    <3>3. CASE script.at # "deploying" /\ ~ok
      <4>1. Throw
        BY <3>1, <3>3 DEF Resume
      <4>2. /\ script' \in ScriptType /\ script'.at = "failed"
            /\ script'.base = script.base /\ script'.recorded = script.recorded
        BY <4>1 DEF IInv, ScriptFine, Throw, ScriptType, Places, Idle
      <4> QED BY <1>5, <4>2, ScriptFree DEF IInv, ScriptFine
    <3>4. CASE script.at = "staking" /\ ok
      <4>1. Goto("handover")
        BY <3>1, <3>4 DEF Resume
      <4>2. /\ script' \in ScriptType /\ script'.at = "handover" /\ script'.step = script.step
            /\ script'.base = script.base /\ script'.recorded = script.recorded
        BY <4>1, GotoIs DEF IInv, ScriptFine, Places
      <4>3. Step' = Step /\ Step \in Staked /\ Step \in code
        BY <3>4, <4>2 DEF Step, IInv, ScriptFine
      <4>4. tx.kind = "addStake" /\ tx.on = Step
        BY <3>1, <3>4 DEF Awaited
      <4>5. owner[Step] = "signer" /\ owner' = owner /\ stakes' = [stakes EXCEPT ![Step] = @ + 1]
        BY <1>6, <3>4, <4>4 DEF Succeeds, Effect
      <4>6. stakes'[Step] > 0 /\ owner'[Step] = "signer"
        BY <4>3, <4>5 DEF IInv, ChainFine
      <4>7. Secured(Step)'
        BY <4>3, <4>6 DEF Secured
      <4> QED BY <1>5, <4>2, <4>3, <4>7 DEF IInv, ScriptFine
    <3>5. CASE script.at = "handing" /\ ok
      <4>1. script' = After(script)
        BY <3>1, <3>5 DEF Resume
      <4>2. /\ script' \in ScriptType /\ script'.at \in {"step", "done"}
            /\ script'.base = script.base /\ script'.recorded = script.recorded
        BY <4>1, AfterIs DEF IInv, ScriptFine
      <4> QED BY <1>5, <4>2, ScriptFree DEF IInv, ScriptFine
    <3>6. CASE script.at \in {"funding", "creating"} /\ ok
      <4>1. \E at \in {"create", "ended"} : Goto(at)
        BY <3>1, <3>6 DEF Resume
      <4>2. /\ script' \in ScriptType /\ script'.at \in {"create", "ended"}
            /\ script'.base = script.base /\ script'.recorded = script.recorded
        BY <4>1, GotoIs DEF IInv, ScriptFine, Places, Idle
      <4> QED BY <1>5, <4>2, ScriptFree DEF IInv, ScriptFine
    <3>7. script.at \in Awaits
      BY <3>1 DEF Awaited, Awaits
    <3> QED BY <3>2, <3>3, <3>4, <3>5, <3>6, <3>7 DEF Awaits
  <2> QED BY <2>1, <2>2, <1>4 DEF TxType
<1> QED BY <1>2, <1>5, <1>7, <1>8 DEF IInv, PoolFine, PoolTyped

LEMMA GenericThrowsIInv ==
    ASSUME IInv, GenericThrows
    PROVE  IInv'
<1>1. /\ script.at \in {"step", "deploying"} /\ onchain' = onchain /\ lost' = lost
      /\ Continue(FALSE) /\ pool' = Abandoned
  BY DEF GenericThrows, onchain
<1>2. \A t \in Txs : t.mine /\ t.kind = "addStake" => t.on \in lost'
  BY <1>1 DEF IInv, PoolFine, Fits, Awaited
<1>3. PoolFine'
  BY <1>1, <1>2, PoolAbandoned
<1>4. ScriptFine'
  BY <1>1, Continues DEF IInv, onchain
<1> QED BY <1>1, <1>3, <1>4, ChainStays DEF IInv

LEMMA StoppedIInv ==
    ASSUME IInv, Stopped
    PROVE  IInv'
<1>1. onchain' = onchain /\ Throw /\ pool' = Abandoned /\ lost' = Cut
  BY DEF Stopped, onchain
<1>2. \A t \in Txs : t.mine /\ t.kind = "addStake" => t.on \in lost'
  <2> SUFFICES ASSUME NEW t \in Txs, t.mine, t.kind = "addStake"
               PROVE  t.on \in lost'
    OBVIOUS
  <2>1. t.on = Step
    BY DEF IInv, PoolFine, Fits, Awaited
  <2>2. PICK s \in Senders : \E k \in 1 .. Len(pool[s]) : t = pool[s][k]
    BY DEF Txs
  <2>3. PICK k \in 1 .. Len(pool[s]) : t = pool[s][k]
    BY <2>2
  <2>4. s \in DOMAIN pool /\ k \in DOMAIN pool[s]
    BY <2>3 DEF IInv, PoolFine
  <2>5. Pending("addStake")
    BY <2>3, <2>4 DEF Pending
  <2> QED BY <1>1, <2>1, <2>5 DEF Cut
<1>3. lost \subseteq lost'
  BY <1>1 DEF Cut
<1>4. PoolFine'
  BY <1>1, <1>2, <1>3, PoolAbandoned
<1>5. /\ script' \in ScriptType /\ script'.at = "failed"
      /\ script'.base = script.base /\ script'.recorded = script.recorded
  BY <1>1 DEF IInv, ScriptFine, Throw, ScriptType, Places, Idle
<1>6. ScriptFine'
  BY <1>1, <1>5, ScriptFree DEF IInv, ScriptFine, onchain
<1> QED BY <1>1, <1>3, <1>4, <1>6, ChainStays DEF IInv

LEMMA WithdrawIInv ==
    ASSUME IInv, NEW c \in Staked, WithdrawStake(c)
    PROVE  IInv'
<1>1. /\ owner[c] = "configured" /\ stakes' = [stakes EXCEPT ![c] = 0]
      /\ key' = key /\ code' = code /\ owner' = owner /\ pool' = pool
      /\ script' = script /\ lost' = lost
  BY DEF WithdrawStake
<1>2. /\ stakes' \in [Staked -> Nat] /\ stakes'[c] = 0
      /\ \A d \in Staked : d # c => stakes'[d] = stakes[d]
  BY <1>1 DEF IInv, ChainFine
<1>3. \A d \in Staked : Secured(d) => Secured(d)'
  BY <1>1, <1>2 DEF Secured
<1>4. ChainFine'
  BY <1>1, <1>2 DEF IInv, ChainFine
<1>5. Step' = Step
  BY <1>1 DEF Step
<1>6. ScriptFine'
  BY <1>1, <1>3, <1>5 DEF IInv, ScriptFine
<1>7. ASSUME NEW t \in Txs' PROVE Fits(t)'
  <2>1. Fits(t)
    BY <1>1 DEF IInv, PoolFine, Txs
  <2>2. Awaited(t) => Awaited(t)'
    BY <1>1, <1>5 DEF Awaited
  <2>3. t.on \in Staked /\ stakes[t.on] = 0 => stakes'[t.on] = 0
    BY <1>2
  <2> QED BY <1>1, <1>3, <2>1, <2>2, <2>3 DEF Fits
<1>8. OneAwaited'
  BY <1>1 DEF IInv, PoolFine, OneAwaited
<1> QED BY <1>1, <1>4, <1>6, <1>7, <1>8 DEF IInv, PoolFine

LEMMA NextIInv == IInv /\ [Next]_vars => IInv'
<1> SUFFICES ASSUME IInv, [Next]_vars PROVE IInv'
  OBVIOUS
<1>0. DOMAIN pool = Senders
  BY DEF IInv, PoolFine
<1>1. CASE UNCHANGED vars
  <2>1. Step' = Step
    BY <1>1 DEF vars, Step
  <2>2. \A t \in Txs : Fits(t)'
    BY <1>1, <2>1 DEF vars, IInv, PoolFine, Fits, Awaited, Secured
  <2> QED BY <1>1, <2>1, <2>2 DEF vars, IInv, ChainFine, ScriptFine, PoolFine, OneAwaited, Txs,
                                  Secured
<1>2. ASSUME NEW configured \in BOOLEAN, MainDeploy(configured)
      PROVE  IInv'
  BY <1>2, StartIInv
<1>3. CASE MainDeployDeployer
  BY <1>3, StartIInv
<1>4. CASE SkipEntryPoint
  BY <1>4, AfterIInv DEF SkipEntryPoint, onchain, Awaits
<1>5. CASE StepThrows
  BY <1>5, ThrowIInv DEF StepThrows, onchain, Awaits
<1>6. CASE DeployGeneric \/ CheckStake \/ HandOver \/ Create \/ Fund
  BY <1>6, DeployIInv, StakeIInv, HandOverIInv, CreateIInv, FundIInv
<1>7. ASSUME NEW s \in DOMAIN pool, NEW ok \in BOOLEAN, Mined(s, ok)
      PROVE  IInv'
  BY <1>0, <1>7, MinedIInv
<1>8. CASE GenericThrows \/ Stopped
  BY <1>8, GenericThrowsIInv, StoppedIInv
<1>9. ASSUME NEW c \in Staked, WithdrawStake(c)
      PROVE  IInv'
  BY <1>9, WithdrawIInv
<1> QED BY <1>1, <1>2, <1>3, <1>4, <1>5, <1>6, <1>7, <1>8, <1>9 DEF Next, ScriptStep

LEMMA Invariant == Spec => []IInv
<1>1. Init => IInv
  <2> SUFFICES ASSUME Init PROVE IInv
    OBVIOUS
  <2>1. Txs = {} /\ OneAwaited /\ pool \in [Senders -> Seq(TxType)]
    BY DEF Init, Senders, Txs, OneAwaited
  <2>2. PoolFine
    BY <2>1 DEF PoolFine
  <2>3. "never" \in Places
    BY DEF Places, Idle
  <2>4. /\ script \in ScriptType /\ script.at = "never"
        /\ script.base = FALSE /\ script.recorded = {}
    BY <2>3, RunIs DEF Init
  <2>5. ScriptFine
    BY <2>4 DEF ScriptFine
  <2>6. ChainFine
    BY DEF Init, ChainFine, Owners
  <2> QED BY <2>2, <2>5, <2>6 DEF IInv
<1> QED BY <1>1, NextIInv, PTL DEF Spec

-----------------------------------------------------------------------------
(* What follows.                                                           *)

\* However often the scripts are cut off and started again, with whatever is still
\* pending: what a script has recorded is there, and no factory is without the
\* implementation its constructor was given.  (deploy.ts:89, 92-95, 139, 146)
THEOREM AlwaysWired == Spec => []Wired
<1>1. IInv => Wired
  BY DEF IInv, ScriptFine, ChainFine, Wired
<1> QED BY <1>1, Invariant, PTL

\* A contract gets a second stake only after a run has ended while the first was on
\* its way: a transaction that adds a stake to any other contract is the one the
\* running script waits for, and finds none there.  (deploy.ts:157-162, 229-234)
THEOREM AlwaysStakedOnce == Spec => []StakedOnce
<1>1. IInv => StakedOnce
  BY DEF IInv, ChainFine, StakedOnce
<1> QED BY <1>1, Invariant, PTL

\* No contract is handed over without its stake: whatever fails, and whenever the
\* transactions that are pending are mined.  (deploy.ts:172-203, 244-268)
THEOREM AlwaysHandedOverStaked == Spec => HandedOverStaked
<1> DEFINE Handed == \A c \in Staked :
              owner[c] = "signer" /\ owner'[c] = "configured" => stakes[c] > 0
<1>1. IInv /\ [Next]_vars => [Handed]_vars
  <2> SUFFICES ASSUME IInv, Next PROVE Handed
    OBVIOUS
  <2>0. DOMAIN pool = Senders
    BY DEF IInv, PoolFine
  <2>1. ASSUME NEW s \in DOMAIN pool, NEW ok \in BOOLEAN, Mined(s, ok)
        PROVE  Handed
    <3>1. PICK tx \in Txs : tx = Head(pool[s])
      BY <2>0, <2>1, MinedPool DEF IInv, PoolFine, PoolTyped, Mined
    <3>2. tx \in TxType /\ Fits(tx)
      BY DEF IInv, PoolFine, Txs
    <3> QED BY <2>0, <2>1, <3>1, <3>2, MinedChain
  <2>2. CASE owner' = owner
    BY <2>2
  <2>3. CASE \E configured \in BOOLEAN : MainDeploy(configured)
    BY <2>2, <2>3 DEF MainDeploy, onchain
  <2>4. CASE MainDeployDeployer
    BY <2>2, <2>4 DEF MainDeployDeployer, onchain
  <2>5. CASE ScriptStep
    <3>1. CASE SkipEntryPoint \/ StepThrows
      BY <2>2, <3>1 DEF SkipEntryPoint, StepThrows, onchain
    <3>2. CASE DeployGeneric
      BY <2>2, <3>2 DEF DeployGeneric, onchain
    <3>3. CASE CheckStake
      BY <2>2, <3>3 DEF CheckStake, onchain
    <3>4. CASE HandOver \/ Create
      BY <2>2, <3>4 DEF HandOver, Create, onchain
    <3> QED BY <2>5, <3>1, <3>2, <3>3, <3>4 DEF ScriptStep
  <2>6. CASE Fund \/ GenericThrows \/ Stopped
    BY <2>2, <2>6 DEF Fund, GenericThrows, Stopped, onchain
  <2>7. CASE \E c \in Staked : WithdrawStake(c)
    BY <2>2, <2>7 DEF WithdrawStake
  <2> HIDE DEF Handed
  <2> QED BY <2>1, <2>3, <2>4, <2>5, <2>6, <2>7 DEF Next
<1> QED BY <1>1, Invariant, PTL DEF Spec, HandedOverStaked
=============================================================================
