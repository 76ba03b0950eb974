---------------------------- MODULE SignerProofs ----------------------------
(***************************************************************************)
(* What Signer promises, for any number of calls and of blocks, and for    *)
(* every index.                                                            *)
(***************************************************************************)
EXTENDS Signer, Sums

-----------------------------------------------------------------------------
(* Types.                                                                  *)

\* Operations on their way to the chain, and those that are still being made.
Ops    == [sender : Addresses, initCode : BOOLEAN, nonce : Nat \cup {None}, tx : Calls]
Drafts == [sender : Addresses \cup {None}, initCode : BOOLEAN,
           nonce : Nat \cup {None}, tx : Calls]

CallType == [at : Stages, asks : Addresses \cup {None}, seen : BOOLEAN \cup {None},
             op : Drafts \cup {None}]

Promises == {"none", "pending", "status 1", "status 0", "rejected"}

WaitType == [promise : Promises, currentBlock : 1 .. MaxBlock \cup {None},
             listening : BOOLEAN, timer : BOOLEAN, resolved : BOOLEAN,
             runs : SUBSET [event : chain.events, at : {"block", "receipt"}]]

ChainType == [block : 1 .. MaxBlock, code : SUBSET Addresses, nonce : [Addresses -> Nat],
              events : SUBSET [op : Ops, block : 1 .. MaxBlock,
                               outcome : Outcomes]]

\* What a call has, by where it waits.
Staged(c) ==
    /\ call[c].at \in {"code", "initCode"} => account # None
    /\ call[c].at = "initCode" => call[c].op \in Drafts
    /\ call[c].at \in {"fill", "sending", "sent"} => call[c].op \in Ops

Typed ==
    /\ account \in Addresses \cup {None} /\ isPhantom \in BOOLEAN
    /\ account = None => isPhantom
    /\ connecting \in Addresses \cup {None}
    /\ call \in [Calls -> CallType]
    /\ wait \in [Calls -> WaitType]
    /\ polled \in 0 .. MaxBlock \cup {None}
    /\ pool \in SUBSET Ops
    /\ chain \in ChainType
    /\ \A e \in chain.events : e.block <= chain.block
    /\ alone \in [Calls -> BOOLEAN] /\ raced \in BOOLEAN
    /\ \A c \in Calls : Staged(c)


LEMMA SomeBlock == MaxBlock \in Nat /\ 1 \in 1 .. MaxBlock
<1>1. MaxBlock \in Nat \ {0}
  BY SignerAssumption
<1> QED BY <1>1

\* Stages of one call, from a call that is typed and the account.
LEMMA StagedSame ==
    ASSUME \A d \in Calls : Staged(d), UNCHANGED call, account # None => account' # None
    PROVE  \A d \in Calls : Staged(d)'
BY DEF Staged, Ops, Drafts, Addresses

LEMMA SyncedType ==
    ASSUME Typed, NEW c \in Calls, NEW phantom \in BOOLEAN, NEW acc \in Addresses,
           Synced(c, phantom, acc)
    PROVE  /\ call' \in [Calls -> CallType]
           /\ call' = [call EXCEPT ![c] = call'[c]]
           /\ call'[c] = [at |-> IF phantom THEN "initCode" ELSE "fill",
                          asks |-> None, seen |-> None,
                          op |-> Op(IF phantom THEN None ELSE acc, phantom, None, c)]
           /\ call'[c].op \in Drafts
           /\ ~phantom => call'[c].op \in Ops
<1>1. call \in [Calls -> CallType]
  BY DEF Typed
<1> DEFINE op == Op(IF phantom THEN None ELSE acc, phantom, None, c)
           r == [at |-> IF phantom THEN "initCode" ELSE "fill",
                 asks |-> None, seen |-> None, op |-> op]
<1>2. op \in Drafts /\ (~phantom => op \in Ops)
  BY DEF Op, Drafts, Ops
<1>3. call' = [call EXCEPT ![c] = r]
  BY DEF Synced
<1> HIDE DEF op
<1>4. r \in CallType
  BY <1>2 DEF CallType, Stages
<1>5. call' \in [Calls -> CallType] /\ call'[c] = r
  BY <1>1, <1>3, <1>4
<1>6. call'[c].op = op
  BY <1>5
<1> QED BY <1>1, <1>2, <1>3, <1>5, <1>6 DEF op

LEMMA GotoType ==
    ASSUME Typed, NEW c \in Calls, NEW at \in Stages, Goto(c, at)
    PROVE  /\ call' \in [Calls -> CallType]
           /\ call' = [call EXCEPT ![c] = call'[c]]
           /\ call'[c] = [call[c] EXCEPT !.at = at]
           /\ call'[c].at = at /\ call'[c].op = call[c].op
           /\ call'[c].asks = call[c].asks /\ call'[c].seen = call[c].seen
<1>1. call \in [Calls -> CallType] /\ call[c] \in CallType
  BY DEF Typed
<1>2. call' = [call EXCEPT ![c] = [call[c] EXCEPT !.at = at]]
  BY <1>1 DEF Goto
<1>3. [call[c] EXCEPT !.at = at] \in CallType
  BY <1>1 DEF CallType
<1>4. /\ [call[c] EXCEPT !.at = at].at = at
      /\ [call[c] EXCEPT !.at = at].op = call[c].op
      /\ [call[c] EXCEPT !.at = at].asks = call[c].asks
      /\ [call[c] EXCEPT !.at = at].seen = call[c].seen
  BY <1>1 DEF CallType
<1> QED BY <1>1, <1>2, <1>3, <1>4

LEMMA AskType ==
    ASSUME Typed, NEW c \in Calls, NEW a \in Addresses,
           call' = [call EXCEPT ![c].at = "code", ![c].asks = a]
    PROVE  /\ call' \in [Calls -> CallType]
           /\ call' = [call EXCEPT ![c] = call'[c]]
           /\ call'[c].at = "code" /\ call'[c].asks = a
           /\ call'[c].seen = call[c].seen
<1>1. call \in [Calls -> CallType] /\ call[c] \in CallType
  BY DEF Typed
<1> DEFINE r == [call[c] EXCEPT !.at = "code", !.asks = a]
<1>2. call' = [call EXCEPT ![c] = r]
  BY <1>1
<1>3. r \in CallType /\ r.at = "code" /\ r.asks = a /\ r.seen = call[c].seen
  BY <1>1 DEF CallType, Stages
<1> QED BY <1>1, <1>2, <1>3

\* One call goes on, and what the stages ask of it holds.
LEMMA StagedStep ==
    ASSUME Typed, NEW c \in Calls, call' = [call EXCEPT ![c] = call'[c]],
           account # None => account' # None, Staged(c)'
    PROVE  \A d \in Calls : Staged(d)'
<1>1. \A d \in Calls : d # c => call'[d] = call[d]
  BY DEF Typed
<1> QED BY <1>1 DEF Typed, Staged, Ops, Drafts, Addresses

LEMMA OverlapType ==
    ASSUME NEW c \in Calls, Typed, Overlap(c)
    PROVE  alone' \in [Calls -> BOOLEAN] /\ raced' \in BOOLEAN
BY DEF Typed, Overlap, Busy, UnderWay

LEMMA SendTransactionTyped ==
    ASSUME Typed, NEW c \in Calls, SendTransaction(c)
    PROVE  Typed'
<1>1. alone' \in [Calls -> BOOLEAN] /\ raced' \in BOOLEAN
  BY OverlapType DEF SendTransaction
<1>2. UNCHANGED <<account, isPhantom, connecting, wait, polled, pool, chain>>
  BY DEF SendTransaction, signer
<1>3. call' \in [Calls -> CallType] /\ \A d \in Calls : Staged(d)'
  <2>1. CASE account = None
    <3>1. Goto(c, "address") /\ "address" \in Stages
      BY <2>1 DEF SendTransaction, Stages
    <3>2. Staged(c)'
      BY <3>1, GotoType DEF Staged
    <3> QED BY <3>1, <3>2, <1>2, GotoType, StagedStep
  <2>2. CASE account # None /\ isPhantom
    <3>1. account \in Addresses /\ call' = [call EXCEPT ![c].at = "code", ![c].asks = account]
      BY <2>2 DEF SendTransaction, Typed
    <3>2. Staged(c)'
      BY <3>1, <2>2, <1>2, AskType DEF Staged
    <3> QED BY <3>1, <3>2, <1>2, AskType, StagedStep
  <2>3. CASE account # None /\ ~isPhantom
    <3>1. account \in Addresses /\ Synced(c, FALSE, account) /\ FALSE \in BOOLEAN
      BY <2>3 DEF SendTransaction, Typed
    <3>2. Staged(c)'
      BY <3>1, <2>3, <1>2, SyncedType DEF Staged
    <3> QED BY <3>1, <3>2, <1>2, SyncedType, StagedStep
  <2> QED BY <2>1, <2>2, <2>3
<1> QED BY <1>1, <1>2, <1>3 DEF Typed, WaitType, ChainType

LEMMA DeploymentAddressTyped ==
    ASSUME Typed, NEW c \in Calls, DeploymentAddress(c)
    PROVE  Typed'
<1>1. UNCHANGED <<isPhantom, connecting, wait, polled, pool, chain, alone, raced>>
  BY DEF DeploymentAddress, history
<1>2. account' = Predicted /\ Predicted \in Addresses /\ account' # None
  BY SignerAssumption DEF DeploymentAddress, Addresses
<1>3. call' \in [Calls -> CallType] /\ \A d \in Calls : Staged(d)'
  <2>1. CASE isPhantom
    <3>1. call' = [call EXCEPT ![c].at = "code", ![c].asks = Predicted]
      BY <2>1 DEF DeploymentAddress
    <3>2. Staged(c)'
      BY <3>1, <1>2, AskType DEF Staged
    <3> QED BY <3>1, <3>2, <1>2, AskType, StagedStep
  <2>2. CASE ~isPhantom
    <3>1. Synced(c, FALSE, Predicted) /\ FALSE \in BOOLEAN
      BY <2>2 DEF DeploymentAddress
    <3>2. Staged(c)'
      BY <3>1, <1>2, SyncedType DEF Staged
    <3> QED BY <3>1, <3>2, <1>2, SyncedType, StagedStep
  <2> QED BY <2>1, <2>2
<1> QED BY <1>1, <1>2, <1>3 DEF Typed, WaitType, ChainType

LEMMA CodeAnsweredTyped ==
    ASSUME Typed, NEW c \in Calls, CodeAnswered(c)
    PROVE  /\ Typed'
           /\ call' = [call EXCEPT ![c] = call'[c]]
           /\ call'[c].at = "code" /\ call'[c].asks = call[c].asks
           /\ call'[c].seen = (call[c].asks \notin chain.code)
<1>1. UNCHANGED <<account, isPhantom, connecting, wait, polled, pool, chain, alone, raced>>
  BY DEF CodeAnswered, history, signer
<1>2. call \in [Calls -> CallType] /\ call[c] \in CallType /\ call[c].at = "code"
  BY DEF Typed, CodeAnswered
<1> DEFINE r == [call[c] EXCEPT !.seen = call[c].asks \notin chain.code]
<1>3. call' = [call EXCEPT ![c] = r]
  BY <1>2 DEF CodeAnswered
<1>4. /\ r \in CallType /\ r.at = "code" /\ r.asks = call[c].asks
      /\ r.seen = (call[c].asks \notin chain.code)
  BY <1>2 DEF CallType
<1>5. call' \in [Calls -> CallType] /\ call'[c] = r
  BY <1>2, <1>3, <1>4
<1>6. Staged(c)'
  BY <1>1, <1>2, <1>4, <1>5 DEF Typed, Staged
<1>7. \A d \in Calls : Staged(d)'
  BY <1>1, <1>3, <1>5, <1>6, StagedStep
<1>8. Typed'
  BY <1>1, <1>5, <1>7 DEF Typed, WaitType, ChainType
<1> QED BY <1>3, <1>4, <1>5, <1>8

LEMMA CodeArrivesTyped ==
    ASSUME Typed, NEW c \in Calls, CodeArrives(c)
    PROVE  Typed'
<1>1. UNCHANGED <<account, connecting, wait, polled, pool, chain, alone, raced>>
  BY DEF CodeArrives, history
<1>2. /\ isPhantom' = call[c].seen /\ call[c].seen \in BOOLEAN
      /\ account \in Addresses /\ account # None
      /\ Synced(c, call[c].seen, account)
  BY DEF CodeArrives, Typed, CallType, Staged
<1>3. Staged(c)'
  <2>1. CASE call[c].seen
    <3>1. call'[c].op \in Drafts
      BY <1>2, SyncedType
    <3>2. call'[c].at = "initCode"
      <4>1. call'[c] = [at |-> IF call[c].seen THEN "initCode" ELSE "fill",
                        asks |-> None, seen |-> None,
                        op |-> Op(IF call[c].seen THEN None ELSE account,
                                  call[c].seen, None, c)]
        BY <1>2, SyncedType
      <4> QED BY <4>1, <2>1
    <3> QED BY <1>1, <1>2, <3>1, <3>2 DEF Staged
  <2>2. CASE ~call[c].seen
    BY <1>1, <1>2, <2>2, SyncedType DEF Staged
  <2> QED BY <2>1, <2>2
<1>4. call' \in [Calls -> CallType] /\ \A d \in Calls : Staged(d)'
  BY <1>1, <1>2, <1>3, SyncedType, StagedStep
<1> QED BY <1>1, <1>2, <1>4 DEF Typed, WaitType, ChainType

LEMMA ConnectAccountAddressTyped ==
    ASSUME Typed, NEW a \in Addresses, ConnectAccountAddress(a)
    PROVE  Typed'
<1>1. UNCHANGED <<account, isPhantom, call, wait, polled, pool, chain>>
  BY DEF ConnectAccountAddress
<1>2. alone' \in [Calls -> BOOLEAN] /\ raced' \in BOOLEAN /\ connecting' \in Addresses
  BY DEF ConnectAccountAddress, Typed, Busy, UnderWay
<1>3. \A d \in Calls : Staged(d)'
  BY <1>1, StagedSame DEF Typed
<1> QED BY <1>1, <1>2, <1>3 DEF Typed, WaitType, ChainType

LEMMA ConnectedTyped ==
    ASSUME Typed, Connected
    PROVE  Typed'
<1>1. UNCHANGED <<call, wait, polled, pool, chain, alone, raced>> /\ connecting' = None
  BY DEF Connected, history
<1>2. /\ account' \in Addresses \cup {None} /\ isPhantom' \in BOOLEAN
      /\ account' = None => isPhantom'
      /\ account # None => account' # None
  BY SignerAssumption DEF Connected, Typed, Addresses
<1>3. \A d \in Calls : Staged(d)'
  BY <1>1, <1>2, StagedSame DEF Typed
<1> QED BY <1>1, <1>2, <1>3 DEF Typed, WaitType, ChainType

LEMMA InitCodeTyped ==
    ASSUME Typed, NEW c \in Calls, InitCode(c)
    PROVE  /\ Typed'
           /\ call' = [call EXCEPT ![c] = call'[c]]
           /\ call'[c].at = "fill" /\ call'[c].op.initCode = call[c].op.initCode
           /\ call'[c].op.sender = account
<1>1. UNCHANGED <<account, isPhantom, connecting, wait, polled, pool, chain, alone, raced>>
  BY DEF InitCode, history, signer
<1>2. /\ call \in [Calls -> CallType] /\ call[c] \in CallType /\ call[c].op \in Drafts
      /\ account \in Addresses
  BY DEF Typed, InitCode, Staged
<1> DEFINE op == [call[c].op EXCEPT !.sender = account]
           r  == [call[c] EXCEPT !.at = "fill", !.op = op]
<1>3. /\ op \in Ops /\ op \in Drafts /\ op.initCode = call[c].op.initCode
      /\ op.sender = account
  BY <1>2 DEF Drafts, Ops
<1>4. call' = [call EXCEPT ![c] = r]
  BY <1>2 DEF InitCode
<1> HIDE DEF op
<1>5. r \in CallType /\ r.at = "fill" /\ r.op = op
  BY <1>2, <1>3 DEF CallType, Stages
<1>6. call' \in [Calls -> CallType] /\ call'[c] = r
  BY <1>2, <1>4, <1>5
<1>7. Staged(c)'
  BY <1>3, <1>5, <1>6 DEF Staged
<1>8. \A d \in Calls : Staged(d)'
  BY <1>1, <1>4, <1>6, <1>7, StagedStep
<1>9. Typed'
  BY <1>1, <1>6, <1>8 DEF Typed, WaitType, ChainType
<1> QED BY <1>3, <1>4, <1>5, <1>6, <1>9

\* One wait changes.
LEMMA WaitStep ==
    ASSUME Typed, NEW c \in Calls, NEW w \in WaitType,
           wait' = [wait EXCEPT ![c] = w], UNCHANGED chain
    PROVE  /\ wait' \in [Calls -> WaitType'] /\ wait'[c] = w
           /\ \A d \in Calls : d # c => wait'[d] = wait[d]
BY DEF Typed, WaitType

LEMMA UserEventResponseType ==
    ASSUME Typed, NEW c \in Calls, UserEventResponse(c), UNCHANGED chain
    PROVE  /\ wait' \in [Calls -> WaitType']
           /\ wait' = [wait EXCEPT ![c] = wait'[c]]
           /\ wait'[c].promise = "pending" /\ wait'[c].runs = wait[c].runs
           /\ polled' \in 0 .. MaxBlock \cup {None}
<1>1. wait \in [Calls -> WaitType] /\ wait[c] \in WaitType
  BY DEF Typed
<1> DEFINE w == [wait[c] EXCEPT !.promise = "pending", !.listening = TRUE, !.timer = TRUE]
<1>2. wait' = [wait EXCEPT ![c] = w]
  BY <1>1 DEF UserEventResponse
<1>3. w \in WaitType /\ w.promise = "pending" /\ w.runs = wait[c].runs
  BY <1>1 DEF WaitType, Promises
<1>4. polled' \in 0 .. MaxBlock \cup {None}
  BY DEF UserEventResponse, Typed
<1> QED BY <1>2, <1>3, <1>4, WaitStep

LEMMA FillAndSignTyped ==
    ASSUME Typed, NEW c \in Calls, FillAndSign(c)
    PROVE  /\ Typed'
           /\ call' = [call EXCEPT ![c] = call'[c]]
           /\ call'[c].at \in {"sending", "failed"}
           /\ call'[c].at = "sending" =>
                /\ UserEventResponse(c)
                /\ call'[c].op = [call[c].op EXCEPT !.nonce =
                      IF call[c].op.initCode THEN index
                      ELSE chain.nonce[call[c].op.sender]]
           /\ call'[c].at = "failed" => UNCHANGED wait
<1>1. UNCHANGED <<account, isPhantom, connecting, pool, chain, alone, raced>>
  BY DEF FillAndSign, history, signer
<1>2. /\ call \in [Calls -> CallType] /\ call[c] \in CallType /\ call[c].op \in Ops
      /\ wait \in [Calls -> WaitType] /\ chain \in ChainType
  BY DEF Typed, FillAndSign, Staged
<1> DEFINE op == call[c].op
           n  == IF op.initCode THEN index ELSE chain.nonce[op.sender]
           r  == [call[c] EXCEPT !.at = "sending", !.op = [op EXCEPT !.nonce = n]]
<1>3. CASE op.initCode \/ op.sender \in chain.code
  <2>1. n \in Nat
    BY <1>2, SignerAssumption DEF ChainType, Ops
  <2>2. call' = [call EXCEPT ![c] = r] /\ UserEventResponse(c)
    <3>1. /\ UserEventResponse(c)
          /\ call' = [call EXCEPT ![c].at = "sending", ![c].op.nonce = n]
      BY <1>3 DEF FillAndSign
    <3> HIDE DEF n
    <3>2. [call EXCEPT ![c].at = "sending", ![c].op.nonce = n] = [call EXCEPT ![c] = r]
      BY <1>2 DEF CallType
    <3> QED BY <3>1, <3>2
  <2> HIDE DEF n
  <2>3. [op EXCEPT !.nonce = n] \in Ops /\ [op EXCEPT !.nonce = n] \in Drafts
    BY <1>2, <2>1 DEF Ops, Drafts
  <2>4. r \in CallType /\ r.at = "sending" /\ r.op = [op EXCEPT !.nonce = n]
    BY <1>2, <2>3 DEF CallType, Stages
  <2>5. call' \in [Calls -> CallType] /\ call'[c] = r
    BY <1>2, <2>2, <2>4
  <2>6. Staged(c)'
    BY <2>3, <2>4, <2>5 DEF Staged
  <2>7. \A d \in Calls : Staged(d)'
    BY <1>1, <2>2, <2>5, <2>6, StagedStep
  <2>8. Typed'
    BY <1>1, <2>2, <2>5, <2>7, UserEventResponseType DEF Typed, ChainType
  <2> QED BY <2>2, <2>4, <2>5, <2>8 DEF n
<1>4. CASE ~(op.initCode \/ op.sender \in chain.code)
  <2>1. Goto(c, "failed") /\ UNCHANGED <<wait, polled>> /\ "failed" \in Stages
    BY <1>4 DEF FillAndSign, Stages
  <2>2. Staged(c)'
    BY <2>1, GotoType DEF Staged
  <2>3. \A d \in Calls : Staged(d)'
    BY <1>1, <2>1, <2>2, GotoType, StagedStep
  <2>4. Typed'
    BY <1>1, <2>1, <2>3, GotoType DEF Typed, WaitType, ChainType
  <2>5. call' = [call EXCEPT ![c] = call'[c]] /\ call'[c].at = "failed"
    BY <2>1, GotoType
  <2> QED BY <2>1, <2>4, <2>5
<1> QED BY <1>3, <1>4

LEMMA SendUserOpTyped ==
    ASSUME Typed, NEW c \in Calls, SendUserOp(c) \/ Refused(c)
    PROVE  Typed'
<1>1. UNCHANGED <<account, isPhantom, connecting, wait, polled, chain, raced>>
  BY DEF SendUserOp, Refused, signer
<1>2. alone' \in [Calls -> BOOLEAN] /\ pool' \in SUBSET Ops
  BY DEF SendUserOp, Refused, Typed, Staged
<1>3. PICK at \in {"sent", "failed"} : Goto(c, at)
  BY DEF SendUserOp, Refused
<1>4. at \in Stages /\ call[c].at = "sending"
  BY DEF Stages, SendUserOp, Refused
<1>5. call[c].op \in Ops
  BY <1>4 DEF Typed, Staged
<1>6. Staged(c)'
  BY <1>3, <1>4, <1>5, GotoType DEF Staged
<1>7. call' \in [Calls -> CallType] /\ \A d \in Calls : Staged(d)'
  BY <1>1, <1>3, <1>4, <1>6, GotoType, StagedStep
<1> QED BY <1>1, <1>2, <1>7 DEF Typed, WaitType, ChainType

\* Only waits change.
LEMMA WaitsTyped ==
    ASSUME Typed, UNCHANGED <<signer, call, pool, chain, history>>,
           wait' \in [Calls -> WaitType'], polled' \in 0 .. MaxBlock \cup {None}
    PROVE  Typed'
<1>1. UNCHANGED <<account, isPhantom, connecting, call, pool, chain, alone, raced>>
  BY DEF signer, history
<1>2. \A d \in Calls : Staged(d)'
  BY <1>1, StagedSame DEF Typed
<1> QED BY <1>1, <1>2 DEF Typed, ChainType

LEMMA NotifiedType ==
    ASSUME NEW w \in WaitType, NEW events \in SUBSET chain.events
    PROVE  /\ Notified(w, events) \in WaitType
           /\ Notified(w, events).promise = w.promise
           /\ Notified(w, events).listening = w.listening
           /\ Notified(w, events).timer = w.timer
           /\ \A run \in Notified(w, events).runs : run \in w.runs \/ run.at = "block"
<1> DEFINE new == {[event |-> e, at |-> "block"] : e \in events}
           v   == [w EXCEPT !.runs = @ \cup new]
<1>1. new \subseteq [event : chain.events, at : {"block", "receipt"}]
  OBVIOUS
<1>2. \A run \in new : run.at = "block"
  OBVIOUS
<1> HIDE DEF new
<1>3. /\ v \in WaitType /\ v.promise = w.promise /\ v.listening = w.listening
      /\ v.timer = w.timer /\ v.runs = w.runs \cup new
  BY <1>1 DEF WaitType
<1>4. Notified(w, events) = IF w.resolved THEN w ELSE v
  BY DEF Notified, new
<1> QED BY <1>2, <1>3, <1>4

LEMMA BlockNumberTyped ==
    ASSUME Typed, NEW c \in Calls, BlockNumber(c)
    PROVE  /\ Typed'
           /\ \A d \in Calls : /\ wait'[d].promise = wait[d].promise
                               /\ wait'[d].runs = wait[d].runs
                               /\ wait'[d].listening = wait[d].listening
                               /\ wait'[d].timer = wait[d].timer
<1>1. wait \in [Calls -> WaitType] /\ wait[c] \in WaitType /\ chain.block \in 1 .. MaxBlock
  BY DEF Typed, ChainType
<1> DEFINE w == [wait[c] EXCEPT !.currentBlock = chain.block]
<1>2. wait' = [wait EXCEPT ![c] = w] /\ UNCHANGED <<signer, call, polled, pool, chain, history>>
  BY <1>1 DEF BlockNumber
<1>3. /\ w \in WaitType /\ w.promise = wait[c].promise /\ w.runs = wait[c].runs
      /\ w.listening = wait[c].listening /\ w.timer = wait[c].timer
  BY <1>1 DEF WaitType
<1>4. polled' \in 0 .. MaxBlock \cup {None}
  BY <1>2 DEF Typed
<1>5. Typed'
  BY <1>2, <1>3, <1>4, WaitStep, WaitsTyped
<1> QED BY <1>1, <1>2, <1>3, <1>5

\* The largest of some blocks.
LEMMA MaxIn ==
    ASSUME NEW n \in Nat, NEW S \in SUBSET (1 .. n), S # {}
    PROVE  Max(S) \in S
<1> DEFINE T == {n - k : k \in S}
<1>1. T \in SUBSET Nat /\ T # {}
  <2>1. \A k \in S : k \in Int /\ n - k \in Nat
    OBVIOUS
  <2> QED BY <2>1
<1>2. PICK m \in T : \A k \in T : m <= k
  BY <1>1, LeastOf
<1>3. PICK x \in S : m = n - x
  OBVIOUS
<1>4. \A y \in S : x >= y
  <2> TAKE y \in S
  <2>1. n - y \in T
    OBVIOUS
  <2>2. n - x <= n - y
    BY <1>2, <1>3, <2>1
  <2> QED BY <2>2
<1> QED BY <1>4 DEF Max

LEMMA PollTyped ==
    ASSUME Typed, Poll
    PROVE  /\ Typed'
           /\ \A d \in Calls :
                 /\ wait'[d].promise = wait[d].promise
                 /\ wait'[d].listening = wait[d].listening
                 /\ wait'[d].timer = wait[d].timer
                 /\ ~wait[d].listening => wait'[d].runs = wait[d].runs
                 /\ \A run \in wait'[d].runs : run \in wait[d].runs \/ run.at = "block"
<1> DEFINE first == IF polled = None THEN chain.block ELSE polled + 1
           found == {e \in chain.events : e.block >= first}
<1>1. /\ wait \in [Calls -> WaitType] /\ chain \in ChainType
      /\ UNCHANGED <<signer, call, pool, chain, history>>
  BY DEF Typed, Poll
<1>2. /\ wait' = [c \in Calls |-> IF c \in Listening THEN Notified(wait[c], found)
                                  ELSE wait[c]]
      /\ polled' = IF found = {} THEN chain.block - 1
                   ELSE Max({e.block : e \in found})
  BY DEF Poll
<1>3. found \in SUBSET chain.events
  OBVIOUS
<1> HIDE DEF found
<1>4. polled' \in 0 .. MaxBlock \cup {None}
  <2>1. MaxBlock \in Nat
    BY SomeBlock
  <2>2. CASE found = {}
    <3>1. chain.block \in 1 .. MaxBlock
      BY <1>1 DEF ChainType
    <3>2. chain.block - 1 \in 0 .. MaxBlock
      BY <2>1, <3>1
    <3> QED BY <1>2, <2>2, <3>2
  <2>3. CASE found # {}
    <3>1. {e.block : e \in found} \subseteq 1 .. MaxBlock /\ {e.block : e \in found} # {}
      BY <1>1, <1>3, <2>3 DEF ChainType
    <3>2. Max({e.block : e \in found}) \in 1 .. MaxBlock
      BY <2>1, <3>1, MaxIn
    <3>3. polled' = Max({e.block : e \in found})
      BY <1>2, <2>3
    <3> QED BY <2>1, <3>2, <3>3
  <2> QED BY <2>2, <2>3
<1>5. ASSUME NEW d \in Calls
      PROVE  /\ wait'[d] \in WaitType
             /\ wait'[d].promise = wait[d].promise
             /\ wait'[d].listening = wait[d].listening
             /\ wait'[d].timer = wait[d].timer
             /\ ~wait[d].listening => wait'[d].runs = wait[d].runs
             /\ \A run \in wait'[d].runs : run \in wait[d].runs \/ run.at = "block"
  <2>1. wait[d] \in WaitType
    BY <1>1
  <2>2. CASE wait[d].listening
    <3>1. wait'[d] = Notified(wait[d], found)
      BY <1>2, <2>2 DEF Listening
    <3> DEFINE w == Notified(wait[d], found)
    <3>2. /\ w \in WaitType /\ w.promise = wait[d].promise
          /\ w.listening = wait[d].listening /\ w.timer = wait[d].timer
          /\ \A run \in w.runs : run \in wait[d].runs \/ run.at = "block"
      BY <1>3, <2>1, NotifiedType
    <3>3. wait'[d] = w
      BY <3>1
    <3> HIDE DEF w
    <3> QED BY <2>2, <3>2, <3>3
  <2>3. CASE ~wait[d].listening
    BY <1>2, <2>1, <2>3 DEF Listening
  <2> QED BY <2>2, <2>3
<1>6. wait' \in [Calls -> WaitType']
  BY <1>1, <1>2, <1>5 DEF WaitType
<1>7. Typed'
  BY <1>1, <1>4, <1>6, WaitsTyped
<1> QED BY <1>5, <1>7

LEMMA OneShotTyped ==
    ASSUME Typed, NEW c \in Calls, OneShot(c)
    PROVE  /\ Typed'
           /\ \A d \in Calls :
                 /\ wait'[d].promise = wait[d].promise
                 /\ wait'[d].listening = wait[d].listening
                 /\ wait'[d].timer => wait[d].timer
                 /\ ~wait[d].timer => wait'[d].runs = wait[d].runs
                 /\ \A run \in wait'[d].runs : run \in wait[d].runs \/ run.at = "block"
<1> DEFINE found == {e \in chain.events : e.op = call[c].op}
           v == [wait[c] EXCEPT !.timer = FALSE]
           w == Notified(v, found)
<1>1. /\ wait \in [Calls -> WaitType] /\ wait[c] \in WaitType /\ wait[c].timer
      /\ UNCHANGED <<signer, call, polled, pool, chain, history>>
  BY DEF Typed, OneShot
<1>2. wait' = [wait EXCEPT ![c] = w]
  BY <1>1 DEF OneShot
<1>3. /\ v \in WaitType /\ v.promise = wait[c].promise /\ v.runs = wait[c].runs
      /\ v.listening = wait[c].listening /\ v.timer = FALSE
  BY <1>1 DEF WaitType
<1>4. found \in SUBSET chain.events
  OBVIOUS
<1> HIDE DEF found, v
<1>5. /\ w \in WaitType /\ w.promise = wait[c].promise
      /\ w.listening = wait[c].listening /\ w.timer = FALSE
      /\ \A run \in w.runs : run \in wait[c].runs \/ run.at = "block"
  BY <1>3, <1>4, NotifiedType
<1> HIDE DEF w
<1>6. polled' \in 0 .. MaxBlock \cup {None}
  BY <1>1 DEF Typed
<1>7. Typed'
  BY <1>1, <1>2, <1>5, <1>6, WaitStep, WaitsTyped
<1>8. wait'[c] = w /\ \A d \in Calls : d # c => wait'[d] = wait[d]
  BY <1>1, <1>2
<1> QED BY <1>1, <1>5, <1>7, <1>8

LEMMA LooksAtTyped ==
    ASSUME Typed, NEW c \in Calls, NEW run \in wait[c].runs, LooksAt(c, run)
    PROVE  /\ Typed'
           /\ \A d \in Calls :
                 /\ wait'[d].promise = wait[d].promise
                 /\ wait'[d].listening = wait[d].listening
                 /\ wait'[d].timer = wait[d].timer
                 /\ wait[d].runs = {} => wait'[d].runs = {}
                 /\ \A r \in wait'[d].runs :
                       r \in wait[d].runs \/ r.event.op = call[d].op
<1> DEFINE looked == IF IsOurs(c, run.event) THEN {[run EXCEPT !.at = "receipt"]} ELSE {}
           w == [wait[c] EXCEPT !.runs = (@ \ {run}) \cup looked]
<1>1. /\ wait \in [Calls -> WaitType] /\ wait[c] \in WaitType
      /\ UNCHANGED <<signer, call, polled, pool, chain, history>>
  BY DEF Typed, LooksAt
<1>2. wait' = [wait EXCEPT ![c] = w]
  BY <1>1 DEF LooksAt
<1>3. run \in [event : chain.events, at : {"block", "receipt"}]
  BY <1>1 DEF WaitType
<1>4. /\ looked \subseteq [event : chain.events, at : {"block", "receipt"}]
      /\ \A r \in looked : r.event.op = call[c].op
  BY <1>3 DEF IsOurs
<1> HIDE DEF looked
<1>5. /\ w \in WaitType /\ w.promise = wait[c].promise /\ w.listening = wait[c].listening
      /\ w.timer = wait[c].timer /\ w.runs = (wait[c].runs \ {run}) \cup looked
  BY <1>1, <1>4 DEF WaitType
<1> HIDE DEF w
<1>6. polled' \in 0 .. MaxBlock \cup {None}
  BY <1>1 DEF Typed
<1>7. Typed'
  BY <1>1, <1>2, <1>5, <1>6, WaitStep, WaitsTyped
<1>8. wait'[c] = w /\ \A d \in Calls : d # c => wait'[d] = wait[d]
  BY <1>1, <1>2
<1> QED BY <1>4, <1>5, <1>7, <1>8

LEMMA SettleTyped ==
    ASSUME Typed, NEW c \in Calls, NEW run \in wait[c].runs, Settle(c, run)
    PROVE  /\ Typed'
           /\ \A d \in Calls : d # c => wait'[d] = wait[d]
           /\ wait'[c].listening => wait[c].listening
           /\ wait'[c].timer => wait[c].timer
           /\ wait'[c].runs \subseteq wait[c].runs
           /\ wait[c].promise # "pending" => wait'[c].promise = wait[c].promise
           /\ wait[c].promise = "pending" =>
                (wait'[c].promise = "status 1" <=> run.event.outcome = "success")
           /\ wait[c].promise = "pending" => wait'[c].promise # "none"
           /\ UNCHANGED <<signer, call, polled, pool, chain, history>>
<1> DEFINE rejected == /\ run.event.outcome # "success"
                       /\ RevertReasonEvents(call[c].op) # {}
           result == IF rejected THEN "rejected"
                     ELSE IF run.event.outcome = "success" THEN "status 1" ELSE "status 0"
           w == [wait[c] EXCEPT !.runs = @ \ {run},
                                !.promise = IF @ = "pending" THEN result ELSE @]
           v == [w EXCEPT !.listening = FALSE, !.resolved = TRUE, !.timer = FALSE,
                          !.runs = {}]
<1>1. /\ wait \in [Calls -> WaitType] /\ wait[c] \in WaitType
      /\ UNCHANGED <<signer, call, polled, pool, chain, history>>
  BY DEF Typed, Settle
<1>2. wait' = [wait EXCEPT ![c] = IF rejected THEN w ELSE v]
  BY <1>1 DEF Settle
<1>3. /\ result \in {"rejected", "status 1", "status 0"}
      /\ result = "status 1" <=> run.event.outcome = "success"
  OBVIOUS
<1> HIDE DEF result, rejected
<1>4. /\ w \in WaitType /\ w.listening = wait[c].listening /\ w.timer = wait[c].timer
      /\ w.runs = wait[c].runs \ {run}
      /\ w.promise = IF wait[c].promise = "pending" THEN result ELSE wait[c].promise
  <2>1. [wait[c] EXCEPT !.runs = @ \ {run}].promise = wait[c].promise
    BY <1>1 DEF WaitType
  <2>2. (IF wait[c].promise = "pending" THEN result ELSE wait[c].promise) \in Promises
    BY <1>1, <1>3 DEF WaitType, Promises
  <2> QED BY <1>1, <2>1, <2>2 DEF WaitType
<1> HIDE DEF w
<1>5. /\ v \in WaitType /\ v.listening = FALSE /\ v.timer = FALSE /\ v.runs = {}
      /\ v.promise = w.promise
  BY <1>4 DEF WaitType
<1> HIDE DEF v
<1>6. PICK u \in {w, v} : wait' = [wait EXCEPT ![c] = u]
  BY <1>2
<1>7. /\ u \in WaitType /\ (u.listening => wait[c].listening)
      /\ (u.timer => wait[c].timer) /\ u.runs \subseteq wait[c].runs
      /\ u.promise = IF wait[c].promise = "pending" THEN result ELSE wait[c].promise
  BY <1>4, <1>5, <1>6
<1>8. polled' \in 0 .. MaxBlock \cup {None}
  BY <1>1 DEF Typed
<1>9. Typed'
  BY <1>1, <1>6, <1>7, <1>8, WaitStep, WaitsTyped
<1>10. wait'[c] = u /\ \A d \in Calls : d # c => wait'[d] = wait[d]
  BY <1>1, <1>6
<1> QED BY <1>1, <1>3, <1>7, <1>9, <1>10

\* The chain goes on, and its events stay.
LEMMA ChainStep ==
    ASSUME Typed, UNCHANGED <<signer, call, wait, polled, history>>,
           chain' \in ChainType, \A e \in chain'.events : e.block <= chain'.block,
           chain.events \subseteq chain'.events, pool' \in SUBSET Ops
    PROVE  Typed'
<1>1. UNCHANGED <<account, isPhantom, connecting, call, wait, polled, alone, raced>>
  BY DEF signer, history
<1>2. \A d \in Calls : Staged(d)'
  BY <1>1, StagedSame DEF Typed
<1>3. wait' \in [Calls -> WaitType']
  <2>1. ASSUME NEW w \in WaitType PROVE w \in WaitType'
    BY <2>1 DEF WaitType
  <2> QED BY <1>1, <2>1 DEF Typed
<1> QED BY <1>1, <1>2, <1>3 DEF Typed, ChainType

LEMMA MinedTyped ==
    ASSUME Typed, NEW op \in pool, NEW outcome \in Outcomes, Mined(op, outcome)
    PROVE  Typed'
<1> DEFINE e == [op |-> op, block |-> chain.block + 1, outcome |-> outcome]
           t == [block  |-> chain.block + 1,
                 code   |-> chain.code \cup {op.sender},
                 nonce  |-> [chain.nonce EXCEPT ![op.sender] = @ + 1],
                 events |-> chain.events \cup {e}]
<1>1. /\ chain \in ChainType /\ op \in Ops /\ chain.block < MaxBlock
      /\ \A f \in chain.events : f.block <= chain.block
      /\ chain' = t /\ pool' = pool \ {op} /\ pool \in SUBSET Ops
      /\ UNCHANGED <<signer, call, wait, polled, history>>
  BY DEF Typed, Mined
<1>2. op.sender \in Addresses
  BY <1>1 DEF Ops
<1>3. chain.block \in 1 .. MaxBlock /\ chain.block + 1 \in 1 .. MaxBlock
  BY <1>1, SomeBlock DEF ChainType
<1>4. e \in [op : Ops, block : 1 .. MaxBlock, outcome : Outcomes]
  BY <1>1, <1>3
<1>5. /\ chain.events \in SUBSET [op : Ops, block : 1 .. MaxBlock, outcome : Outcomes]
      /\ chain.nonce \in [Addresses -> Nat] /\ chain.code \in SUBSET Addresses
  BY <1>1 DEF ChainType
<1>6. [chain.nonce EXCEPT ![op.sender] = @ + 1] \in [Addresses -> Nat]
  BY <1>2, <1>5
<1>7. \A f \in t.events : f.block <= t.block
  <2>1. /\ \A f \in chain.events : f.block \in Int /\ f.block <= chain.block
        /\ chain.block \in Int
    BY <1>1, <1>3, <1>5
  <2> QED BY <2>1
<1> HIDE DEF e
<1>8. t \in ChainType
  BY <1>2, <1>3, <1>4, <1>5, <1>6 DEF ChainType
<1>9. chain.events \subseteq t.events /\ pool' \in SUBSET Ops
  BY <1>1
<1> HIDE DEF t
<1> QED BY <1>1, <1>7, <1>8, <1>9, ChainStep

LEMMA OtherBlockTyped ==
    ASSUME Typed, OtherBlock
    PROVE  /\ Typed' /\ chain'.code = chain.code /\ chain'.nonce = chain.nonce
           /\ chain'.events = chain.events
<1> DEFINE t == [chain EXCEPT !.block = @ + 1]
<1>1. /\ chain \in ChainType /\ chain.block < MaxBlock
      /\ chain' = t /\ pool' \in SUBSET Ops
      /\ \A f \in chain.events : f.block <= chain.block
      /\ UNCHANGED <<signer, call, wait, polled, history>>
  BY DEF Typed, OtherBlock
<1>2. chain.block \in 1 .. MaxBlock /\ chain.block + 1 \in 1 .. MaxBlock
  BY <1>1, SomeBlock DEF ChainType
<1>3. /\ t \in ChainType /\ t.events = chain.events /\ t.block = chain.block + 1
      /\ t.code = chain.code /\ t.nonce = chain.nonce
  BY <1>1, <1>2 DEF ChainType
<1>4. \A f \in t.events : f.block <= t.block
  <2>1. \A f \in chain.events : f.block \in Int /\ f.block <= chain.block
    BY <1>1 DEF ChainType
  <2> QED BY <1>2, <1>3, <2>1
<1> HIDE DEF t
<1> QED BY <1>1, <1>3, <1>4, ChainStep

LEMMA InitTyped == Init => Typed
<1> SUFFICES ASSUME Init PROVE Typed
  OBVIOUS
<1>1. MaxBlock \in Nat /\ 1 \in 1 .. MaxBlock
  BY SomeBlock
<1>2. chain \in ChainType /\ chain.events = {}
  BY <1>1 DEF Init, ChainType, Addresses
<1>3. call \in [Calls -> CallType] /\ \A c \in Calls : call[c].at = "idle"
  BY DEF Init, CallType, Stages
<1>4. wait \in [Calls -> WaitType]
  BY DEF Init, WaitType, Promises
<1>5. \A c \in Calls : Staged(c)
  BY <1>3 DEF Staged
<1> QED BY <1>2, <1>3, <1>4, <1>5 DEF Init, Typed

LEMMA NextTyped == Typed /\ [Next]_vars => Typed'
<1> SUFFICES ASSUME Typed, [Next]_vars PROVE Typed'
  OBVIOUS
<1>1. ASSUME NEW c \in Calls, SendTransaction(c) \/ DeploymentAddress(c)
                                \/ CodeAnswered(c) \/ CodeArrives(c)
      PROVE  Typed'
  BY <1>1, SendTransactionTyped, DeploymentAddressTyped, CodeAnsweredTyped,
     CodeArrivesTyped
<1>2. ASSUME NEW c \in Calls, InitCode(c) \/ FillAndSign(c) \/ SendUserOp(c) \/ Refused(c)
      PROVE  Typed'
  BY <1>2, InitCodeTyped, FillAndSignTyped, SendUserOpTyped
<1>3. ASSUME NEW c \in Calls, BlockNumber(c) \/ OneShot(c)
      PROVE  Typed'
  BY <1>3, BlockNumberTyped, OneShotTyped
<1>4. ASSUME NEW c \in Calls, NEW run \in wait[c].runs, LooksAt(c, run) \/ Settle(c, run)
      PROVE  Typed'
  BY <1>4, LooksAtTyped, SettleTyped
<1>5. ASSUME NEW a \in Addresses, ConnectAccountAddress(a)
      PROVE  Typed'
  BY <1>5, ConnectAccountAddressTyped
<1>6. CASE Connected
  BY <1>6, ConnectedTyped
<1>7. CASE Poll
  BY <1>7, PollTyped
<1>8. ASSUME NEW op \in pool, NEW o \in Outcomes, Mined(op, o)
      PROVE  Typed'
  BY <1>8, MinedTyped
<1>9. CASE OtherBlock
  BY <1>9, OtherBlockTyped
<1>10. CASE UNCHANGED vars
  <2>1. UNCHANGED <<account, isPhantom, call, connecting, wait, polled, pool, chain,
                    alone, raced>>
    BY <1>10 DEF vars
  <2>2. \A d \in Calls : Staged(d)'
    BY <2>1, StagedSame DEF Typed
  <2> QED BY <2>1, <2>2 DEF Typed, WaitType, ChainType
<1> QED BY <1>1, <1>2, <1>3, <1>4, <1>5, <1>6, <1>7, <1>8, <1>9, <1>10
        DEF Next, Listener

LEMMA TypedInvariant == Spec => []Typed
BY InitTyped, NextTyped, PTL DEF Spec

-----------------------------------------------------------------------------
(* A wait tells the truth.                                                 *)

\* The wait of one call is settled with what became of its operation.
Truly(c) == wait[c].promise \notin {"none", "pending"} =>
               \E e \in EventsOf(c) :
                  (wait[c].promise = "status 1") <=> (e.outcome = "success")

\* Only a call that has its operation for good has a wait, and the runs of its
\* listener that are past the comparison are about that operation.
Waits(c) ==
    /\ wait[c].promise # "none" => call[c].at \in {"sending", "sent", "failed"}
    /\ wait[c].listening \/ wait[c].timer \/ wait[c].runs # {}
          => wait[c].promise # "none"
    /\ \A run \in wait[c].runs : run.at = "receipt" => run.event.op = call[c].op

Settling == \A c \in Calls : Truly(c) /\ Waits(c)

\* No promise changes, and nothing starts to listen.
LEMMA SettlingStep ==
    ASSUME NEW c \in Calls, Truly(c), Waits(c), chain.events \subseteq chain'.events,
           wait'[c].promise = wait[c].promise,
           \/ wait[c].promise = "none"
           \/ /\ call'[c].op = call[c].op
              /\ call'[c].at \in {"sending", "sent", "failed"},
           wait'[c].listening \/ wait'[c].timer \/ wait'[c].runs # {} =>
              wait[c].listening \/ wait[c].timer \/ wait[c].runs # {},
           \A run \in wait'[c].runs :
              run \in wait[c].runs \/ run.at = "block" \/ run.event.op = call[c].op
    PROVE  Truly(c)' /\ Waits(c)'
<1>1. CASE wait[c].promise = "none"
  BY <1>1 DEF Truly, Waits
<1>2. CASE /\ wait[c].promise # "none" /\ call'[c].op = call[c].op
           /\ call'[c].at \in {"sending", "sent", "failed"}
  <2>1. EventsOf(c) \subseteq EventsOf(c)'
    BY <1>2 DEF EventsOf
  <2>2. Truly(c)'
    BY <2>1 DEF Truly
  <2>3. Waits(c)'
    BY <1>2 DEF Waits
  <2> QED BY <2>2, <2>3
<1> QED BY <1>1, <1>2

LEMMA InitSettling == Init => Settling
<1> SUFFICES ASSUME Init, NEW c \in Calls PROVE Truly(c) /\ Waits(c)
  BY DEF Settling
<1>1. /\ wait[c].promise = "none" /\ wait[c].runs = {}
      /\ wait[c].listening = FALSE /\ wait[c].timer = FALSE
  BY DEF Init
<1> QED BY <1>1 DEF Truly, Waits

LEMMA NextSettling == Typed /\ Settling /\ [Next]_vars => Settling'
<1> SUFFICES ASSUME Typed, Settling, [Next]_vars, NEW d \in Calls
             PROVE  Truly(d)' /\ Waits(d)'
  BY DEF Settling
<1>1. Truly(d) /\ Waits(d)
  BY DEF Settling
<1>2. /\ call \in [Calls -> CallType] /\ wait \in [Calls -> WaitType]
      /\ call[d] \in CallType /\ wait[d] \in WaitType
  BY DEF Typed
<1>3. CASE UNCHANGED <<call, wait, chain>>
  BY <1>1, <1>3 DEF Truly, Waits, EventsOf
\* A call goes on before it has a wait.
<1>4. ASSUME NEW c \in Calls, call' = [call EXCEPT ![c] = call'[c]],
             call[c].at \notin {"sending", "sent", "failed"}, UNCHANGED <<wait, chain>>
      PROVE  Truly(d)' /\ Waits(d)'
  <2>1. CASE d = c
    BY <1>1, <1>4, <2>1, SettlingStep DEF Waits
  <2>2. CASE d # c
    <3>1. call'[d] = call[d]
      BY <1>2, <1>4, <2>2
    <3> QED BY <1>1, <1>4, <3>1, SettlingStep DEF Waits
  <2> QED BY <2>1, <2>2
<1>5. ASSUME NEW c \in Calls, SendTransaction(c)
      PROVE  Truly(d)' /\ Waits(d)'
  <2>1. call' = [call EXCEPT ![c] = call'[c]]
    BY <1>2, <1>5 DEF SendTransaction, Goto, Synced
  <2> QED BY <1>4, <1>5, <2>1 DEF SendTransaction
<1>6. ASSUME NEW c \in Calls, DeploymentAddress(c)
      PROVE  Truly(d)' /\ Waits(d)'
  <2>1. call' = [call EXCEPT ![c] = call'[c]]
    BY <1>2, <1>6 DEF DeploymentAddress, Synced
  <2> QED BY <1>4, <1>6, <2>1 DEF DeploymentAddress
<1>7. ASSUME NEW c \in Calls, CodeAnswered(c) \/ CodeArrives(c) \/ InitCode(c)
      PROVE  Truly(d)' /\ Waits(d)'
  <2>1. call' = [call EXCEPT ![c] = call'[c]]
    BY <1>2, <1>7 DEF CodeAnswered, CodeArrives, InitCode, Synced
  <2>2. call[c].at \in {"code", "initCode"} /\ UNCHANGED <<wait, chain>>
    BY <1>7 DEF CodeAnswered, CodeArrives, InitCode
  <2> QED BY <1>4, <2>1, <2>2
<1>8. ASSUME NEW c \in Calls, FillAndSign(c)
      PROVE  Truly(d)' /\ Waits(d)'
  <2>1. /\ call' = [call EXCEPT ![c] = call'[c]] /\ call[c].at = "fill"
        /\ call'[c].at \in {"sending", "failed"} /\ UNCHANGED chain
        /\ call'[c].at = "sending" => UserEventResponse(c)
        /\ call'[c].at = "failed" => UNCHANGED wait
    BY <1>8, FillAndSignTyped DEF FillAndSign
  <2>2. CASE call'[c].at = "failed"
    BY <1>4, <2>1, <2>2
  <2>3. CASE call'[c].at = "sending" /\ d = c
    <3>1. wait'[c].promise = "pending" /\ wait'[c].runs = wait[c].runs
      BY <2>1, <2>3, UserEventResponseType
    <3>2. wait[c].runs = {}
      BY <1>1, <2>1, <2>3 DEF Waits
    <3> QED BY <2>3, <3>1, <3>2 DEF Truly, Waits
  <2>4. CASE call'[c].at = "sending" /\ d # c
    <3>1. call'[d] = call[d]
      BY <1>2, <2>1, <2>4
    <3>2. wait'[d] = wait[d]
      BY <1>2, <2>1, <2>4 DEF UserEventResponse
    <3> QED BY <1>1, <2>1, <3>1, <3>2, SettlingStep DEF Waits
  <2> QED BY <2>1, <2>2, <2>3, <2>4
<1>9. ASSUME NEW c \in Calls, SendUserOp(c) \/ Refused(c)
      PROVE  Truly(d)' /\ Waits(d)'
  <2>1. PICK at \in {"sent", "failed"} : Goto(c, at)
    BY <1>9 DEF SendUserOp, Refused
  <2>2. at \in Stages /\ UNCHANGED <<wait, chain>>
    BY <1>9 DEF Stages, SendUserOp, Refused
  <2>3. /\ call' = [call EXCEPT ![c] = call'[c]]
        /\ call'[c].at = at /\ call'[c].op = call[c].op
    BY <2>1, <2>2, GotoType
  <2>4. CASE d = c
    BY <1>1, <2>2, <2>3, <2>4, SettlingStep
  <2>5. CASE d # c
    <3>1. call'[d] = call[d]
      BY <1>2, <2>3, <2>5
    <3> QED BY <1>1, <2>2, <3>1, SettlingStep DEF Waits
  <2> QED BY <2>4, <2>5
\* A listener goes on.
<1>10. ASSUME UNCHANGED <<call, chain>>, wait'[d].promise = wait[d].promise,
              wait'[d].listening \/ wait'[d].timer \/ wait'[d].runs # {} =>
                 wait[d].listening \/ wait[d].timer \/ wait[d].runs # {},
              \A run \in wait'[d].runs :
                 run \in wait[d].runs \/ run.at = "block" \/ run.event.op = call[d].op
       PROVE  Truly(d)' /\ Waits(d)'
  BY <1>1, <1>10, SettlingStep DEF Waits
<1>11. ASSUME NEW c \in Calls, BlockNumber(c)
       PROVE  Truly(d)' /\ Waits(d)'
  <2>1. UNCHANGED <<call, chain>>
    BY <1>11 DEF BlockNumber
  <2> QED BY <1>10, <1>11, <2>1, BlockNumberTyped
<1>12. CASE Poll
  <2>1. UNCHANGED <<call, chain>>
    BY <1>12 DEF Poll
  <2> QED BY <1>10, <1>12, <2>1, PollTyped
<1>13. ASSUME NEW c \in Calls, OneShot(c)
       PROVE  Truly(d)' /\ Waits(d)'
  <2>1. UNCHANGED <<call, chain>>
    BY <1>13 DEF OneShot
  <2> QED BY <1>10, <1>13, <2>1, OneShotTyped
<1>14. ASSUME NEW c \in Calls, NEW run \in wait[c].runs, LooksAt(c, run)
       PROVE  Truly(d)' /\ Waits(d)'
  <2>1. UNCHANGED <<call, chain>>
    BY <1>14 DEF LooksAt
  <2> QED BY <1>10, <1>14, <2>1, LooksAtTyped
<1>15. ASSUME NEW c \in Calls, NEW run \in wait[c].runs, Settle(c, run)
       PROVE  Truly(d)' /\ Waits(d)'
  <2>1. UNCHANGED <<call, chain>>
    BY <1>15 DEF Settle
  <2>2. CASE d = c /\ wait[c].promise = "pending"
    <3>1. /\ run.event \in chain.events /\ run.at = "receipt"
      BY <1>2, <1>15, <2>2 DEF WaitType, Settle
    <3>2. run.event \in EventsOf(c)'
      BY <1>1, <2>1, <2>2, <3>1 DEF Waits, EventsOf
    <3>3. /\ (wait'[c].promise = "status 1") <=> (run.event.outcome = "success")
          /\ wait'[c].promise # "none" /\ wait'[c].runs \subseteq wait[c].runs
      BY <1>15, <2>2, SettleTyped
    <3>4. Truly(c)'
      BY <3>2, <3>3 DEF Truly
    <3>5. Waits(c)'
      BY <1>1, <2>1, <2>2, <3>3 DEF Waits
    <3> QED BY <2>2, <3>4, <3>5
  <2>3. CASE d = c /\ wait[c].promise # "pending"
    BY <1>10, <1>15, <2>1, <2>3, SettleTyped
  <2>4. CASE d # c
    BY <1>10, <1>15, <2>1, <2>4, SettleTyped
  <2> QED BY <2>2, <2>3, <2>4
<1>16. ASSUME UNCHANGED <<call, wait>>, chain.events \subseteq chain'.events
       PROVE  Truly(d)' /\ Waits(d)'
  BY <1>1, <1>16, SettlingStep DEF Waits
<1>17. ASSUME NEW op \in pool, NEW o \in Outcomes, Mined(op, o)
       PROVE  Truly(d)' /\ Waits(d)'
  <2>1. UNCHANGED <<call, wait>> /\ chain.events \subseteq chain'.events
    BY <1>17 DEF Mined
  <2> QED BY <1>16, <2>1
<1>18. CASE OtherBlock
  <2>1. UNCHANGED <<call, wait>> /\ chain.events \subseteq chain'.events
    BY <1>18, OtherBlockTyped DEF OtherBlock
  <2> QED BY <1>16, <2>1
<1>19. CASE Connected \/ (\E a \in Addresses : ConnectAccountAddress(a)) \/ UNCHANGED vars
  BY <1>3, <1>19 DEF Connected, ConnectAccountAddress, vars
<1> QED BY <1>5, <1>6, <1>7, <1>8, <1>9, <1>11, <1>12, <1>13, <1>14, <1>15, <1>17,
           <1>18, <1>19 DEF Next, Listener

LEMMA SettlingInvariant == Spec => []Settling
BY InitSettling, NextSettling, TypedInvariant, PTL DEF Spec

\* However many listeners are called with however many events, by the provider and
\* by the one-shot timers, while block numbers and receipts are awaited: a wait is
\* settled only when its own operation was mined, and tells whether it succeeded.
\* (AASigner.ts:348-406)
THEOREM AlwaysSettledTruly == Spec => []SettledTruly
<1>1. Settling => SettledTruly
  BY DEF Settling, Truly, SettledTruly
<1> QED BY <1>1, SettlingInvariant, PTL

\* Whatever calls of sendTransaction and connectAccountAddress meet, and however
\* many there are: the state is what the code takes it for, and a signer that has
\* no account takes it for a phantom.  (AASigner.ts:252, 277-288, 453-468)
THEOREM TypeCorrect == Spec => []TypeOK
<1>1. Typed /\ Settling => TypeOK
  <2> SUFFICES ASSUME Typed, Settling PROVE TypeOK
    OBVIOUS
  <2>1. ASSUME NEW c \in Calls
        PROVE  /\ call[c].at \in Stages
               /\ call[c].asks \in Addresses \cup {None}
               /\ call[c].seen \in BOOLEAN \cup {None}
    BY DEF Typed, CallType
  <2>2. ASSUME NEW c \in Calls
        PROVE  /\ wait[c].promise \in {"none", "pending", "status 1",
                                        "status 0", "rejected"}
               /\ wait[c].currentBlock \in 1 .. MaxBlock \cup {None}
               /\ wait[c].runs \subseteq [event : chain.events,
                                          at : {"block", "receipt"}]
               /\ wait[c].listening => wait[c].promise # "none"
    BY DEF Typed, WaitType, Promises, Settling, Waits
  <2>3. \A op \in pool : op.sender \in Addresses
    BY DEF Typed, Ops
  <2> QED BY <2>1, <2>2, <2>3 DEF Typed, TypeOK
<1> QED BY <1>1, TypedInvariant, SettlingInvariant, PTL

-----------------------------------------------------------------------------
(* An operation that is made alone.                                        *)

\* While connectAccountAddress has met no other call: an account that is taken for
\* deployed is deployed, calls that wait for code have asked about the account, and
\* those that wait for an address will not replace one that was connected.
Unraced(c) ==
    /\ connecting # None => ~UnderWay(c)
    /\ call[c].at = "address" => account \in {None, Predicted}
    /\ call[c].at = "code" => call[c].asks = account
    /\ call[c].at = "code" /\ call[c].seen # None /\ ~call[c].seen
          => account \in chain.code

Deployed == account # None /\ ~isPhantom => account \in chain.code

\* What a call that is alone has seen of the chain still holds.
Sees(c) ==
    /\ call[c].at = "code" /\ call[c].seen # None /\ call[c].seen
          => account \notin chain.code
    /\ call[c].at = "initCode" => call[c].op.initCode /\ account \notin chain.code
    /\ call[c].at \in {"fill", "sending"} =>
          (call[c].op.initCode <=> call[c].op.sender \notin chain.code)
    /\ call[c].at = "sending" /\ index = 0 =>
          call[c].op.nonce = chain.nonce[call[c].op.sender]

Alone(c) ==
    alone[c] /\ UnderWay(c) =>
       /\ pool = {} /\ connecting = None
       /\ \A d \in Calls : UnderWay(d) => d = c
       /\ ~raced => Sees(c)

Fresh(c) == call[c].at \in {"idle", "address"} => call[c].seen = None

ChainFacts == /\ Other \in chain.code
              /\ \A a \in Addresses : a \notin chain.code => chain.nonce[a] = 0

Solitude == /\ ChainFacts
            /\ ~raced => Deployed /\ \A c \in Calls : Unraced(c)
            /\ \A c \in Calls : Fresh(c) /\ Alone(c)

\* What the invariant is about does not change.
LEMMA SolitudeSame ==
    ASSUME Solitude, UNCHANGED <<account, isPhantom, connecting, call, pool, alone, raced>>,
           chain'.code = chain.code, chain'.nonce = chain.nonce
    PROVE  Solitude'
BY DEF Solitude, ChainFacts, Deployed, Unraced, Fresh, Alone, Sees, UnderWay

LEMMA SendTransactionAlone ==
    ASSUME Typed, Solitude, NEW c \in Calls, SendTransaction(c)
    PROVE  Solitude'
<1>1. /\ UNCHANGED <<account, isPhantom, connecting, wait, polled, pool, chain>>
      /\ Overlap(c) /\ call[c].at = "idle" /\ call[c].seen = None
  BY DEF SendTransaction, signer, Solitude, Fresh
<1>2. /\ alone' = [d \in Calls |-> IF d = c THEN ~Busy /\ pool = {}
                                   ELSE alone[d] /\ ~UnderWay(d)]
      /\ raced' = (raced \/ connecting # None)
  BY <1>1 DEF Overlap
<1>3. /\ call' = [call EXCEPT ![c] = call'[c]]
      /\ \/ account = None /\ call'[c].at = "address" /\ call'[c].seen = call[c].seen
         \/ /\ account # None /\ call'[c].at = "code" /\ call'[c].asks = account
            /\ call'[c].seen = call[c].seen
         \/ /\ account # None /\ ~isPhantom /\ call'[c].at = "fill"
            /\ call'[c].op.initCode = FALSE /\ call'[c].op.sender = account
  <2>1. CASE account = None
    <3>1. Goto(c, "address") /\ "address" \in Stages
      BY <2>1 DEF SendTransaction, Stages
    <3> QED BY <2>1, <3>1, GotoType
  <2>2. CASE account # None /\ isPhantom
    <3>1. account \in Addresses /\ call' = [call EXCEPT ![c].at = "code", ![c].asks = account]
      BY <2>2 DEF SendTransaction, Typed
    <3> QED BY <2>2, <3>1, AskType
  <2>3. CASE account # None /\ ~isPhantom
    <3>1. account \in Addresses /\ Synced(c, FALSE, account) /\ FALSE \in BOOLEAN
      BY <2>3 DEF SendTransaction, Typed
    <3>2. /\ call' = [call EXCEPT ![c] = call'[c]]
          /\ call'[c] = [at |-> "fill", asks |-> None, seen |-> None,
                         op |-> Op(account, FALSE, None, c)]
      BY <3>1, SyncedType
    <3> QED BY <2>3, <3>2 DEF Op
  <2> QED BY <2>1, <2>2, <2>3
<1>4. \A d \in Calls : d # c => call'[d] = call[d]
  BY <1>3 DEF Typed
<1>5. ~raced' => Deployed' /\ \A d \in Calls : Unraced(d)'
  <2> SUFFICES ASSUME ~raced' PROVE Deployed' /\ \A d \in Calls : Unraced(d)'
    OBVIOUS
  <2>1. ~raced /\ connecting = None /\ Deployed /\ \A d \in Calls : Unraced(d)
    BY <1>2 DEF Solitude
  <2>2. Unraced(c)'
    BY <1>1, <1>3, <2>1 DEF Unraced
  <2>3. \A d \in Calls : d # c => Unraced(d)'
    BY <1>1, <1>4, <2>1 DEF Unraced
  <2> QED BY <1>1, <2>1, <2>2, <2>3 DEF Deployed
<1>6. Fresh(c)' /\ Alone(c)'
  <2>1. Fresh(c)'
    BY <1>1, <1>3 DEF Fresh
  <2>2. SUFFICES ASSUME alone'[c] PROVE Alone(c)'
    BY <2>1 DEF Alone
  <2>3. pool = {} /\ connecting = None /\ \A d \in Calls : ~UnderWay(d)
    BY <1>2, <2>2 DEF Busy
  <2>4. \A d \in Calls : UnderWay(d)' => d = c
    BY <1>4, <2>3 DEF UnderWay
  <2>5. ~raced' => Sees(c)'
    BY <1>1, <1>2, <1>3 DEF Sees, Solitude, Deployed
  <2> QED BY <1>1, <2>1, <2>3, <2>4, <2>5 DEF Alone
<1>7. \A d \in Calls : d # c => Fresh(d)' /\ Alone(d)'
  BY <1>2, <1>4 DEF Solitude, Fresh, Alone, UnderWay
<1> QED BY <1>1, <1>5, <1>6, <1>7 DEF Solitude, ChainFacts

\* One call goes on that is under way: no other one is alone.
LEMMA AloneStep ==
    ASSUME Typed, Solitude, NEW c \in Calls, UnderWay(c),
           call' = [call EXCEPT ![c] = call'[c]],
           UNCHANGED <<connecting, pool, alone, raced>>,
           Fresh(c)', UnderWay(c)' /\ alone[c] /\ ~raced => Sees(c)'
    PROVE  \A d \in Calls : Fresh(d)' /\ Alone(d)'
<1>1. \A d \in Calls : d # c => call'[d] = call[d]
  BY DEF Typed
<1>2. ASSUME NEW d \in Calls, d # c
      PROVE  Fresh(d)' /\ Alone(d)'
  <2>1. Fresh(d) /\ Alone(d)
    BY DEF Solitude
  <2>2. ~(alone[d] /\ UnderWay(d))
    BY <1>2, <2>1 DEF Alone
  <2> QED BY <1>1, <1>2, <2>1, <2>2 DEF Fresh, Alone, UnderWay
<1>3. Alone(c)'
  <2>1. Alone(c)
    BY DEF Solitude
  <2>2. \A d \in Calls : d # c => (UnderWay(d)' <=> UnderWay(d))
    BY <1>1 DEF UnderWay
  <2> QED BY <2>1, <2>2 DEF Alone
<1> QED BY <1>2, <1>3

LEMMA DeploymentAddressAlone ==
    ASSUME Typed, Solitude, NEW c \in Calls, DeploymentAddress(c)
    PROVE  Solitude'
<1>1. /\ UNCHANGED <<isPhantom, connecting, wait, polled, pool, chain, alone, raced>>
      /\ account' = Predicted /\ Predicted # None /\ Predicted \in Addresses
      /\ call[c].at = "address" /\ UnderWay(c) /\ call[c].seen = None
  BY SignerAssumption DEF DeploymentAddress, history, UnderWay, Solitude, Fresh, Addresses
<1>2. /\ call' = [call EXCEPT ![c] = call'[c]]
      /\ \/ /\ isPhantom /\ call'[c].at = "code" /\ call'[c].asks = Predicted
            /\ call'[c].seen = None
         \/ /\ ~isPhantom /\ call'[c].at = "fill"
            /\ call'[c].op.initCode = FALSE /\ call'[c].op.sender = Predicted
  <2>1. CASE isPhantom
    <3>1. call' = [call EXCEPT ![c].at = "code", ![c].asks = Predicted]
      BY <2>1 DEF DeploymentAddress
    <3> QED BY <1>1, <2>1, <3>1, AskType
  <2>2. CASE ~isPhantom
    <3>1. Synced(c, FALSE, Predicted) /\ FALSE \in BOOLEAN
      BY <2>2 DEF DeploymentAddress
    <3>2. /\ call' = [call EXCEPT ![c] = call'[c]]
          /\ call'[c] = [at |-> "fill", asks |-> None, seen |-> None,
                         op |-> Op(Predicted, FALSE, None, c)]
      BY <1>1, <3>1, SyncedType
    <3> QED BY <2>2, <3>2 DEF Op
  <2> QED BY <2>1, <2>2
<1>3. \A d \in Calls : d # c => call'[d] = call[d]
  BY <1>2 DEF Typed
\* The account is the one predicted already, or there is none yet.
<1>4. ~raced => /\ connecting = None /\ account \in {None, Predicted}
                /\ ~isPhantom => account = Predicted /\ Predicted \in chain.code
  BY <1>1 DEF Solitude, Unraced, Deployed, Typed
<1>5. ~raced => Deployed' /\ \A d \in Calls : Unraced(d)'
  <2> SUFFICES ASSUME ~raced PROVE Deployed' /\ \A d \in Calls : Unraced(d)'
    OBVIOUS
  <2>1. Deployed'
    BY <1>1, <1>4 DEF Deployed
  <2>2. Unraced(c)'
    BY <1>1, <1>2, <1>4 DEF Unraced
  <2>3. ASSUME NEW d \in Calls, d # c
        PROVE  Unraced(d)'
    <3>1. Unraced(d) /\ Staged(d)
      BY DEF Solitude, Typed
    <3>2. call[d].at = "code" => account = Predicted
      BY <1>4, <3>1 DEF Staged
    <3> QED BY <1>1, <1>3, <1>4, <2>3, <3>1, <3>2 DEF Unraced
  <2> QED BY <2>1, <2>2, <2>3
<1>6. Fresh(c)'
  BY <1>2 DEF Fresh
<1>7. ~raced => Sees(c)'
  BY <1>1, <1>2, <1>4 DEF Sees
<1>8. \A d \in Calls : Fresh(d)' /\ Alone(d)'
  BY <1>1, <1>2, <1>6, <1>7, AloneStep
<1> QED BY <1>1, <1>5, <1>8 DEF Solitude, ChainFacts

LEMMA CodeAnsweredAlone ==
    ASSUME Typed, Solitude, NEW c \in Calls, CodeAnswered(c)
    PROVE  Solitude'
<1>1. /\ UNCHANGED <<account, isPhantom, connecting, wait, polled, pool, chain, alone, raced>>
      /\ call[c].at = "code" /\ UnderWay(c)
  BY DEF CodeAnswered, history, signer, UnderWay
<1>2. /\ call' = [call EXCEPT ![c] = call'[c]]
      /\ call'[c].at = "code" /\ call'[c].asks = call[c].asks
      /\ call'[c].seen = (call[c].asks \notin chain.code)
  BY CodeAnsweredTyped
<1>3. \A d \in Calls : d # c => call'[d] = call[d]
  BY <1>2 DEF Typed
<1>4. ~raced => call[c].asks = account /\ connecting = None
  BY <1>1 DEF Solitude, Unraced
<1>5. ~raced => Deployed' /\ \A d \in Calls : Unraced(d)'
  <2>1. ~raced => Unraced(c)'
    BY <1>1, <1>2, <1>4 DEF Unraced
  <2>2. \A d \in Calls : d # c /\ ~raced => Unraced(d)'
    BY <1>1, <1>3 DEF Solitude, Unraced, UnderWay
  <2> QED BY <1>1, <2>1, <2>2 DEF Solitude, Deployed
<1>6. Fresh(c)' /\ (~raced => Sees(c)')
  BY <1>1, <1>2, <1>4 DEF Fresh, Sees
<1>7. \A d \in Calls : Fresh(d)' /\ Alone(d)'
  BY <1>1, <1>2, <1>6, AloneStep
<1> QED BY <1>1, <1>5, <1>7 DEF Solitude, ChainFacts

LEMMA CodeArrivesAlone ==
    ASSUME Typed, Solitude, NEW c \in Calls, CodeArrives(c)
    PROVE  Solitude'
<1>1. /\ UNCHANGED <<account, connecting, wait, polled, pool, chain, alone, raced>>
      /\ call[c].at = "code" /\ UnderWay(c) /\ call[c].seen # None
      /\ call[c].seen \in BOOLEAN /\ isPhantom' = call[c].seen
      /\ account \in Addresses /\ Synced(c, call[c].seen, account)
  BY DEF CodeArrives, history, UnderWay, Typed, CallType, Staged
<1>2. /\ call' = [call EXCEPT ![c] = call'[c]]
      /\ call[c].seen => call'[c].at = "initCode" /\ call'[c].op.initCode
      /\ ~call[c].seen => /\ call'[c].at = "fill" /\ ~call'[c].op.initCode
                          /\ call'[c].op.sender = account
  <2>1. /\ call' = [call EXCEPT ![c] = call'[c]]
        /\ call'[c] = [at |-> IF call[c].seen THEN "initCode" ELSE "fill",
                       asks |-> None, seen |-> None,
                       op |-> Op(IF call[c].seen THEN None ELSE account,
                                 call[c].seen, None, c)]
    BY <1>1, SyncedType
  <2>2. CASE call[c].seen
    <3>1. call'[c].at = "initCode"
      BY <2>1, <2>2
    <3>2. call'[c].op = Op(None, call[c].seen, None, c)
      BY <2>1, <2>2
    <3>3. call'[c].op.initCode = call[c].seen
      BY <3>2 DEF Op
    <3> QED BY <2>1, <2>2, <3>1, <3>3
  <2>3. CASE ~call[c].seen
    <3>1. /\ call'[c].at = "fill" /\ call'[c].op.initCode = call[c].seen
          /\ call'[c].op.sender = account
      BY <2>1, <2>3 DEF Op
    <3> QED BY <2>1, <2>3, <3>1
  <2> QED BY <2>2, <2>3
<1>3. \A d \in Calls : d # c => call'[d] = call[d]
  BY <1>2 DEF Typed
<1>4. ~raced => (~call[c].seen => account \in chain.code)
  BY <1>1 DEF Solitude, Unraced
<1>5. ~raced => Deployed' /\ \A d \in Calls : Unraced(d)'
  <2>1. ~raced => Unraced(c)'
    BY <1>1, <1>2 DEF Unraced, UnderWay, Solitude
  <2>2. \A d \in Calls : d # c /\ ~raced => Unraced(d)'
    BY <1>1, <1>3 DEF Solitude, Unraced, UnderWay
  <2> QED BY <1>1, <1>4, <2>1, <2>2 DEF Deployed
<1>6. Fresh(c)' /\ (alone[c] /\ ~raced => Sees(c)')
  <2>1. alone[c] /\ ~raced => Sees(c)
    BY <1>1 DEF Solitude, Alone
  <2>2. CASE call[c].seen
    BY <1>1, <1>2, <2>1, <2>2 DEF Fresh, Sees
  <2>3. CASE ~call[c].seen
    BY <1>1, <1>2, <1>4, <2>3 DEF Fresh, Sees
  <2> QED BY <2>2, <2>3
<1>7. \A d \in Calls : Fresh(d)' /\ Alone(d)'
  BY <1>1, <1>2, <1>6, AloneStep
<1> QED BY <1>1, <1>5, <1>7 DEF Solitude, ChainFacts

LEMMA ConnectAccountAddressAlone ==
    ASSUME Typed, Solitude, NEW a \in Addresses, ConnectAccountAddress(a)
    PROVE  Solitude'
<1>1. /\ UNCHANGED <<account, isPhantom, call, wait, polled, pool, chain>>
      /\ alone' = [c \in Calls |-> alone[c] /\ ~UnderWay(c)]
      /\ raced' = (raced \/ Busy)
  BY DEF ConnectAccountAddress
<1>2. ~raced' => Deployed' /\ \A d \in Calls : Unraced(d)'
  BY <1>1 DEF Solitude, Deployed, Unraced, UnderWay, Busy
<1>3. \A d \in Calls : Fresh(d)' /\ Alone(d)'
  BY <1>1 DEF Solitude, Fresh, Alone, UnderWay
<1> QED BY <1>1, <1>2, <1>3 DEF Solitude, ChainFacts

LEMMA ConnectedAlone ==
    ASSUME Typed, Solitude, Connected
    PROVE  Solitude'
<1>1. /\ UNCHANGED <<call, wait, polled, pool, chain, alone, raced>>
      /\ connecting # None /\ connecting' = None
  BY DEF Connected, history
<1>2. ~raced => Deployed' /\ \A d \in Calls : Unraced(d)'
  <2> SUFFICES ASSUME ~raced PROVE Deployed' /\ \A d \in Calls : Unraced(d)'
    OBVIOUS
  <2>1. Deployed /\ \A d \in Calls : ~UnderWay(d)
    BY <1>1 DEF Solitude, Unraced
  <2>2. Deployed'
    BY <1>1, <2>1 DEF Connected, Deployed
  <2>3. \A d \in Calls : Unraced(d)'
    BY <1>1, <2>1 DEF Unraced, UnderWay
  <2> QED BY <2>2, <2>3
<1>3. ASSUME NEW d \in Calls
      PROVE  Fresh(d)' /\ Alone(d)'
  <2>1. Fresh(d) /\ Alone(d)
    BY DEF Solitude
  <2> QED BY <1>1, <2>1 DEF Fresh, Alone, UnderWay
<1> QED BY <1>1, <1>2, <1>3 DEF Solitude, ChainFacts

LEMMA InitCodeAlone ==
    ASSUME Typed, Solitude, NEW c \in Calls, InitCode(c)
    PROVE  Solitude'
<1>1. /\ UNCHANGED <<account, isPhantom, connecting, wait, polled, pool, chain, alone, raced>>
      /\ call[c].at = "initCode" /\ UnderWay(c)
  BY DEF InitCode, history, signer, UnderWay
<1>2. /\ call' = [call EXCEPT ![c] = call'[c]]
      /\ call'[c].at = "fill" /\ call'[c].op.initCode = call[c].op.initCode
      /\ call'[c].op.sender = account
  BY InitCodeTyped
<1>3. \A d \in Calls : d # c => call'[d] = call[d]
  BY <1>2 DEF Typed
<1>4. ~raced => Deployed' /\ \A d \in Calls : Unraced(d)'
  <2>1. ~raced => Unraced(c)'
    BY <1>1, <1>2 DEF Unraced, UnderWay, Solitude
  <2>2. \A d \in Calls : d # c /\ ~raced => Unraced(d)'
    BY <1>1, <1>3 DEF Solitude, Unraced, UnderWay
  <2> QED BY <1>1, <2>1, <2>2 DEF Deployed, Solitude
<1>5. Fresh(c)' /\ (alone[c] /\ ~raced => Sees(c)')
  <2>1. alone[c] /\ ~raced => Sees(c)
    BY <1>1 DEF Solitude, Alone
  <2> QED BY <1>1, <1>2, <2>1 DEF Fresh, Sees
<1>6. \A d \in Calls : Fresh(d)' /\ Alone(d)'
  BY <1>1, <1>2, <1>5, AloneStep
<1> QED BY <1>1, <1>4, <1>6 DEF Solitude, ChainFacts

LEMMA FillAndSignAlone ==
    ASSUME Typed, Solitude, NEW c \in Calls, FillAndSign(c)
    PROVE  Solitude'
<1>1. /\ UNCHANGED <<account, isPhantom, connecting, pool, chain, alone, raced>>
      /\ call[c].at = "fill" /\ UnderWay(c) /\ call[c].op \in Ops
  BY DEF FillAndSign, history, signer, UnderWay, Typed, Staged
<1>2. /\ call' = [call EXCEPT ![c] = call'[c]]
      /\ call'[c].at \in {"sending", "failed"}
      /\ call'[c].at = "sending" =>
            call'[c].op = [call[c].op EXCEPT !.nonce =
                              IF call[c].op.initCode THEN index
                              ELSE chain.nonce[call[c].op.sender]]
  BY FillAndSignTyped
<1>3. \A d \in Calls : d # c => call'[d] = call[d]
  BY <1>2 DEF Typed
<1>4. ~raced => Deployed' /\ \A d \in Calls : Unraced(d)'
  <2>1. ~raced => Unraced(c)'
    BY <1>1, <1>2 DEF Unraced, UnderWay, Solitude
  <2>2. \A d \in Calls : d # c /\ ~raced => Unraced(d)'
    BY <1>1, <1>3 DEF Solitude, Unraced, UnderWay
  <2> QED BY <1>1, <2>1, <2>2 DEF Deployed, Solitude
<1>5. Fresh(c)'
  BY <1>2 DEF Fresh
<1>6. UnderWay(c)' /\ alone[c] /\ ~raced => Sees(c)'
  <2> SUFFICES ASSUME UnderWay(c)', alone[c], ~raced PROVE Sees(c)'
    OBVIOUS
  <2>1. call[c].op.initCode <=> call[c].op.sender \notin chain.code
    BY <1>1 DEF Solitude, Alone, Sees
  <2>2. call'[c].at = "sending"
    BY <1>2 DEF UnderWay
  <2>3. /\ call'[c].op.initCode = call[c].op.initCode
        /\ call'[c].op.sender = call[c].op.sender
        /\ call'[c].op.nonce = IF call[c].op.initCode THEN index
                               ELSE chain.nonce[call[c].op.sender]
    BY <1>1, <1>2, <2>2 DEF Ops
  <2>4. call[c].op.initCode => chain.nonce[call[c].op.sender] = 0
    BY <1>1, <2>1 DEF Solitude, ChainFacts, Ops
  <2> QED BY <1>1, <2>1, <2>2, <2>3, <2>4 DEF Sees
<1>7. \A d \in Calls : Fresh(d)' /\ Alone(d)'
  BY <1>1, <1>2, <1>5, <1>6, AloneStep
<1> QED BY <1>1, <1>4, <1>7 DEF Solitude, ChainFacts

LEMMA SendUserOpAlone ==
    ASSUME Typed, Solitude, NEW c \in Calls, SendUserOp(c) \/ Refused(c)
    PROVE  Solitude'
<1>1. /\ UNCHANGED <<account, isPhantom, connecting, wait, polled, chain, raced>>
      /\ call[c].at = "sending" /\ UnderWay(c)
      /\ alone' = [alone EXCEPT ![c] = FALSE]
  BY DEF SendUserOp, Refused, signer, UnderWay
<1>2. PICK at \in {"sent", "failed"} : Goto(c, at)
  BY DEF SendUserOp, Refused
<1>3. /\ call' = [call EXCEPT ![c] = call'[c]] /\ call'[c].at \in {"sent", "failed"}
  <2>1. at \in Stages
    BY DEF Stages
  <2> QED BY <1>2, <2>1, GotoType
<1>4. /\ \A d \in Calls : d # c => call'[d] = call[d] /\ alone'[d] = alone[d]
      /\ alone'[c] = FALSE
  BY <1>1, <1>3 DEF Typed
<1>5. ~raced => Deployed' /\ \A d \in Calls : Unraced(d)'
  <2>1. ~raced => Unraced(c)'
    BY <1>1, <1>3 DEF Unraced, UnderWay
  <2>2. \A d \in Calls : d # c /\ ~raced => Unraced(d)'
    BY <1>1, <1>4 DEF Solitude, Unraced, UnderWay
  <2> QED BY <1>1, <2>1, <2>2 DEF Deployed, Solitude
<1>6. Fresh(c)' /\ Alone(c)'
  BY <1>3, <1>4 DEF Fresh, Alone
<1>7. ASSUME NEW d \in Calls, d # c
      PROVE  Fresh(d)' /\ Alone(d)'
  <2>1. Fresh(d) /\ ~(alone[d] /\ UnderWay(d))
    BY <1>1, <1>7 DEF Solitude, Alone
  <2> QED BY <1>4, <1>7, <2>1 DEF Fresh, Alone, UnderWay
<1> QED BY <1>1, <1>5, <1>6, <1>7 DEF Solitude, ChainFacts

LEMMA MinedAlone ==
    ASSUME Typed, Solitude, NEW op \in pool, NEW outcome \in Outcomes, Mined(op, outcome)
    PROVE  Solitude'
<1>1. /\ UNCHANGED <<account, isPhantom, connecting, call, wait, polled, alone, raced>>
      /\ chain'.code = chain.code \cup {op.sender}
      /\ chain'.nonce = [chain.nonce EXCEPT ![op.sender] = @ + 1]
  BY DEF Mined, signer, history
<1>2. ChainFacts'
  <2>1. chain.nonce \in [Addresses -> Nat] /\ ChainFacts
    BY DEF Typed, ChainType, Solitude
  <2>2. ASSUME NEW a \in Addresses, a \notin chain'.code
        PROVE  chain'.nonce[a] = 0
    <3>1. a # op.sender /\ a \notin chain.code
      BY <1>1, <2>2
    <3> QED BY <1>1, <2>1, <3>1 DEF ChainFacts
  <2> QED BY <1>1, <2>1, <2>2 DEF ChainFacts
<1>3. ~raced => Deployed' /\ \A d \in Calls : Unraced(d)'
  BY <1>1 DEF Solitude, Deployed, Unraced, UnderWay
<1>4. ASSUME NEW d \in Calls
      PROVE  Fresh(d)' /\ Alone(d)'
  <2>1. Fresh(d) /\ ~(alone[d] /\ UnderWay(d))
    BY DEF Solitude, Alone
  <2> QED BY <1>1, <2>1 DEF Fresh, Alone, UnderWay
<1> QED BY <1>1, <1>2, <1>3, <1>4 DEF Solitude

LEMMA InitSolitude == Init => Solitude
<1> SUFFICES ASSUME Init PROVE Solitude
  OBVIOUS
<1>1. ChainFacts
  BY DEF Init, ChainFacts
<1>2. Deployed
  BY DEF Init, Deployed
<1>3. \A c \in Calls : call[c].at = "idle" /\ call[c].seen = None /\ alone[c] = FALSE
  BY DEF Init
<1>4. \A c \in Calls : Unraced(c) /\ Fresh(c) /\ Alone(c)
  BY <1>3 DEF Unraced, Fresh, Alone, UnderWay
<1> QED BY <1>1, <1>2, <1>4 DEF Solitude

LEMMA NextSolitude == Typed /\ Solitude /\ [Next]_vars => Solitude'
<1> SUFFICES ASSUME Typed, Solitude, [Next]_vars PROVE Solitude'
  OBVIOUS
<1>1. ASSUME NEW c \in Calls, SendTransaction(c) \/ DeploymentAddress(c)
                                \/ CodeAnswered(c) \/ CodeArrives(c)
      PROVE  Solitude'
  BY <1>1, SendTransactionAlone, DeploymentAddressAlone, CodeAnsweredAlone,
     CodeArrivesAlone
<1>2. ASSUME NEW c \in Calls, InitCode(c) \/ FillAndSign(c) \/ SendUserOp(c) \/ Refused(c)
      PROVE  Solitude'
  BY <1>2, InitCodeAlone, FillAndSignAlone, SendUserOpAlone
<1>3. CASE \/ \E c \in Calls : Listener(c)
           \/ Poll
           \/ UNCHANGED vars
  BY <1>3, SolitudeSame
     DEF Listener, BlockNumber, OneShot, LooksAt, Settle, Poll, signer, history, vars
<1>4. ASSUME NEW a \in Addresses, ConnectAccountAddress(a)
      PROVE  Solitude'
  BY <1>4, ConnectAccountAddressAlone
<1>5. CASE Connected
  BY <1>5, ConnectedAlone
<1>6. ASSUME NEW op \in pool, NEW o \in Outcomes, Mined(op, o)
      PROVE  Solitude'
  BY <1>6, MinedAlone
<1>7. CASE OtherBlock
  <2>1. /\ UNCHANGED <<account, isPhantom, connecting, call, pool, alone, raced>>
        /\ chain'.code = chain.code /\ chain'.nonce = chain.nonce
    BY <1>7, OtherBlockTyped DEF OtherBlock, signer, history
  <2> QED BY <2>1, SolitudeSame
<1> QED BY <1>1, <1>2, <1>3, <1>4, <1>5, <1>6, <1>7 DEF Next

LEMMA SolitudeInvariant == Spec => []Solitude
BY InitSolitude, NextSolitude, TypedInvariant, PTL DEF Spec

\* For any number of calls: an operation that was made while nothing else was under
\* way or pending is one that the EntryPoint takes, from the account, with an
\* initCode if and only if there is none yet, and with its next nonce, as long as
\* connectAccountAddress has met no other call.  (AASigner.ts:453-523)
THEOREM AloneAlwaysFits == Spec => []AloneFits
<1>1. Typed /\ Solitude => AloneFits
  <2> SUFFICES ASSUME Typed, Solitude, index = 0, ~raced, NEW c \in Calls,
                      call[c].at = "sending", alone[c]
               PROVE  Fits(call[c].op)
    BY DEF AloneFits
  <2>1. Sees(c) /\ call[c].op \in Ops
    BY DEF Solitude, Alone, UnderWay, Typed, Staged
  <2>2. call[c].op.sender \notin chain.code => call[c].op.sender = Predicted
    BY <2>1 DEF Solitude, ChainFacts, Ops, Addresses
  <2> QED BY <2>1, <2>2 DEF Sees, Fits
<1> QED BY <1>1, TypedInvariant, SolitudeInvariant, PTL
=============================================================================
