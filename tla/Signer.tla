------------------------------- MODULE Signer -------------------------------
(***************************************************************************)
(* AASigner of AASigner.ts: sendTransaction makes an operation of a        *)
(* transaction, subscribes to the event that will report it, hands it to a *)
(* bundler, and returns a response whose wait is settled by the event.     *)
(*                                                                         *)
(* Between two awaits JavaScript runs alone; what interleaves are calls of *)
(* one AASigner, answers of the node, in any order, and what happens on    *)
(* the chain.  A userOpHash is the operation itself: calls pass different  *)
(* transactions.  They leave the nonce to the signer.  The chain, the      *)
(* bundler and the provider that polls for events are external.            *)
(***************************************************************************)
EXTENDS Integers, FiniteSets, FiniteSetsExt

CONSTANTS
    Calls,        \* calls of sendTransaction
    Predicted,    \* the account of _deploymentAddress
    Other,        \* an account that somebody may connect to
    index,        \* of this account for this signer
    Outcomes,     \* of operations: "success", "failure", "failure with reason"
    None,
    MaxBlock      \* bound on blocks

ASSUME SignerAssumption ==
    /\ IsFiniteSet(Calls) /\ index \in Nat /\ MaxBlock \in Nat \ {0}
    /\ Outcomes \subseteq {"success", "failure", "failure with reason"}
    /\ Predicted # Other /\ None \notin {Predicted, Other}

VARIABLES
    account,      \* _account
    isPhantom,    \* _isPhantom
    call,         \* per call, where it waits and what it has so far
    connecting,   \* the address connectAccountAddress waits for, or None
    wait,         \* per call, the promise of its response and its listener
    polled,       \* the last block the provider has found events in, None before the first poll
    pool,         \* the operations the bundler has
    chain,        \* its block, the accounts there are, their nonces, its events
    alone,        \* history: calls not yet sent that nothing has overlapped
    raced         \* history: connectAccountAddress was overlapped

signer == <<account, isPhantom, connecting>>
history == <<alone, raced>>
vars == <<account, isPhantom, call, connecting, wait, polled, pool, chain,
          alone, raced>>

-----------------------------------------------------------------------------
(* Operations and the chain.                                               *)

Addresses == {Predicted, Other}

Op(from, initCode, nonce, c) ==
    [sender |-> from, initCode |-> initCode, nonce |-> nonce, tx |-> c]

\* What the EntryPoint asks of an operation.
Fits(op) == /\ op.nonce = chain.nonce[op.sender]
            /\ op.initCode <=> op.sender \notin chain.code
            /\ op.initCode => op.sender = Predicted

UnderWay(c) == call[c].at \notin {"idle", "sent", "failed"}

Busy == connecting # None \/ \E c \in Calls : UnderWay(c)

\* A call that begins is alone if nothing else is under way or pending.
Overlap(c) == /\ alone' = [d \in Calls |-> IF d = c THEN ~Busy /\ pool = {}
                                           ELSE alone[d] /\ ~UnderWay(d)]
              /\ raced' = (raced \/ connecting # None)

Goto(c, at) == call' = [call EXCEPT ![c].at = at]

-----------------------------------------------------------------------------
(* syncAccount and connectAccountAddress.                                  *)

\* syncAccount is through: the account is read once more if the operation needs
\* no initCode, which nothing waits for.
Synced(c, phantom, acc) ==
    call' = [call EXCEPT ![c] =
        [at |-> IF phantom THEN "initCode" ELSE "fill", asks |-> None, seen |-> None,
         op |-> Op(IF phantom THEN None ELSE acc, phantom, None, c)]]

\* What-if: a phantom is looked at only when the account is first connected.
SendTransactionSyncedOnce(c) ==
    /\ call[c].at = "idle"
    /\ Overlap(c)
    /\ IF account = None THEN Goto(c, "address") ELSE Synced(c, isPhantom, account)
    /\ UNCHANGED <<signer, wait, polled, pool, chain>>

\* sendTransaction, up to the first await of syncAccount.  (getAddress, getAccount
\* and isPhantom are syncAccount alone.)
SendTransaction(c) ==
    /\ call[c].at = "idle"
    /\ Overlap(c)
    /\ IF account = None THEN Goto(c, "address")
       ELSE IF isPhantom
       THEN call' = [call EXCEPT ![c].at = "code", ![c].asks = account]
       ELSE Synced(c, FALSE, account)
    /\ UNCHANGED <<signer, wait, polled, pool, chain>>

\* _deploymentAddress is known; whether there is an account by now is not asked.
DeploymentAddress(c) ==
    /\ call[c].at = "address"
    /\ account' = Predicted
    /\ IF isPhantom
       THEN call' = [call EXCEPT ![c].at = "code", ![c].asks = Predicted]
       ELSE Synced(c, FALSE, Predicted)
    /\ UNCHANGED <<isPhantom, connecting, wait, polled, pool, chain, history>>

\* The node's answer to getCode, and when it arrives.
CodeAnswered(c) ==
    /\ call[c].at = "code" /\ call[c].seen = None
    /\ call' = [call EXCEPT ![c].seen = call[c].asks \notin chain.code]
    /\ UNCHANGED <<signer, wait, polled, pool, chain, history>>

CodeArrives(c) ==
    /\ call[c].at = "code" /\ call[c].seen # None
    /\ isPhantom' = call[c].seen
    /\ Synced(c, call[c].seen, account)
    /\ UNCHANGED <<account, connecting, wait, polled, pool, chain, history>>

\* connectAccountAddress, up to its await.
ConnectAccountAddress(a) ==
    /\ account = None /\ connecting = None
    /\ connecting' = a
    /\ alone' = [c \in Calls |-> alone[c] /\ ~UnderWay(c)]
    /\ raced' = (raced \/ Busy)
    /\ UNCHANGED <<account, isPhantom, call, wait, polled, pool, chain>>

\* What-if: the account is not kept.
ConnectedButNotKept ==
    /\ connecting # None
    /\ connecting' = None
    /\ isPhantom' = (connecting \notin chain.code)
    /\ UNCHANGED <<account, call, wait, polled, pool, chain, history>>

\* There is code at the address, or it throws.
Connected ==
    /\ connecting # None
    /\ connecting' = None
    /\ IF connecting \in chain.code
       THEN account' = connecting /\ isPhantom' = FALSE
       ELSE UNCHANGED <<account, isPhantom>>
    /\ UNCHANGED <<call, wait, polled, pool, chain, history>>

-----------------------------------------------------------------------------
(* _createUserOperation and sendTransaction.                               *)

\* _deploymentTransaction is there: the sender is whatever the account is now.
InitCode(c) ==
    /\ call[c].at = "initCode"
    /\ call' = [call EXCEPT ![c].at = "fill", ![c].op.sender = account]
    /\ UNCHANGED <<signer, wait, polled, pool, chain, history>>

Listening == {c \in Calls : wait[c].listening}

\* userEventResponse: the block's number is asked for and not awaited, the listener
\* and the timer are set.  The first listener has the provider start anew.
UserEventResponse(c) ==
    /\ wait' = [wait EXCEPT ![c] = [@ EXCEPT !.promise = "pending", !.listening = TRUE,
                                             !.timer = TRUE]]
    /\ polled' = IF Listening = {} THEN None ELSE polled

\* fillAndSign, and what follows up to sendUserOp.  The nonce is the index, or the
\* account is asked for it, which throws where there is none.
FillAndSign(c) ==
    LET op == call[c].op
    IN  /\ call[c].at = "fill"
        /\ IF op.initCode \/ op.sender \in chain.code
           THEN /\ call' = [call EXCEPT ![c].at = "sending",
                               ![c].op.nonce = IF op.initCode THEN index
                                               ELSE chain.nonce[op.sender]]
                /\ UserEventResponse(c)
           ELSE Goto(c, "failed") /\ UNCHANGED <<wait, polled>>
        /\ UNCHANGED <<signer, pool, chain, history>>

\* sendUserOp hands the operation over, and returns when the bundler of the rpc has
\* answered or, if it is the local one, when the transaction was mined: either way
\* the response is there already.
SendUserOp(c) ==
    /\ call[c].at = "sending"
    /\ Fits(call[c].op)
    /\ pool' = pool \cup {call[c].op}
    /\ Goto(c, "sent")
    /\ alone' = [alone EXCEPT ![c] = FALSE]
    /\ UNCHANGED <<signer, wait, polled, chain, raced>>

\* The bundler or the node refuses it.  The listener stays.
Refused(c) ==
    /\ call[c].at = "sending"
    /\ Goto(c, "failed")
    /\ alone' = [alone EXCEPT ![c] = FALSE]
    /\ UNCHANGED <<signer, wait, polled, pool, chain, raced>>

-----------------------------------------------------------------------------
(* The listener of userEventResponse.                                      *)

BlockNumber(c) ==
    /\ wait[c].promise # "none" /\ wait[c].currentBlock = None
    /\ wait' = [wait EXCEPT ![c].currentBlock = chain.block]
    /\ UNCHANGED <<signer, call, polled, pool, chain, history>>

\* Listeners are called with an event, and go to their first await.
Notified(w, events) ==
    IF w.resolved THEN w
    ELSE [w EXCEPT !.runs = @ \cup {[event |-> e, at |-> "block"] : e \in events}]

\* The provider polls: the last block when it does so first, and then what has come
\* since it found something.
Poll ==
    LET first == IF polled = None THEN chain.block ELSE polled + 1
        found == {e \in chain.events : e.block >= first}
    IN  /\ Listening # {}
        /\ found # {} \/ polled = None
        /\ polled' = IF found = {} THEN chain.block - 1
                     ELSE Max({e.block : e \in found})
        /\ wait' = [c \in Calls |-> IF c \in Listening THEN Notified(wait[c], found)
                                    ELSE wait[c]]
        /\ UNCHANGED <<signer, call, pool, chain, history>>

\* What-if: without the one-shot timer.
OneShotNever(c) ==
    /\ wait[c].timer
    /\ wait' = [wait EXCEPT ![c].timer = FALSE]
    /\ UNCHANGED <<signer, call, polled, pool, chain, history>>

\* The one-shot timer: a query for the operation's event.
OneShot(c) ==
    /\ wait[c].timer
    /\ wait' = [wait EXCEPT ![c] =
          Notified([@ EXCEPT !.timer = FALSE],
                   {e \in chain.events : e.op = call[c].op})]
    /\ UNCHANGED <<signer, call, polled, pool, chain, history>>

\* What-if: any event will do.
IsOursAny(c, e) == e.block > wait[c].currentBlock

\* After the current block, and with this userOpHash.
IsOurs(c, e) == e.block > wait[c].currentBlock /\ e.op = call[c].op

\* The block's number has come: the listener looks at the event.
LooksAt(c, run) ==
    /\ run \in wait[c].runs /\ run.at = "block" /\ wait[c].currentBlock # None
    /\ wait' = [wait EXCEPT ![c].runs =
          (@ \ {run}) \cup (IF IsOurs(c, run.event)
                            THEN {[run EXCEPT !.at = "receipt"]} ELSE {})]
    /\ UNCHANGED <<signer, call, polled, pool, chain, history>>

\* UserOperationRevertReason, filtered by an account where the event has the
\* userOpHash.
RevertReasonEvents(op) ==
    {e \in chain.events : e.outcome = "failure with reason" /\ e.op = op.sender}

\* The receipt has come, and the reason: the promise is settled, if it is not yet.
\* A rejection leaves the listener where it is; otherwise what is still to come of
\* it, the timer or the same event once more, changes nothing, and is left out.
Settle(c, run) ==
    LET e        == run.event
        rejected == e.outcome # "success" /\ RevertReasonEvents(call[c].op) # {}
        result   == IF rejected THEN "rejected"
                    ELSE IF e.outcome = "success" THEN "status 1" ELSE "status 0"
        w        == [wait[c] EXCEPT !.runs = @ \ {run},
                                    !.promise = IF @ = "pending" THEN result ELSE @]
    IN  /\ run \in wait[c].runs /\ run.at = "receipt"
        /\ wait' = [wait EXCEPT ![c] =
              IF rejected THEN w
              ELSE [w EXCEPT !.listening = FALSE, !.resolved = TRUE, !.timer = FALSE,
                             !.runs = {}]]
        /\ UNCHANGED <<signer, call, polled, pool, chain, history>>

-----------------------------------------------------------------------------
(* The bundler and the chain.                                              *)

\* Nothing says that an operation is ever mined.
Mined(op, outcome) ==
    /\ op \in pool /\ Fits(op) /\ chain.block < MaxBlock
    /\ chain' = [block  |-> chain.block + 1,
                 code   |-> chain.code \cup {op.sender},
                 nonce  |-> [chain.nonce EXCEPT ![op.sender] = @ + 1],
                 events |-> chain.events \cup
                     {[op |-> op, block |-> chain.block + 1, outcome |-> outcome]}]
    /\ pool' = pool \ {op}
    /\ UNCHANGED <<signer, call, wait, polled, history>>

OtherBlock ==
    /\ chain.block < MaxBlock
    /\ chain' = [chain EXCEPT !.block = @ + 1]
    /\ UNCHANGED <<signer, call, wait, polled, pool, history>>

-----------------------------------------------------------------------------

Init ==
    /\ account = None /\ isPhantom = TRUE /\ connecting = None
    /\ call = [c \in Calls |-> [at |-> "idle", asks |-> None,
                                seen |-> None, op |-> None]]
    /\ wait = [c \in Calls |-> [promise |-> "none", currentBlock |-> None,
                                listening |-> FALSE, timer |-> FALSE,
                                resolved |-> FALSE, runs |-> {}]]
    /\ polled = None /\ pool = {}
    /\ chain = [block |-> 1, code |-> {Other}, nonce |-> [a \in Addresses |-> 0],
                events |-> {}]
    /\ alone = [c \in Calls |-> FALSE] /\ raced = FALSE

Listener(c) == \/ BlockNumber(c) \/ OneShot(c)
               \/ \E run \in wait[c].runs : LooksAt(c, run) \/ Settle(c, run)

Next == \/ \E c \in Calls :
              \/ SendTransaction(c) \/ DeploymentAddress(c)
              \/ CodeAnswered(c) \/ CodeArrives(c)
              \/ InitCode(c) \/ FillAndSign(c) \/ SendUserOp(c) \/ Refused(c)
              \/ Listener(c)
        \/ \E a \in Addresses : ConnectAccountAddress(a)
        \/ Connected
        \/ Poll
        \/ \E op \in pool, o \in Outcomes : Mined(op, o)
        \/ OtherBlock

\* The provider answers and polls, and timers fire.
Fairness == WF_vars(Poll) /\ \A c \in Calls : WF_vars(Listener(c))

Spec == Init /\ [][Next]_vars /\ Fairness

-----------------------------------------------------------------------------
(* Properties.                                                             *)

Stages == {"idle", "address", "code", "initCode", "fill", "sending", "sent", "failed"}

\* Types.  A signer without an account takes it for a phantom, so that the first
\* operation carries its initCode (AASigner.ts:252, 277-288, 453-468).
TypeOK ==
    /\ account \in Addresses \cup {None} /\ isPhantom \in BOOLEAN
    /\ account = None => isPhantom
    /\ connecting \in Addresses \cup {None}
    /\ \A c \in Calls : /\ call[c].at \in Stages
                        /\ call[c].asks \in Addresses \cup {None}
                        /\ call[c].seen \in BOOLEAN \cup {None}
                        /\ wait[c].promise \in {"none", "pending", "status 1",
                                               "status 0", "rejected"}
                        /\ wait[c].currentBlock \in 1 .. MaxBlock \cup {None}
                        /\ wait[c].runs \subseteq [event : chain.events,
                                                  at : {"block", "receipt"}]
                        /\ wait[c].listening => wait[c].promise # "none"
    /\ polled \in 0 .. MaxBlock \cup {None}
    /\ \A op \in pool : op.sender \in Addresses

EventsOf(c) == {e \in chain.events : e.op = call[c].op}

\* All listeners are called with all events, by the provider and by the one-shot
\* timer, while block numbers and receipts are still awaited: a wait is settled
\* only when its own operation was mined, and tells whether it succeeded
\* (AASigner.ts:348-406).
SettledTruly ==
    \A c \in Calls :
       wait[c].promise \notin {"none", "pending"} =>
          \E e \in EventsOf(c) :
             (wait[c].promise = "status 1") <=> (e.outcome = "success")

\* An operation that was made while nothing else was under way or pending is one
\* that the EntryPoint takes: from the account, with an initCode if and only if
\* there is none yet, and with its next nonce, whatever has come before, as long
\* as connectAccountAddress has met no other call (AASigner.ts:453-523).
AloneFits ==
    (index = 0 /\ ~raced) =>
       \A c \in Calls : call[c].at = "sending" /\ alone[c] => Fits(call[c].op)

\* What finds an event: the timer, or a poll of blocks not seen yet.
IsFound(c, e) == \/ wait[c].timer
                 \/ wait[c].listening /\ polled # None /\ polled < e.block

\* The listener and the timer together miss no operation that is mined in a block
\* after the one whose number was answered, and either before the timer fires or
\* in a block the provider polls: its wait is settled (AASigner.ts:346-425).
Settles ==
    \A c \in Calls :
       (\E e \in EventsOf(c) : /\ IsFound(c, e)
                               /\ wait[c].currentBlock # None
                               /\ wait[c].currentBlock < e.block)
          ~> (wait[c].promise # "pending")

\* "the response waits for events, which might be triggered before the actual send
\* returns" (AASigner.ts:447): an event that the timer or a poll finds settles the
\* wait it is for.
WaitsForEvents ==
    \A c \in Calls : (\E e \in EventsOf(c) : IsFound(c, e))
                        ~> (wait[c].promise # "pending")
=============================================================================
