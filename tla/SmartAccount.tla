---------------------------- MODULE SmartAccount ----------------------------
(***************************************************************************)
(* One Biconomy smart account: SmartAccount.sol with ModuleManager.sol,    *)
(* Executor.sol and FallbackManager.sol, running on a call stack.          *)
(*                                                                         *)
(* The EVM runs one call at a time, and a called contract may call back:   *)
(* what interleaves is not threads but the frames of one transaction.  The *)
(* stack is therefore state.  The frame on top acts: it calls, returns or  *)
(* reverts, and a frame that reverts puts the account's storage back to    *)
(* what it was when the frame was entered.                                 *)
(*                                                                         *)
(* The code of every other contract (modules, setup contracts, handlers,   *)
(* targets, paymasters) is arbitrary: it may call anything in any order.   *)
(* The EntryPoint is external but fixed: it validates the operations of a  *)
(* bundle first and executes them afterwards.                              *)
(***************************************************************************)
EXTENDS ModuleList

CONSTANTS
    Account,          \* the account (the proxy whose storage is modelled)
    EntryPoint,       \* the EntryPoint the implementation was built with
    Contracts,        \* every other address that runs code or sends
    Candidates,       \* addresses tried as modules
    Handlers,         \* addresses tried as fallback handlers
    Implementations,  \* contracts with the code modelled here
    CodeLess,         \* an address without code
    None, Fail,       \* no call has ended; the call has failed
    MaxDepth,         \* bound on the stack
    MaxBatch,         \* bound on the calls of one batch
    MaxOps            \* bound on the account's operations in one bundle

ASSUME AccountAssumption ==
    /\ Addr = {Zero, Sentinel, Account, EntryPoint, CodeLess}
                \cup Contracts \cup Implementations
    /\ Account \notin {Zero, Sentinel, EntryPoint}
    /\ EntryPoint \notin {Zero, Sentinel}
    /\ {Zero, Sentinel, Account, EntryPoint} \cap Contracts = {}
    /\ {Zero, CodeLess} \cap Implementations = {}
    /\ Implementations # {}
    /\ Candidates \subseteq Proper
    /\ Handlers \subseteq Addr \ {Zero}
    /\ None \notin Addr /\ Fail \notin Addr /\ None # Fail

ASSUME BoundsAssumption ==
    MaxDepth \in Nat /\ MaxBatch \in Nat /\ MaxOps \in Nat

VARIABLES
    modules,          \* _modules
    handler,          \* the fallback handler slot
    implementation,   \* the proxy's implementation slot
    frames,           \* the call stack, outermost call first
    ret               \* what the call that has just ended gives the top frame

storage == <<modules, handler, implementation>>
vars    == <<modules, handler, implementation, frames, ret>>

-----------------------------------------------------------------------------
(* Frames.                                                                 *)

\* Code of the account, or running as the account (multiSend, by delegatecall).
AccountCode == {"init", "setup", "validateUserOp", "execute",
                "execFromModule", "multiSend"}

\* Code of the EntryPoint: the two phases of handleOps, and the frame in
\* which it executes one operation.
EntryPointCode == {"validating", "executing", "innerHandleOp"}

Code == AccountCode \cup EntryPointCode \cup {"external"}

\* Code that goes on after a call it made has failed.
Tolerant == {"external", "execFromModule", "executing", "innerHandleOp"}

\* Code that does something when the call it made has ended.
Awaiting == {"init", "setup", "validateUserOp"}

Store == [modules |-> modules, handler |-> handler,
          implementation |-> implementation]

\* left: calls the frame has still to make; in the EntryPoint's two phases,
\* operations validated and not yet executed.
Frame(code, self, left) ==
    [code |-> code, self |-> self, left |-> left, saved |-> Store]

Depth  == Len(frames)
Top    == frames[Depth]
Caller == Top.self                  \* msg.sender of a call made now

\* The stack after the top frame has made one of the calls it had left.
Spent == [frames EXCEPT ![Depth].left = IF @ = 0 THEN 0 ELSE @ - 1]

\* What the end of a call means to the code that made it.
Delivered(code, v) ==
    IF v = Fail THEN IF code \in Tolerant THEN None ELSE Fail
                ELSE IF code \in Awaiting THEN v ELSE None

\* A call that needs no frame of its own ends with v.
Answer(v) == frames' = Spent /\ ret' = Delivered(Top.code, v)

\* The top frame ends with v.
Leave(v) == /\ frames' = SubSeq(frames, 1, Depth - 1)
            /\ ret' = IF Depth = 1 THEN None
                      ELSE Delivered(frames[Depth - 1].code, v)

Enter(code, self, left) == /\ Depth < MaxDepth
                           /\ frames' = Append(Spent, Frame(code, self, left))
                           /\ ret' = None

\* The top frame makes a call.
Calling == /\ frames # <<>>
           /\ ret = None
           /\ \/ Top.code = "external"
              \/ Top.code \notin {"validating", "executing"} /\ Top.left > 0

\* ... to the account.  The EntryPoint calls it once for an operation.
CallsAccount == Calling /\ (Top.code = "innerHandleOp" => Top.left = 2)

\* The guard of handleOps: nobody is inside the EntryPoint.
NoBundle == \A k \in 1 .. Depth : frames[k].self # EntryPoint

FromEntryPointOrSelf == Caller \in {EntryPoint, Account}
FromEntryPoint       == Caller = EntryPoint
\* What-if: the module calling is not looked up.
FromAnyone           == Caller # Sentinel
FromModule           == IsEnabled(modules, Caller)

-----------------------------------------------------------------------------
(* The account's functions.                                                *)

\* init: whoever comes first; the handler is set before the setup contract
\* is called, and it is the handler that a second init meets.
InitTest == ~Started(modules) /\ handler = Zero

\* What-if: the test is left to the modules alone.
InitAccountByModules(h) ==
    /\ CallsAccount
    /\ ~Started(modules)
    /\ handler' = h
    /\ Enter("init", Account, 1)
    /\ UNCHANGED <<modules, implementation>>

\* What-if: a null handler is accepted.
InitAccountNullHandler(h) ==
    /\ CallsAccount
    /\ InitTest
    /\ handler' = h
    /\ Enter("init", Account, 1)
    /\ UNCHANGED <<modules, implementation>>

InitAccount(h) ==
    /\ CallsAccount
    /\ InitTest
    /\ h # Zero
    /\ handler' = h
    /\ Enter("init", Account, 1)
    /\ UNCHANGED <<modules, implementation>>

\* The setup contract has returned the initial module.
InitDone ==
    /\ frames # <<>> /\ Top.code = "init"
    /\ ret \in Addr /\ CanStart(ret)
    /\ modules' = Start(modules, ret)
    /\ Leave(ret)
    /\ UNCHANGED <<handler, implementation>>

EnableModule(m) ==
    /\ CallsAccount /\ FromEntryPointOrSelf
    /\ CanLink(modules, m)
    /\ modules' = Link(modules, m)
    /\ Answer(Zero)
    /\ UNCHANGED <<handler, implementation>>

SetupAndEnableModule ==
    /\ CallsAccount /\ FromEntryPointOrSelf
    /\ Enter("setup", Account, 1)
    /\ UNCHANGED storage

\* What-if: the module is not checked again after the setup call.
SetupDoneUnchecked ==
    /\ frames # <<>> /\ Top.code = "setup"
    /\ ret \in Addr /\ CanStart(ret)
    /\ modules' = Link(modules, ret)
    /\ Leave(ret)
    /\ UNCHANGED <<handler, implementation>>

\* The setup contract has returned the module: _enableModule checks it now.
SetupDone ==
    /\ frames # <<>> /\ Top.code = "setup"
    /\ ret \in Addr /\ CanLink(modules, ret)
    /\ modules' = Link(modules, ret)
    /\ Leave(ret)
    /\ UNCHANGED <<handler, implementation>>

DisableModule(prev, m) ==
    /\ CallsAccount /\ FromEntryPointOrSelf
    /\ CanUnlink(modules, prev, m)
    /\ modules' = Unlink(modules, prev, m)
    /\ Answer(Zero)
    /\ UNCHANGED <<handler, implementation>>

SetFallbackHandler(h) ==
    /\ CallsAccount /\ FromEntryPointOrSelf
    /\ h # Zero
    /\ handler' = h
    /\ Answer(Zero)
    /\ UNCHANGED <<modules, implementation>>

\* What-if: an address without code is accepted.
UpdateImplementationUnchecked(i) ==
    /\ CallsAccount /\ FromEntryPointOrSelf
    /\ i # Zero
    /\ implementation' = i
    /\ Answer(Zero)
    /\ UNCHANGED <<modules, handler>>

UpdateImplementation(i) ==
    /\ CallsAccount /\ FromEntryPointOrSelf
    /\ i # Zero /\ i # CodeLess
    /\ implementation' = i
    /\ Answer(Zero)
    /\ UNCHANGED <<modules, handler>>

\* execute, executeBatch: every call must succeed.
Execute ==
    /\ CallsAccount /\ FromEntryPoint
    /\ Enter("execute", Account, 1)
    /\ UNCHANGED storage

ExecuteBatch ==
    /\ CallsAccount /\ FromEntryPoint
    /\ \E n \in 1 .. MaxBatch : Enter("execute", Account, n)
    /\ UNCHANGED storage

\* execTransactionFromModule and its batch: the module is looked up once, and
\* a call that fails does not end the batch.
ExecFromModule ==
    /\ CallsAccount /\ FromModule
    /\ Enter("execFromModule", Account, 1)
    /\ UNCHANGED storage

ExecBatchFromModule ==
    /\ CallsAccount /\ FromModule
    /\ \E n \in 1 .. MaxBatch : Enter("execFromModule", Account, n)
    /\ UNCHANGED storage

\* A delegatecall to MultiSend, whose calls come from the account itself.
MultiSend ==
    /\ Calling /\ Top.code \in {"execFromModule", "multiSend"}
    /\ \E n \in 1 .. MaxBatch : Enter("multiSend", Account, n)
    /\ UNCHANGED storage

\* A call to a function the account does not have goes on to the handler: to a
\* contract, or to the EntryPoint's handleOps from the account itself.
Fallback ==
    /\ CallsAccount
    /\ \/ handler \in Contracts /\ Enter("external", handler, 0)
       \/ handler = EntryPoint /\ NoBundle /\ Enter("validating", EntryPoint, 0)
    /\ UNCHANGED storage

\* Without a handler it returns nothing, and others answer without a change here.
\* A handler that is the account does not have the function either: the rounds
\* through the fallback end without gas.
FallbackEnds ==
    /\ CallsAccount
    /\ \/ handler \notin Contracts \cup {Account} /\ Answer(Zero)
       \/ handler = Account /\ Answer(Fail)
    /\ UNCHANGED storage

-----------------------------------------------------------------------------
(* The EntryPoint.                                                         *)

\* A call to handleOps.
HandleOps ==
    /\ Calling
    /\ NoBundle
    /\ Enter("validating", EntryPoint, 0)
    /\ UNCHANGED storage

\* validateUserOp: the account calls the module the operation names.
ValidateUserOp(m) ==
    /\ frames # <<>> /\ ret = None /\ Top.code = "validating"
    /\ Top.left < MaxOps
    /\ m \in Contracts /\ modules[m] # Zero
    /\ Depth + 2 <= MaxDepth
    /\ frames' = Append(Append([frames EXCEPT ![Depth].left = @ + 1],
                               Frame("validateUserOp", Account, 0)),
                        Frame("external", m, 0))
    /\ ret' = None
    /\ UNCHANGED storage

\* The module has accepted; the prefund is paid, failing or not.
ValidateUserOpDone ==
    /\ frames # <<>> /\ Top.code = "validateUserOp" /\ ret \in Addr
    /\ Leave(Zero)
    /\ UNCHANGED storage

ExecuteBundle ==
    /\ frames # <<>> /\ ret = None /\ Top.code = "validating"
    /\ frames' = [frames EXCEPT ![Depth].code = "executing"]
    /\ ret' = None
    /\ UNCHANGED storage

\* One operation: a call to the account, then the paymaster's postOp.
InnerHandleOp ==
    /\ frames # <<>> /\ ret = None
    /\ Top.code = "executing" /\ Top.left > 0
    /\ Enter("innerHandleOp", EntryPoint, 2)
    /\ UNCHANGED storage

-----------------------------------------------------------------------------
(* Everybody else.                                                         *)

\* A transaction: an outsider's own call, or a bundler's handleOps.
Transact ==
    /\ frames = <<>>
    /\ \/ \E c \in Contracts : frames' = <<Frame("external", c, 0)>>
       \/ frames' = <<Frame("validating", EntryPoint, 0)>>
    /\ ret' = None
    /\ UNCHANGED storage

\* Any frame that may call, calls another contract; of an operation this is
\* the postOp, after the account's call.
CallContract(c) ==
    /\ Calling
    /\ Top.code = "innerHandleOp" => Top.left = 1
    /\ Enter("external", c, 0)
    /\ UNCHANGED storage

\* A call fails at once and its caller goes on.
CallFails ==
    /\ Calling /\ Top.code \in Tolerant \ {"external"}
    /\ Answer(Fail)
    /\ UNCHANGED storage

\* What a contract may return where the account reads an address.
Answers == Candidates \cup {Zero, Sentinel}

Return ==
    /\ frames # <<>> /\ ret = None
    /\ \/ Top.code \in {"external", "innerHandleOp"}
       \/ Top.code \in Code \ (Awaiting \cup {"validating"}) /\ Top.left = 0
    /\ \E v \in IF Top.code = "external" THEN Answers ELSE {Zero} : Leave(v)
    /\ UNCHANGED storage

\* A revert of the top frame: because a call it needs has failed, because it
\* gives up, or because it has run out of gas.
Revert ==
    /\ frames # <<>>
    /\ modules' = Top.saved.modules
    /\ handler' = Top.saved.handler
    /\ implementation' = Top.saved.implementation
    /\ Leave(Fail)

-----------------------------------------------------------------------------

Init == /\ modules = Blank
        /\ handler = Zero
        /\ implementation \in Implementations
        /\ frames = <<>>
        /\ ret = None

Next ==
    \/ \E h \in Handlers \cup {Zero} : InitAccount(h) \/ SetFallbackHandler(h)
    \/ \E m \in Candidates \cup {Zero, Sentinel} :
          EnableModule(m) \/ \E prev \in Addr : DisableModule(prev, m)
    \/ \E i \in Implementations \cup {CodeLess, Zero} : UpdateImplementation(i)
    \/ InitDone \/ SetupAndEnableModule \/ SetupDone
    \/ Execute \/ ExecuteBatch \/ ExecFromModule \/ ExecBatchFromModule
    \/ MultiSend \/ Fallback \/ FallbackEnds
    \/ HandleOps \/ ValidateUserOpDone \/ ExecuteBundle \/ InnerHandleOp
    \/ \E c \in Contracts : ValidateUserOp(c) \/ CallContract(c)
    \/ Transact \/ CallFails \/ Return \/ Revert

Spec == Init /\ [][Next]_vars
-----------------------------------------------------------------------------
(* Properties.                                                             *)

StoreType == [modules : Mapping, handler : Addr,
              implementation : Implementations]

FrameType == [code : Code, self : Addr, left : Nat, saved : StoreType]

\* Types; the implementation slot always holds a contract with the account's
\* code (updateImplementation refuses null and an address without code).
TypeOK == /\ modules \in Mapping
          /\ handler \in Addr
          /\ implementation \in Implementations
          /\ frames \in Seq(FrameType)
          /\ ret \in Addr \cup {None, Fail}

\* An init is running.
InInit == \E k \in 1 .. Depth : frames[k].code = "init"

\* Whatever calls interleave and whichever of them revert, the links form one
\* ring through the sentinel, or nothing: no module is lost from it, none is in
\* it twice, and no disabled module keeps a link (ModuleManager.sol:210-299).
\* The same holds of everything a revert would put back.  Inside init the
\* mapping is not read as a list before the setup call is over.
ListIntact == /\ ~InInit => WellFormed(modules)
              /\ \A k \in 1 .. Depth : WellFormed(frames[k].saved.modules)

\* init runs at most once at a time and only over storage nobody has written:
\* the setup contract cannot get a second init in, though the modules are only
\* written after its call (SmartAccount.sol:95-106, ModuleManager.sol:285-297).
InitAlone == \A k \in 1 .. Depth : frames[k].code = "init" =>
                /\ frames[k].saved.modules = Blank
                /\ frames[k].saved.handler = Zero
                /\ \A j \in (k + 1) .. Depth : frames[j].code # "init"

\* Code that acts for the account by somebody's authority.
Authorised == {"innerHandleOp", "validateUserOp", "execute",
               "execFromModule", "multiSend"}

\* While init runs nobody has authority over the account: the setup contract
\* and whatever it calls cannot act for an account without modules.
InitIsolated == InInit => \A k \in 1 .. Depth : frames[k].code \notin Authorised

\* An account that has started has a fallback handler, so that the other half of
\* init's test holds as well (SmartAccount.sol:100-103).
StartedHasHandler == Started(modules) => handler # Zero

\* Each call the account's code makes for somebody was authorised where the
\* chain began: an operation of the EntryPoint or a module that was enabled
\* when its call came in, with only the account's own frames in between.
Mandated(k) ==
    \E j \in 1 .. k :
       /\ \/ frames[j].code = "innerHandleOp"
          \/ /\ frames[j].code = "execFromModule"
             /\ j > 1
             /\ IsEnabled(frames[j].saved.modules, frames[j - 1].self)
       /\ \A i \in (j + 1) .. k : frames[i].self = Account

Unwound == /\ Depth' < Depth
           /\ Store' = Top.saved

\* Storage of a started account changes by a revert or at the top of a mandated
\* chain of frames, and in no other way (SmartAccount.sol:388-402,
\* ModuleManager.sol:97-99, 179-181).
ChangesMandated ==
    [][(Started(modules) /\ ~InInit /\ Store' # Store)
          => Unwound \/ Mandated(Depth)]_vars

\* A started account is started for good: only undoing the transaction that
\* started it takes that back, and disabling the last module does not.
StartedForGood ==
    [][Started(modules) /\ ~Started(modules') => Unwound /\ frames # <<>>]_vars

\* One page from the sentinel that is long enough shows the enabled modules,
\* each once, and says that there are no more (ModuleManager.sol:56-81).
PageShowsAll ==
    LET p == Page(modules, Sentinel, Cardinality(Addr))
    IN  (Started(modules) /\ ~InInit) =>
           /\ {p.array[k] : k \in 1 .. Len(p.array)} = Enabled(modules)
           /\ Len(p.array) = Cardinality(Enabled(modules))
           /\ p.next = Sentinel

\* The account implements ModuleRegistry; while init runs, nothing has started.
Registry == INSTANCE ModuleRegistry WITH
    Module  <- Proper,
    enabled <- IF InInit THEN {} ELSE Enabled(modules),
    started <- ~InInit /\ Started(modules),
    marks   <- [k \in 1 .. Depth |->
                  [enabled |-> Enabled(frames[k].saved.modules),
                   started |-> Started(frames[k].saved.modules)]]

\* A set of modules started once and changed one module at a time inside nested
\* transactions is what the linked list and the call stack amount to.
ImplementsRegistry == Registry!RegSpec
=============================================================================
