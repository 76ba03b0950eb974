# A verification development for the Biconomy smart contract wallet

The modules in this directory model the contracts of `src/contracts/smart-account`
and the TypeScript that sends operations to them in TLA+. TLC checks
them on small instances; TLAPS proves the most important invariants for every
instance. Line numbers refer to the sources; `PROJECT.json` maps each definition
to the lines it stands for.

## 1. The system

A *smart account* is a proxy that delegates to one implementation. It does
nothing by itself: *modules* decide whether an operation is authorised and may
act on the account's behalf. The *EntryPoint* (ERC-4337, not part of the
repository) receives bundles of *user operations*, validates all of them and
then executes them one by one; a *paymaster* may pay the gas. A *factory* deploys
proxies at predictable addresses. Off chain, a TypeScript signer queues
operations and waits for the events they raise.

| Component | State it keeps | Operations | Talks to | Modelled by |
|---|---|---|---|---|
| SmartAccount, ModuleManager, FallbackManager, Executor, Proxy | `_modules` (linked list), fallback handler, implementation slot | `init`, enable / setup-and-enable / disable module, set handler, update implementation, execute, executeBatch, module transactions and batches, `validateUserOp`, fallback | modules, setup contracts, handler, EntryPoint, itself (self-calls), MultiSend (delegatecall) | `SmartAccount` |
| MultiSend, MultiSendCallOnly | none | a list of calls made as the account | any contract | `SmartAccount` |
| SmartAccountFactory | code deployed at an address | deploy counterfactual or plain, predict an address | proxies (`init` in the same transaction) | `Ownership` (the counterfactual one) |
| Create3, Deployer | code deployed at an address | deploy at a salt's address | the deployment scripts | `Deployment` |
| VerifyingSingletonPaymaster (BasePaymaster, PaymasterHelpers) | balance per paymaster id, signer, overhead, owner; its deposit in the EntryPoint | depositFor, withdrawTo, setSigner, setUnaccountedEPGasOverhead, validatePaymasterUserOp, postOp | EntryPoint, recipients of withdrawals | `Paymaster` |
| Ownership registries (ECDSA, smart-contract owner), MultichainECDSAValidator | owner per account | init, transfer, renounce, validateUserOp | the account that calls them | `Ownership` |
| SessionKeyManager, ERC20 session validation | Merkle root per account | setMerkleRoot, validateUserOp | session validation modules | `Ownership` |
| PasskeyRegistryModule, Secp256r1 | public key per account; none | init, validateUserOp; curve arithmetic | - | `Ownership` (without the arithmetic) |
| SmartAccountV1 (upgrade test) | owner, nonces, the storage the second version finds | setOwner, execTransaction, executeCall, updateImplementation, validateUserOp | its owner, registries, EntryPoint | `Ownership`, `OwnerClient` |
| ForwardFlowModule | nonces, domain | execTransaction with refund, handlePaymentRevert, requiredTxGas | account (as module), owner signatures, refund receiver, tokens | `ForwardFlow`, `ForwardGas`, `OwnerClient` |
| The client (`src/src/utils/execution.ts`) | a transaction between two awaits | build, sign, submit | an account or the module, wallets | `OwnerClient` |
| The queue of `AASigner.ts` | operations per account, a flag, a time | queue, push | a timer, EntryPoint | `QueueSender` |
| AASigner | the connected account, a listener per operation | sendTransaction, connectAccountAddress, userEventResponse | node, bundler, provider | `Signer` |
| deploy.ts, deployer-contract.deploy.ts | nothing but the chain | one step after the other | node, Deployer, factory, paymaster | `Deployment` |
| SocialRecoveryModule (test), handlers, mocks, small scripts | - | - | - | - |

### What is hard here

Nothing runs in parallel, and everything interleaves. Every external call hands
control to code that may call back into the account, the paymaster or the
EntryPoint, to any depth, and every call may be undone by a revert that its
caller survives. Authorisation is decided by who calls *now* although the
decision was taken earlier: the EntryPoint validates the whole bundle first, a
module's batch looks the module up once, a withdrawal calls its recipient. Money
is promised when an operation is validated, and moved after it was executed.
`PROJECT.json` lists the hazards at the lines where they bite, with the
properties that would catch them.

## 2. The modules

| Module | What it is |
|---|---|
| `ModuleList` | the linked list of `ModuleManager.sol`: operators on the mapping `_modules`, among them `Page` (`getModulesPaginated`), and what a well-formed list is |
| `ModuleRegistry` | the abstract account: a set of enabled modules inside nested transactions that are kept or undone |
| `SmartAccount` | the account on a call stack; implements `ModuleRegistry` |
| `SmartAccountProofs` | the proofs about the list and the account |
| `GasTank` | the abstract paymaster: a pot, a credit per dapp, nested transactions |
| `Paymaster`, `PaymasterProofs` | `VerifyingSingletonPaymaster.sol` with the EntryPoint's prefund and postOp around it; implements `GasTank`; and the proofs |
| `ForwardFlow` | `ForwardFlowModule.sol` on a call stack: nonces, guard, refunds, estimates |
| `ForwardGas` | the gas of one `execTransaction`, from its test to the target and back |
| `ForwardFlowProofs` | the proofs about both |
| `Ownership` | who is in charge of one account: deployment, both versions, registries, sessions, bundles |
| `OwnerClient` | an owner's client composed with `Ownership` |
| `OwnershipProofs` | the proofs about both |
| `QueueSender`, `QueueSenderProofs` | `queueUserOpSender` and `sendQueuedUserOps` of `AASigner.ts`; and the proofs |
| `Signer`, `SignerProofs` | the class `AASigner`, its listener and the two senders that do not queue; and the proofs |
| `Deployment`, `DeploymentProofs` | `deploy.ts` and `deployer-contract.deploy.ts`, the chain's tables, `Deployer` and `Create3`; and the proofs |
| `Sums` | lemmas about the sums that the properties of money speak of |
| `MC*` | instances for TLC, one for each of the modules above that has a run |

How they fit together: `OwnerClient` extends `Ownership` and composes their
steps. `SmartAccount` has accounts whose modules may accept anything;
`Ownership` says what the modules of the repository accept, over an account
whose list of modules is a set, which is what the refinement of `ModuleRegistry`
justifies. `ForwardFlow` takes any signature for valid; `OwnerClient` says which
are. `Signer` and `QueueSender` are two ways to send operations in one file and share
nothing.

### SmartAccount

The variables `modules`, `handler` and `implementation` are the three storage
slots. `frames` is the EVM call stack as far as the properties need it: a frame
says whose code runs (`code`), which address it calls from (`self`), how many
calls it still has to make (`left`) and what the account's storage was when it
was entered (`saved`). `ret` holds what a call that has just ended gives the
frame below: `None` if that code does not look, an address if it reads one (a
setup contract's module), `Fail` if the call reverted and the caller must too.

Each external function of the account is one action taken by the frame on top
of the stack. A function that calls somebody is split where the code is: the part
before the call is one action (`InitAccount`, `SetupAndEnableModule`,
`ValidateUserOp`), the call is a frame, the part after it is another action
(`InitDone`, `SetupDone`, `ValidateUserOpDone`). `Revert` may happen in any
frame at any time, since any frame may run out of gas; it restores `saved`. Code
that checks its calls (`_call`, `_setupModule`, `fallback`, `multiSend`) can only
revert once a call has failed; code that does not (`_execute` for modules,
`_payPrefund`, the EntryPoint around an operation) goes on: `Tolerant`.

All other contracts run the code `external`, which may do anything: call any
function of the account (the guards of those actions decide what comes of it),
call others, call `handleOps`, return any candidate address, revert. A function the
account does not have goes to the handler (`Fallback`): to a contract, or to the EntryPoint,
whose `handleOps` the account itself then calls. Without a handler it returns nothing, and where
the handler is the account the calls go round until they are out of gas (`FallbackEnds`). The
EntryPoint is external to the repository and modelled as the account sees it: one
bundle at a time (`nonReentrant`), each operation validated by a call to the
account in the first phase, executed by `innerHandleOp` in the second.

Abstractions, all towards *more* behaviour except the last two: calldata,
values, gas and signatures are left out, so that any operation may carry any
call and any module may accept it; operations of other accounts in the same
bundle are part of the arbitrary external code; a module's delegatecall goes to
MultiSend only (a delegatecall to arbitrary code may write any slot, and nothing
could be said); every address in `Implementations` has the code modelled here.

### Paymaster

`paymasterIdBalances`, `overhead`, `verifyingSigner` and `entered` are the
contract's storage (`entered` is the status of OpenZeppelin's ReentrancyGuard),
`deposit` is what the EntryPoint keeps for it. `frames` is a call stack as above;
a frame carries the operations it has validated and not yet settled. `gasprice`
is `tx.gasprice` of the running transaction.

`DepositFor`, `SetSigner`, `SetUnaccountedEPGasOverhead`, `WithdrawTo` and
`ValidatePaymasterUserOp` are the functions of those names. `WithdrawTo` takes the
sum from both accounts and enters the recipient's call; `WithdrawDone` is the end
of it. The recipient may be any contract, so its frame (`withdraw`) does what `external` does. `Settle` is `_postOp` between the two halves of the EntryPoint's
`_handlePostOp`: `PostOp` is the call inside `innerHandleOp`, `PostOpReverted` the
second one, after that frame was rolled back. A charge that is too large disables
both, and what is left is `Revert`, first of the inner frame and then of the bundle.

The EntryPoint is external and modelled as the paymaster sees it: it takes a
prefund (`limit * maxFee`) when it validates, gives back what was not used, and
keeps the cost of `post` more gas than postOp was told of. Calls among other
contracts need no frames of their own: such a contract has no storage here, and
what it does before a revert leaves no trace. The paymaster's owner is one of the
arbitrary contracts: `SetSigner`, to one of `Signers`, and `SetUnaccountedEPGasOverhead` may happen
wherever a contract runs, which includes the middle of an operation.

`Solvent` and `EveryOpPays` assume `Covered`: the overhead times the transaction's
price is worth the gas of `_handlePostOp` at the operation's price. The code cannot
know that gas, the owner sets it. The gas alone, which is what the comment on the
variable names (line 31), is not enough: postOp prices the overhead at the
transaction's price, and the EntryPoint the gas of `_handlePostOp` at the
operation's, which may be higher. That is why the run has an overhead of 2 for 1 unit of
gas, and two prices.

### ForwardFlow

`nonce` is `nonces[1]`, the only counter the module uses and one for all accounts;
`entered` is its ReentrancyGuard. Of an account two things remain: whether it has the
module enabled, and `funds`, what it can pay with. `frames` is the call stack, where
the frames of the module carry the order they work at, and `saved` is what their
revert restores; `drawn` and `settled` are history variables that a revert undoes
like storage.

`execTransaction` is split at its two calls. `ExecTransaction` goes up to the call
of the target, `HandlePayment` from there to the call that takes the refund,
`RefundDone` to the return; without a price it is `ExecWithoutRefund`. The
account's own frame is not kept apart from the module's: the account returns what
its callee did. Each of these calls puts two frames on the stack, the module's and the
callee's. `HandlePaymentRevert` and `RequiredTxGas` are estimates, which their
code always reverts: their frames have no other end than `Revert`.

Owners may sign anything, so a signature is no guard: an order stands for a
transaction somebody could submit for `a` with terms `t`. That a signed transaction
does not come twice is then the matter of the nonce, which is what the hash
contains. `SetEnabled` and `Spend` happen wherever contracts run, since any
target may be the account itself or make it act through its other modules; what an
account is paid it may as well have had from the beginning. Who gets the refund
is left out: the receiver appears as the code that runs.

### ForwardGas

One transaction, on its way from the test of the gas (`CheckGas`, lines 251-258) through the
account's proxy and its implementation to the target: `step` is whose code runs, `gas` what it
has. A call passes on all but one 64th of the caller's gas at most (EIP-150), and one that is
asked for more does not fail. `ShiftedBy6` is `<< 6` in a word of `WORD` values; the sums of the
test revert when they overflow, the shift does not. Before each call the code uses one of
`Costs`. The run has 100 for each, less than the code can need (a slot that is not warm costs
2100, an address that is not 2600, and value 9000): with more, a target only gets less.

### QueueSender

`queue`, `queueSize` and `age` (time since `lastQueueUpdate`) belong to one sender
that `queueUserOpSender` has returned; `sending` is the variable of the file, shared
by all of them. `flights` are the bundles between the first `await` of
`sendQueuedUserOps` and its `finally`. JavaScript runs everything up to an `await` in
one piece, so that `Push` is one action with four outcomes (`PushBusy`,
`PushWaits`, `PushEmpty`, `PushSends`), and `PushAnswered` is the `finally`, after a
receipt or an exception. `queueSize` and `lastQueueUpdate` get no first value in the
code: they start as `Undefined`, `++` of it is `NaN`, and a comparison with either
is false. `over` is a history variable: of each account, the last operation that is through, however it
ended. Operations keep coming: their numbers are given again, and only how many may wait at once
is bounded (`MaxWaiting`).

Fairness: each queue's interval timer keeps calling `push` (`WF` of `Push(q)`), the
clock goes on (`WF` of `Tick`), and an awaited call ends with an answer or an
exception (`WF` of `PushAnswered`). The last is an assumption about the provider:
`ret.wait()` has no time limit, and a push that never ends would block every sender
of the process. Adding operations is not fair: nobody has to. `EverythingIsSent` speaks of
behaviours in which they stop coming at some time, to any sender of the process. Otherwise it would be false,
and not for want of fairness: `queueSize` is never a number, so that a full bundle is no reason to
send, and each new operation makes its queue young again. With a steady stream operations wait for ever.

### Signer

`account` and `isPhantom` are fields of the one AASigner; a call of
`sendTransaction` is a record in `call` that says at which `await` it stands (`at`), what
it asked the node for (`asks`), what the answer was (`seen`), and the operation as far
as it is made. `CodeAnswered` and `CodeArrives` are two steps, since the answer of a
node is about the moment it was given and arrives later. `wait[c]` is what
`userEventResponse` leaves behind: the promise, the listener, its 500 ms timer, the
block number it asked for and did not await, and the runs of the listener that stand
at one of its two awaits (`runs`: for the block number, for the receipt). `Poll`
is ethers' polling of a filter: first the last block, then what has come since it last found
something. `alone` and `raced` are history: whether anything overlapped the making of an
operation.

`fillAndSign` is imported from a file that is no longer in the repository
(`AASigner.ts` imports `../test/UserOp`); it is modelled as `test/utils/userOp.ts` has
it. What is left after the promise was settled, a timer or the same event again, changes
nothing and has no steps.

Fairness: the provider polls, and what a listener waits for is answered in the end.
Nothing says that a bundler sends an operation on or that a block is mined.

### Deployment

`script` is the running script, if there is one: `at` is where it waits, `step` which of
the `Steps` of `mainDeploy` it is at, `base` and `entry` whether its two variables
have an address. `pool` holds per sender what was submitted and is not yet mined, with
`mine` for a transaction that the running script waits for; `Mined` takes the first. A
contract's name stands for its address, which comes from its salt alone; the Deployer's
comes from the nonce of its key, so that `deployers` are nonces and only 0 is the one
`deploy.ts` looks at. `GenericThrows` is an exception inside the `try` of
`deployGeneric`, which goes on to the next step; `Stopped` is any other exception, and a
process that is killed: what it submitted stays in the pool and is nobody's (`Abandoned`).
`WithdrawStake` is what the new owner may do afterwards, so that a later run finds
a contract without a stake that is no longer its own.

The three tables of `utils/index.ts` are sets of chain ids (`DEPLOYMENT_CHAIN_GAS_PRICES`,
`factoryStakeConfig`, `paymasterStakeConfig`): what the script does depends on which of them a chain
is in, not on the prices in it.

A run that ends after it has sent a contract's stake and before the ownership is handed over
leaves that contract `halfway`, a history variable: later runs find a stake, return, and
never transfer the ownership (`deploy.ts:159-162`, `231-234`). `Completes` therefore asks for the
deployment of everything, and for the transfer of every staked contract that is not `halfway`.

Fairness: somebody keeps starting `deploy.ts`, a script that can go on does, and what is
submitted is mined. Faults are bounded by `MaxFaults`; without a bound nothing would
ever be finished.

### Ownership

`account` is one record: the version of the implementation, the owner of the first
version, the owners that each registry keeps for it, the enabled modules, the Merkle
root, and as history `granted`, whoever the account has been given to. `After(a, c)` is the
set of accounts that call `c` may leave, the empty set if it reverts; a batch
(`AfterAll`) is the composition. The registries are sets of modules: ECDSA with
its multichain variant, those for contract owners, those for passkeys.

`Validate` and `ExecuteUserOp` are the EntryPoint's two phases: `bundle` is what
was validated, and each operation is executed against the account as it is by then. An
operation may run out of gas (`account' = account`); the function it calls (`name`) is one of
the first version, by its standard or its optimised name, or one of the second. The first
version looks at that name: a call by `executeCall` whose target is an enabled module
is the module's to validate, which those of the second version cannot, and everything else
is the owner's. `OwnerCalls` are the transactions in which the owner of the first version calls the
account itself (`mixedAuth`, `_requireFromEntryPointOrOwner`). A signature is a record: `key`, whose it is; `via`, its
second word; `leaf`, a session or the window of a multichain signature. `via` is one field
because it is one word: the account reads the module's address there, and
PasskeyRegistryModule, which is handed the signature whole, reads `r`.

A session names a contract (its `token`), a recipient and an amount, and
`validateSessionUserOp` compares them with the call's target (`Target`) and the two words after its
selector (`FirstWord`, `amount`); the selector it does not look at, so that `transfer` stands
for any method of another contract. A session may name the account or one of its modules
as well, and then lets any of their functions pass whose words fit. What the properties promise
is about the others (`Foreign`).

Anybody may sign anything, anybody may deploy the account. What is left out of the
account is in `SmartAccount`: calls that come back, reverts inside, other callers than the
EntryPoint.

### OwnerClient

`desk` is the transaction of a client between the answer to `getNonce` and its
signature, `signed` what has been signed so far, which anybody may submit, in any order
and again. `BuildSafeTransaction` has the `||` of the code, for which zero counts as
left out. A signature is a signer and a kind (`typed`, `hash`, `approved`, `contract`),
which is what v and the length tell the contracts; `BuildSignatureBytes` sorts them by
address. `ExecTransaction` is that of SmartAccountV1, which looks at the first
signature; `ForwardTransaction` is that of ForwardFlowModule, which asks the account and so a
registry. Both count a nonce of their own and compute the same hash, so that what was
signed for one of them fits the other when the numbers happen to agree: it may then run once
in each. `ForwardForAnother` is a transaction of any other account, which counts with the
same nonce of the module.

## 3. The runs

| Run | Instance | Shows |
|---|---|---|
| `lists` | two contracts, depth 5, batches of two | type correctness; the list stays one ring, in the storage and in everything a revert could restore; init is alone and nobody has authority meanwhile; a started account has a handler; one page that is long enough shows every module once |
| `authority` | one contract and the account itself as modules and handlers, two implementations, bundles of two, depth 4 | storage of a started account changes only under a mandate; a started account stays started; the account implements `ModuleRegistry` |
| `paymaster` | two dapps, two operations per bundle, two prices, depth 4 | types (no balance below zero); the dapps' money is in the deposit or held for operations, in the storage and in all a revert could restore; the guard is up exactly during a withdrawal; each operation pays or is undone; the paymaster implements `GasTank` |
| `order` | two senders, two accounts, operations without end, up to two of an account waiting | one bundle at a time; nothing lost, repeated or overtaken in the queues; once no more operations come, everything is sent |
| `forward` | two accounts, a transaction with a refund in ether and one without, depth 5, two nonces | each nonce once; an account pays what its own transactions owe and nothing else; no transaction stands without its refund |
| `forward_gas` | violation, 17 target gases at the boundaries | the test counts one 64th and there are three calls: a target that asks for 1000000 gas gets 975859, contrary to the comment at `ForwardFlowModule.sol:264` |
| `deploy` | all chains of the tables and Hardhat's, two modules, two faults | what is deployed fits together; ownership is handed over with the stake in place; no second stake unless a run ended while it waited for the first; starting the script again deploys everything, and hands over what is staked except where a run ended between the two |
| `signer` | two calls, connecting at any time, blocks for both operations | a wait is settled with the truth, and is settled whenever its event can be told from an old one; an operation made alone is one the EntryPoint takes |
| `events` | violation, the same instance | the block number that the listener compares with may be answered when the operation was mined already: its event passes for an old one, and the wait is never settled, contrary to the comment at `AASigner.ts:447` |
| `owners` | deployment in either version, an ECDSA and a contract owner's registry, two roots (a session for a token, one for a registry), bundles of two, three operations | types; whoever has an operation validated was given the account; a session for another contract changes nothing of the account, its root replaced or not; renouncing is final |
| `passkey` | violation, deployment with the passkey module | no signature by the passkey both reaches the module and is a signature there, contrary to the comment at `PasskeyRegistryModule.sol:12` |
| `client` | an owner and a contract as signers, templates with and without prices, two signatures, two nonces, before and after the upgrade | a transaction runs at most once in each flow |

Bounds. `MaxDepth` bounds the stack, `MaxBatch` the calls of a batch, `MaxOps` the
operations of a bundle (of an account, in Ownership). For the account, depth 5
holds bundle, operation, execution, setup call and
a call back from it; two contracts suffice for a setup contract that enables
somebody else than the module it returns. Lists have up to two modules; longer ones are the
subject of the proofs. For the paymaster, depth 4 holds a
withdrawal, whose recipient starts a bundle, and an operation of it that is charged; or a bundle,
an operation, its call, and a withdrawal in there that leaves `postOp` too little. `Amounts` and
`MaxFunds` bound the ether: a payment is worth the highest charge, so that the second operation of a
bundle may find the balance gone, and another one is possible when most of it was used;
prices differ because it matters
which of them is used. The owner has one key to set, and
approvals by `Forger`, a key that it never sets, are tried as well. For
`ForwardFlow`, depth 5 holds a submitter, a transaction, its target, and an estimate or
another transaction that the target makes, with its callee; `MaxNonce` is two, so that a nonce
can follow one that was undone or one of another account. `ForwardGas` has words of 30
bits (TLC's integers have 32): the boundaries are those of the shift and the sums, and they
scale with the word. In `QueueSender`, `IDLE_TIME` is
one tick, so that a queue is young or old, and two operations may wait behind the one that is on
its way; `BUNDLE_SIZE_IMMEDIATE` is three, as in the code. In `Signer` two calls are what a
race takes, and `MaxBlock` leaves room for both operations and a block between them. In
`Deployment` the modules are steps alike, so two stand for all, and two faults allow one
between the other and the run that should mend it; `MaxNonce` of two lets the
deployer's key waste its first nonce. In `Ownership` `MaxOps` of 3 holds
a session that is enabled with its root, and a bundle that replaces the root before the
session's operation, or renounces; batches and the owner's own calls do the rest. `MaxBundle` of 2 is an
operation validated before another is executed. In
`OwnerClient` two signatures are two transactions with one nonce, and two nonces one that
comes after. Contracts, dapps and accounts are symmetry sets where no constant distinguishes them
and no liveness is checked; none of the refinements has fairness.

Liveness is claimed of the TypeScript only (`EverythingIsSent`, `Settles`, `Completes`): a
contract acts when somebody calls it, and nobody has to. `Settles` is weaker than what the
comment at `AASigner.ts:447` promises, which is the violation `events`: it asks for an
event from a block after the one whose number was answered.

Deadlock is checked wherever there is a stack or a timer: the stack can always be
unwound, the timer can always fire, and a script can always be started. Other models
really stop, and their runs say `CHECK_DEADLOCK FALSE`: one transaction of `ForwardGas` is
refused, out of gas, or at its target; calls, operations and signatures of `Signer`,
`Ownership` and `OwnerClient` are bounded, and when all have been made nothing is left to do.

## 4. The proofs

Every safety property that a run checks is also a theorem, for every value of the constants
that the named assumptions of its module allow, bounds included. What the assumptions
say is that addresses, dapps and such are finitely many where something counts them (`ListAssumption`,
`PaymasterAssumption`, `ClientAssumption`), that numbers are numbers, and that names with a
special meaning are distinct.
TLC evaluates them in every run.

Part 1 of `SmartAccountProofs` proves that the three updates of the list preserve
`WellFormed` for any number of addresses (`LinkWellFormed`, `UnlinkWellFormed`). `Returns`, "the
links lead back to the sentinel", is stated over sets closed under the links rather than over
paths: that needs no recursion and no induction, only a set per step. Paging does walk along
the links: `Walk` is what the recursive function inside `Cursor` comes to, a walk from the sentinel
meets no address twice before it is back (or what it has met would be a set closed under
the links without the sentinel), and so it meets all of them in as many steps as there are.
`PageAlwaysShowsAll` follows for lists of any length.

`SmartAccountProofs` proves `Invariance`: the inductive invariant `IInv` holds in
every state for every value of the constants, bounds included. It strengthens
the properties by what the frames remember: between two neighbouring frames the
saved stores are related (a saved store without modules has nothing above it that
acts for the account), an open `init` keeps the store it began with, the saved
lists are themselves well-formed, so that `Revert` may restore any of them. From
it follow `TypeCorrect`, `ListAlwaysIntact`, `InitAlwaysAlone`,
`InitAlwaysIsolated`, `StartedAlwaysHasHandler` and `StartedAlwaysForGood`. All theorems
of the module rest on the named assumptions about the constants only.

`ChangesAlwaysMandated` needs a second invariant, `AllVouched`: a frame that acts as the
account (`setup`, `execute`, `execFromModule`, `multiSend`) was mandated by what called it
or belongs to an `init`, and a `validateUserOp` has no calls to make. Only such a frame can change
the account, so that a change has its mandate on the stack.

`AlwaysImplementsRegistry` proves the refinement of `ModuleRegistry`. Each saved store is
mapped to a mark of the registry, with nothing enabled as long as an `init` is open;
each action then is a step of the registry (a call opens a mark, a return drops one, a
revert goes back to one, `enable` and `disable` change a set) or a stutter. That a list
gives the set it should is what part 1 says of its updates.

`PaymasterProofs` proves the types, `GuardAlwaysFollowsCalls` and `EveryOpAlwaysPays`. The
invariant `IInv` adds three parts to the types: an operation's frame stands on a bundle that
has operations left, and only an operation's failure reaches the bundle (`Chain`); there is one
bundle at most (`OneBundle`); the guard is up with a withdrawal, now and in each saved
state (`Guard`, so that a revert keeps it). From the first two, the operation that leaves its
bundle is the one whose `postOp` is called, and what that charges is compared with what the
EntryPoint keeps, where the overhead covers the gas (`Covered`).

`AlwaysImplementsTank` proves the refinement of `GasTank`, action by action: the pot is the deposit with
what is held back for operations still to be charged, and each saved state of a frame is a mark of the
tank. A bundle's first phase takes prefunds out of the deposit and holds them, its second gives
back what is left and charges a dapp in one step; in between neither the pot nor a credit
changes. That `Covered` is a hypothesis is the contract's own condition, as the overhead is a
setting: without it the charge is less than the EntryPoint keeps. `AlwaysSolvent` then is an invariant
of the tank's steps (`Backed`): no credit grows by more than the pot does, and none shrinks by less
than what leaves it, in the present and in every mark.

`ForwardFlowProofs` proves the types, `EachNonceAlwaysOnce` and `NoneEverEscapesTheRefund`.
The invariant says of every store, the present one and each saved one, that it fits the frames
below it (`Fits`): the nonce counts the settled transactions and the one that runs, the guard is up with
that one, and the settled nonces are in order (`Stack`). A revert goes back to a store that
fits the frames it leaves. `AllCharged` says that what has left its refund has paid it.

`DrawnIsAlwaysOwed` has an invariant of its own, `Books`. Every store, the present one and each saved
one, is `Balanced`: what was drawn from an account is what its settled orders owe and what the calls
have taken that are under way at that store. A call's money moves when it is called and is
back when it has failed, which is why a saved store is balanced with the calls two frames
below it, the module's and its caller's, and the present one with all calls but one that has failed (`Moved`).

`OwnershipProofs` proves `OnlyGranted`, `SessionsOnlyPay` and `RenouncedForGood` for any
registries, keys, sessions, calls and bundles. Its invariant `IInv` says what the three
need of each other: every owner and every session key that the account has was
`granted` (`Accounted`); whatever is validated and not yet executed was signed by somebody
granted, and is a single call of another contract if a session for one let it pass (`Waiting`);
nothing is validated before the account is there. `AfterKeeps` shows for each function of
`After`, and `AfterAllKeeps` for a batch, that the call keeps `Accounted`, never takes
anything out of `granted` and does not undo the deployment (`Keeps`). A session may name whatever it likes: what
names neither the account nor a module lets only a call pass whose target is neither, and of
those `After` knows none that changes the account (`SessionsPay`). `RenouncedForGood` needs no more
than the invariant: with no owner in an enabled registry, and no session left but those for other
contracts, only such a session can pass `ValidateUserOp`, and by `Executed` it leaves the account as it
is. The owner of the first version, who may call in between, is none of the second's.

That the types of `Ownership` are right is `TypeCorrect`: each function of `After` leaves an account of
the type, owners that their registry takes included.

Of `OwnerClient` it proves `OncePerFlow`: what has run in a flow has a nonce below the
flow's next (`Past`), and a transaction runs with the next one only.

`QueueSenderProofs` proves `OneBundle` (`Flag`: the flag is up and there is one bundle, or it
is down and there is none), `InOrder` and the types. For the order, a queue's operations are one
line, from the last that was answered over what is on its way to what waits, and each action either
leaves the line alone, adds to its end, or takes from its beginning. That `SetToSeq` puts at most
one bundle in a row is `EmptyToSeq` and `OneToSeq`.

`SignerProofs` has three invariants. `Typed` adds to the types what an operation has at each stage of its
making (`Staged`). `Settling` says of a wait that the runs of its listener that are past the comparison
are about its own operation (`Waits`) and that its promise, once settled, is what an event of that
operation says (`Truly`). `Solitude` is for `AloneFits`: as long as connecting has met no other call, an
account that is not a phantom is deployed (`Deployed`), and a call that waits for code has asked about
the account it will send from (`Unraced`); what a call that is alone has seen of the chain still
holds (`Sees`), since only operations in the pool change the chain, and there are none.

`DeploymentProofs` proves `Wired`, `StakedOnce` and `HandedOverStaked`, however many faults there are.
Its invariant `IInv` says what a pending transaction needs of the chain to be harmless whenever it is
mined (`Fits`): a factory's implementation is there when the factory is submitted; a
transfer of ownership is for a contract that has its stake or is handed over already
(`Secured`, which nothing takes away, as only the new owner can withdraw); a stake is for a contract
that has none yet and is waited for, or its run has ended and it is `lost`. With at most one
transaction that somebody waits for (`OneAwaited`), there is never a second stake for the same
contract behind the first.

`Sums` is what those proofs need of totals. Induction over data is out of the provers' reach, so that
nothing there is proved by it: a sum is the size of a set of pairs (`Size`), which grows with the set that
is summed over by the library's facts on cardinalities; and that a recursive function, or the fold of the
library, comes to that size for every argument follows by taking the least argument for which it
does not (`LeastOf`, `MinimalSubset`, from the well-foundedness of the strict subsets of a finite set).

Model-checked only: all liveness (`EverythingIsSent`, `Settles`, `Completes`), which needs fairness and
`ENABLED`; and the three violations, which are counterexamples.

## 5. What is not modelled

- Of the account: calldata, values, gas and the bytes that are signed (abstracted
  to "any operation may be accepted by any module" in `SmartAccount`, to who has signed in
  `Ownership`), `nonce`, token callbacks.
- Of the factory: `deployAccount` (an address nobody has predicted), views, the stake.
- Of SmartAccountV1: transfers, deposits, estimates, and its module transactions, which
  are those of the second version.
- Of the registries: recovery and Merkle proofs (by who can have signed, and what is below a
  root); the arithmetic of `Secp256r1` and of the passkey's precomputed points.
- Of the paymaster: the stake in the EntryPoint, ownership transfer, the time range of
  an approval, and the bytes that are signed.
- Of ForwardFlow: the refund's receiver, the gas of the refund itself, views. A token whose
  `transfer` answers false is in the model (`Liars`) and in no run.
- Of `execution.ts` and `multisend.ts`: the packing of a batch's bytes, and `logGas`.
- Of the sender: `setInterval` and `cancelInterval`. AAProvider has no behaviour of its own.
- Of the deployment: verifying sources, what the gas price tables hold, and the helpers of
  `utils/index.ts` for EIP-2470 and events, which `deploy.ts` does not use.
- The small scripts of `src/scripts` and `src/deploy`, which deploy one contract each: they
  return at once (`network.name !== "hardhat" || network.name !== "local"` always holds), read a
  `DEPLOYMENT_SALTS` that is not defined, or make one call.
  `runop.ts` and `Create2Factory.ts`: one call after the other.
- `execution-2d.ts`: nobody imports it. It signs the template's `batchId` but submits a
  hard-coded one, to an `execTransaction` with four arguments that no contract has.
- `SmartAccountNoAuth` (for gas estimation, by `eth_call` with a state override: it never
  holds anything), `SocialRecoveryModule` and other test contracts, mocks, the default callback
  handler (answers constants), interfaces, generated types, gas-cost tests, `hardhat.config.ts`.

### Comments that the models contradict and no run shows

- `ModuleManager.sol:54`: paging goes on with `next` as the new start. It is the first module
  not shown (line 69), and a page leaves out its own start, so that a client who follows the comment
  never sees that module. `Page` has it so.
- `SmartAccount.sol:92-93`: an account counts as initialised "when there is at least one enabled
  module"; `init` refuses one that was started and has disabled them all, too.
- `ForwardFlowModule.sol:208`: fees are always transferred, and line 49, a failed
  transfer throws; a token that answers false (line 430) is taken for paid.
- `ForwardFlowModule.sol:248`: 2500 gas are left for the events. With `targetTxGas = 0` the target may use
  all that is passed on, and the code between the calls may cost more than was set aside.
- `ForwardFlowModule.sol:356`: of the "2d mapping" of nonces one entry is used.
- `AASigner.ts:147-148`: a bundle of `BUNDLE_SIZE_IMMEDIATE` goes at once; the counter (line 162)
  starts without a value and is never a number, and until no operation has come for `IDLE_TIME`
  nothing is sent, however many wait.
- `AASigner.ts:460`: an account stays a phantom until it is deployed; where `connectAccountAddress`
  and `sendTransaction` overlap, it may lose or keep that mark wrongly.
- `AASigner.ts:396`: a failed operation is reported with its reason; the query filters the
  events by the account where they are indexed by the operation's hash, and finds none.
- `test/Deployment.test.ts:59`: all contracts are deployed; `deploy.ts` catches what fails and ends as if
  nothing had happened, and a later start has to finish,
  which it does not for a contract left `halfway`.
- `index` of an AASigner is the nonce of a phantom's operation (as in `runop.ts:67`), which the
  EntryPoint takes only if it is 0: `AloneFits` asks for that.

## 6. The plan

Next, in this order:

1. `Secp`: `Secp256r1.sol` as operators over small curves, against the group law.
2. The rest of the factory (`deployAccount`, and two accounts, so that the address is a
   function with two arguments) and the paymaster's stake.
3. A token that lies in a run of `ForwardFlow`, which needs a smaller stack or another symmetry.

Abstract specifications worth stating besides the two there are: a refund desk for
`ForwardFlow` (each nonce pays at most once), a promise that settles once for `Signer`.

Theorems worth proving next: that `Ownership`, whose account has a set of modules, implements
`ModuleRegistry` with one call at a time; and whatever the two new specifications promise.
