------------------------------ MODULE Ownership ------------------------------
(***************************************************************************)
(* Who is in charge of one account, from its deployment on: the owner that *)
(* SmartAccountV1 keeps itself; after the upgrade, the owners that the     *)
(* registries keep for it (EcdsaOwnershipRegistryModule, with it           *)
(* MultichainECDSAValidator, SmartContractOwnershipRegistryModule and      *)
(* PasskeyRegistryModule); and the session keys of SessionKeyManager.      *)
(*                                                                         *)
(* The account is one record, so that a call is a function of it, and a    *)
(* batch the composition of its calls.  Anybody may sign anything.  The    *)
(* EntryPoint is external: it validates the operations of a bundle, then   *)
(* executes them, all in one block.                                        *)
(***************************************************************************)
EXTENDS Integers, Sequences, FiniteSets, SequencesExt

CONSTANTS
    Wallets,         \* externally owned addresses
    Vaults,          \* contracts that answer isValidSignature
    Passkeys,        \* public keys on the curve
    HalfZero,        \* those of them that have a coordinate zero
    CurveValues,     \* what a passkey's signature may start with (its r)
    EcdsaRegistries, ContractRegistries, PasskeyRegistries,
    SessionKeyManager, ForwardFlow,
    Account, Zero, None,
    Roots, Leaves,   \* Merkle roots, and the sessions below each of them
    Windows,         \* validAfter and validUntil under a multichain signature
    Births,          \* what a factory may have been asked to deploy
    Tried,           \* calls that somebody may want the account to make
    MaxTime,         \* bound on the clock
    MaxOps,          \* bound on the account's user operations
    MaxBundle        \* bound on those of one bundle

Registries == EcdsaRegistries \cup ContractRegistries \cup PasskeyRegistries
Modules    == Registries \cup {SessionKeyManager, ForwardFlow}
Keys       == Wallets \cup Vaults \cup Passkeys

\* A call: fn of the contract on, or of the account with the module on.  to is what
\* it is about: an owner, a root, a recipient.
Call(fn, on, to, amount) == [fn |-> fn, on |-> on, to |-> to, amount |-> amount]

\* Functions of the account itself.
OwnFunctions == {"setOwner", "updateImplementation", "enableModule", "disableModule",
                 "setupAndEnableModule"}

\* "transfer" stands for whatever other contracts have, a token's transfer for one.
FunctionNames == OwnFunctions \cup
                 {"initForSmartAccount", "transferOwnership", "renounceOwnership",
                  "setMerkleRoot", "transfer"}

\* The contract that a call is sent to.
Target(c) == IF c.fn \in OwnFunctions THEN Account ELSE c.on

\* The first word after the selector; amount is the second.  What a function has no
\* parameter for, the sender of the call may still append.
FirstWord(c) == IF c.fn \in {"enableModule", "setupAndEnableModule"} THEN c.on ELSE c.to

Sessions == UNION {Leaves[root] : root \in Roots}

\* A session for a contract that is neither the account nor one of its modules.
Foreign(s) == s.token \notin Modules \cup {Account}

ASSUME OwnershipAssumption ==
    /\ {Zero, None, Account} \cap (Keys \cup Modules) = {}
    /\ SessionKeyManager \notin Registries
    /\ HalfZero \subseteq Passkeys
    \* what others have, the account's transfer of its tokens aside, changes nothing of it
    /\ \A calls \in Tried :
          /\ Len(calls) \in {1, 2}
          /\ \A i \in 1 .. Len(calls) :
                /\ calls[i].fn \in FunctionNames
                /\ calls[i].on \notin Modules \cup {Account} => calls[i].fn = "transfer"
                /\ calls[i].fn = "setOwner" => calls[i].to \in Keys \cup {Zero, Account}
                /\ calls[i].fn = "enableModule" => calls[i].on \in Modules
                /\ calls[i].fn = "setMerkleRoot" => calls[i].to \in Roots \cup {Zero}
    /\ \A b \in Births : b.version \in {"v1", "v2"} /\ b.owner \in Keys \cup {Zero}
    /\ \A s \in Sessions : s.key \in Keys
    \* nobody can choose the r of a signature, so none is a module's address
    /\ CurveValues \cap Modules = {}
    /\ MaxTime \in Nat /\ MaxOps \in Nat /\ MaxBundle \in Nat

VARIABLES
    born,            \* what the account's address was computed from
    account,         \* the account, and what the registries keep for it
    bundle,          \* operations validated and not yet executed
    executing,       \* the EntryPoint has begun to execute the bundle
    now,             \* the block's timestamp
    ops              \* the EntryPoint's nonce of the account

vars == <<born, account, bundle, executing, now, ops>>

AccountType ==
    [version : {"none", "v1", "v2"}, owner : Keys \cup {Zero},
     owners : [Registries -> Keys \cup {Zero}], enabled : SUBSET Modules,
     root : Roots \cup {Zero},
     granted : SUBSET (Keys \cup {Zero})]     \* history: keys that the account has been given to

-----------------------------------------------------------------------------
(* The calls.  Each gives the set of accounts it may leave: none if it     *)
(* reverts.                                                                *)

When(guard, a) == IF guard THEN {a} ELSE {}

Given(a, o) == [a EXCEPT !.granted = @ \cup {o}]

\* SmartAccountV1.setOwner, whether the account itself or its owner calls it.
SetOwner(a, o) ==
    When(a.version = "v1" /\ o \notin {Zero, Account, a.owner},
         Given([a EXCEPT !.owner = o], o))

UpdateImplementation(a) == When(a.version # "none", [a EXCEPT !.version = "v2"])

EnableModule(a, m) == When(a.version # "none" /\ m \notin a.enabled,
                           [a EXCEPT !.enabled = @ \cup {m}])

DisableModule(a, m) == When(a.version # "none" /\ m \in a.enabled,
                            [a EXCEPT !.enabled = @ \ {m}])

\* Whether a registry takes the account for one that has been initialised.  A
\* passkey counts as set only if neither coordinate is zero.
Inited(a, r) == a.owners[r] \notin {Zero} \cup HalfZero

\* What initForSmartAccount takes for an owner.  PasskeyRegistryModule takes any point.
InitAccepts(r, o) == \/ r \in EcdsaRegistries /\ o \in Wallets \cup Vaults
                     \/ r \in ContractRegistries /\ o \in Vaults
                     \/ r \in PasskeyRegistries /\ o \in Passkeys \cup {Zero}

\* What-if: a registry does not look at what it is given for an owner.
TransferAcceptsAnybody(r, o) == r \notin PasskeyRegistries

\* What transferOwnership takes: PasskeyRegistryModule has none.
TransferAccepts(r, o) == \/ r \in EcdsaRegistries /\ o \in Wallets
                         \/ r \in ContractRegistries /\ o \in Vaults

Own(a, r, o) == Given([a EXCEPT !.owners[r] = o], o)

InitForSmartAccount(a, r, o) == When(~Inited(a, r) /\ InitAccepts(r, o), Own(a, r, o))

TransferOwnership(a, r, o) == When(TransferAccepts(r, o), Own(a, r, o))

RenounceOwnership(a, r) == When(r \notin PasskeyRegistries, [a EXCEPT !.owners[r] = Zero])

\* The account has the registry initialise itself and then enables it.
SetupAndEnableModule(a, r, o) ==
    UNION {EnableModule(b, r) : b \in IF a.version = "v2" THEN InitForSmartAccount(a, r, o)
                                                          ELSE {}}

\* No leaf has a path to the root zero.
Under(root) == IF root = Zero THEN {} ELSE Leaves[root]

SetMerkleRoot(a, root) ==
    {[a EXCEPT !.root = root, !.granted = @ \cup {s.key : s \in Under(root)}]}

\* A call of another contract, which nothing here depends on.
Transfer(a) == {a}

\* Functions that an implementation does not have go to the fallback handler, and
\* the factory's handler has none of these either.
After(a, c) ==
    CASE c.fn = "setOwner"             -> SetOwner(a, c.to)
      [] c.fn = "updateImplementation" -> UpdateImplementation(a)
      [] c.fn = "enableModule"         -> EnableModule(a, c.on)
      [] c.fn = "disableModule"        -> DisableModule(a, c.on)
      [] c.fn = "setupAndEnableModule" -> SetupAndEnableModule(a, c.on, c.to)
      [] c.fn = "initForSmartAccount"  -> InitForSmartAccount(a, c.on, c.to)
      [] c.fn = "transferOwnership"    -> TransferOwnership(a, c.on, c.to)
      [] c.fn = "renounceOwnership"    -> RenounceOwnership(a, c.on)
      [] c.fn = "setMerkleRoot"        -> SetMerkleRoot(a, c.to)
      [] c.fn = "transfer"             -> Transfer(a)

\* A batch, of which each call needs the one before.
AfterAll(a, calls) ==
    IF Len(calls) = 1 THEN After(a, calls[1])
    ELSE UNION {After(b, calls[2]) : b \in After(a, calls[1])}

-----------------------------------------------------------------------------
(* Signatures.                                                             *)

\* via is the second word of a signature.  The account takes it for the address of
\* the module; PasskeyRegistryModule, which is given the whole signature, for r.
Signatures ==
         [via : EcdsaRegistries \cup ContractRegistries \cup {None}, key : Keys, leaf : {None}]
    \cup [via : EcdsaRegistries, key : Keys, leaf : Windows]
    \cup [via : PasskeyRegistries \cup CurveValues, key : Passkeys, leaf : {None}]
    \cup [via : {SessionKeyManager}, key : Keys, leaf : Sessions]

\* Zero for no end.
InTime(w) == w.validAfter =< now /\ (w.validUntil = 0 \/ now =< w.validUntil)

\* _verifySignature of the registries.  An externally owned address can sign, a
\* contract can only be asked.
VerifySignature(a, sig) ==
    LET owner == a.owners[sig.via] IN
    /\ owner # Zero
    /\ sig.key = owner
    /\ sig.key \in IF sig.via \in EcdsaRegistries THEN Wallets ELSE Vaults

VerifyPasskey(a, sig) ==
    /\ a.owners[sig.via] # Zero
    /\ sig.key = a.owners[sig.via]
    /\ sig.via \in CurveValues

\* What-if: the call's target is not compared with the session's token.
AllowsAnyTarget(s, op) ==
    /\ op.name = "execute" /\ Len(op.calls) = 1
    /\ FirstWord(op.calls[1]) = s.recipient /\ op.calls[1].amount =< s.maxAmount

\* validateSessionUserOp: one call, of the contract that the session calls its token.
\* Which of its functions is not looked at, only the two words that follow.
Allows(s, op) ==
    /\ op.name = "execute" /\ Len(op.calls) = 1
    /\ Target(op.calls[1]) = s.token
    /\ FirstWord(op.calls[1]) = s.recipient /\ op.calls[1].amount =< s.maxAmount

\* The root is the account's at the time of validation.
VerifySession(a, op) ==
    /\ op.sig.leaf \in Under(a.root)
    /\ Allows(op.sig.leaf, op)
    /\ op.sig.key = op.sig.leaf.key /\ op.sig.key \in Wallets
    /\ InTime(op.sig.leaf)

\* What-if: any module that knows the account may validate for it.
ValidateUserOpAnyModule(a, op) ==
    /\ op.sig.via \in Registries \ PasskeyRegistries
    /\ VerifySignature(a, op.sig)

\* SmartAccount.validateUserOp.
ValidateUserOp(a, op) ==
    /\ op.sig.via \in a.enabled
    /\ \/ op.sig.via \in PasskeyRegistries /\ VerifyPasskey(a, op.sig)
       \/ /\ op.sig.via \in EcdsaRegistries \cup ContractRegistries
          /\ VerifySignature(a, op.sig)
          /\ op.sig.leaf # None => InTime(op.sig.leaf)
       \/ op.sig.via = SessionKeyManager /\ VerifySession(a, op)

\* SmartAccountV1._validateSignature.  A single call to an enabled module, by
\* executeCall, is the module's to validate, and the modules here cannot: they have no
\* validateSignature.  executeCall_s1m and the batches are the owner's in any case.
ValidateSignature(a, op) ==
    /\ op.sig.via = None
    /\ op.sig.key = a.owner /\ op.sig.key \in Wallets
    /\ (op.name = "executeCall" /\ Len(op.calls) = 1) => Target(op.calls[1]) \notin a.enabled

-----------------------------------------------------------------------------
(* Deployment, and the EntryPoint.                                         *)

Idle == bundle = <<>>

\* What-if: init is left to another transaction, and so to whoever comes first.
DeployUninitialised ==
    /\ account.version = "none"
    /\ \E o \in Wallets, r \in EcdsaRegistries :
          account' = [account EXCEPT !.version = born.version, !.enabled = {r},
                                     !.owner = o, !.owners[r] = o]
    /\ UNCHANGED <<born, bundle, executing, now, ops>>

\* deployCounterFactualAccount, by anybody: the address stands for the initialiser.
DeployCounterFactualAccount ==
    /\ account.version = "none"
    /\ LET a == [account EXCEPT !.version = born.version] IN
       account' \in IF born.version = "v1"
                    THEN When(born.owner # Zero, Given([a EXCEPT !.owner = born.owner], born.owner))
                    ELSE SetupAndEnableModule(a, born.registry, born.owner)
    /\ UNCHANGED <<born, bundle, executing, now, ops>>

\* SmartAccountV1: its owner calls it, in a transaction of the owner's own: setOwner
\* and updateImplementation (mixedAuth), or whatever it likes by executeCall and
\* executeBatchCall (_requireFromEntryPointOrOwner), to the same effect as the account
\* would.
OwnerCalls(calls) ==
    /\ Idle /\ account.version = "v1" /\ account.owner \in Wallets \cup Vaults
    /\ account' \in AfterAll(account, calls)
    /\ UNCHANGED <<born, bundle, executing, now, ops>>

\* The account's function that an operation calls: one of the first version, by its
\* standard name or by its optimised one, or one of the second, where the names do not
\* differ.  Two calls go by the batch of that name.
Names == {"executeCall", "executeCall_s1m", "execute"}

VersionOf(name) == IF name = "execute" THEN "v2" ELSE "v1"

UserOps == [name : Names, calls : Tried, sig : Signatures]

\* Validation of one more operation of the bundle.
Validate(op) ==
    /\ account.version # "none" /\ ~executing
    /\ ops < MaxOps /\ Len(bundle) < MaxBundle
    /\ IF account.version = "v1" THEN ValidateSignature(account, op)
                                 ELSE ValidateUserOp(account, op)
    /\ bundle' = Append(bundle, op)
    /\ ops' = ops + 1
    /\ UNCHANGED <<born, account, executing, now>>

ExecuteBundle ==
    /\ ~Idle /\ ~executing
    /\ executing' = TRUE
    /\ UNCHANGED <<born, account, bundle, now, ops>>

\* The version the account has by now decides what the operation's function means;
\* an operation may run out of gas.
ExecuteUserOp ==
    /\ executing
    /\ LET op == Head(bundle) IN
       account' \in {account} \cup
           IF VersionOf(op.name) = account.version THEN AfterAll(account, op.calls) ELSE {}
    /\ bundle' = Tail(bundle)
    /\ executing' = (Len(bundle) > 1)
    /\ UNCHANGED <<born, now, ops>>

NextBlock ==
    /\ Idle /\ now < MaxTime
    /\ now' = now + 1
    /\ UNCHANGED <<born, account, bundle, executing, ops>>

Init ==
    /\ born \in Births
    /\ account = [version |-> "none", owner |-> Zero, owners |-> [r \in Registries |-> Zero],
                  enabled |-> {}, root |-> Zero, granted |-> {}]
    /\ bundle = <<>> /\ executing = FALSE
    /\ now = 0 /\ ops = 0

Next ==
    \/ DeployCounterFactualAccount
    \/ \E calls \in Tried : OwnerCalls(calls)
    \/ \E op \in UserOps : Validate(op)
    \/ ExecuteBundle
    \/ ExecuteUserOp
    \/ NextBlock

Spec == Init /\ [][Next]_vars

-----------------------------------------------------------------------------
(* Properties.                                                             *)

\* Types.  An owner of SmartContractOwnershipRegistryModule is a contract, and one of
\* PasskeyRegistryModule a passkey, whichever way it became one.
TypeOK ==
    /\ born \in Births
    /\ account \in AccountType
    /\ \A r \in Registries :
          account.owners[r] \in {Zero} \cup {o \in Keys : InitAccepts(r, o)}
    /\ Len(bundle) =< MaxBundle /\ Range(bundle) \subseteq UserOps
    /\ executing \in BOOLEAN /\ (executing => ~Idle)
    /\ now \in 0 .. MaxTime /\ ops \in 0 .. MaxOps

\* Whoever has had an operation validated has been given the account before: by the
\* initialiser it was deployed with, or by the account itself.  (_verifySignature,
\* validateSessionKey, deployCounterFactualAccount)
OnlyGranted == \A i \in DOMAIN bundle : bundle[i].sig.key \in account.granted

\* A session for another contract than the account and its modules changes nothing of
\* the account: not by another function, although validateSessionUserOp looks at none,
\* and not if its root has been replaced, or its module disabled, since its operation
\* was validated.  (validateSessionUserOp)
SessionsOnlyPay ==
    [][(executing /\ Head(bundle).sig.via = SessionKeyManager /\ Foreign(Head(bundle).sig.leaf))
          => UNCHANGED account]_vars

\* No registry that the account has enabled has an owner for it, and what has been
\* validated, or could be, is of sessions for other contracts.
NobodyLeft ==
    /\ account.version = "v2"
    /\ \A r \in account.enabled \cap Registries : account.owners[r] = Zero
    /\ SessionKeyManager \in account.enabled => \A s \in Under(account.root) : Foreign(s)
    /\ \A i \in DOMAIN bundle : bundle[i].sig.via = SessionKeyManager /\ Foreign(bundle[i].sig.leaf)

\* Renouncing is final once the bundle it was in is over, although a registry without
\* an owner could be initialised again: nothing the account has left can ask for it,
\* not its sessions, not what was signed before, not owners in registries that it
\* has disabled.  (renounceOwnership, initForSmartAccount)
RenouncedForGood == [][NobodyLeft => (UNCHANGED account /\ NobodyLeft')]_vars

\* An account whose passkey module has a key can be used with that key, as
\* PasskeyRegistryModule.sol:12 says.  It cannot: the word in which the account looks
\* for the module's address is the one that the module takes for r.
PasskeyHolderCanAct ==
    \A r \in account.enabled \cap PasskeyRegistries :
        (account.version = "v2" /\ account.owners[r] # Zero) =>
            \E op \in UserOps : op.sig.key = account.owners[r] /\ ValidateUserOp(account, op)

=============================================================================
