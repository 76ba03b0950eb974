--------------------------- MODULE OwnershipProofs ---------------------------
(***************************************************************************)
(* What Ownership promises about sessions, renouncing and who can have an  *)
(* operation validated, for any number of registries, keys, sessions,      *)
(* operations and blocks; and OwnerClient about the transactions that      *)
(* owners sign, for any number of owners, nonces and signatures.           *)
(***************************************************************************)
EXTENDS OwnerClient, SequenceTheorems, TLAPS

-----------------------------------------------------------------------------
(* What a call leaves of an account.                                       *)

Fields == {"version", "owner", "owners", "enabled", "root", "granted"}

IsAccount(a) == /\ a = [f \in Fields |-> a[f]]
                /\ a.owners = [r \in Registries |-> a.owners[r]]

\* Everybody an account has for an owner or a session key was given it.
Accounted(a) ==
    /\ a.owner \in a.granted \cup {Zero}
    /\ \A r \in Registries : a.owners[r] \in a.granted \cup {Zero}
    /\ \A s \in Under(a.root) : s.key \in a.granted

\* What a call keeps.
Keeps(a, b) == /\ IsAccount(b)
               /\ Accounted(a) => Accounted(b)
               /\ a.version # "none" => b.version # "none"
               /\ a.granted \subseteq b.granted

LEMMA KeepsTransitive ==
    ASSUME NEW a, NEW b, NEW c, Keeps(a, b), Keeps(b, c)
    PROVE  Keeps(a, c)
BY DEF Keeps

LEMMA OwnKeeps ==
    ASSUME NEW a, IsAccount(a), NEW r, NEW o
    PROVE  Keeps(a, Own(a, r, o))
<1> DEFINE b == Own(a, r, o)
<1>1. /\ IsAccount(b)
      /\ b.version = a.version /\ b.owner = a.owner /\ b.root = a.root
      /\ b.granted = a.granted \cup {o}
      /\ \A q \in Registries : b.owners[q] = IF q = r THEN o ELSE a.owners[q]
  BY DEF Own, Given, IsAccount, Fields
<1> QED
  BY <1>1 DEF Keeps, Accounted

LEMMA EnableKeeps ==
    ASSUME NEW a, IsAccount(a), NEW m, NEW b \in EnableModule(a, m)
    PROVE  Keeps(a, b)
BY DEF EnableModule, When, IsAccount, Fields, Keeps, Accounted

\* A function that one of the six fields does not tell apart keeps the account.
LEMMA AfterKeeps ==
    ASSUME NEW a, IsAccount(a), NEW c, c.fn \in FunctionNames,
           NEW b \in After(a, c)
    PROVE  Keeps(a, b)
<1>1. CASE c.fn = "setOwner"
  <2>1. b = Given([a EXCEPT !.owner = c.to], c.to)
    BY <1>1 DEF After, SetOwner, When
  <2>2. /\ IsAccount(b)
        /\ b.version = a.version /\ b.owner = c.to /\ b.root = a.root
        /\ b.granted = a.granted \cup {c.to} /\ b.owners = a.owners
    BY <2>1 DEF Given, IsAccount, Fields
  <2> QED BY <2>2 DEF Keeps, Accounted
<1>2. CASE c.fn = "updateImplementation"
  <2>1. b = [a EXCEPT !.version = "v2"]
    BY <1>2 DEF After, UpdateImplementation, When
  <2>2. /\ IsAccount(b)
        /\ b.version = "v2" /\ b.owner = a.owner /\ b.root = a.root
        /\ b.granted = a.granted /\ b.owners = a.owners
    BY <2>1 DEF IsAccount, Fields
  <2> QED BY <2>2 DEF Keeps, Accounted
<1>3. CASE c.fn = "enableModule"
  BY <1>3, EnableKeeps DEF After
<1>4. CASE c.fn = "disableModule"
  BY <1>4 DEF After, DisableModule, When, IsAccount, Fields, Keeps, Accounted
<1>5. CASE c.fn = "setupAndEnableModule"
  <2>1. PICK x \in InitForSmartAccount(a, c.on, c.to) : b \in EnableModule(x, c.on)
    BY <1>5 DEF After, SetupAndEnableModule
  <2>2. Keeps(a, x)
    BY <2>1, OwnKeeps DEF InitForSmartAccount, When
  <2>3. Keeps(x, b)
    BY <2>1, <2>2, EnableKeeps DEF Keeps
  <2> QED BY <2>2, <2>3, KeepsTransitive
<1>6. CASE c.fn = "initForSmartAccount"
  BY <1>6, OwnKeeps DEF After, InitForSmartAccount, When
<1>7. CASE c.fn = "transferOwnership"
  BY <1>7, OwnKeeps DEF After, TransferOwnership, When
<1>8. CASE c.fn = "renounceOwnership"
  BY <1>8 DEF After, RenounceOwnership, When, IsAccount, Fields, Keeps, Accounted
<1>9. CASE c.fn = "setMerkleRoot"
  <2>1. b = [a EXCEPT !.root = c.to, !.granted = @ \cup {s.key : s \in Under(c.to)}]
    BY <1>9 DEF After, SetMerkleRoot
  <2>2. /\ IsAccount(b)
        /\ b.version = a.version /\ b.owner = a.owner /\ b.owners = a.owners
        /\ b.root = c.to /\ b.granted = a.granted \cup {s.key : s \in Under(c.to)}
    BY <2>1 DEF IsAccount, Fields
  <2> QED BY <2>2 DEF Keeps, Accounted
<1>10. CASE c.fn = "transfer"
  BY <1>10 DEF After, Transfer, Keeps
<1> QED
  BY <1>1, <1>2, <1>3, <1>4, <1>5, <1>6, <1>7, <1>8, <1>9, <1>10 DEF FunctionNames, OwnFunctions

LEMMA AfterAllKeeps ==
    ASSUME NEW a, IsAccount(a), NEW calls \in Tried, NEW b \in AfterAll(a, calls)
    PROVE  Keeps(a, b)
<1>1. /\ Len(calls) \in {1, 2}
      /\ \A i \in 1 .. Len(calls) : calls[i].fn \in FunctionNames
  BY OwnershipAssumption
<1>2. CASE Len(calls) = 1
  <2>1. calls[1].fn \in FunctionNames /\ b \in After(a, calls[1])
    BY <1>1, <1>2 DEF AfterAll
  <2> QED BY <2>1, AfterKeeps
<1>3. CASE Len(calls) = 2
  <2>1. calls[1].fn \in FunctionNames /\ calls[2].fn \in FunctionNames
    BY <1>1, <1>3
  <2>2. PICK x \in After(a, calls[1]) : b \in After(x, calls[2])
    BY <1>3 DEF AfterAll
  <2>3. Keeps(a, x)
    BY <2>1, <2>2, AfterKeeps
  <2>4. Keeps(x, b)
    BY <2>1, <2>2, <2>3, AfterKeeps DEF Keeps
  <2> QED BY <2>3, <2>4, KeepsTransitive
<1> QED BY <1>1, <1>2, <1>3

LEMMA SetupKeeps ==
    ASSUME NEW a, IsAccount(a), NEW r, NEW o, NEW b \in SetupAndEnableModule(a, r, o)
    PROVE  Keeps(a, b)
<1>1. PICK x \in InitForSmartAccount(a, r, o) : b \in EnableModule(x, r)
  BY DEF SetupAndEnableModule
<1>2. Keeps(a, x)
  BY <1>1, OwnKeeps DEF InitForSmartAccount, When
<1>3. Keeps(x, b)
  BY <1>1, <1>2, EnableKeeps DEF Keeps
<1> QED BY <1>2, <1>3, KeepsTransitive

-----------------------------------------------------------------------------
(* The invariant.                                                          *)

\* What a session for another contract lets pass: one call of that contract.
Pays(calls) == Len(calls) = 1 /\ calls[1].fn = "transfer"

Waiting(op, granted) ==
    /\ op.calls \in Tried /\ op.sig \in Signatures
    /\ (op.sig.via = SessionKeyManager /\ Foreign(op.sig.leaf)) => Pays(op.calls)
    /\ op.sig.key \in granted

IInv ==
    /\ bundle \in Seq(UserOps)
    /\ \A i \in 1 .. Len(bundle) : Waiting(bundle[i], account.granted)
    /\ IsAccount(account) /\ Accounted(account)
    /\ bundle # <<>> => account.version # "none"
    /\ executing => bundle # <<>>

\* A session for another contract lets no call of the account or its modules pass, and
\* all that changes the account is one of those.
LEMMA SessionsPay ==
    ASSUME NEW op \in UserOps, VerifySession(account, op), Foreign(op.sig.leaf)
    PROVE  Pays(op.calls)
<1>1. op.calls \in Tried
  BY DEF UserOps
<1>2. /\ Len(op.calls) = 1
      /\ Target(op.calls[1]) \notin Modules \cup {Account}
  BY DEF VerifySession, Allows, Foreign
<1>3. op.calls[1].fn \notin OwnFunctions /\ op.calls[1].on \notin Modules \cup {Account}
  BY <1>2 DEF Target
<1> QED
  BY <1>1, <1>2, <1>3, OwnershipAssumption DEF Pays

\* Neither version lets anybody pass who has not been given the account.
LEMMA ValidatedGranted ==
    ASSUME NEW op \in UserOps, Accounted(account),
           IF account.version = "v1" THEN ValidateSignature(account, op)
                                     ELSE ValidateUserOp(account, op)
    PROVE  Waiting(op, account.granted)
<1>1. op.calls \in Tried /\ op.sig \in Signatures
  BY DEF UserOps
<1>2. Zero \notin Keys /\ Wallets \subseteq Keys
  BY OwnershipAssumption DEF Keys
<1>3. CASE account.version = "v1"
  <2>1. op.sig.key = account.owner /\ op.sig.key \in Wallets /\ op.sig.via = None
    BY <1>3 DEF ValidateSignature
  <2>2. op.sig.key \in account.granted
    BY <2>1, <1>2 DEF Accounted
  <2>3. op.sig.via # SessionKeyManager
    BY <2>1, OwnershipAssumption DEF Modules
  <2> QED BY <1>1, <2>2, <2>3 DEF Waiting
<1>4. CASE account.version # "v1"
  <2>1. ValidateUserOp(account, op)
    BY <1>4
  <2>2. CASE op.sig.via \in Registries
    <3>1. op.sig.via # SessionKeyManager
      BY <2>2, OwnershipAssumption
    <3>2. /\ account.owners[op.sig.via] # Zero
          /\ op.sig.key = account.owners[op.sig.via]
      BY <2>1, <3>1 DEF ValidateUserOp, VerifyPasskey, VerifySignature
    <3>3. op.sig.key \in account.granted
      BY <2>2, <3>2 DEF Accounted
    <3> QED BY <1>1, <3>1, <3>3 DEF Waiting
  <2>3. CASE op.sig.via \notin Registries
    <3>1. op.sig.via = SessionKeyManager /\ VerifySession(account, op)
      BY <2>1, <2>3 DEF ValidateUserOp, Registries
    <3>2. op.sig.key \in account.granted
      BY <3>1 DEF VerifySession, Accounted
    <3> QED BY <1>1, <3>1, <3>2, SessionsPay DEF Waiting
  <2> QED BY <2>2, <2>3
<1> QED BY <1>3, <1>4

\* Executing an operation keeps the account, and what a session for another contract
\* sent leaves it alone.
LEMMA Executed ==
    ASSUME IInv, ExecuteUserOp
    PROVE  /\ Keeps(account, account')
           /\ (Head(bundle).sig.via = SessionKeyManager /\ Foreign(Head(bundle).sig.leaf)) =>
                 account' = account
<1>1. bundle # <<>> /\ Head(bundle) = bundle[1] /\ 1 \in 1 .. Len(bundle)
  BY DEF IInv, ExecuteUserOp
<1>2. Waiting(bundle[1], account.granted)
  BY <1>1 DEF IInv
<1> DEFINE calls == bundle[1].calls
<1>3. account' = account \/ account' \in AfterAll(account, calls)
  BY <1>1 DEF ExecuteUserOp
<1>4. Keeps(account, account)
  BY DEF Keeps, IInv
<1>5. calls \in Tried
  BY <1>2 DEF Waiting
<1>6. Keeps(account, account')
  BY <1>3, <1>4, <1>5, AfterAllKeeps DEF IInv
<1>7. ASSUME bundle[1].sig.via = SessionKeyManager, Foreign(bundle[1].sig.leaf)
      PROVE  account' = account
  <2>1. Len(calls) = 1 /\ calls[1].fn = "transfer"
    BY <1>2, <1>7 DEF Waiting, Pays
  <2>2. AfterAll(account, calls) = {account}
    BY <2>1 DEF AfterAll, After, Transfer
  <2> QED BY <1>3, <2>2
<1> QED BY <1>1, <1>6, <1>7

LEMMA InitIInv == Init => IInv
<1> SUFFICES ASSUME Init PROVE IInv
  OBVIOUS
<1>1. /\ account.owner = Zero /\ account.root = Zero
      /\ account.owners = [r \in Registries |-> Zero]
  BY DEF Init
<1>2. IsAccount(account)
  BY DEF Init, IsAccount, Fields
<1>3. Accounted(account)
  BY <1>1 DEF Accounted, Under
<1>4. /\ bundle \in Seq(UserOps) /\ Len(bundle) = 0
      /\ ~executing /\ bundle = <<>>
  BY DEF Init
<1> QED
  BY <1>2, <1>3, <1>4 DEF IInv

LEMMA NextIInv == IInv /\ [Next]_vars => IInv'
<1> SUFFICES ASSUME IInv, [Next]_vars PROVE IInv'
  OBVIOUS
<1>1. CASE DeployCounterFactualAccount
  <2>1. bundle' = <<>> /\ ~executing'
    BY <1>1 DEF DeployCounterFactualAccount, IInv
  <2> DEFINE fresh == [account EXCEPT !.version = born.version]
  <2>2. /\ Accounted(fresh) /\ IsAccount(fresh)
        /\ fresh.owners = account.owners /\ fresh.root = account.root
        /\ fresh.granted = account.granted
    BY DEF IInv, Accounted, IsAccount, Fields
  <2>3. \/ account' = Given([fresh EXCEPT !.owner = born.owner], born.owner)
        \/ account' \in SetupAndEnableModule(fresh, born.registry, born.owner)
    BY <1>1 DEF DeployCounterFactualAccount, When
  <2> HIDE DEF fresh
  <2>4. ASSUME account' = Given([fresh EXCEPT !.owner = born.owner], born.owner)
        PROVE  IsAccount(account') /\ Accounted(account')
    <3>1. /\ IsAccount(account') /\ account'.owner = born.owner
          /\ account'.owners = fresh.owners /\ account'.root = fresh.root
          /\ account'.granted = fresh.granted \cup {born.owner}
      BY <2>2, <2>4 DEF Given, IsAccount, Fields
    <3> QED BY <2>2, <3>1 DEF Accounted
  <2>5. ASSUME account' \in SetupAndEnableModule(fresh, born.registry, born.owner)
        PROVE  IsAccount(account') /\ Accounted(account')
    BY <2>2, <2>5, SetupKeeps DEF Keeps
  <2>6. IsAccount(account') /\ Accounted(account')
    BY <2>3, <2>4, <2>5
  <2> QED BY <2>1, <2>6 DEF IInv
<1>7. ASSUME NEW calls \in Tried, OwnerCalls(calls)
      PROVE  IInv'
  <2>1. bundle' = <<>> /\ ~executing'
    BY <1>7 DEF OwnerCalls, Idle, IInv
  <2>2. Keeps(account, account')
    BY <1>7, AfterAllKeeps DEF OwnerCalls, IInv
  <2> QED BY <2>1, <2>2 DEF IInv, Keeps
<1>2. ASSUME NEW op \in UserOps, Validate(op)
      PROVE  IInv'
  <2>1. /\ account' = account /\ executing' = executing
        /\ bundle' = Append(bundle, op) /\ account.version # "none"
    BY <1>2 DEF Validate
  <2>2. Waiting(op, account.granted)
    BY <1>2, ValidatedGranted DEF Validate, IInv
  <2>3. bundle' \in Seq(UserOps) /\ bundle' # <<>>
    BY <2>1 DEF IInv
  <2>4. ASSUME NEW i \in 1 .. Len(bundle')
        PROVE  Waiting(bundle'[i], account.granted)
    <3>1. CASE i \in 1 .. Len(bundle)
      BY <2>1, <3>1 DEF IInv
    <3>2. CASE i = Len(bundle) + 1
      BY <2>1, <2>2, <3>2 DEF IInv
    <3> QED BY <2>1, <3>1, <3>2 DEF IInv
  <2>5. \A i \in 1 .. Len(bundle') : Waiting(bundle'[i], account'.granted)
    BY <2>1, <2>4 DEF Waiting
  <2> QED BY <2>1, <2>3, <2>5 DEF IInv
<1>3. CASE ExecuteBundle
  BY <1>3 DEF ExecuteBundle, Idle, IInv, Waiting
<1>4. CASE ExecuteUserOp
  <2>1. Keeps(account, account')
    BY <1>4, Executed
  <2>2. /\ bundle # <<>> /\ bundle' = Tail(bundle) /\ executing' = (Len(bundle) > 1)
    BY <1>4 DEF ExecuteUserOp, IInv
  <2>3. /\ bundle' \in Seq(UserOps) /\ Len(bundle') = Len(bundle) - 1
        /\ \A i \in 1 .. Len(bundle') : i + 1 \in 1 .. Len(bundle) /\ bundle'[i] = bundle[i + 1]
    BY <2>2 DEF IInv
  <2>4. \A i \in 1 .. Len(bundle') : Waiting(bundle'[i], account'.granted)
    BY <2>1, <2>3 DEF IInv, Waiting, Keeps
  <2>5. account'.version # "none" /\ IsAccount(account') /\ Accounted(account')
    BY <2>1, <2>2 DEF IInv, Keeps
  <2>6. executing' => bundle' # <<>>
    <3>1. executing' => Len(bundle) > 1
      BY <2>2, Zenon
    <3>2. Len(bundle) \in Nat
      BY DEF IInv
    <3>3. Len(bundle) > 1 => Len(bundle') # 0
      BY <2>3, <3>2
    <3> QED BY <3>1, <3>3
  <2> QED BY <2>3, <2>4, <2>5, <2>6 DEF IInv
<1>5. CASE NextBlock
  BY <1>5 DEF NextBlock, IInv, Waiting
<1>6. CASE UNCHANGED vars
  BY <1>6 DEF vars, IInv, Waiting
<1> QED
  BY <1>1, <1>2, <1>3, <1>4, <1>5, <1>6, <1>7 DEF Next

\* The owner calls the first version only, and in no bundle.
LEMMA OwnersOwnTransaction ==
    ASSUME IInv, NEW calls \in Tried, OwnerCalls(calls)
    PROVE  ~executing /\ account.version = "v1"
BY DEF IInv, OwnerCalls, Idle

\* With a deployment there is nothing to execute.
LEMMA DeployedOnce ==
    IInv /\ DeployCounterFactualAccount => ~executing /\ account.version = "none"
BY DEF IInv, DeployCounterFactualAccount

-----------------------------------------------------------------------------
(* Types.                                                                  *)

\* A registry has only owners that it takes, whichever of its functions set them.
InType(a) ==
    /\ a \in AccountType
    /\ \A r \in Registries : a.owners[r] \in {Zero} \cup {o \in Keys : InitAccepts(r, o)}

\* What a call is about.
InCall(c) ==
    /\ c.fn \in FunctionNames
    /\ c.fn = "setOwner" => c.to \in Keys \cup {Zero, Account}
    /\ c.fn = "enableModule" => c.on \in Modules
    /\ c.fn = "setMerkleRoot" => c.to \in Roots \cup {Zero}

LEMMA OwnInType ==
    ASSUME NEW a, InType(a), NEW r, NEW o, InitAccepts(r, o)
    PROVE  InType(Own(a, r, o)) /\ r \in Registries
<1>1. r \in Registries /\ o \in Keys \cup {Zero}
  BY DEF InitAccepts, Registries, Keys
<1> DEFINE b == Own(a, r, o)
<1>2. /\ b = [a EXCEPT !.owners = [a.owners EXCEPT ![r] = o], !.granted = a.granted \cup {o}]
  BY DEF Own, Given, InType, AccountType
<1>3. [a.owners EXCEPT ![r] = o] \in [Registries -> Keys \cup {Zero}]
  BY <1>1 DEF InType, AccountType
<1>4. a.granted \cup {o} \in SUBSET (Keys \cup {Zero})
  BY <1>1 DEF InType, AccountType
<1>5. b \in AccountType
  BY <1>2, <1>3, <1>4 DEF InType, AccountType
<1>6. b.owners = [a.owners EXCEPT ![r] = o]
  BY <1>2 DEF InType, AccountType
<1>7. ASSUME NEW q \in Registries
      PROVE  b.owners[q] \in {Zero} \cup {p \in Keys : InitAccepts(q, p)}
  <2>1. b.owners[q] = IF q = r THEN o ELSE a.owners[q]
    BY <1>6 DEF InType, AccountType
  <2>2. CASE q = r
    BY <1>1, <2>1, <2>2
  <2>3. CASE q # r
    BY <2>1, <2>3 DEF InType
  <2> QED BY <2>2, <2>3
<1> HIDE DEF b
<1>8. InType(b)
  BY <1>5, <1>7 DEF InType
<1> QED BY <1>1, <1>8 DEF b

\* A function that leaves the owners alone.
LEMMA SameOwnersInType ==
    ASSUME NEW a, InType(a), NEW b \in AccountType, b.owners = a.owners
    PROVE  InType(b)
BY DEF InType

LEMMA EnableInType ==
    ASSUME NEW a, InType(a), NEW m \in Modules, NEW b \in EnableModule(a, m)
    PROVE  InType(b)
<1>1. b = [a EXCEPT !.enabled = @ \cup {m}]
  BY DEF EnableModule, When
<1>2. b \in AccountType /\ b.owners = a.owners
  BY <1>1 DEF InType, AccountType
<1> QED BY <1>2, SameOwnersInType

LEMMA SetupInType ==
    ASSUME NEW a, InType(a), NEW r, NEW o, NEW b \in SetupAndEnableModule(a, r, o)
    PROVE  InType(b)
<1>1. PICK x \in InitForSmartAccount(a, r, o) : b \in EnableModule(x, r)
  BY DEF SetupAndEnableModule
<1>2. InitAccepts(r, o) /\ x = Own(a, r, o)
  BY <1>1 DEF InitForSmartAccount, When
<1>3. InType(x) /\ r \in Modules
  BY <1>2, OwnInType DEF Modules
<1> QED BY <1>1, <1>3, EnableInType

LEMMA AfterInType ==
    ASSUME NEW a, InType(a), NEW c, InCall(c), NEW b \in After(a, c)
    PROVE  InType(b)
<1>1. CASE c.fn = "setOwner"
  <2>1. b = Given([a EXCEPT !.owner = c.to], c.to) /\ c.to \in Keys
    BY <1>1 DEF After, SetOwner, When, InCall
  <2>2. b = [a EXCEPT !.owner = c.to, !.granted = a.granted \cup {c.to}]
    BY <2>1 DEF Given, InType, AccountType
  <2>3. a.granted \cup {c.to} \in SUBSET (Keys \cup {Zero})
    BY <2>1 DEF InType, AccountType
  <2>4. b \in AccountType /\ b.owners = a.owners
    BY <2>1, <2>2, <2>3 DEF InType, AccountType
  <2> QED BY <2>4, SameOwnersInType
<1>2. CASE c.fn = "updateImplementation"
  <2>1. b = [a EXCEPT !.version = "v2"]
    BY <1>2 DEF After, UpdateImplementation, When
  <2>2. b \in AccountType /\ b.owners = a.owners
    BY <2>1 DEF InType, AccountType
  <2> QED BY <2>2, SameOwnersInType
<1>3. CASE c.fn = "enableModule"
  BY <1>3, EnableInType DEF After, InCall
<1>4. CASE c.fn = "disableModule"
  <2>1. b = [a EXCEPT !.enabled = @ \ {c.on}]
    BY <1>4 DEF After, DisableModule, When
  <2>2. b \in AccountType /\ b.owners = a.owners
    BY <2>1 DEF InType, AccountType
  <2> QED BY <2>2, SameOwnersInType
<1>5. CASE c.fn = "setupAndEnableModule"
  BY <1>5, SetupInType DEF After
<1>6. CASE c.fn = "initForSmartAccount"
  BY <1>6, OwnInType DEF After, InitForSmartAccount, When
<1>7. CASE c.fn = "transferOwnership"
  <2>1. TransferAccepts(c.on, c.to) /\ b = Own(a, c.on, c.to)
    BY <1>7 DEF After, TransferOwnership, When
  <2>2. InitAccepts(c.on, c.to)
    BY <2>1 DEF TransferAccepts, InitAccepts
  <2> QED BY <2>1, <2>2, OwnInType
<1>8. CASE c.fn = "renounceOwnership"
  <2> DEFINE left == [a.owners EXCEPT ![c.on] = Zero]
  <2>1. b = [a EXCEPT !.owners = left]
    BY <1>8 DEF After, RenounceOwnership, When
  <2>2. /\ left \in [Registries -> Keys \cup {Zero}]
        /\ \A r \in Registries : left[r] = Zero \/ left[r] = a.owners[r]
    BY DEF InType, AccountType
  <2> HIDE DEF left
  <2>3. b \in AccountType /\ b.owners = left
    BY <2>1, <2>2 DEF InType, AccountType
  <2>4. \A r \in Registries : b.owners[r] = Zero \/ b.owners[r] = a.owners[r]
    BY <2>2, <2>3
  <2> QED BY <2>3, <2>4 DEF InType
<1>9. CASE c.fn = "setMerkleRoot"
  <2> DEFINE keys == {s.key : s \in Under(c.to)}
  <2>1. b = [a EXCEPT !.root = c.to, !.granted = @ \cup keys] /\ c.to \in Roots \cup {Zero}
    BY <1>9 DEF After, SetMerkleRoot, InCall
  <2>2. keys \subseteq Keys
    <3>1. Under(c.to) \subseteq Sessions
      BY <2>1 DEF Under, Sessions
    <3> QED BY <3>1, OwnershipAssumption
  <2> HIDE DEF keys
  <2>3. b = [a EXCEPT !.root = c.to, !.granted = a.granted \cup keys]
    BY <2>1 DEF InType, AccountType
  <2>4. a.granted \cup keys \in SUBSET (Keys \cup {Zero})
    BY <2>2 DEF InType, AccountType
  <2>5. b \in AccountType /\ b.owners = a.owners
    BY <2>1, <2>3, <2>4 DEF InType, AccountType
  <2> QED BY <2>5, SameOwnersInType
<1>10. CASE c.fn = "transfer"
  BY <1>10 DEF After, Transfer
<1> QED
  BY <1>1, <1>2, <1>3, <1>4, <1>5, <1>6, <1>7, <1>8, <1>9, <1>10 
     DEF InCall, FunctionNames, OwnFunctions

LEMMA AfterAllInType ==
    ASSUME NEW a, InType(a), NEW calls \in Tried, NEW b \in AfterAll(a, calls)
    PROVE  InType(b)
<1>1. Len(calls) \in {1, 2} /\ \A i \in 1 .. Len(calls) : InCall(calls[i])
  BY OwnershipAssumption DEF InCall
<1>2. CASE Len(calls) = 1
  <2>1. InCall(calls[1]) /\ b \in After(a, calls[1])
    BY <1>1, <1>2 DEF AfterAll
  <2> QED BY <2>1, AfterInType
<1>3. CASE Len(calls) = 2
  <2>1. InCall(calls[1]) /\ InCall(calls[2])
    BY <1>1, <1>3
  <2>2. PICK x \in After(a, calls[1]) : b \in After(x, calls[2])
    BY <1>3 DEF AfterAll
  <2> QED BY <2>1, <2>2, AfterInType
<1> QED BY <1>1, <1>2, <1>3

LEMMA NextTypeOK == IInv /\ TypeOK /\ [Next]_vars => TypeOK'
<1> SUFFICES ASSUME IInv, TypeOK, [Next]_vars PROVE TypeOK'
  OBVIOUS
<1>0. /\ InType(account) /\ born \in Births /\ Len(bundle) =< MaxBundle
      /\ bundle \in Seq(UserOps) /\ executing \in BOOLEAN
      /\ now \in 0 .. MaxTime /\ ops \in 0 .. MaxOps
      /\ MaxTime \in Nat /\ MaxOps \in Nat /\ MaxBundle \in Nat
  BY OwnershipAssumption DEF TypeOK, InType, IInv
<1>1. SUFFICES /\ InType(account') /\ born' \in Births /\ Len(bundle') =< MaxBundle
               /\ bundle' \in Seq(UserOps)
               /\ executing' \in BOOLEAN /\ (executing' => bundle' # <<>>)
               /\ now' \in 0 .. MaxTime /\ ops' \in 0 .. MaxOps
  <2>1. bundle' \in Seq(UserOps) => Range(bundle') \subseteq UserOps
    BY DEF Range
  <2> QED BY <2>1 DEF TypeOK, InType, Idle
<1>2. executing => bundle # <<>>
  BY DEF IInv
<1>3. CASE DeployCounterFactualAccount
  <2> DEFINE fresh == [account EXCEPT !.version = born.version]
  <2>1. born.version \in {"v1", "v2"} /\ born.owner \in Keys \cup {Zero}
    BY <1>0, OwnershipAssumption
  <2>2. fresh \in AccountType /\ fresh.owners = account.owners
    BY <1>0, <2>1 DEF InType, AccountType
  <2>3. InType(fresh)
    BY <1>0, <2>2, SameOwnersInType
  <2>4. /\ UNCHANGED <<born, bundle, executing, now, ops>>
        /\ \/ account' = Given([fresh EXCEPT !.owner = born.owner], born.owner)
           \/ account' \in SetupAndEnableModule(fresh, born.registry, born.owner)
    BY <1>3 DEF DeployCounterFactualAccount, When
  <2> HIDE DEF fresh
  <2>5. ASSUME account' = Given([fresh EXCEPT !.owner = born.owner], born.owner)
        PROVE  InType(account')
    <3>1. account' = [fresh EXCEPT !.owner = born.owner, !.granted = fresh.granted \cup {born.owner}]
      BY <2>3, <2>5 DEF Given, InType, AccountType
    <3>2. account' \in AccountType /\ account'.owners = fresh.owners
      BY <2>1, <2>3, <3>1 DEF InType, AccountType
    <3> QED BY <2>3, <3>2, SameOwnersInType
  <2>6. InType(account')
    BY <2>3, <2>4, <2>5, SetupInType
  <2> QED BY <1>0, <1>2, <2>4, <2>6
<1>9. ASSUME NEW calls \in Tried, OwnerCalls(calls)
      PROVE  /\ InType(account') /\ born' \in Births /\ Len(bundle') =< MaxBundle
             /\ bundle' \in Seq(UserOps)
             /\ executing' \in BOOLEAN /\ (executing' => bundle' # <<>>)
             /\ now' \in 0 .. MaxTime /\ ops' \in 0 .. MaxOps
  <2>1. /\ UNCHANGED <<born, bundle, executing, now, ops>>
        /\ account' \in AfterAll(account, calls)
    BY <1>9 DEF OwnerCalls
  <2>2. InType(account')
    BY <1>0, <2>1, AfterAllInType
  <2> QED BY <1>0, <1>2, <2>1, <2>2
<1>4. ASSUME NEW op \in UserOps, Validate(op)
      PROVE  /\ InType(account') /\ born' \in Births /\ Len(bundle') =< MaxBundle
             /\ bundle' \in Seq(UserOps)
             /\ executing' \in BOOLEAN /\ (executing' => bundle' # <<>>)
             /\ now' \in 0 .. MaxTime /\ ops' \in 0 .. MaxOps
  <2>1. /\ UNCHANGED <<born, account, executing, now>> /\ ~executing
        /\ bundle' = Append(bundle, op) /\ Len(bundle) < MaxBundle
        /\ ops' = ops + 1 /\ ops < MaxOps
    BY <1>4 DEF Validate
  <2>2. bundle' \in Seq(UserOps) /\ Len(bundle') = Len(bundle) + 1
    BY <1>0, <2>1
  <2> QED BY <1>0, <2>1, <2>2
<1>5. CASE ExecuteBundle
  BY <1>0, <1>5 DEF ExecuteBundle, Idle
<1>6. CASE ExecuteUserOp
  <2>1. /\ UNCHANGED <<born, now, ops>> /\ bundle # <<>>
        /\ bundle' = Tail(bundle) /\ executing' = (Len(bundle) > 1)
        /\ account' = account \/ account' \in AfterAll(account, Head(bundle).calls)
    BY <1>2, <1>6 DEF ExecuteUserOp
  <2>2. /\ bundle' \in Seq(UserOps) /\ Len(bundle') = Len(bundle) - 1
        /\ Head(bundle) \in UserOps
    BY <1>0, <2>1
  <2>3. Head(bundle).calls \in Tried
    BY <2>2 DEF UserOps
  <2>4. InType(account')
    BY <1>0, <2>1, <2>3, AfterAllInType
  <2>5. Len(bundle) > 1 => bundle' # <<>>
    BY <1>0, <2>2
  <2>6. executing' \in BOOLEAN
    <3> DEFINE more == Len(bundle) > 1
    <3>1. more \in BOOLEAN /\ executing' = more
      BY <2>1
    <3> HIDE DEF more
    <3> QED BY <3>1, Zenon
  <2>7. Len(bundle') =< MaxBundle
    BY <1>0, <2>2
  <2> QED BY <1>0, <2>1, <2>2, <2>4, <2>5, <2>6, <2>7
<1>7. CASE NextBlock
  BY <1>0, <1>2, <1>7 DEF NextBlock
<1>8. CASE UNCHANGED vars
  BY <1>0, <1>2, <1>8 DEF vars
<1> QED BY <1>3, <1>4, <1>5, <1>6, <1>7, <1>8, <1>9 DEF Next

LEMMA InitTypeOK == Init => TypeOK
<1> SUFFICES ASSUME Init PROVE TypeOK
  OBVIOUS
<1>1. account \in AccountType /\ \A r \in Registries : account.owners[r] = Zero
  BY DEF Init, AccountType
<1>2. Len(bundle) = 0 /\ Range(bundle) = {}
  BY DEF Init, Range
<1>3. executing = FALSE /\ now = 0 /\ ops = 0 /\ born \in Births
  BY DEF Init
<1>4. now \in 0 .. MaxTime /\ ops \in 0 .. MaxOps /\ Len(bundle) =< MaxBundle
  BY <1>2, <1>3, OwnershipAssumption
<1> QED BY <1>1, <1>2, <1>3, <1>4 DEF TypeOK

-----------------------------------------------------------------------------
(* The theorems.                                                           *)

\* IInv is an invariant of the specification, whatever the calls that are tried.
LEMMA Invariant == Spec => []IInv
BY InitIInv, NextIInv, PTL DEF Spec

\* Types; with them, that every registry has only owners that it takes, whichever call
\* of whichever batch set them.  (initForSmartAccount, transferOwnership)
THEOREM TypeCorrect == Spec => []TypeOK
BY InitTypeOK, NextTypeOK, Invariant, PTL DEF Spec

\* Nobody has an operation validated who has not been given the account, by its
\* initialiser or by the account itself.  (_verifySignature, validateSessionKey,
\* deployCounterFactualAccount)
THEOREM OnlyEverGranted == Spec => []OnlyGranted
<1>1. IInv => OnlyGranted
  BY DEF IInv, OnlyGranted, Waiting
<1> QED BY <1>1, Invariant, PTL

\* The operation of a session for a contract that is neither the account nor one of its
\* modules leaves the account as it is, whatever function it calls and whatever happened
\* between its validation and its execution.  (validateSessionUserOp)
THEOREM SessionsAlwaysOnlyPay == Spec => SessionsOnlyPay
<1>1. IInv /\ [Next]_vars =>
        ((executing /\ Head(bundle).sig.via = SessionKeyManager /\ Foreign(Head(bundle).sig.leaf))
            => UNCHANGED account)
  <2> SUFFICES ASSUME IInv, [Next]_vars, executing,
                      Head(bundle).sig.via = SessionKeyManager, Foreign(Head(bundle).sig.leaf)
               PROVE  account' = account
    OBVIOUS
  <2>1. CASE DeployCounterFactualAccount
    BY <2>1, DeployedOnce
  <2>7. CASE \E calls \in Tried : OwnerCalls(calls)
    BY <2>7, OwnersOwnTransaction
  <2>2. CASE \E op \in UserOps : Validate(op)
    BY <2>2 DEF Validate
  <2>3. CASE ExecuteBundle
    BY <2>3 DEF ExecuteBundle
  <2>4. CASE ExecuteUserOp
    BY <2>4, Executed
  <2>5. CASE NextBlock
    BY <2>5 DEF NextBlock
  <2>6. CASE UNCHANGED vars
    BY <2>6 DEF vars
  <2> QED BY <2>1, <2>2, <2>3, <2>4, <2>5, <2>6, <2>7 DEF Next
<1> QED BY <1>1, Invariant, PTL DEF Spec, SessionsOnlyPay

\* When no registry that the account has enabled knows an owner of it, and nothing but
\* sessions for other contracts is left or under way, the account never changes again.
\* (renounceOwnership, initForSmartAccount)
THEOREM RenouncedAlwaysForGood == Spec => RenouncedForGood
<1>1. IInv /\ [Next]_vars => (NobodyLeft => (UNCHANGED account /\ NobodyLeft'))
  <2> SUFFICES ASSUME IInv, [Next]_vars, NobodyLeft
               PROVE  account' = account /\ NobodyLeft'
    OBVIOUS
  <2>1. CASE DeployCounterFactualAccount
    BY <2>1, DeployedOnce DEF NobodyLeft
  <2>7. ASSUME NEW calls \in Tried, OwnerCalls(calls)
        PROVE  FALSE
    BY <2>7, OwnersOwnTransaction DEF NobodyLeft
  <2>2. ASSUME NEW op \in UserOps, Validate(op)
        PROVE  account' = account /\ NobodyLeft'
    <3>1. account' = account /\ bundle' = Append(bundle, op) /\ bundle \in Seq(UserOps)
      BY <2>2 DEF Validate, IInv
    <3>2. ValidateUserOp(account, op)
      BY <2>2 DEF Validate, NobodyLeft
    <3>3. op.sig.via \notin Registries
      BY <3>2, OwnershipAssumption
         DEF ValidateUserOp, VerifyPasskey, VerifySignature, NobodyLeft
    <3>4. op.sig.via = SessionKeyManager /\ Foreign(op.sig.leaf)
      BY <3>2, <3>3 DEF ValidateUserOp, VerifySession, NobodyLeft, Registries
    <3>5. \A i \in DOMAIN bundle' : /\ bundle'[i].sig.via = SessionKeyManager
                                    /\ Foreign(bundle'[i].sig.leaf)
      <4>1. \A i \in 1 .. Len(bundle) : /\ bundle[i].sig.via = SessionKeyManager
                                        /\ Foreign(bundle[i].sig.leaf)
        BY <3>1 DEF NobodyLeft
      <4> QED BY <3>1, <3>4, <4>1
    <3> QED BY <3>1, <3>5 DEF NobodyLeft
  <2>3. CASE ExecuteBundle
    BY <2>3 DEF ExecuteBundle, NobodyLeft
  <2>4. CASE ExecuteUserOp
    <3>1. bundle \in Seq(UserOps) /\ bundle # <<>> /\ bundle' = Tail(bundle)
      BY <2>4 DEF ExecuteUserOp, IInv
    <3>2. \A i \in 1 .. Len(bundle) : /\ bundle[i].sig.via = SessionKeyManager
                                      /\ Foreign(bundle[i].sig.leaf)
      BY <3>1 DEF NobodyLeft
    <3>3. account' = account
      BY <2>4, <3>1, <3>2, Executed
    <3>4. \A i \in DOMAIN bundle' : /\ bundle'[i].sig.via = SessionKeyManager
                                    /\ Foreign(bundle'[i].sig.leaf)
      BY <3>1, <3>2
    <3> QED BY <3>3, <3>4 DEF NobodyLeft
  <2>5. CASE NextBlock
    BY <2>5 DEF NextBlock, NobodyLeft
  <2>6. CASE UNCHANGED vars
    BY <2>6 DEF vars, NobodyLeft
  <2> QED BY <2>1, <2>2, <2>3, <2>4, <2>5, <2>6, <2>7 DEF Next
<1> QED BY <1>1, Invariant, PTL DEF Spec, RenouncedForGood

-----------------------------------------------------------------------------
(* The owners' client.                                                     *)

\* Whatever has run has a nonce below the flow's next.
Past == \A flow \in Flows : \A n : <<flow, n>> \in ran => n \in Nat /\ n < nonces[flow]

ClientIInv == /\ nonces \in [Flows -> Nat]
              /\ Past
              /\ again = FALSE

\* In either flow, a nonce that has run is none that can run.
LEMMA RunClientIInv ==
    ASSUME ClientIInv, NEW flow \in Flows, NEW e, Run(flow, e)
    PROVE  ClientIInv'
<1> DEFINE n == nonces[flow]
<1>1. n \in Nat
  BY DEF ClientIInv
<1>2. /\ nonces' = [nonces EXCEPT ![flow] = n + 1]
      /\ ran' = ran \cup {<<flow, n>>}
      /\ again' = (again \/ <<flow, n>> \in ran)
  BY DEF Run, CountNonce
<1>3. nonces' \in [Flows -> Nat]
  BY <1>1, <1>2 DEF ClientIInv
<1>4. <<flow, n>> \notin ran
  BY <1>1 DEF ClientIInv, Past
<1>5. again' = FALSE
  BY <1>2, <1>4 DEF ClientIInv
<1>6. ASSUME NEW g \in Flows, NEW m, <<g, m>> \in ran'
      PROVE  m \in Nat /\ m < nonces'[g]
  <2>1. nonces'[g] = IF g = flow THEN n + 1 ELSE nonces[g]
    BY <1>2 DEF ClientIInv
  <2>2. CASE <<g, m>> \in ran
    <3>1. m \in Nat /\ m < nonces[g] /\ nonces[g] \in Nat
      BY <2>2 DEF ClientIInv, Past
    <3> QED BY <1>1, <2>1, <3>1
  <2>3. CASE g = flow /\ m = n
    BY <1>1, <2>1, <2>3
  <2> QED BY <1>2, <1>6, <2>2, <2>3
<1>7. Past'
  BY <1>6 DEF Past
<1> QED BY <1>3, <1>5, <1>7 DEF ClientIInv

LEMMA NextClientIInv == ClientIInv /\ [ClientNext]_allVars => ClientIInv'
<1> SUFFICES ASSUME ClientIInv, [ClientNext]_allVars PROVE ClientIInv'
  OBVIOUS
<1>1. ASSUME UNCHANGED <<nonces, history>>
      PROVE  ClientIInv'
  BY <1>1 DEF history, ClientIInv, Past
<1>0. CASE UNCHANGED client
  BY <1>0, <1>1 DEF client, history
<1>2. ASSUME NEW e, ExecTransaction(e) \/ ForwardTransaction(e)
      PROVE  ClientIInv'
  BY <1>2, RunClientIInv DEF ExecTransaction, ForwardTransaction, Flows
<1>3. CASE ForwardForAnother
  <2>1. /\ nonces' = [nonces EXCEPT !["forward"] = @ + 1]
        /\ ran' = ran /\ again' = again
    BY <1>3 DEF ForwardForAnother, CountNonce, history
  <2>2. \A flow \in Flows : nonces[flow] \in Nat /\ nonces'[flow] \in Nat
                            /\ nonces'[flow] >= nonces[flow]
    BY <2>1 DEF ClientIInv
  <2>3. nonces' \in [Flows -> Nat]
    BY <2>1 DEF ClientIInv, Flows
  <2>4. Past'
    <3>1. ASSUME NEW flow \in Flows, NEW n, <<flow, n>> \in ran
          PROVE  n \in Nat /\ n < nonces'[flow]
      <4>1. n \in Nat /\ n < nonces[flow]
        BY <3>1 DEF ClientIInv, Past
      <4> QED BY <4>1, <2>2
    <3> QED BY <2>1, <3>1 DEF Past
  <2> QED BY <2>1, <2>3, <2>4 DEF ClientIInv
<1>4. CASE Next /\ UNCHANGED client
  BY <1>0, <1>4
<1>5. ASSUME NEW flow, NEW calls, NEW t, ReadNonce(flow, calls, t)
      PROVE  ClientIInv'
  BY <1>1, <1>5 DEF ReadNonce
<1>6. ASSUME NEW S \in SignerSets, NEW kind \in Kinds(S), SignTransaction(S, kind)
      PROVE  ClientIInv'
  BY <1>1, <1>6 DEF SignTransaction
<1>7. CASE ApproveHashThrows
  BY <1>1, <1>7 DEF ApproveHashThrows
<1>8. CASE UNCHANGED allVars
  BY <1>0, <1>8 DEF allVars
<1> QED
  BY <1>2, <1>3, <1>4, <1>5, <1>6, <1>7, <1>8 DEF ClientNext

LEMMA ClientInvariant == ClientSpec => []ClientIInv
<1>1. ClientInit => ClientIInv
  BY DEF ClientInit, ClientIInv, Past
<1> QED BY <1>1, NextClientIInv, PTL DEF ClientSpec

\* Whatever owners sign and whoever submits it, however often: a transaction runs at
\* most once in each of the two flows.  (execTransaction: nonces[1]++)
THEOREM RunsOncePerFlow == ClientSpec => []OncePerFlow
<1>1. ClientIInv => OncePerFlow
  BY DEF ClientIInv, OncePerFlow
<1> QED BY <1>1, ClientInvariant, PTL
=============================================================================
