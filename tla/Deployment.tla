----------------------------- MODULE Deployment -----------------------------
(***************************************************************************)
(* How the contracts come to a chain: deployer-contract.deploy.ts, which   *)
(* puts the Deployer at the address its key has for nonce 0, and           *)
(* deploy.ts, which deploys everything else through the Deployer, stakes   *)
(* the factory and the paymaster and hands them over to their owners.      *)
(*                                                                         *)
(* An operator starts the scripts one at a time and as often as he likes.  *)
(* A script may be cut off at any await, and any call of the provider may  *)
(* fail: both are faults, and their number is bounded.  What a script has  *)
(* submitted stays in the pool when nobody waits for it any more, and is   *)
(* mined later.  Between the scripts nothing is remembered but the chain.  *)
(***************************************************************************)
EXTENDS Integers, Sequences, FiniteSets, SequencesExt

CONSTANTS
    Chains,       \* chain ids the operator may be on
    Modules,      \* the validation modules, in the order of mainDeploy
    Fee,          \* DEPLOYMENT_FEE
    Costs,        \* what the Deployer's deployment may cost
    MaxFaults,    \* bound on faults
    MaxNonce      \* bound on the transactions of the deployer key

ASSUME DeploymentAssumption ==
    /\ Chains \subseteq Nat /\ MaxFaults \in Nat /\ MaxNonce \in Nat
    /\ IsInjective(Modules)
    /\ Fee \in Nat /\ Costs \subseteq 1 .. Fee

VARIABLES
    chain,
    deployers,    \* nonces of the deployer key at whose address a Deployer is
    key,          \* the deployer key: its next nonce and its balance
    code,         \* the contracts there are, by the name their address is for
    owner,        \* of the factory and of the paymaster
    stakes,       \* how many stakes each of them has in the EntryPoint
    pool,         \* per sender, what is submitted and not yet mined
    script,       \* the script that runs, if any
    lost,         \* history: stakes that were on their way when their run ended
    halfway,      \* history: whose run ended after their stake was sent
    faults

vars == <<chain, deployers, key, code, owner, stakes, pool, script, lost, halfway, faults>>

onchain == <<deployers, key, code, owner, stakes>>

-----------------------------------------------------------------------------
(* Chains and names.                                                       *)

\* 31337, Hardhat's own chain, is in none of the tables.
Testnets == {80001, 97, 5, 421613, 420, 43113, 1442, 59140, 84531, 5611, 91715, 5001}
Mainnets == {137, 56, 1, 42161, 42170, 10, 43114, 1101, 59144, 8453, 204, 5000, 1284}

DEPLOYMENT_CHAIN_GAS_PRICES == Testnets \cup Mainnets
factoryStakeConfig          == Testnets \cup Mainnets

\* What-if: the chain that was added last is missing.
paymasterStakeConfigShort   == (Testnets \cup Mainnets) \ {1284}

paymasterStakeConfig        == Testnets \cup Mainnets

Staked == {"SmartAccountFactory", "VerifyingPaymaster"}

\* The steps of mainDeploy.  Each contract's address comes from its salt alone,
\* so that its name stands for both.
Steps == <<"EntryPoint", "SmartAccount", "SmartAccountFactory",
           "VerifyingPaymaster">> \o Modules

Names == ToSet(Steps) \ (IF chain = 31337 THEN {} ELSE {"EntryPoint"})

-----------------------------------------------------------------------------
(* Scripts.  at: where the script waits; base and entry: whether it has an  *)
(* address in baseImpAddress and entryPointAddress; recorded:               *)
(* contractsDeployed; fundsNeeded: of mainDeployDeployer.                   *)

Run(at) == [at |-> at, step |-> 1, base |-> FALSE, entry |-> TRUE,
            contractOwner |-> "nobody", recorded |-> {}, fundsNeeded |-> 0]

Idle    == {"never", "failed", "done", "ended"}
Running == script.at \notin Idle
Step    == Steps[script.step]

\* The script goes on to one of its awaits, or it throws.
Goto(at)  == script' = [script EXCEPT !.at = at]
Throw     == script' = [script EXCEPT !.at = "failed"]

Tx(kind, on) == [kind |-> kind, on |-> on, mine |-> TRUE]

Submit(from, tx) == pool' = [pool EXCEPT ![from] = Append(@, tx)]

\* Nobody waits for anything any more.
Abandoned == [s \in DOMAIN pool |->
                [k \in DOMAIN pool[s] |-> [pool[s][k] EXCEPT !.mine = FALSE]]]

Pending(kind) == \E s \in DOMAIN pool : \E k \in DOMAIN pool[s] :
                    pool[s][k].mine /\ pool[s][k].kind = kind

\* The contract whose stake is on its way when the run ends there.
Cut == IF Pending("addStake") THEN lost \cup {Step} ELSE lost

\* The contract that is not handed over when the run ends there: the next run finds
\* its stake and leaves it as it is.
Left == IF script.at \in {"staking", "handover", "handing"}
        THEN halfway \cup {Step} ELSE halfway

\* The script goes on to the next step.
After(s) == IF s.step = Len(Steps)
            THEN [s EXCEPT !.at = "done"]
            ELSE [s EXCEPT !.at = "step", !.step = @ + 1]

\* What-if: deployGeneric returns the address it has computed, whatever happens.
ReturnedAnyway(ok) == TRUE

\* Whether deployGeneric returns an address: after any exception it returns "".
Returned(ok) == ok

\* What a step does with it.  The EntryPoint is asked for the deposit of "" in vain,
\* and the paymaster's configuration is read only here.
Continue(ok) ==
    LET found == Returned(ok)
        s     == [script EXCEPT !.recorded = IF found THEN @ \cup {Step} ELSE @]
    IN  script' =
           CASE Step = "EntryPoint"   -> After([s EXCEPT !.entry = found])
             [] Step = "SmartAccount" -> After([s EXCEPT !.base = found])
             [] Step \in Staked       ->
                   [s EXCEPT !.at = IF /\ found
                                       /\ \/ Step = "SmartAccountFactory"
                                          \/ chain \in paymasterStakeConfig
                                    THEN "stake" ELSE "failed"]
             [] OTHER                 -> After(s)

\* Whether a step comes to deployGeneric: its arguments can be encoded, and the
\* factory's step has what it looks for first.
CanDeploy ==
    CASE Step = "SmartAccount"        -> script.entry
      [] Step = "SmartAccountFactory" -> /\ chain \in factoryStakeConfig
                                         /\ chain \in DEPLOYMENT_CHAIN_GAS_PRICES
                                         /\ script.base
      [] Step = "VerifyingPaymaster"  -> script.entry
      [] OTHER                        -> TRUE

Generic == CanDeploy /\ (Step = "EntryPoint" => chain = 31337)

-----------------------------------------------------------------------------
(* mainDeploy.                                                             *)

\* Up to the first step.  configured: the settings are addresses.
MainDeploy(configured) ==
    /\ ~Running
    /\ script' = Run(IF configured /\ 0 \in deployers THEN "step" ELSE "failed")
    /\ UNCHANGED <<chain, onchain, pool, lost, halfway, faults>>

\* deployEntryPointContract, where there is an EntryPoint already.
SkipEntryPoint ==
    /\ script.at = "step" /\ Step = "EntryPoint" /\ chain # 31337
    /\ script' = After(script)
    /\ UNCHANGED <<chain, onchain, pool, lost, halfway, faults>>

\* A step that throws before it deploys anything.
StepThrows ==
    /\ script.at = "step" /\ ~CanDeploy
    /\ Throw
    /\ UNCHANGED <<chain, onchain, pool, lost, halfway, faults>>

\* deployGeneric, and deployContract up to its wait.
DeployGeneric ==
    /\ script.at = "step" /\ Generic
    /\ IF Step \in code
       THEN Continue(TRUE) /\ UNCHANGED pool
       ELSE IF chain \in DEPLOYMENT_CHAIN_GAS_PRICES
            THEN Goto("deploying") /\ Submit("signer", Tx("deploy", Step))
            ELSE Continue(FALSE) /\ UNCHANGED pool
    /\ UNCHANGED <<chain, onchain, lost, halfway, faults>>

\* What-if: the stake there is, is not looked at.
CheckStakeBlindly ==
    /\ script.at = "stake"
    /\ IF owner[Step] = "signer"
       THEN /\ Submit("signer", Tx("addStake", Step))
            /\ script' = [script EXCEPT !.at = "staking", !.contractOwner = "signer"]
       ELSE /\ script' = [script EXCEPT !.at = "handover",
                                        !.contractOwner = owner[Step]]
            /\ UNCHANGED pool
    /\ UNCHANGED <<chain, onchain, lost, halfway, faults>>

\* What-if: the ownership is transferred without waiting for the stake.
CheckStakeHastily ==
    /\ script.at = "stake"
    /\ IF stakes[Step] > 0
       THEN script' = After(script) /\ UNCHANGED pool
       ELSE IF owner[Step] = "signer"
            THEN /\ pool' = [pool EXCEPT !["signer"] =
                       @ \o <<[Tx("addStake", Step) EXCEPT !.mine = FALSE],
                              Tx("transferOwnership", Step)>>]
                 /\ script' = [script EXCEPT !.at = "handing", !.contractOwner = "signer"]
            ELSE /\ script' = [script EXCEPT !.at = "handover",
                                             !.contractOwner = owner[Step]]
                 /\ UNCHANGED pool
    /\ UNCHANGED <<chain, onchain, lost, halfway, faults>>

\* getDepositInfo and owner: a contract that has a stake is left as it is.
CheckStake ==
    /\ script.at = "stake"
    /\ IF stakes[Step] > 0
       THEN script' = After(script) /\ UNCHANGED pool
       ELSE IF owner[Step] = "signer"
            THEN /\ Submit("signer", Tx("addStake", Step))
                 /\ script' = [script EXCEPT !.at = "staking",
                                             !.contractOwner = "signer"]
            ELSE /\ script' = [script EXCEPT !.at = "handover",
                                             !.contractOwner = owner[Step]]
                 /\ UNCHANGED pool
    /\ UNCHANGED <<chain, onchain, lost, halfway, faults>>

HandOver ==
    /\ script.at = "handover"
    /\ IF script.contractOwner # "configured"
       THEN Submit("signer", Tx("transferOwnership", Step)) /\ Goto("handing")
       ELSE script' = After(script) /\ UNCHANGED pool
    /\ UNCHANGED <<chain, onchain, lost, halfway, faults>>

-----------------------------------------------------------------------------
(* mainDeployDeployer: all exceptions are caught, the script just ends.    *)

MainDeployDeployer ==
    /\ ~Running /\ key.nonce < MaxNonce
    /\ script' = IF 0 \in deployers THEN Run("ended")
                 ELSE IF key.balance < Fee
                 THEN [Run("fund") EXCEPT !.fundsNeeded = Fee - key.balance]
                 ELSE Run("create")
    /\ UNCHANGED <<chain, onchain, pool, lost, halfway, faults>>

\* The difference, from the funding account, or an exception if it has not got it.
Fund ==
    /\ script.at = "fund"
    /\ \/ /\ Submit("funding", Tx("fund", script.fundsNeeded))
          /\ Goto("funding")
       \/ Throw /\ UNCHANGED pool
    /\ UNCHANGED <<chain, onchain, lost, halfway, faults>>

\* The balance pays for one deployment: the node does not take another one while
\* the first is pending.
Create ==
    /\ script.at = "create"
    /\ IF key.balance > 0 /\ pool["key"] = <<>>
       THEN Submit("key", Tx("create", key.balance)) /\ Goto("creating")
       ELSE Throw /\ UNCHANGED pool
    /\ UNCHANGED <<chain, onchain, lost, halfway, faults>>

-----------------------------------------------------------------------------
(* The chain.                                                              *)

\* What a transaction does, if it is not reverted.
Succeeds(tx) ==
    CASE tx.kind = "deploy"            -> tx.on \notin code
      [] tx.kind = "addStake"          -> owner[tx.on] = "signer"
      [] tx.kind = "transferOwnership" -> owner[tx.on] = "signer"
      [] OTHER                         -> TRUE

Effect(tx) ==
    /\ code' = IF tx.kind = "deploy" THEN code \cup {tx.on} ELSE code
    /\ stakes' = IF tx.kind = "addStake"
                 THEN [stakes EXCEPT ![tx.on] = @ + 1] ELSE stakes
    /\ owner' = IF tx.kind = "transferOwnership"
                THEN [owner EXCEPT ![tx.on] = "configured"]
                ELSE IF tx.kind = "deploy" /\ tx.on \in Staked
                THEN [owner EXCEPT ![tx.on] = "signer"] ELSE owner
    /\ deployers' = IF tx.kind = "create"
                    THEN deployers \cup {key.nonce} ELSE deployers

\* What the deployer key gets and pays, whether its transaction succeeds or not.
Account(tx) ==
    CASE tx.kind = "fund"   -> key' = [key EXCEPT !.balance = @ + tx.on]
      [] tx.kind = "create" -> \E c \in Costs :
                                  /\ c <= key.balance
                                  /\ key' = [nonce |-> key.nonce + 1,
                                             balance |-> key.balance - c]
      [] OTHER              -> key' = key

\* The script that has waited for it goes on.
Resume(ok) ==
    IF script.at = "deploying" THEN Continue(ok)
    ELSE IF ~ok THEN Throw
    ELSE CASE script.at = "staking"  -> Goto("handover")
           [] script.at = "handing"  -> script' = After(script)
           [] script.at = "funding"  -> Goto("create")
           [] script.at = "creating" -> Goto("ended")

\* The next transaction of a sender is mined: it succeeds, or it is reverted
\* because it has to be, or by a fault, such as too little gas.
Mined(s, ok) ==
    LET tx == Head(pool[s])
    IN  /\ pool[s] # <<>>
        /\ pool' = [pool EXCEPT ![s] = Tail(@)]
        /\ ok => Succeeds(tx)
        /\ faults' = IF ~ok /\ Succeeds(tx) THEN faults + 1 ELSE faults
        /\ faults' <= MaxFaults
        /\ IF ok THEN Effect(tx) ELSE UNCHANGED <<code, stakes, owner, deployers>>
        /\ Account(tx)
        /\ IF tx.mine THEN Resume(ok) ELSE UNCHANGED script
        /\ halfway' = IF tx.mine /\ ~ok /\ tx.kind = "transferOwnership"
                      THEN Left ELSE halfway
        /\ UNCHANGED <<chain, lost>>

\* An await of deployGeneric throws.
GenericThrows ==
    /\ script.at \in {"step", "deploying"} /\ Generic
    /\ faults < MaxFaults
    /\ Continue(FALSE)
    /\ pool' = Abandoned
    /\ faults' = faults + 1
    /\ UNCHANGED <<chain, onchain, lost, halfway>>

\* Any other await throws, or the process is killed.  A transaction that was
\* waited for stays where it is.
Stopped ==
    /\ Running /\ faults < MaxFaults
    /\ Throw
    /\ pool' = Abandoned
    /\ lost' = Cut
    /\ halfway' = Left
    /\ faults' = faults + 1
    /\ UNCHANGED <<chain, onchain>>

\* The new owner takes the stake out again.
WithdrawStake(c) ==
    /\ owner[c] = "configured" /\ stakes[c] > 0
    /\ faults < MaxFaults
    /\ stakes' = [stakes EXCEPT ![c] = 0]
    /\ faults' = faults + 1
    /\ UNCHANGED <<chain, deployers, key, code, owner, pool, script, lost, halfway>>

-----------------------------------------------------------------------------

Init == /\ chain \in Chains
        /\ deployers = {}
        /\ key = [nonce |-> 0, balance |-> 0]
        /\ code = {}
        /\ owner = [c \in Staked |-> "nobody"]
        /\ stakes = [c \in Staked |-> 0]
        /\ pool = [s \in {"signer", "funding", "key"} |-> <<>>]
        /\ script = Run("never")
        /\ lost = {}
        /\ halfway = {}
        /\ faults = 0

ScriptStep == \/ SkipEntryPoint \/ StepThrows \/ DeployGeneric
              \/ CheckStake \/ HandOver \/ Create

Next == \/ \E configured \in BOOLEAN : MainDeploy(configured)
        \/ MainDeployDeployer
        \/ ScriptStep \/ Fund
        \/ \E s \in DOMAIN pool, ok \in BOOLEAN : Mined(s, ok)
        \/ GenericThrows \/ Stopped
        \/ \E c \in Staked : WithdrawStake(c)

\* The operator comes back as long as the contracts are not there, with settings
\* that are addresses; a script goes on unless a fault stops it, and what is
\* submitted gets mined.
Fairness == /\ WF_vars(MainDeploy(TRUE))
            /\ WF_vars(ScriptStep)
            /\ WF_vars(Fund)
            /\ \A s \in {"signer", "funding", "key"} :
                  WF_vars(\E ok \in BOOLEAN : Mined(s, ok))

Spec == Init /\ [][Next]_vars /\ Fairness

-----------------------------------------------------------------------------
(* Properties.                                                             *)

\* However often the script is cut off and started again, with whatever is still
\* pending: it names only contracts that are there, and there is never a factory
\* whose implementation, whose address its constructor was given, is not
\* (deploy.ts:89, 92-95, 139, 146).
Wired == /\ script.recorded \subseteq code
         /\ "SmartAccountFactory" \in code => "SmartAccount" \in code

\* Nobody can stake a contract any more but its owner: it is handed over only
\* with its stake in place, also when transactions fail or are mined after the
\* run that sent them has ended (deploy.ts:172-203, 244-268).
HandedOverStaked ==
    [][\A c \in Staked :
          owner[c] = "signer" /\ owner'[c] = "configured" => stakes[c] > 0]_vars

\* Starting the script again costs no second stake, unless a run has ended while
\* it waited for the first one (deploy.ts:157-162, 229-234).
StakedOnce == \A c \in Staked : stakes[c] > 1 => c \in lost

\* With the Deployer in its place, starting deploy.ts again and again deploys
\* everything in the end, on every chain there is a gas price for, and hands the
\* factory and the paymaster over to their owners, unless a run ended between the
\* stake and the transfer: no other failure leaves anything behind that a later run
\* could not go on from, and no chain is missing from one of the tables
\* (deploy.ts:64-77, 159-204, 231-268, utils/index.ts:88-367).
Completes ==
    (0 \in deployers /\ chain \in DEPLOYMENT_CHAIN_GAS_PRICES) ~>
        /\ Names \subseteq code
        /\ \A c \in Staked \ halfway : owner[c] = "configured"
=============================================================================
