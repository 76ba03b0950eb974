----------------------------- MODULE OwnerClient -----------------------------
(***************************************************************************)
(* An owner's client, src/utils/execution.ts, with the account of          *)
(* Ownership: it reads a nonce, builds a transaction from a template,      *)
(* signs it, and hands it to somebody who submits it: to execTransaction   *)
(* of SmartAccountV1, or to ForwardFlowModule once the account is of the   *)
(* second version.                                                         *)
(*                                                                         *)
(* Transactions run one after the other; what comes between is the time    *)
(* that passes at the client between its awaits, and until something       *)
(* signed is submitted: by anybody, at any time, more than once.  Both     *)
(* contracts hash a transaction alike, for the same domain, so whatever    *)
(* is signed for one of them may be brought to the other.                  *)
(***************************************************************************)
EXTENDS Ownership

CONSTANTS
    Templates,       \* what callers fill in besides the calls
    Unset,           \* a field of a template left out
    SignerSets,      \* the signers that callers pass
    Rank,            \* the order of the signers' addresses
    MaxNonce,        \* bound on transactions
    MaxSigned        \* bound on signatures given

VARIABLES
    nonces,          \* nonces[1], of the account and of the module
    desk,            \* the client's transaction between the answer to getNonce and its signature
    signed,          \* what has been signed
    ran,             \* history: transactions executed, and where
    again            \* history: one has been executed with a nonce that was used before

history == <<ran, again>>
client == <<nonces, desk, signed, ran, again>>
allVars == <<vars, client>>

Flows == {"execTransaction", "forward"}

ASSUME ClientAssumption ==
    /\ MaxNonce \in Nat /\ MaxSigned \in Nat
    /\ \A S \in SignerSets :
          /\ IsFiniteSet(S) /\ S # {}
          /\ S \subseteq Wallets \/ S \subseteq Vaults
    /\ \A o, p \in Wallets \cup Vaults : Rank[o] \in Nat /\ (Rank[o] = Rank[p] => o = p)

-----------------------------------------------------------------------------
(* Building and signing.                                                   *)

\* template.x || d: zero counts as left out.
OrElse(x, d) == IF x \in {Unset, 0} THEN d ELSE x

\* buildSafeTransaction.  Two calls go through multiSend, by delegatecall.
BuildSafeTransaction(calls, template, nonce) ==
    [calls |-> calls, nonce |-> nonce,
     targetTxGas |-> OrElse(template.targetTxGas, 0),
     gasPrice |-> OrElse(template.gasPrice, 0),
     tokenGasPriceFactor |-> OrElse(template.tokenGasPriceFactor, 1)]

\* A SafeSignature's signer, and where its 65 bytes come from: safeSignTypedData,
\* signHash (which raises v by four), safeApproveHash, buildContractSignature.
Kinds(S) == IF S \subseteq Wallets THEN {"typed", "hash", "approved"} ELSE {"contract"}

\* buildSignatureBytes: in the order of the signers' addresses.
BuildSignatureBytes(S, kind) ==
    LET sorted(i) == CHOOSE o \in S : Cardinality({p \in S : Rank[p] < Rank[o]}) = i - 1 IN
    [i \in 1 .. Cardinality(S) |-> [signer |-> sorted(i), kind |-> kind]]

\* executeTx, populateExecuteTx: what is handed over to be submitted.
Handed(tx, S, kind) == [tx |-> tx, bytes |-> BuildSignatureBytes(S, kind)]

\* executeContractCallWithSigners and buildEcdsaModuleAuthorizedForwardTx, up to the
\* answer of getNonce.
ReadNonce(flow, calls, template) ==
    /\ account.version # "none" /\ desk = None
    /\ Cardinality(signed) < MaxSigned
    /\ desk' = BuildSafeTransaction(calls, template, nonces[flow])
    /\ UNCHANGED <<vars, nonces, signed, history>>

\* Every signer signs the transaction with the nonce that was read.
SignTransaction(S, kind) ==
    /\ desk # None
    /\ signed' = signed \cup {Handed(desk, S, kind)}
    /\ desk' = None
    /\ UNCHANGED <<vars, nonces, history>>

\* safeApproveHash without skipOnChainApproval: no account has approveHash, it throws.
ApproveHashThrows ==
    /\ desk # None
    /\ desk' = None
    /\ UNCHANGED <<vars, nonces, signed, history>>

-----------------------------------------------------------------------------
(* Executing.                                                              *)

\* checkSignatures of SmartAccountV1: the first signature is looked at.  v = 1, of an
\* approved hash, recovers to nobody.
CheckSignatures(bytes) ==
    /\ Head(bytes).kind # "approved"
    /\ Head(bytes).signer = account.owner

\* isValidSignature through an ECDSA registry: 65 bytes, and v not raised.
IsValidSignature(bytes, r) ==
    /\ r \in account.enabled
    /\ Len(bytes) = 1 /\ bytes[1].kind = "typed"
    /\ VerifySignature(account, [via |-> r, key |-> bytes[1].signer, leaf |-> None])

\* A target that fails does not undo the transaction if it states its gas or a price.
Targets(tx) ==
    AfterAll(account, tx.calls) \cup
        IF tx.targetTxGas = 0 /\ tx.gasPrice = 0 THEN {} ELSE {account}

\* A refund that cannot be computed reverts everything.
Payable(tx) == tx.gasPrice # 0 => tx.tokenGasPriceFactor # 0

\* The module takes it through the account, which must still have it enabled.
Refundable(tx, a, flow) ==
    /\ Payable(tx)
    /\ (tx.gasPrice # 0 /\ flow = "forward") => ForwardFlow \in a.enabled

\* What-if: the nonce is read and not counted.
NonceOnlyRead(flow) == UNCHANGED nonces

CountNonce(flow) == nonces' = [nonces EXCEPT ![flow] = @ + 1]

\* The transaction's hash is of its nonce too, which has to be the flow's next.
Run(flow, e) ==
    /\ e.tx.nonce = nonces[flow] /\ nonces[flow] < MaxNonce
    /\ account' \in Targets(e.tx)
    /\ Refundable(e.tx, account', flow)
    /\ CountNonce(flow)
    /\ ran' = ran \cup {<<flow, e.tx.nonce>>}
    /\ again' = (again \/ <<flow, e.tx.nonce>> \in ran)
    /\ UNCHANGED <<born, bundle, executing, now, ops, desk, signed>>

\* execTransaction of SmartAccountV1.
ExecTransaction(e) ==
    /\ Idle /\ account.version = "v1"
    /\ CheckSignatures(e.bytes)
    /\ Run("execTransaction", e)

\* ForwardFlowModule.execTransaction: through a registry, and as an enabled module.
ForwardTransaction(e) ==
    /\ Idle /\ account.version = "v2"
    /\ ForwardFlow \in account.enabled
    /\ \E r \in EcdsaRegistries : IsValidSignature(e.bytes, r)
    /\ Run("forward", e)

\* Transactions of other accounts count with the module's nonce too.
ForwardForAnother ==
    /\ Idle /\ nonces["forward"] < MaxNonce
    /\ CountNonce("forward")
    /\ UNCHANGED <<vars, desk, signed, history>>

ClientInit ==
    /\ Init
    /\ nonces = [flow \in Flows |-> 0]
    /\ desk = None /\ signed = {} /\ ran = {} /\ again = FALSE

ClientNext ==
    \/ Next /\ UNCHANGED client
    \/ \E flow \in Flows, calls \in Tried, t \in Templates : ReadNonce(flow, calls, t)
    \/ \E S \in SignerSets : \E kind \in Kinds(S) : SignTransaction(S, kind)
    \/ ApproveHashThrows
    \/ \E e \in signed : ExecTransaction(e) \/ ForwardTransaction(e)
    \/ ForwardForAnother

ClientSpec == ClientInit /\ [][ClientNext]_allVars

-----------------------------------------------------------------------------
(* Properties.                                                             *)

\* A transaction runs at most once in each flow, however often it is submitted, and
\* whatever else is signed with the same nonce.  (nonces[1]++)
OncePerFlow == ~again

=============================================================================
