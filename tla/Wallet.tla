------------------------------- MODULE Wallet -------------------------------
(***************************************************************************)
(* A wallet and those who use it: RemoteWallet with the key stores and the *)
(* ledger behind it, which have to be initialised by someone, and the      *)
(* local wallet, which has not.  Several callers share the wallet object;  *)
(* their calls interleave wherever they wait.                              *)
(***************************************************************************)
EXTENDS TxEncoding, FiniteSets
CONSTANTS
  Callers,
  Keys,      \* keys of the store or paths of the device, each an address
  Polls,     \* rounds of initCompleted; 10 in the code
  Txs,       \* transactions to be signed
  OldTxs     \* transactions of types that are no longer made

ASSUME PollsAssumption == Polls \in Nat
ASSUME SignersAssumption == Stranger \notin Keys
ASSUME TxsAssumption == Txs \subseteq TxRecords

\* Older types have all their fields, and were made for a chain.
ASSUME OldTxsAssumption ==
  \A old \in OldTxs :
    LET names == Named(old.type) IN
    /\ old.type \in {"cip42", "celo-legacy"}
    /\ old.tx \in [{names[i] : i \in DOMAIN names} \cup {"chainId"} -> Nat]
    /\ old.tx.chainId > 0

VARIABLES
  kind,      \* "hsm", "ledger" or "local"
  app,       \* the application open on the ledger
  setupLocked, setupFinished, accountSigners,
  call,      \* what each caller is doing
  last       \* the last transaction signed or received, with its raw form

walletVars == <<kind, app, setupLocked, setupFinished, accountSigners, call, last>>

Idle == [pc |-> "idle", left |-> 0, todo |-> {}, found |-> {}]
Nothing == [raw |-> Error]

WalletTypeOK ==
  /\ kind \in {"hsm", "ledger", "local"} /\ app \in {"celo", "ethereum"}
  /\ setupLocked \in BOOLEAN /\ setupFinished \in BOOLEAN
  /\ accountSigners \subseteq Keys
  /\ call \in [Callers -> [pc: {"idle", "load", "wait", "ready", "failed"},
                           left: 0 .. Polls, todo: SUBSET Keys,
                           found: SUBSET Keys]]

WalletInit ==
  /\ kind \in {"hsm", "ledger", "local"}
  /\ app \in {"celo", "ethereum"}
  /\ setupLocked = FALSE
  /\ setupFinished = (kind = "local")
  /\ accountSigners = IF kind = "local" THEN Keys ELSE {}
  /\ call = [c \in Callers |-> Idle] /\ last = Nothing

SettleCall(c, pc) == call' = [call EXCEPT ![c] = [Idle EXCEPT !.pc = pc]]

-----------------------------------------------------------------------------
(* RemoteWallet.init.                                                      *)

\* MUTANT of MustWait: only a setup that is finished is waited for.
MustWaitFinished == setupFinished

MustWait == setupLocked \/ setupFinished

CallInit(c) ==
  /\ kind # "local" /\ call[c].pc = "idle"
  /\ IF MustWait
       THEN /\ call' = [call EXCEPT ![c].pc = "wait", ![c].left = Polls]
            /\ UNCHANGED setupLocked
       ELSE /\ call' = [call EXCEPT ![c].pc = "load", ![c].todo = Keys]
            /\ setupLocked' = TRUE
  /\ UNCHANGED <<kind, app, setupFinished, accountSigners, last>>

\* One key of the store: usable, or passed over because it is disabled, of
\* another curve or not ours to read.
LoadKey(c) ==
  /\ kind = "hsm" /\ call[c].pc = "load"
  /\ \E k \in call[c].todo :
       \/ call' = [call EXCEPT ![c].todo = @ \ {k}, ![c].found = @ \cup {k}]
       \/ call' = [call EXCEPT ![c].todo = @ \ {k}]
  /\ UNCHANGED <<kind, app, setupLocked, setupFinished, accountSigners, last>>

\* One path of the ledger, which has one lock: one address after the other.
DeriveAddress(c) ==
  /\ kind = "ledger" /\ call[c].pc = "load"
  /\ \E k \in call[c].todo :
       call' = [call EXCEPT ![c].todo = @ \ {k}, ![c].found = @ \cup {k}]
  /\ UNCHANGED <<kind, app, setupLocked, setupFinished, accountSigners, last>>

LoadDone(c) ==
  /\ call[c].pc = "load" /\ call[c].todo = {}
  /\ accountSigners' = accountSigners \cup call[c].found
  /\ setupFinished' = TRUE /\ setupLocked' = FALSE
  /\ SettleCall(c, "ready")
  /\ UNCHANGED <<kind, app, last>>

\* Any other error of the store or the device ends the load.
LoadFails(c) ==
  /\ call[c].pc = "load"
  /\ setupLocked' = FALSE
  /\ SettleCall(c, "failed")
  /\ UNCHANGED <<kind, app, setupFinished, accountSigners, last>>

\* MUTANT of Remaining: the time left is not counted down.
RemainingAll(left) == left

Remaining(left) == left - 1

\* One round of initCompleted, a second before the next one.
Poll(c) ==
  /\ call[c].pc = "wait"
  /\ CASE call[c].left = 0 -> SettleCall(c, "failed")
       [] call[c].left > 0 /\ setupFinished -> SettleCall(c, "ready")
       [] OTHER -> call' = [call EXCEPT ![c].left = Remaining(@)]
  /\ UNCHANGED <<kind, app, setupLocked, setupFinished, accountSigners, last>>

\* The caller has seen the outcome, and may call again.
Again(c) ==
  /\ call[c].pc \in {"ready", "failed"}
  /\ SettleCall(c, "idle")
  /\ UNCHANGED <<kind, app, setupLocked, setupFinished, accountSigners, last>>

-----------------------------------------------------------------------------
(* Signing.                                                                *)

\* A caller that has not called init, or not waited for it, gets an error,
\* and so does one whose address has no signer.
SignTransaction(c) ==
  /\ call[c].pc \in {"idle", "ready", "failed"} /\ last = Nothing
  /\ \E tx \in Txs, from \in Keys, parity \in {0, 1}, high \in BOOLEAN :
       LET bits == [parity |-> parity, high |-> high /\ kind = "hsm"]
           raw == IF kind = "ledger" THEN SignWithLedger(app, tx, from, bits)
                  ELSE SignWithKey(kind, tx, from, bits)
       IN /\ setupFinished /\ from \in accountSigners
          /\ ~raw.error
          /\ last' = [tx |-> tx, from |-> from, raw |-> raw]
  /\ UNCHANGED <<kind, app, setupLocked, setupFinished, accountSigners, call>>

\* A transaction of an older type is read from the chain.
Receive ==
  /\ last = Nothing
  /\ \E old \in OldTxs, from \in Keys, parity \in {0, 1} :
       last' = [tx |-> old.tx, from |-> from, raw |-> OldRaw(old, from, parity)]
  /\ UNCHANGED <<kind, app, setupLocked, setupFinished, accountSigners, call>>

\* The one who asked for it has it.
HandOver ==
  /\ last # Nothing /\ last' = Nothing
  /\ UNCHANGED <<kind, app, setupLocked, setupFinished, accountSigners, call>>

InitStep(c) ==
  LoadKey(c) \/ DeriveAddress(c) \/ LoadDone(c) \/ LoadFails(c) \/ Poll(c)

WalletNext ==
  \/ \E c \in Callers : CallInit(c) \/ InitStep(c) \/ Again(c) \/ SignTransaction(c)
  \/ Receive \/ HandOver

\* The store answers or fails, and timers go off.
WalletSpec == WalletInit /\ [][WalletNext]_walletVars
WalletFairSpec == WalletSpec /\ \A c \in Callers : WF_walletVars(InitStep(c))

-----------------------------------------------------------------------------
(* Properties.                                                             *)

Loading == {c \in Callers : call[c].pc = "load"}

(* However many call init at once, and however it fails, the accounts are  *)
(* loaded by one call at a time, the wallet is locked exactly while one    *)
(* loads, so that a failed load leaves it open for the next, and nobody    *)
(* finds signers, or is told that the wallet is ready, before all of them  *)
(* are there.                                                              *)
LoadsOnce ==
  /\ Cardinality(Loading) <= 1
  /\ setupLocked <=> Loading # {}
  /\ accountSigners # {} => setupFinished
  /\ setupFinished => Loading = {}
  /\ \A c \in Callers : call[c].pc = "ready" => setupFinished

(* Whoever calls init gets an answer, also when the load that he waits for *)
(* failed long ago.                                                        *)
InitSettles ==
  \A c \in Callers : call[c].pc \in {"load", "wait"}
                       ~> call[c].pc \in {"ready", "failed"}

Signed == ~last.raw.error
Recovered == RecoverTransaction(last.raw)

(* recoverTransaction gives back who signed, whatever the signer (a local  *)
(* key, a store that returns either of two signatures, a ledger) and the   *)
(* type, and fails exactly for legacy transactions of chain 0, which is    *)
(* signed as 1, and of chains that >> cuts off.                            *)
RecoversSigner ==
  Signed =>
    ((Recovered.signer = last.from)
       <=> (\/ Typed(DetermineTXType(last.raw))
            \/ last.tx.chainId \in 1 .. SignBit \div 2 - 1))

(* What was to be signed is in the signed transaction: no fee, fee         *)
(* currency or amount is dropped or ends up under another name because of  *)
(* the type that was chosen, and it is recovered up to the precision of a  *)
(* double.  Two fields are dropped without an error: maxFeeInFeeCurrency   *)
(* when there is no fee currency, and the access list next to a gas price. *)
FieldsSurvive ==
  Signed =>
    LET tx == last.tx
        got == Recovered.tx
        exact(f) == f \notin ByDouble(DetermineTXType(last.raw)) \/ tx[f] <= MaxSafe
    IN \A f \in DOMAIN tx \ {"chainId"} :
         /\ isPresent(tx[f]) =>
              \/ f \in DOMAIN got
              \/ f = "maxFeeInFeeCurrency" /\ ~isPresent(tx.feeCurrency)
              \/ f = "accessList" /\ isPresent(tx.gasPrice)
         /\ f \in DOMAIN got =>
              got[f] = IF exact(f) THEN Item(tx[f]) ELSE HandleNumber(tx[f])
=============================================================================
