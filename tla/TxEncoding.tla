---------------------------- MODULE TxEncoding -----------------------------
(***************************************************************************)
(* Encoding, signing and recovering of transactions: signing-utils of      *)
(* wallet-base, WalletBase.signTransaction, LedgerWallet, and the signers. *)
(*                                                                         *)
(* Every field of a transaction is an integer: Undefined, 0 for '0x', or a *)
(* positive value.  An RLP list is a sequence of integers, 0 the empty     *)
(* item.  A hash is what is hashed.  A signature is kept as who signed     *)
(* what, with the one parity bit that gives the signer back; bytes, hex    *)
(* and the curve are left out.  The widths of JavaScript numbers are       *)
(* scaled down: SignBit for the 2^31 of >>, MaxSafe for 2^53.              *)
(***************************************************************************)
EXTENDS Integers, Sequences
CONSTANTS SignBit, MaxSafe, Stranger

ASSUME WidthsAssumption ==
  SignBit \in Nat \ {0} /\ SignBit % 2 = 0 /\ MaxSafe \in Nat

Undefined == -1
Error == [error |-> TRUE]

-----------------------------------------------------------------------------
(* The transaction to be signed.                                           *)

TxFields == {"chainId", "nonce", "gas", "to", "data", "value", "accessList",
             "gasPrice", "maxFeePerGas", "maxPriorityFeePerGas",
             "feeCurrency", "maxFeeInFeeCurrency"}
TxRecords == [TxFields -> Nat \cup {Undefined}]

isPresent(x) == x > 0
Truthy(x) == x # Undefined      \* '0x' is a non-empty string

isEIP1559(tx) == isPresent(tx.maxFeePerGas) /\ isPresent(tx.maxPriorityFeePerGas)
isCIP64(tx) == isEIP1559(tx) /\ isPresent(tx.feeCurrency)
isCIP66(tx) == isPresent(tx.feeCurrency) /\ isPresent(tx.maxFeeInFeeCurrency)

AssertSerializable(tx) ==
  /\ Truthy(tx.gas)
  /\ isPresent(tx.gasPrice) \/ isEIP1559(tx)
  /\ isPresent(tx.gasPrice)
       => ~isPresent(tx.maxFeePerGas) /\ ~isPresent(tx.maxPriorityFeePerGas)
  /\ tx.nonce # Undefined /\ tx.chainId # Undefined

\* MUTANT of TypeOf: cip64 is looked for before cip66, whose fields it has.
TypeOfCip64First(tx) ==
  IF isCIP64(tx) THEN "cip64" ELSE IF isCIP66(tx) THEN "cip66"
  ELSE IF isEIP1559(tx) THEN "eip1559" ELSE "ethereum-legacy"

TypeOf(tx) ==
  IF isCIP66(tx) THEN "cip66" ELSE IF isCIP64(tx) THEN "cip64"
  ELSE IF isEIP1559(tx) THEN "eip1559" ELSE "ethereum-legacy"

\* The fields in the order in which they are encoded.
Encoded(type) ==
  CASE type = "cip66" ->
         <<"chainId", "nonce", "maxPriorityFeePerGas", "maxFeePerGas", "gas",
           "to", "value", "data", "accessList", "feeCurrency",
           "maxFeeInFeeCurrency">>
    [] type = "cip64" ->
         <<"chainId", "nonce", "maxPriorityFeePerGas", "maxFeePerGas", "gas",
           "to", "value", "data", "accessList", "feeCurrency">>
    [] type = "eip1559" ->
         <<"chainId", "nonce", "maxPriorityFeePerGas", "maxFeePerGas", "gas",
           "to", "value", "data", "accessList">>
    [] type = "ethereum-legacy" ->
         <<"nonce", "gasPrice", "gas", "to", "value", "data">>

\* stringNumberToHex and its like: no value is the empty item.
Item(x) == IF x = Undefined THEN 0 ELSE x

\* EIP-155: a legacy transaction is hashed with its chain and two empty items.
ReplayProtected(items, chainId) == items \o <<chainId, 0, 0>>

\* The chain is 1 when none, or 0, is given.
RlpEncodedTx(tx) ==
  LET chainId == IF Item(tx.chainId) = 0 THEN 1 ELSE tx.chainId
      given == [tx EXCEPT !.chainId = chainId]
      names == Encoded(TypeOf(tx))
      items == [i \in DOMAIN names |-> Item(given[names[i]])]
  IN IF ~AssertSerializable(tx) THEN Error
     ELSE [error |-> FALSE, type |-> TypeOf(tx),
           items |-> IF TypeOf(tx) = "ethereum-legacy"
                       THEN ReplayProtected(items, chainId) ELSE items]

-----------------------------------------------------------------------------
(* Signers.  Whoever signs gets a signature with a parity that he does not *)
(* choose.                                                                 *)

Transform(chainId) == chainId * 2 + 35

Sig(who, bits, hash) ==
  [signer |-> who, hash |-> hash, parity |-> bits.parity, high |-> bits.high]

\* External: the signer is given back for the signed hash and its parity.
RecoverPublicKey(sig, yParity, hash) ==
  IF hash = sig.hash /\ yParity = sig.parity THEN sig.signer ELSE Stranger

\* LocalSigner: the library returns canonical signatures with their parity.
LocalSign(sig, addToV) == [v |-> sig.parity + addToV, sig |-> sig]

\* s and n - s are both valid, with opposite parities; only the low is legal.
MakeCanonical(sig) ==
  IF sig.high THEN [sig EXCEPT !.high = FALSE, !.parity = 1 - sig.parity] ELSE sig

RecoverKeyIndex(sig, hash) ==
  CHOOSE i \in 0 .. 3 : RecoverPublicKey(sig, i, hash) = sig.signer

\* A key store returns no parity: it is searched for.
HsmSign(sig, addToV) ==
  LET canonical == MakeCanonical(sig)
  IN [v |-> RecoverKeyIndex(canonical, sig.hash) + addToV, sig |-> canonical]

\* The device ignores addToV; its v may be missing for 0.
LedgerSign(sig) == [v |-> sig.parity, sig |-> sig]

-----------------------------------------------------------------------------
(* The signed transaction: the items before v, r, s, and these.            *)

Typed(type) == type \notin {"ethereum-legacy", "celo-legacy"}

\* Typed transactions have a parity for v, and nothing else will do.
SignatureFormatter(v, type) ==
  CASE ~Typed(type)                -> v
    [] Typed(type) /\ v \in {0, 27} -> 0
    [] Typed(type) /\ v \in {1, 28} -> 1
    [] OTHER                       -> Undefined

EncodeTransaction(rlp, signature) ==
  LET v == SignatureFormatter(signature.v, rlp.type) IN
  IF v = Undefined THEN Error
  ELSE [error |-> FALSE, prefix |-> IF Typed(rlp.type) THEN rlp.type ELSE "",
        items |-> IF Typed(rlp.type) THEN rlp.items ELSE SubSeq(rlp.items, 1, 6),
        v |-> v, sig |-> signature.sig]

\* MUTANT of AddToV: every transaction is signed as a typed one.
AddToVTyped(type, tx) == 27

AddToV(type, tx) ==
  IF type = "ethereum-legacy" THEN Transform(tx.chainId) ELSE 27

\* WalletBase.signTransaction with the local or an HSM signer.
SignWithKey(kind, tx, who, bits) ==
  LET rlp == RlpEncodedTx(tx) IN
  IF rlp.error \/ (Truthy(tx.gasPrice) /\ isPresent(tx.feeCurrency)) THEN Error
  ELSE LET sig == Sig(who, bits, <<rlp.type, rlp.items>>)
           addToV == AddToV(rlp.type, tx)
       IN EncodeTransaction(rlp, IF kind = "hsm" THEN HsmSign(sig, addToV)
                                 ELSE LocalSign(sig, addToV))

\* LedgerWallet.signTransaction; app is the application open on the device.
SignWithLedger(app, tx, who, bits) ==
  LET rlp == RlpEncodedTx(tx)
      allowed == /\ ~Truthy(tx.gasPrice) /\ isEIP1559(tx)
                 /\ isCIP64(tx) => app = "celo"
  IN IF ~allowed \/ rlp.error THEN Error
     ELSE EncodeTransaction(rlp,
            LedgerSign(Sig(who, bits, <<rlp.type, rlp.items>>)))

-----------------------------------------------------------------------------
(* recoverTransaction.                                                     *)

CorrectLengthOf(type, includeSig) ==
  CASE type = "cip66" -> IF includeSig THEN 14 ELSE 11
    [] type = "cip64" -> IF includeSig THEN 13 ELSE 10
    [] type = "cip42" -> IF includeSig THEN 15 ELSE 12
    [] type = "ethereum-legacy" -> 9
    [] OTHER -> 12

\* By the prefix, and without one by the number of items.
DetermineTXType(raw) ==
  IF raw.prefix # "" THEN raw.prefix
  ELSE IF Len(raw.items) + 3 = CorrectLengthOf("celo-legacy", TRUE)
    THEN "celo-legacy" ELSE "ethereum-legacy"

\* The names that each recover function gives to the items.
Named(type) ==
  CASE type = "cip66" ->
         <<"chainId", "nonce", "maxPriorityFeePerGas", "maxFeePerGas", "gas",
           "to", "value", "data", "accessList", "feeCurrency",
           "maxFeeInFeeCurrency">>
    [] type = "cip64" ->
         <<"chainId", "nonce", "maxPriorityFeePerGas", "maxFeePerGas", "gas",
           "to", "value", "data", "accessList", "feeCurrency">>
    [] type = "cip42" ->
         <<"chainId", "nonce", "maxPriorityFeePerGas", "maxFeePerGas", "gas",
           "feeCurrency", "gatewayFeeRecipient", "gatewayFee", "to", "value",
           "data", "accessList">>
    [] type = "eip1559" ->
         <<"chainId", "nonce", "maxPriorityFeePerGas", "maxFeePerGas", "gas",
           "to", "value", "data", "accessList">>
    [] type = "celo-legacy" ->
         <<"nonce", "gasPrice", "gas", "feeCurrency", "gatewayFeeRecipient",
           "gatewayFee", "to", "value", "data">>
    [] type = "ethereum-legacy" ->
         <<"nonce", "gasPrice", "gas", "to", "value", "data">>

\* parseInt gives a double: above 2^53 the last bits are lost.
HandleNumber(n) == IF n <= MaxSafe THEN n ELSE n - (n % 2)

\* Which amounts are recovered through a double.
ByDouble(type) ==
  CASE type = "cip66" -> {"chainId", "nonce"}
    [] type \in {"celo-legacy", "ethereum-legacy"} -> {"nonce", "gasPrice", "gas"}
    [] OTHER -> {"chainId", "nonce", "maxPriorityFeePerGas", "maxFeePerGas",
                 "gas", "value"}

\* x >> 1 of JavaScript: of the low bits only, with their sign.
ShiftRight(x) ==
  LET low == ((x + SignBit) % (2 * SignBit)) - SignBit
  IN low \div 2

ChainIdOfV(v) == ShiftRight(v - 35)

Fields(raw) ==
  LET type == DetermineTXType(raw)
      names == Named(type)
      at(f) == CHOOSE i \in DOMAIN names : names[i] = f
      read(f) == IF f \in ByDouble(type) THEN HandleNumber(raw.items[at(f)])
                                         ELSE raw.items[at(f)]
      all == {names[i] : i \in DOMAIN names} \cup {"chainId"}
  IN [f \in all |-> IF f = "chainId" /\ ~Typed(type) THEN ChainIdOfV(raw.v)
                    ELSE read(f)]

\* recoverCeloLegacy and recoverEthereumLegacy; the recovery bit must be one.
LegacySigner(raw) ==
  LET chainId == ChainIdOfV(raw.v)
      items == IF raw.v < 35 THEN raw.items
               ELSE ReplayProtected(raw.items, chainId)
      yParity == raw.v - Transform(chainId)
  IN IF yParity \notin 0 .. 3 THEN Stranger
     ELSE RecoverPublicKey(raw.sig, yParity, <<DetermineTXType(raw), items>>)

\* getPublicKeyofSignerFromTx, and for eip1559 vrsForRecovery.
TypedSigner(raw) ==
  LET type == DetermineTXType(raw)
      yParity == IF type = "eip1559" THEN IF raw.v \in {0, 27} THEN 0 ELSE 1
                 ELSE IF raw.v = 0 THEN 0 ELSE 1
      base == IF type = "eip1559" THEN raw.items
              ELSE SubSeq(raw.items, 1, CorrectLengthOf(type, FALSE))
  IN RecoverPublicKey(raw.sig, yParity, <<type, base>>)

\* External: a transaction of a type that is no longer made.  Only the recover
\* functions still know the order of its fields.
OldRaw(old, who, parity) ==
  LET names == Named(old.type)
      items == [i \in DOMAIN names |-> old.tx[names[i]]]
      hashed == IF Typed(old.type) THEN items
                ELSE ReplayProtected(items, old.tx.chainId)
  IN [error |-> FALSE, prefix |-> IF Typed(old.type) THEN old.type ELSE "",
      items |-> items,
      v |-> IF Typed(old.type) THEN parity ELSE Transform(old.tx.chainId) + parity,
      sig |-> Sig(who, [parity |-> parity, high |-> FALSE], <<old.type, hashed>>)]

RecoverTransaction(raw) ==
  [tx |-> Fields(raw),
   signer |-> IF Typed(DetermineTXType(raw)) THEN TypedSigner(raw)
              ELSE LegacySigner(raw)]
=============================================================================
