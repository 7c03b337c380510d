------------------------------ MODULE Construction ------------------------------
(* The construction endpoints of services/construction_service.go, called by one  *)
(* client that builds, signs and submits a transaction.  The service keeps no     *)
(* state between the calls: all of it travels with the client, which may hand     *)
(* /payloads other operations than it had /preprocess look at, and /combine       *)
(* signatures in another order, or too few.  Between two calls the index and the  *)
(* node may have moved anywhere.                                                  *)
(*                                                                                *)
(* Fee rates are in satoshis per kB and multipliers in percent; a digest stands   *)
(* for what CalcWitnessSigHash commits to, and an account for its key: of the     *)
(* addresses of one key, only the one that /construction/derive gives is used.    *)
EXTENDS Integers, Sequences, FiniteSetsExt, Functions

CONSTANTS
    Coins,       \* the outputs a client may spend
    Accounts,    \* the addresses of operations
    Decodable,   \* the addresses of this network
    CoinAccount, \* CoinAccount[c]: the address coin c pays
    CoinAmount,  \* CoinAmount[c]: its value
    CoinClass,   \* CoinClass[c]: the class of its script
    ScriptLen,   \* ScriptLen[a]: the length of the script that pays address a
    DustLimit,   \* DustLimit[a]: the least output to address a that bitcoind relays
    CountLimit,  \* 253: fewer inputs or outputs are counted in one byte
    Intents,     \* the operations a client may ask for
    Rates,       \* what estimatesmartfee may answer, 0 when it has no estimate
    Multipliers, \* the suggested fee multipliers
    Modulus,     \* 2^64: an int64 is in -Modulus/2 .. Modulus/2 - 1
    NoCoin,      \* the operation has no coin change
    None         \* nothing yet

WitnessV0PubKeyHashTy == "witness_v0_keyhash"

Operations == [type : {"INPUT", "OUTPUT"}, account : Accounts, amount : Int,
               coin : Coins \cup {NoCoin}]

ASSUME ConstructionConstants ==
    /\ Decodable \subseteq Accounts
    /\ CoinAccount \in [Coins -> Decodable]
    /\ CoinAmount \in [Coins -> Nat \ {0}]
    /\ CoinClass \in [Coins -> STRING]
    /\ ScriptLen \in [Decodable -> 0 .. 252]
    /\ DustLimit \in [Decodable -> Nat]
    /\ CountLimit \in Nat
    /\ Intents \subseteq Seq(Operations)
    /\ Rates \subseteq Nat
    /\ Multipliers \subseteq Nat
    /\ Modulus \in Nat \ {0} /\ Modulus % 2 = 0
    /\ NoCoin \notin Coins

(* The coins a client may spend are together worth less than an int64 can count:  *)
(* 2^63 satoshis are more than 4000 times the money there will ever be.           *)
ASSUME MoneySupply ==
    /\ IsFiniteSet(Coins)
    /\ SumFunctionOnSet(CoinAmount, Coins) < Modulus \div 2

VARIABLES
    pc,         \* the call the client makes next, or how the last one ended
    ops,        \* the operations handed to /preprocess
    options,    \* the answer of /preprocess
    metadata,   \* the scripts and the fee answered by /metadata
    intent,     \* the operations handed to /payloads
    unsigned,   \* the unsigned transaction and the payloads answered by /payloads
    signatures, \* the signatures handed to /combine
    signed,     \* the signed transaction answered by /combine
    parsed,     \* the answers of /parse: of the unsigned and of the signed one
    hash        \* the answer of /hash

vars == <<pc, ops, options, metadata, intent, unsigned, signatures, signed, parsed, hash>>

Ends == {"failed", "missing", "invalid", "accepted"}
Calls == {"preprocess", "metadata", "payloads", "parse_unsigned", "sign", "combine",
          "parse_signed", "hash", "submit"}

Scripts == [class : STRING, account : Accounts]
TxOuts == [account : Decodable, amount : Int]

TypeOK ==
    /\ pc \in Calls \cup Ends
    /\ ops \in Intents \cup {<<>>}
    /\ intent \in Intents \cup {<<>>}
    /\ metadata # None =>
           metadata.scripts \in Seq(Scripts) /\ metadata.fee \in Nat
    /\ unsigned # None =>
           /\ unsigned.tx.ins \in Seq(Coins)
           /\ unsigned.tx.outs \in Seq(TxOuts)
           /\ Len(unsigned.payloads) = Len(unsigned.tx.ins)
    /\ signed # None => Len(signed.witness) = Len(signed.tx.ins)

Init ==
    /\ pc = "preprocess"
    /\ ops = <<>>
    /\ options = None
    /\ metadata = None
    /\ intent = <<>>
    /\ unsigned = None
    /\ signatures = <<>>
    /\ signed = None
    /\ parsed = [unsigned |-> None, signed |-> None]
    /\ hash = None

(* The answer is an error, or the handler panics and the server drops the         *)
(* connection: the client gives up.                                               *)
Fail ==
    /\ pc' = "failed"
    /\ UNCHANGED <<options, metadata, unsigned, signed, parsed, hash>>

--------------------------------------------------------------------------------
(* parser.MatchOperations goes through the operations and appends each to those   *)
(* that fit the same description                                                  *)

IsInput(op) == op.type = "INPUT" /\ op.amount < 0 /\ op.coin # NoCoin
IsOutput(op) == op.type = "OUTPUT" /\ op.amount > 0

Fitting(op, type) == IF type = "INPUT" THEN IsInput(op) ELSE IsOutput(op)

MatchOperations(s, type) ==
    LET matches[n \in 0 .. Len(s)] ==
            IF n = 0 THEN <<>>
            ELSE IF Fitting(s[n], type) THEN Append(matches[n - 1], s[n])
            ELSE matches[n - 1]
    IN  matches[Len(s)]

Inputs(s) == MatchOperations(s, "INPUT")
Outputs(s) == MatchOperations(s, "OUTPUT")

(* The sum of a number for each element of a sequence                             *)
Sum(numbers) == SumFunctionOnSet(numbers, DOMAIN numbers)

--------------------------------------------------------------------------------
(* /construction/preprocess                                                       *)

TransactionOverhead == 12
InputSize == 68
OutputOverhead == 9
P2PKHScriptPubkeySize == 25

OpSize(op) ==
    CASE op.type = "INPUT" -> InputSize
      [] op.type = "OUTPUT" /\ op.account \in Decodable ->
             OutputOverhead + ScriptLen[op.account]
      [] OTHER -> OutputOverhead + P2PKHScriptPubkeySize

estimateSize(s) == TransactionOverhead + Sum([i \in DOMAIN s |-> OpSize(s[i])])

(* The answer                                                                     *)
OptionsOf(s, multiplier) ==
    [coins |-> [i \in DOMAIN Inputs(s) |->
                   [coin |-> Inputs(s)[i].coin, amount |-> Inputs(s)[i].amount]],
     size |-> estimateSize(s),
     multiplier |-> multiplier]

ConstructionPreprocess(s, multiplier) ==
    /\ pc = "preprocess"
    /\ ops' = s
    /\ \/ /\ Inputs(s) = <<>>
          /\ Fail
       \/ /\ Inputs(s) # <<>>
          /\ options' = OptionsOf(s, multiplier)
          /\ pc' = "metadata"
          /\ UNCHANGED <<metadata, unsigned, signed, parsed, hash>>
    /\ UNCHANGED <<intent, signatures>>

--------------------------------------------------------------------------------
(* /construction/metadata                                                         *)

MinFeeRate == 1000
bytesInKb == 1000

(* Mutant: the minimum is applied to the rate before the multiplier.              *)
FloorFirst(rate, multiplier, size) ==
    (Max({rate, MinFeeRate}) * multiplier * size) \div (100 * bytesInKb)

(* The suggested fee in satoshis, truncated                                       *)
SuggestedFee(rate, multiplier, size) ==
    (Max({rate * multiplier, MinFeeRate * 100}) * size) \div (100 * bytesInKb)

Script(c) == [class |-> CoinClass[c], account |-> CoinAccount[c]]

(* Indexer.GetScriptPubKeys, when the index holds the transactions of the coins   *)
(* in indexed: the scripts, or none if a coin is not found or has another value.  *)
(* Whether a coin is spent is not looked at.                                      *)
GetScriptPubKeys(indexed, coins) ==
    {s \in {[i \in DOMAIN coins |-> Script(coins[i].coin)]} :
        \A i \in DOMAIN coins :
            /\ coins[i].coin \in indexed
            /\ CoinAmount[coins[i].coin] + coins[i].amount = 0}

(* The node may not answer estimatesmartfee; when there are no scripts, the call   *)
(* can but fail.                                                                  *)
ConstructionMetadata(indexed, rate) ==
    /\ pc = "metadata"
    /\ \/ Fail
       \/ \E s \in GetScriptPubKeys(indexed, options.coins) :
             /\ metadata' = [scripts |-> s,
                             fee |-> SuggestedFee(rate, options.multiplier, options.size)]
             /\ pc' = "payloads"
             /\ UNCHANGED <<options, unsigned, signed, parsed, hash>>
    /\ UNCHANGED <<ops, intent, signatures>>

--------------------------------------------------------------------------------
(* /construction/payloads                                                         *)

(* big.Int.Int64 keeps the low 64 bits of the amount of an operation.             *)
Int64(n) == ((n + (Modulus \div 2)) % Modulus) - (Modulus \div 2)

(* What CalcWitnessSigHash commits to for input i                                 *)
SigHash(tx, i, script, amount) ==
    [tx |-> tx, index |-> i, script |-> script, amount |-> amount]

(* Mutant: every output pays the amount of the first.                             *)
TransactionOfFirst(s) ==
    [ins |-> [i \in DOMAIN Inputs(s) |-> Inputs(s)[i].coin],
     outs |-> [i \in DOMAIN Outputs(s) |->
                  [account |-> Outputs(s)[i].account, amount |-> Outputs(s)[1].amount]]]

(* The transaction that performs the operations: they are matched by type, and    *)
(* keep their order among those of their type                                     *)
TransactionOf(s) ==
    [ins |-> [i \in DOMAIN Inputs(s) |-> Inputs(s)[i].coin],
     outs |-> [i \in DOMAIN Outputs(s) |->
                  [account |-> Outputs(s)[i].account,
                   amount |-> Int64(Outputs(s)[i].amount)]]]

(* The conditions under which no early return is taken and no index is out of the *)
(* range of the scripts                                                           *)
Acceptable(s, scripts) ==
    /\ \A i \in DOMAIN s : IsInput(s[i]) \/ IsOutput(s[i])
    /\ Inputs(s) # <<>>
    /\ Outputs(s) # <<>>
    /\ \A i \in DOMAIN Outputs(s) : Outputs(s)[i].account \in Decodable
    /\ \A i \in DOMAIN Inputs(s) :
           i \in DOMAIN scripts /\ scripts[i].class = WitnessV0PubKeyHashTy

(* The answer: the unsigned transaction, what travels with it and what is to be   *)
(* signed                                                                         *)
UnsignedOf(s, scripts) ==
    LET tx == TransactionOf(s)
        ins == Inputs(s)
    IN  [tx |-> tx,
         scripts |-> scripts,
         amounts |-> [i \in DOMAIN ins |-> ins[i].amount],
         addresses |-> [i \in DOMAIN ins |-> ins[i].account],
         payloads |-> [i \in DOMAIN ins |->
                          [account |-> ins[i].account,
                           bytes |-> SigHash(tx, i, scripts[i], Int64(- ins[i].amount))]]]

ConstructionPayloads(s) ==
    /\ pc = "payloads"
    /\ intent' = s
    /\ \/ /\ ~ Acceptable(s, metadata.scripts)
          /\ Fail
       \/ /\ Acceptable(s, metadata.scripts)
          /\ unsigned' = UnsignedOf(s, metadata.scripts)
          /\ pc' = "parse_unsigned"
          /\ UNCHANGED <<options, metadata, signed, parsed, hash>>
    /\ UNCHANGED <<ops, signatures>>

--------------------------------------------------------------------------------
(* /construction/parse: the operations of a transaction, its inputs first, with   *)
(* the accounts of the inputs as given                                            *)
OperationsOf(tx, accounts, amounts) ==
    [i \in DOMAIN tx.ins |-> [type |-> "INPUT", account |-> accounts[i],
                              amount |-> amounts[i], coin |-> tx.ins[i]]]
    \o [i \in DOMAIN tx.outs |-> [type |-> "OUTPUT", account |-> tx.outs[i].account,
                                  amount |-> tx.outs[i].amount, coin |-> NoCoin]]

(* Mutant: the operations are carried along with the unsigned transaction.        *)
ParseCarried ==
    /\ pc = "parse_unsigned"
    /\ parsed' = [parsed EXCEPT !.unsigned =
                     Inputs(intent) \o [i \in DOMAIN Outputs(intent) |->
                                           [Outputs(intent)[i] EXCEPT !.coin = NoCoin]]]
    /\ pc' = "sign"
    /\ UNCHANGED <<ops, options, metadata, intent, unsigned, signatures, signed, hash>>

ParseUnsigned ==
    /\ pc = "parse_unsigned"
    /\ parsed' = [parsed EXCEPT !.unsigned =
                     OperationsOf(unsigned.tx, unsigned.addresses, unsigned.amounts)]
    /\ pc' = "sign"
    /\ UNCHANGED <<ops, options, metadata, intent, unsigned, signatures, signed, hash>>

(* The account of input i is computed from its witness                            *)
Signers(s) == [i \in DOMAIN s.tx.ins |-> s.witness[i].key]

ParseSigned ==
    /\ pc = "parse_signed"
    /\ parsed' = [parsed EXCEPT !.signed =
                     OperationsOf(signed.tx, Signers(signed), signed.amounts)]
    /\ pc' = "hash"
    /\ UNCHANGED <<ops, options, metadata, intent, unsigned, signatures, signed, hash>>

--------------------------------------------------------------------------------
(* The client signs each payload with the key of its account, and returns the     *)
(* signatures in the order of the payloads, in another one, or not all of them.   *)
Signatures ==
    [i \in DOMAIN unsigned.payloads |->
        [form |-> "R || S", key |-> unsigned.payloads[i].account,
         of |-> unsigned.payloads[i].bytes]]

Swapped(s) == [i \in DOMAIN s |-> s[Len(s) + 1 - i]]

Sign ==
    /\ pc = "sign"
    /\ signatures' \in {Signatures, Swapped(Signatures), Tail(Signatures)}
    /\ pc' = "combine"
    /\ UNCHANGED <<ops, options, metadata, intent, unsigned, signed, parsed, hash>>

--------------------------------------------------------------------------------
(* /construction/combine                                                          *)

(* A signature of 64 bytes becomes one of the form the node reads                 *)
normalizeSignature(s) == [s EXCEPT !.form = "DER"]

(* Mutant: the witnesses are appended in the order they were signed in last.      *)
WitnessSwapped(tx) ==
    [i \in DOMAIN tx.ins |-> normalizeSignature(signatures[Len(tx.ins) + 1 - i])]

Witness(tx) == [i \in DOMAIN tx.ins |-> normalizeSignature(signatures[i])]

SignedOf(u) == [tx |-> u.tx, witness |-> Witness(u.tx), amounts |-> u.amounts]

ConstructionCombine ==
    /\ pc = "combine"
    /\ \/ /\ ~ DOMAIN unsigned.tx.ins \subseteq DOMAIN signatures
          /\ Fail
       \/ /\ DOMAIN unsigned.tx.ins \subseteq DOMAIN signatures
          /\ signed' = SignedOf(unsigned)
          /\ pc' = "parse_signed"
          /\ UNCHANGED <<options, metadata, unsigned, parsed, hash>>
    /\ UNCHANGED <<ops, intent, signatures>>

--------------------------------------------------------------------------------
(* /construction/hash: the hash of a transaction leaves its witness out.          *)
ConstructionHash ==
    /\ pc = "hash"
    /\ hash' = signed.tx
    /\ pc' = "submit"
    /\ UNCHANGED <<ops, options, metadata, intent, unsigned, signatures, signed, parsed>>

--------------------------------------------------------------------------------
(* /construction/submit, and what the node makes of the transaction               *)

Distinct(s) == \A i, j \in DOMAIN s : s[i] = s[j] => i = j

(* The witness of input i satisfies the script of the coin it spends              *)
WitnessOK(s, i) ==
    LET c == s.tx.ins[i] IN
    /\ CoinClass[c] = WitnessV0PubKeyHashTy
    /\ s.witness[i].form = "DER"
    /\ s.witness[i].key = CoinAccount[c]
    /\ s.witness[i].of = SigHash(s.tx, i, Script(c), CoinAmount[c])

(* The bytes in which the number of the inputs or of the outputs is written: up   *)
(* to 65535, more than a transaction that bitcoind relays has, three at most.     *)
CountBytes(s) == IF Len(s) < CountLimit THEN 1 ELSE 3

(* Virtual size: a quarter of the weight, in which witness data counts once and   *)
(* the rest four times                                                            *)
VSize(tx) ==
    LET base == 8 + CountBytes(tx.ins) + CountBytes(tx.outs) + 41 * Len(tx.ins)
                + Sum([i \in DOMAIN tx.outs |-> 9 + ScriptLen[tx.outs[i].account]])
        weight == 4 * base + 2 + 108 * Len(tx.ins)
    IN  (weight + 3) \div 4

Paid(tx) == Sum([i \in DOMAIN tx.ins |-> CoinAmount[tx.ins[i]]])
            - Sum([i \in DOMAIN tx.outs |-> tx.outs[i].amount])

(* Each coin is spent once and with a right witness, no output is dust, and the   *)
(* fee reaches the minimum relay rate.  No fee is too high: SendRawTransaction    *)
(* sends 0 for maxfeerate.  What else a node may refuse a transaction for (its    *)
(* weight, the state of its mempool) is the first case of ConstructionSubmit.     *)
Valid(s) ==
    /\ Distinct(s.tx.ins)
    /\ \A i \in DOMAIN s.tx.outs : s.tx.outs[i].amount >= DustLimit[s.tx.outs[i].account]
    /\ \A i \in DOMAIN s.tx.ins : WitnessOK(s, i)
    /\ Paid(s.tx) >= VSize(s.tx)

(* A call that fails may have reached the node or not, or be refused by it for    *)
(* reasons of its own.                                                            *)
ConstructionSubmit(unspent) ==
    /\ pc = "submit"
    /\ \/ Fail
       \/ /\ pc' = IF ~ \A i \in DOMAIN signed.tx.ins : signed.tx.ins[i] \in unspent
                   THEN "missing"
                   ELSE IF Valid(signed) THEN "accepted" ELSE "invalid"
          /\ UNCHANGED <<options, metadata, unsigned, signed, parsed, hash>>
    /\ UNCHANGED <<ops, intent, signatures>>

(* The client starts over.                                                        *)
Again ==
    /\ pc \in Ends
    /\ pc' = "preprocess"
    /\ ops' = <<>>
    /\ options' = None
    /\ metadata' = None
    /\ intent' = <<>>
    /\ unsigned' = None
    /\ signatures' = <<>>
    /\ signed' = None
    /\ parsed' = [unsigned |-> None, signed |-> None]
    /\ hash' = None

--------------------------------------------------------------------------------
Next ==
    \/ \E s \in Intents, m \in Multipliers : ConstructionPreprocess(s, m)
    \/ \E indexed \in SUBSET Coins, rate \in Rates : ConstructionMetadata(indexed, rate)
    \/ \E s \in Intents : ConstructionPayloads(s)
    \/ ParseUnsigned \/ Sign \/ ConstructionCombine \/ ParseSigned \/ ConstructionHash
    \/ \E unspent \in SUBSET Coins : ConstructionSubmit(unspent)
    \/ Again

Spec == Init /\ [][Next]_vars

--------------------------------------------------------------------------------
(* The operations of s, those that spend first.  A transaction does not tell what *)
(* coin an output was said to create.                                             *)
InOrder(s) == Inputs(s) \o [i \in DOMAIN Outputs(s) |->
                               [Outputs(s)[i] EXCEPT !.coin = NoCoin]]

(* The amounts of the operations are those of an int64.                           *)
Fits(s) == \A i \in DOMAIN s : Int64(s[i].amount) = s[i].amount

(* What the node accepts is what the client asked /payloads for, whatever it had  *)
(* asked /preprocess for and however it ordered the signatures: both parses show  *)
(* just those operations, each coin is worth what its operation says and belongs  *)
(* to its account, and the hash is that of the transaction.  Amounts that do not  *)
(* fit into 64 bits are excluded: they wrap.  This holds up to the key of an      *)
(* account: /parse gives the address of a signer as that of its key's witness     *)
(* script, so an input said to belong to another address of the key shows as it.  *)
AcceptedAsIntended ==
    pc = "accepted" /\ Fits(intent) =>
        /\ parsed.unsigned = InOrder(intent)
        /\ parsed.signed = InOrder(intent)
        /\ hash = TransactionOf(intent)
        /\ \A i \in DOMAIN Inputs(intent) :
               LET op == Inputs(intent)[i] IN
               /\ CoinAmount[op.coin] = - op.amount
               /\ CoinAccount[op.coin] = op.account

(* Even if an amount wraps, the client learns of it: when /parse shows of the     *)
(* unsigned transaction what the client asked /payloads for, the transaction pays *)
(* exactly that to those accounts, before anything is signed.                     *)
ParseTellsOutputs ==
    parsed.unsigned # None /\ parsed.unsigned = InOrder(intent) =>
        unsigned.tx.outs = [i \in DOMAIN Outputs(intent) |->
                               [account |-> Outputs(intent)[i].account,
                                amount |-> Outputs(intent)[i].amount]]

(* When the signatures come in the order of the payloads, the signed transaction  *)
(* parses to the operations of the unsigned one, though the accounts of its       *)
(* inputs are computed from the witnesses and those of the other are carried      *)
(* along.  The accounts agree as keys: an input that was given the legacy address *)
(* of its key parses back as the witness address of that key.                     *)
ParsesAgree ==
    parsed.signed # None /\ signatures = Signatures => parsed.signed = parsed.unsigned

(* The client says of each coin what is true, asks /payloads for what it asked    *)
(* /preprocess for, pays no dust, leaves the suggested fee over and signs in      *)
(* order.                                                                         *)
Honest ==
    /\ intent = ops
    /\ signatures = Signatures
    /\ Distinct([i \in DOMAIN Inputs(intent) |-> Inputs(intent)[i].coin])
    /\ \A i \in DOMAIN Inputs(intent) :
           CoinAccount[Inputs(intent)[i].coin] = Inputs(intent)[i].account
    /\ \A i \in DOMAIN Outputs(intent) :
           Outputs(intent)[i].amount >= DustLimit[Outputs(intent)[i].account]
    /\ - Sum([i \in DOMAIN intent |-> intent[i].amount]) >= metadata.fee

(* estimateSize counts one byte for the number of the inputs and one for that of  *)
(* the outputs.  From CountLimit on they take three, and the fee that is          *)
(* suggested at the minimum rate is one satoshi short or more.                    *)
CountsFit == Len(Inputs(intent)) < CountLimit /\ Len(Outputs(intent)) < CountLimit

(* The node finds nothing wrong with the transaction of an honest client, unless  *)
(* a coin is gone or the inputs or outputs are too many for a byte: the witnesses *)
(* fit and the fee reaches what it relays for, at whatever rate and multiplier    *)
(* the fee was suggested.                                                         *)
HonestIsValid == pc = "invalid" /\ CountsFit => ~ Honest

--------------------------------------------------------------------------------
(* The calls that come after the one that makes the value, unless one has failed  *)
HasUnsigned == {"parse_unsigned", "sign", "combine", "parse_signed", "hash", "submit",
                "missing", "invalid", "accepted"}
HasMetadata == HasUnsigned \cup {"payloads"}
HasSignatures == HasUnsigned \ {"parse_unsigned", "sign"}
HasSigned == HasSignatures \ {"combine"}
Submitted == {"missing", "invalid", "accepted"}

OptionsOK == ops \in Intents /\ \E m \in Multipliers : options = OptionsOf(ops, m)

(* The scripts are those of the coins that /preprocess was told of, and these are *)
(* worth what it was told; the fee is enough for the size it estimated.           *)
MetadataOK ==
    /\ ops \in Intents
    /\ metadata.scripts = [i \in DOMAIN Inputs(ops) |-> Script(Inputs(ops)[i].coin)]
    /\ \A i \in DOMAIN Inputs(ops) :
           CoinAmount[Inputs(ops)[i].coin] + Inputs(ops)[i].amount = 0
    /\ metadata.fee \in Nat /\ metadata.fee >= estimateSize(ops)

UnsignedOK ==
    /\ intent \in Intents
    /\ Acceptable(intent, metadata.scripts)
    /\ unsigned = UnsignedOf(intent, metadata.scripts)

(* Every signature is that of some payload.                                       *)
SignaturesOK ==
    \A i \in DOMAIN signatures : \E j \in DOMAIN Signatures : signatures[i] = Signatures[j]

SignedOK == DOMAIN unsigned.tx.ins \subseteq DOMAIN signatures /\ signed = SignedOf(unsigned)

ParsedUnsignedOK ==
    parsed.unsigned = OperationsOf(unsigned.tx, unsigned.addresses, unsigned.amounts)

ParsedSignedOK == parsed.signed = OperationsOf(signed.tx, Signers(signed), signed.amounts)

(* The inductive invariant: what the client holds before each call                *)
ConstructionInv ==
    /\ TypeOK
    /\ pc = "metadata" => OptionsOK
    /\ pc \in HasMetadata => MetadataOK
    /\ pc \in HasUnsigned => UnsignedOK
    /\ pc \in HasSignatures => SignaturesOK
    /\ pc \in HasSigned => SignedOK
    /\ pc \in HasUnsigned \ {"parse_unsigned"} => ParsedUnsignedOK
    /\ pc \in HasSigned \ {"parse_signed"} => ParsedSignedOK
    /\ pc \in {"submit"} \cup Submitted => hash = signed.tx
    /\ pc = "accepted" => Valid(signed)
    /\ pc = "invalid" => ~ Valid(signed)
    /\ DOMAIN parsed = {"unsigned", "signed"}
    /\ parsed.unsigned # None => UnsignedOK /\ ParsedUnsignedOK
    /\ parsed.signed # None => UnsignedOK /\ ParsedUnsignedOK /\ SignedOK /\ ParsedSignedOK
    /\ pc \in {"preprocess", "metadata", "payloads", "parse_unsigned"} =>
           parsed.unsigned = None
    /\ pc \in {"preprocess", "metadata", "payloads", "parse_unsigned", "sign", "combine",
              "parse_signed"} => parsed.signed = None
================================================================================
