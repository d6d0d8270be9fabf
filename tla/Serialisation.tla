---------------------------- MODULE Serialisation ----------------------------
(***************************************************************************)
(* The bytes of a transfer: createRawTransaction builds and hashes them    *)
(* (neartransaction.NewTransaction, Serialize), SignRawTransaction builds  *)
(* them again with the signature, and the node takes them apart by the     *)
(* layout that the comment over Serialize quotes.                          *)
(*                                                                         *)
(* Bytes, names and decimals have small bases.  A character is a number: a *)
(* hex digit its value, every other character something beyond.  Hex and   *)
(* base64 can be undone by whoever expects them and by nobody else, and    *)
(* SHA-256 has no collisions: tags.  JSON cannot always be undone: it holds*)
(* text, and a receiver's name may be any bytes.                           *)
(***************************************************************************)
EXTENDS Integers, Sequences, SequencesExt

CONSTANTS
  Digit,          \* the base of hex digits: 16
  KeyLength,      \* bytes of a public key: 32
  HashLength,     \* bytes of a block hash: 32
  LengthWidth,    \* bytes of a length: 4
  NonceWidth,     \* bytes of a nonce: 8
  DepositWidth,   \* bytes of a deposit: 16
  Ten,            \* the base of decimal amounts: 10
  Decimals,       \* of a NEAR: 24
  Keys,           \* the public keys of the account
  Receivers,      \* the names that may receive
  Json,           \* Json[to]: what encoding/json makes of a name, U+FFFD for each
                  \* byte that is no UTF-8
  BlockHashes,    \* of reference blocks
  Nonces,
  Amounts,        \* decimal numbers: units in the last of some places
  Nothing

Base == Digit * Digit
Byte == 0..(Base - 1)

\* Powers of b, as products: what a theorem can follow.
Powers(b) == LET power[n \in Nat] == IF n = 0 THEN 1 ELSE b * power[n - 1] IN power
Power(b, n) == Powers(b)[n]

Ask == [key : Keys, to : Receivers, blockHash : BlockHashes, nonce : Nonces, amount : Amounts]

ASSUME SerialisationAssumption ==
  /\ Digit \in Nat \ {0, 1} /\ Ten \in Nat \ {0, 1} /\ Decimals \in Nat
  /\ KeyLength \in Nat /\ HashLength \in Nat
  /\ 2 * KeyLength < Power(Base, LengthWidth)
  /\ LengthWidth \in Nat \ {0} /\ NonceWidth \in Nat /\ DepositWidth \in Nat
  /\ Keys \subseteq [1..KeyLength -> Byte]
  /\ BlockHashes \subseteq [1..HashLength -> Byte]
  /\ Nonces \subseteq 0..(Power(Base, NonceWidth) - 1)
  /\ \A to \in Receivers : /\ to \in Seq(Byte) /\ Len(to) < Power(Base, LengthWidth)
                           /\ Json[to] \in Seq(Byte) /\ Len(Json[to]) < Power(Base, LengthWidth)
  /\ \A a \in Amounts : /\ a.units \in Nat /\ a.places \in 0..Decimals
                        /\ a.units * Power(Ten, Decimals - a.places) < Power(Base, DepositWidth)
  /\ Nothing \notin Ask

VARIABLES
  asked,    \* what the raw transaction was created for
  rawHex,   \* RawHex: what it holds, and in which form
  message,  \* KeySignature.Message
  signed,   \* KeySignature.Signature
  node      \* what the node made of the last broadcast

vars == <<asked, rawHex, message, signed, node>>

\* Reads of another form fail: hex.DecodeString, json.Unmarshal, the node's base64.
As(form, value) == [form |-> form, value |-> value]
-----------------------------------------------------------------------------
(* Encodings *)

\* AddressEncode: an address is its public key in hex, two digits a byte.
AddressEncode(key) ==
  [i \in 1..2 * Len(key) |-> IF i % 2 = 1 THEN key[(i + 1) \div 2] \div Digit
                                          ELSE key[i \div 2] % Digit]

DecodeString(text) ==
  [i \in 1..Len(text) \div 2 |-> Digit * text[2 * i - 1] + text[2 * i]]

LittleEndian(n, width) == [i \in 1..width |-> (n \div Power(Base, i - 1)) % Base]

\* big.Int.Bytes: the highest byte first, and none that is zero before it.
Bytes(n) ==
  LET width == CHOOSE w \in 0..n : /\ Power(Base, w) > n
                                   /\ \A v \in 0..(w - 1) : Power(Base, v) <= n
  IN Reverse(LittleEndian(n, width))

RightPadBytes(bytes, width) == bytes \o [i \in 1..(width - Len(bytes)) |-> 0]

DepositUnreversed(n) == RightPadBytes(Bytes(n), DepositWidth)     \* mutant
Deposit(n) == RightPadBytes(Reverse(Bytes(n)), DepositWidth)

\* StringNumToBigIntWithExp: in the chain's smallest unit.
Smallest(a) == a.units * Power(Ten, Decimals - a.places)

String(text) == LittleEndian(Len(text), LengthWidth) \o text

Serialize(tx) ==
  String(tx.signerId)
    \o <<0>> \o tx.publicKey
    \o LittleEndian(tx.nonce, NonceWidth)
    \o String(tx.receiverId)
    \o tx.blockHash
    \o LittleEndian(1, LengthWidth) \o <<3>> \o Deposit(tx.deposit)
    \o (IF tx.signature = <<>> THEN <<>> ELSE <<0>> \o tx.signature)

digest(bytes) == [sha256 |-> bytes]
Signature(key, hash) == <<[by |-> key, of |-> hash]>>

NewTransaction(ask) ==
  [signerId |-> AddressEncode(ask.key), publicKey |-> DecodeString(AddressEncode(ask.key)),
   nonce |-> ask.nonce, receiverId |-> ask.to, blockHash |-> ask.blockHash,
   deposit |-> Smallest(ask.amount), signature |-> <<>>]
-----------------------------------------------------------------------------
(* The calls: each of them fails, and changes nothing, unless its guard holds *)

\* json.Marshal, and what json.Unmarshal makes of it again.  Hex, numbers and
\* byte slices (in base64) come back as they are; of the other name, the text.
Marshal(tx) == [tx EXCEPT !.receiverId = Json[@]]

\* What is signed is the hash of the bytes without a signature, before the JSON.
MessageOfHex(tx)    == digest(AddressEncode(Serialize(tx)))   \* mutant: of the text
MessageOfStored(tx) == digest(Serialize(Marshal(tx)))         \* mutant: after the JSON
Message(tx) == digest(Serialize(tx))

\* Created again, a raw transaction keeps nothing of what it was: once is enough.
Create(ask) ==
  /\ asked = Nothing
  /\ asked' = ask
  /\ rawHex' = As("json", Marshal(NewTransaction(ask)))
  /\ message' = Message(NewTransaction(ask))
  /\ signed' = <<>>
  /\ UNCHANGED node

\* The signature is of the message, and goes with what comes back of the JSON.
Signing(tx, sig) == Serialize([tx EXCEPT !.signature = sig])

SignRawTransaction ==
  /\ rawHex.form = "json"
  /\ signed' = Signature(asked.key, message)
  /\ rawHex' = As("hex", Signing(rawHex.value, signed'))
  /\ UNCHANGED <<asked, message, node>>

VerifyRawTransaction ==
  /\ signed # <<>> /\ signed = Signature(asked.key, message)
  /\ rawHex.form = "hex"
  /\ rawHex' = As("base64", rawHex.value)
  /\ UNCHANGED <<asked, message, signed, node>>
-----------------------------------------------------------------------------
(* The node: what it reads of a broadcast, byte after byte *)

\* The lowest byte comes first.
Number(bytes, from, width) ==
  LET highest[k \in 0..width] ==
        IF k = 0 THEN 0 ELSE Base * highest[k - 1] + bytes[from + width - k]
  IN highest[width]

Decode(bytes) ==
  LET signerLength == Number(bytes, 1, LengthWidth)
      key == LengthWidth + signerLength + 2
      nonce == key + KeyLength
      receiver == nonce + NonceWidth + LengthWidth
      receiverLength == Number(bytes, nonce + NonceWidth, LengthWidth)
      hash == receiver + receiverLength
      actions == hash + HashLength
      deposit == actions + LengthWidth + 1
      end == deposit + DepositWidth
  IN [signer    |-> SubSeq(bytes, LengthWidth + 1, LengthWidth + signerLength),
      key       |-> SubSeq(bytes, key, nonce - 1),
      nonce     |-> Number(bytes, nonce, NonceWidth),
      to        |-> SubSeq(bytes, receiver, hash - 1),
      blockHash |-> SubSeq(bytes, hash, actions - 1),
      transfers |-> IF bytes[deposit - 1] = 3 THEN Number(bytes, actions, LengthWidth) ELSE 0,
      deposit   |-> Number(bytes, deposit, DepositWidth),
      signature |-> SubSeq(bytes, end + 1, Len(bytes)),
      hash      |-> digest(SubSeq(bytes, 1, end - 1))]

\* broadcast_tx_commit: the answer is of what was sent.
SubmitRawTransaction ==
  /\ rawHex.form = "base64"
  /\ node' = Decode(rawHex.value)
  /\ UNCHANGED <<asked, rawHex, message, signed>>
-----------------------------------------------------------------------------
Init ==
  /\ asked = Nothing /\ message = Nothing /\ signed = <<>> /\ node = Nothing
  /\ rawHex = As("none", Nothing)

Next ==
  \/ \E ask \in Ask : Create(ask)
  \/ SignRawTransaction \/ VerifyRawTransaction \/ SubmitRawTransaction

Spec == Init /\ [][Next]_vars
-----------------------------------------------------------------------------
(* Properties *)

\* The node takes a transaction whose signature is of the bytes it reads.
Accepted == node # Nothing /\ node.signature = Signature(node.key, node.hash)

\* What the node accepts is what the transaction was created for, whatever the
\* JSON made of it: the address and its key, the receiver, the nonce, the block,
\* one transfer of the amount asked for in the smallest unit.
NodeReadsAsked ==
  Accepted =>
    /\ node.signer = AddressEncode(asked.key) /\ node.key = asked.key
    /\ node.to = asked.to
    /\ node.nonce = asked.nonce /\ node.blockHash = asked.blockHash
    /\ node.transfers = 1
    /\ node.deposit * Power(Ten, asked.amount.places)
         = asked.amount.units * Power(Ten, Decimals)

\* A transfer to a name that is text is accepted: the signature, made over the
\* bytes as they were created, is good for those put together again from JSON.
SignatureIsOfRead ==
  node # Nothing /\ Json[asked.to] = asked.to => Accepted
=============================================================================
