----------------------------- MODULE AddressCheck -----------------------------
(***************************************************************************)
(* monero_addr::valid: base58 blocks, a varint prefix and a checksum,      *)
(* decoded by hand.  Pure operators; Facade types the texts they judge.    *)
(*                                                                         *)
(* A character is its place in the alphabet, 0 .. Base - 1, or anything    *)
(* else for a character outside it; a byte is a number below Radix.  The   *)
(* sizes of the code are parameters, so that a small instance has every    *)
(* case the real one has:                                                  *)
(*                                                                         *)
(*   constant       in the code                line                         *)
(*   Base           58                         67                           *)
(*   Radix          256                        69                           *)
(*   EncSizes       2, 3, 5, 6, 7, 9, 10, 11   57                           *)
(*   MinChars       90                         103                          *)
(*   CheckBytes     4                          103, 113                     *)
(*   KeyBytes       64                         107                          *)
(*   IdBytes        8                          108                          *)
(*   VarintBytes    10: shift < 64             83                           *)
(*   Word           2^64: uint64_t             84                           *)
(***************************************************************************)
EXTENDS Integers, Sequences, SequencesExt

CONSTANTS
  Base, Radix, EncSizes, MinChars, CheckBytes, KeyBytes, IdBytes,
  VarintBytes, Word,
  AddressPrefixes,    \* network -> its prefixes: standard, subaddress, integrated
  Digest(_)    \* keccak256, cut to CheckBytes bytes

ASSUME AddressAssumption ==
  /\ {Base, Radix, Word, CheckBytes, VarintBytes, MinChars, KeyBytes, IdBytes}
       \subseteq Nat
  /\ Base > 1 /\ Radix > 1 /\ CheckBytes > 0 /\ VarintBytes > 0
  /\ EncSizes \in Seq(Nat \ {0}) /\ EncSizes # <<>>
  /\ \A i, j \in DOMAIN EncSizes : i < j => EncSizes[i] < EncSizes[j]

FullBytes == Len(EncSizes)
FullChars == EncSizes[FullBytes]

(* What a refused decoding answers.                                        *)
Refused == <<-1>>

(* The number that digits stand for, the most significant first.           *)
Number(digits, base) ==
  LET number[i \in 0 .. Len(digits)] ==
        IF i = 0 THEN 0 ELSE number[i - 1] * base + digits[i]
  IN  number[Len(digits)]

(* What is left of v without its last k digits: `v >> (8 * k)`.            *)
Shifted(v, base, most) ==
  LET shifted[k \in 0 .. most] == IF k = 0 THEN v ELSE shifted[k - 1] \div base
  IN  shifted

(* v written as `size` digits; more are cut.                               *)
Digits(v, base, size) == [i \in 1 .. size |-> Shifted(v, base, size)[size - i] % base]

HasDigits(v, base, size) == Shifted(v, base, size)[size] = 0

(* A slip: no block is judged too large.                                   *)
FitsAnyway(v, size) == TRUE

(* A block whose number needs more bytes than it stands for is refused,    *)
(* but not a full one: its number is cut to 64 bits, like `v >> (8 * i)`.  *)
Fits(v, size) == size < FullBytes => HasDigits(v, Radix, size)

DecodeBlock(block) ==
  LET sizes == {i \in DOMAIN EncSizes : EncSizes[i] = Len(block)}
      size  == CHOOSE i \in sizes : TRUE
      v     == Number(block, Base)
  IN  IF /\ sizes # {}
         /\ \A i \in DOMAIN block : block[i] \in 0 .. Base - 1
         /\ Fits(v, size)
      THEN Digits(v, Radix, size)
      ELSE Refused

(* A text or its bytes in blocks of n, from the left, and what is left.    *)
Blocks(s, n) ==
  [k \in 1 .. (Len(s) + n - 1) \div n |->
     SubSeq(s, (k - 1) * n + 1, IF k * n < Len(s) THEN k * n ELSE Len(s))]

Base58Decode(text) ==
  LET blocks  == Blocks(text, FullChars)
      decoded == [k \in DOMAIN blocks |-> DecodeBlock(blocks[k])]
  IN  IF \E k \in DOMAIN decoded : decoded[k] = Refused THEN Refused
      ELSE FlattenSeq(decoded)

(* A varint holds the low half of each byte; the other half says that      *)
(* another byte follows.  The number is kept in a word, so a high byte may *)
(* be cut, and nothing asks for the shortest form.                         *)
Low == Radix \div 2
Continues(byte) == byte >= Low

NoVarint == [value |-> 0, bytes |-> 0]

ReadVarint(b) ==
  LET ends == {i \in 1 .. VarintBytes : i <= Len(b) /\ ~Continues(b[i])}
      n    == CHOOSE i \in ends : \A j \in ends : i <= j
  IN  IF ends = {} THEN NoVarint
      ELSE [value |-> Number([i \in 1 .. n |-> b[n + 1 - i] % Low], Low) % Word,
            bytes |-> n]

(* A slip: regtest is judged as another test network.                      *)
TestPrefixesOf(network) ==
  AddressPrefixes[IF network = "regtest" THEN "testnet" ELSE network]

(* regtest is judged by the prefixes of mainnet.                           *)
PrefixesOf(network) == AddressPrefixes[IF network = "regtest" THEN "mainnet" ELSE network]
KnownNetwork(network) == network = "regtest" \/ network \in DOMAIN AddressPrefixes

(* A slip: a body of any length will do.                                   *)
BodyOfAnyLength(prefix, body, prefixBytes, network) ==
  \E k \in 1 .. 3 : prefix = PrefixesOf(network)[k]

(* The length of the body is that of its kind.                             *)
BodyFits(prefix, body, prefixBytes, network) ==
  \/ /\ prefix \in {PrefixesOf(network)[1], PrefixesOf(network)[2]}
     /\ body = prefixBytes + KeyBytes
  \/ /\ prefix = PrefixesOf(network)[3]
     /\ body = prefixBytes + KeyBytes + IdBytes

Valid(address, network) ==
  LET b      == Base58Decode(address)
      prefix == ReadVarint(b)
      body   == Len(b) - CheckBytes
  IN  /\ KnownNetwork(network)
      /\ Len(address) >= MinChars
      /\ b # Refused /\ Len(b) >= CheckBytes
      /\ prefix.bytes > 0
      /\ BodyFits(prefix.value, body, prefix.bytes, network)
      /\ Digest(SubSeq(b, 1, body)) = SubSeq(b, body + 1, Len(b))

-----------------------------------------------------------------------------
(* What the texts of addresses are, the other way round: written from the  *)
(* prefix, the keys and the payment id, never decoded.                     *)

EncodeBlock(bytes) == Digits(Number(bytes, Radix), Base, EncSizes[Len(bytes)])

Encode(bytes) ==
  LET blocks == Blocks(bytes, FullBytes)
  IN  FlattenSeq([k \in DOMAIN blocks |-> EncodeBlock(blocks[k])])

(* The shortest varint of a number.                                        *)
Varint(v) ==
  LET rest == Shifted(v, Low, VarintBytes)
      n    == CHOOSE k \in 1 .. VarintBytes : rest[k] = 0 /\ (k = 1 \/ rest[k - 1] # 0)
  IN  [i \in 1 .. n |-> (rest[i - 1] % Low) + (IF i < n THEN Low ELSE 0)]

Bytes(n) == [1 .. n -> 0 .. Radix - 1]

(* The text of an address of a kind: prefix, keys and id, and checksum.    *)
AddressText(network, kind, data) ==
  LET body == Varint(PrefixesOf(network)[kind]) \o data
  IN  Encode(body \o Digest(body))

(* The texts of all addresses of a network.                                *)
Addresses(network) ==
  {AddressText(network, kind, data) : kind \in {1, 2}, data \in Bytes(KeyBytes)}
    \cup {AddressText(network, 3, data) : data \in Bytes(KeyBytes + IdBytes)}

(* How long the text of n bytes is.                                        *)
EncodedLength(n) ==
  LET full == (n - 1) \div FullBytes
  IN  full * FullChars + EncSizes[n - full * FullBytes]

(* What the sizes of the code were chosen for, so that every address has a *)
(* text and every text of one is long enough to be read: a block holds its *)
(* bytes, a varint every prefix (lines 57, 83, 97-99, 103).                *)
ASSUME EncodingAssumption ==
  /\ \A size \in DOMAIN EncSizes : \A bytes \in Bytes(size) :
       HasDigits(Number(bytes, Radix), Base, EncSizes[size])
  /\ "mainnet" \in DOMAIN AddressPrefixes
  /\ \A network \in DOMAIN AddressPrefixes : \A k \in 1 .. 3 :
       /\ AddressPrefixes[network][k] \in 0 .. Word - 1
       /\ HasDigits(AddressPrefixes[network][k], Low, VarintBytes)
  /\ \A n \in 1 .. VarintBytes + KeyBytes + IdBytes : \A body \in Bytes(n) :
       Digest(body) \in Bytes(CheckBytes)
  /\ \A n \in 1 .. VarintBytes, data \in {KeyBytes, KeyBytes + IdBytes} :
       EncodedLength(n + data + CheckBytes) >= MinChars

(* The texts the code takes in ways of its own: a full block whose number  *)
(* is cut to the word, and a prefix in a longer varint than it needs.      *)
Wraps(text) ==
  LET blocks == Blocks(text, FullChars)
  IN  \E k \in DOMAIN blocks :
        Len(blocks[k]) = FullChars /\ ~HasDigits(Number(blocks[k], Base), Radix, FullBytes)

Overlong(text) ==
  LET b == Base58Decode(text)
      prefix == ReadVarint(b)
  IN  prefix.bytes > 0 /\ SubSeq(b, 1, prefix.bytes) # Varint(prefix.value)
=============================================================================
