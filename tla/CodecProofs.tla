---------------------------- MODULE CodecProofs ----------------------------
(***************************************************************************)
(* Proofs about what is written as bytes and read again: the resume record *)
(* and the bit sets in it (Records), the messages between peers (Wire).    *)
(*                                                                         *)
(* A bit set of the right length whose spare bits are clear says the same  *)
(* byte by byte as it says piece by piece (WholeBytes, Within); every      *)
(* operation keeps it so (SetKeeps, FullIsGood), and decoding lets in no   *)
(* other (DecodedTyped).  What is then left of the round trip is which     *)
(* field is clamped (RoundTrip).                                           *)
(*                                                                         *)
(* A u32 and its bytes determine each other (ReadBack, WriteBack), so do a *)
(* message and its body (SendableFine, BodyParse).  What is in flight      *)
(* between two cloves is the frames of the messages not yet read, less a   *)
(* length already taken off (InStep).                                      *)
(***************************************************************************)
EXTENDS Ordering, Records, Wire

-----------------------------------------------------------------------------
(* Bits and bytes *)

LEMMA BitsType == ByteBits \in Nat \ {0}
  BY RecordsAssumption

\* Where the bit of a piece is, and which piece a bit is for.
LEMMA BitPlace ==
    ASSUME NEW i \in Nat
    PROVE  /\ i \div ByteBits \in Nat /\ i % ByteBits \in AllSet
           /\ i = (i \div ByteBits) * ByteBits + (i % ByteBits)
  BY BitsType DEF AllSet

LEMMA PlaceBit ==
    ASSUME NEW q \in Nat, NEW b \in AllSet
    PROVE  /\ q * ByteBits + b \in Nat
           /\ (q * ByteBits + b) \div ByteBits = q
           /\ (q * ByteBits + b) % ByteBits = b
  <1> DEFINE x == q * ByteBits + b
  <1>1. q * ByteBits \in Nat /\ b \in Nat /\ b < ByteBits
    BY BitsType DEF AllSet
  <1>2. x \in Nat /\ q * ByteBits <= x /\ x < q * ByteBits + ByteBits
    BY <1>1, BitsType
  <1>3. x = q * ByteBits + b
    OBVIOUS
  <1> HIDE DEF x
  <1>4. x \div ByteBits = q
    BY <1>2, Quotient, BitsType
  <1>5. x = q * ByteBits + (x % ByteBits) /\ x % ByteBits \in AllSet
    BY <1>2, <1>4, BitPlace
  <1>6. x % ByteBits \in Nat
    BY <1>5 DEF AllSet
  <1>7. x % ByteBits = b
    BY <1>1, <1>3, <1>5, <1>6
  <1> QED BY <1>2, <1>4, <1>7 DEF x

\* The last byte begins before the last piece and ends at or after it.
LEMMA LastByte ==
    ASSUME NEW n \in Nat \ {0}
    PROVE  /\ ByteLen(n) \in Nat \ {0}
           /\ (ByteLen(n) - 1) * ByteBits < n /\ n <= ByteLen(n) * ByteBits
           /\ n % ByteBits = 0 => n = ByteLen(n) * ByteBits
           /\ n % ByteBits # 0 => n = (ByteLen(n) - 1) * ByteBits + (n % ByteBits)
  <1> DEFINE m == n + ByteBits - 1
             L == ByteLen(n)
             q == n \div ByteBits
             r == n % ByteBits
             B == ByteBits
  <1>1. B \in Nat \ {0} /\ m \in Nat /\ m = n + B - 1
    BY BitsType
  <1>2. q \in Nat /\ r \in Nat /\ r < B /\ n = q * B + r /\ q * B \in Nat
    BY BitPlace, BitsType DEF AllSet
  <1>3. L = m \div B
    BY DEF ByteLen
  <1> HIDE DEF m, L, q, r, B
  <1>4. CASE r = 0
    <2>1. q * B <= m /\ m < q * B + B
      BY <1>1, <1>2, <1>4
    <2>2. L = q
      BY <1>1, <1>2, <1>3, <2>1, Quotient
    <2>3. q # 0
      <3>1. q = 0 => q * B = 0
        BY <1>1
      <3> QED BY <1>2, <1>4, <3>1
    <2>4. (q - 1) * B = q * B - B
      BY <1>1, <1>2
    <2>5. q * B - B < q * B
      BY <1>1, <1>2
    <2> QED BY <1>1, <1>2, <1>4, <2>2, <2>3, <2>4, <2>5 DEF L, r, B
  <1>5. CASE r # 0
    <2>1. (q + 1) * B = q * B + B /\ q + 1 \in Nat
      BY <1>1, <1>2
    <2>2. (q + 1) * B <= m /\ m < (q + 1) * B + B
      BY <1>1, <1>2, <1>5, <2>1
    <2>3. L = q + 1
      BY <1>1, <1>3, <2>1, <2>2, Quotient
    <2>4. L \in Nat \ {0} /\ L - 1 = q
      BY <1>2, <2>3
    <2>5. q * B < n /\ n <= q * B + B
      BY <1>1, <1>2, <1>5
    <2> QED BY <1>2, <1>5, <2>1, <2>3, <2>4, <2>5 DEF L, r, B
  <1> QED BY <1>4, <1>5

\* Where a bit below the end of the last byte is: it is a piece's, or spare.
LEMMA BitOf ==
    ASSUME NEW n \in Nat \ {0}, NEW i \in Nat
    PROVE  /\ i < ByteLen(n) * ByteBits <=> i \div ByteBits + 1 \in 1 .. ByteLen(n)
           /\ i < n => i < ByteLen(n) * ByteBits
           /\ i >= n /\ i < ByteLen(n) * ByteBits =>
                i \div ByteBits + 1 = ByteLen(n) /\ i % ByteBits \in Spare(n)
           /\ i < n /\ i \div ByteBits + 1 = ByteLen(n) => i % ByteBits \notin Spare(n)
  <1> DEFINE L == ByteLen(n)
             q == i \div ByteBits
             r == i % ByteBits
             B == ByteBits
             s == n % ByteBits
  <1>1. B \in Nat \ {0}
    BY BitsType
  <1>2. q \in Nat /\ r \in Nat /\ r < B /\ i = q * B + r /\ q * B \in Nat
    BY BitPlace, BitsType DEF AllSet
  <1>3. /\ L \in Nat \ {0} /\ (L - 1) * B < n /\ n <= L * B
        /\ s = 0 => n = L * B
        /\ s # 0 => n = (L - 1) * B + s
    BY LastByte
  <1>4. s \in Nat /\ s < B
    BY BitPlace, BitsType DEF AllSet
  <1>5. Spare(n) = IF s = 0 THEN {} ELSE s .. B - 1
    BY DEF Spare
  <1>6. q < L <=> i < L * B
    BY <1>1, <1>3, Quotient
  <1> HIDE DEF L, q, r, B, s
  <1>7. i < L * B <=> q + 1 \in 1 .. L
    BY <1>2, <1>3, <1>6
  <1>8. L * B \in Nat /\ (L - 1) * B = L * B - B
    BY <1>1, <1>3
  <1>9. i < n => i < L * B
    BY <1>3, <1>8
  <1>10. ASSUME i >= n, i < L * B PROVE q + 1 = L /\ r \in Spare(n)
    <2>1. q < L
      BY <1>6, <1>10
    <2>2. ~(q < L - 1)
      <3>1. q < L - 1 => q * B + B <= (L - 1) * B
        BY <1>1, <1>2, <1>3, Product
      <3> QED BY <1>1, <1>2, <1>3, <1>8, <1>10, <3>1
    <2>3. q + 1 = L
      BY <1>2, <1>3, <2>1, <2>2
    <2>4. q * B = (L - 1) * B
      BY <1>2, <1>3, <2>3
    <2>5. s # 0
      BY <1>3, <1>8, <1>10
    <2>6. r >= s
      BY <1>2, <1>3, <1>4, <1>8, <1>10, <2>4, <2>5
    <2> QED BY <1>1, <1>2, <1>4, <1>5, <2>3, <2>5, <2>6
  <1>11. ASSUME i < n, q + 1 = L, r \in Spare(n) PROVE FALSE
    <2>1. s # 0 /\ r >= s
      BY <1>1, <1>4, <1>5, <1>11
    <2>2. q * B = (L - 1) * B
      BY <1>2, <1>3, <1>11
    <2> QED BY <1>2, <1>3, <1>4, <1>8, <1>11, <2>1, <2>2
  <1> QED BY <1>7, <1>9, <1>10, <1>11 DEF L, q, r, B

\* A bit set over n pieces: the right length, the spare bits clear.
Good(bytes, n) == bytes \in Seq(Byte) /\ ~BadBits(bytes, n)

LEMMA GoodMeans ==
    ASSUME NEW n \in Nat \ {0}, NEW bytes \in Seq(Byte)
    PROVE  Good(bytes, n) <=> Len(bytes) = ByteLen(n) /\ bytes[ByteLen(n)] \cap Spare(n) = {}
  <1>1. ByteLen(n) \in Nat \ {0}
    BY LastByte
  <1>2. Len(bytes) = ByteLen(n) => bytes # <<>>
    BY <1>1
  <1> QED BY <1>1, <1>2 DEF Good, BadBits

\* A bit that is set is a piece's, so adding up bytes counts pieces.
LEMMA WholeBytes ==
    ASSUME NEW n \in Nat \ {0}, NEW bytes \in Seq(Byte), Good(bytes, n)
    PROVE  {i \in 0 .. Len(bytes) * ByteBits - 1 : HasBit(bytes, i)} = PiecesOf(bytes, n)
  <1> DEFINE L == ByteLen(n)
             E == L * ByteBits
  <1>1. L \in Nat \ {0} /\ n <= E /\ E \in Nat
    <2>1. L \in Nat \ {0} /\ n <= E
      BY LastByte
    <2>2. E = L * ByteBits
      OBVIOUS
    <2> HIDE DEF L, E
    <2>3. E \in Nat
      BY <2>1, <2>2, BitsType
    <2> QED BY <2>1, <2>3
  <1>2. Len(bytes) = L /\ bytes[L] \cap Spare(n) = {}
    BY GoodMeans
  <1>3. ASSUME NEW i \in Nat, i < E, HasBit(bytes, i) PROVE i < n
    <2>1. i >= n => i \div ByteBits + 1 = L /\ i % ByteBits \in Spare(n)
      BY <1>3, BitOf
    <2>2. i >= n => i % ByteBits \in bytes[L] \cap Spare(n)
      BY <1>3, <2>1 DEF HasBit
    <2> QED BY <1>2, <2>2
  <1>4. Len(bytes) * ByteBits = E
    BY <1>2
  <1> HIDE DEF E, L
  <1>5. {i \in 0 .. E - 1 : HasBit(bytes, i)} = {i \in 0 .. n - 1 : HasBit(bytes, i)}
    BY <1>1, <1>3
  <1> QED BY <1>4, <1>5 DEF PiecesOf

LEMMA CountIs ==
    ASSUME NEW n \in Nat \ {0}, NEW bytes \in Seq(Byte), Good(bytes, n)
    PROVE  /\ CountBits(bytes) = Cardinality(PiecesOf(bytes, n))
           /\ IsFull(bytes, n) <=> PiecesOf(bytes, n) = 0 .. n - 1
  <1>1. CountBits(bytes) = Cardinality(PiecesOf(bytes, n))
    BY WholeBytes DEF CountBits
  <1>2. IsFiniteSet(0 .. n - 1) /\ Cardinality(0 .. n - 1) = n
    <2>1. 0 \in Int /\ n - 1 \in Int
      OBVIOUS
    <2>2. IsFiniteSet(0 .. n - 1) /\ Cardinality(0 .. n - 1) = IF 0 > n - 1 THEN 0 ELSE n - 1 - 0 + 1
      BY <2>1, FS_Interval
    <2> QED BY <2>2
  <1>3. PiecesOf(bytes, n) \in SUBSET (0 .. n - 1)
    BY DEF PiecesOf
  <1>4. Cardinality(PiecesOf(bytes, n)) = n <=> PiecesOf(bytes, n) = 0 .. n - 1
    BY <1>2, <1>3, FS_Subset
  <1> QED BY <1>1, <1>4 DEF IsFull

\* The bytewise test is the inclusion of the pieces.
LEMMA Within ==
    ASSUME NEW n \in Nat \ {0}, NEW v \in Seq(Byte), NEW h \in Seq(Byte), Good(v, n), Good(h, n)
    PROVE  ~Exceeds(v, h) <=> PiecesOf(v, n) \subseteq PiecesOf(h, n)
  <1> DEFINE L == ByteLen(n)
  <1>1. L \in Nat \ {0}
    BY LastByte
  <1>2. Len(v) = L /\ Len(h) = L /\ v[L] \cap Spare(n) = {}
    BY GoodMeans
  <1>3. DOMAIN v = 1 .. L /\ \A k \in 1 .. L : v[k] \in Byte /\ h[k] \in Byte
    BY <1>1, <1>2
  <1>4. ASSUME ~Exceeds(v, h), NEW i \in PiecesOf(v, n) PROVE i \in PiecesOf(h, n)
    <2>1. i \in 0 .. n - 1 /\ i \in Nat /\ i < n
      BY DEF PiecesOf
    <2>2. i \div ByteBits + 1 \in 1 .. L
      BY <2>1, BitOf
    <2>3. i % ByteBits \in v[i \div ByteBits + 1]
      BY DEF PiecesOf, HasBit
    <2>4. i % ByteBits \in h[i \div ByteBits + 1]
      BY <1>3, <1>4, <2>2, <2>3 DEF Exceeds
    <2> QED BY <2>1, <2>4 DEF PiecesOf, HasBit
  <1>5. ASSUME PiecesOf(v, n) \subseteq PiecesOf(h, n), NEW k \in 1 .. L, NEW b \in v[k] PROVE b \in h[k]
    <2> DEFINE i == (k - 1) * ByteBits + b
    <2>1. b \in AllSet /\ k - 1 \in Nat
      BY <1>1, <1>3 DEF Byte
    <2>2. i \in Nat /\ i \div ByteBits = k - 1 /\ i % ByteBits = b
      BY <2>1, PlaceBit
    <2> HIDE DEF i
    <2>3. i \div ByteBits + 1 = k
      BY <1>1, <2>2
    <2>4. HasBit(v, i)
      BY <2>2, <2>3 DEF HasBit
    <2>5. i < L * ByteBits
      BY <2>2, <2>3, BitOf
    <2>6. i < n
      <3>1. i >= n => k = L /\ b \in Spare(n)
        BY <2>2, <2>3, <2>5, BitOf
      <3> QED BY <1>2, <2>2, <3>1
    <2>7. i \in PiecesOf(h, n)
      BY <1>5, <2>2, <2>4, <2>6 DEF PiecesOf
    <2> QED BY <2>2, <2>3, <2>7 DEF PiecesOf, HasBit
  <1> QED BY <1>3, <1>4, <1>5 DEF Exceeds

-----------------------------------------------------------------------------
(* What the operations on a bit set keep *)

LEMMA SetKeeps ==
    ASSUME NEW n \in Nat \ {0}, NEW bytes \in Seq(Byte), NEW i \in Nat, Good(bytes, n)
    PROVE  Good(SetBit(bytes, n, i), n) /\ Good(ClearBit(bytes, n, i), n)
  <1> DEFINE L == ByteLen(n)
             k == i \div ByteBits + 1
             b == i % ByteBits
             set == [bytes EXCEPT ![k] = @ \cup {b}]
             cleared == [bytes EXCEPT ![k] = @ \ {b}]
  <1>1. CASE i >= n
    BY <1>1 DEF SetBit, ClearBit
  <1>2. CASE i < n
    <2>1. L \in Nat \ {0} /\ b \in AllSet
      BY LastByte, BitPlace
    <2>2. k \in 1 .. L /\ (k = L => b \notin Spare(n))
      BY <1>2, BitOf
    <2>3. Len(bytes) = L /\ bytes[L] \cap Spare(n) = {}
      BY GoodMeans
    <2>4. SetBit(bytes, n, i) = set /\ ClearBit(bytes, n, i) = cleared
      BY <1>2 DEF SetBit, ClearBit
    <2> HIDE DEF L, k, b
    <2>5. \A x \in 1 .. L : bytes[x] \in Byte
      BY <2>3
    <2>6. bytes[k] \cup {b} \in Byte /\ bytes[k] \ {b} \in Byte
      BY <2>1, <2>2, <2>5 DEF Byte
    <2>7. set \in Seq(Byte) /\ cleared \in Seq(Byte) /\ Len(set) = L /\ Len(cleared) = L
      BY <2>2, <2>3, <2>6
    <2>8. set[L] = (IF k = L THEN bytes[L] \cup {b} ELSE bytes[L])
          /\ cleared[L] = (IF k = L THEN bytes[L] \ {b} ELSE bytes[L])
      <3>1. DOMAIN bytes = 1 .. L /\ L \in DOMAIN bytes
        BY <2>1, <2>3
      <3> QED BY <2>2, <3>1
    <2>9. set[L] \cap Spare(n) = {} /\ cleared[L] \cap Spare(n) = {}
      BY <2>2, <2>3, <2>8
    <2> HIDE DEF set, cleared
    <2>10. Good(set, n) /\ Good(cleared, n)
      BY <2>7, <2>9, GoodMeans DEF L
    <2> QED BY <2>4, <2>10
  <1> QED BY <1>1, <1>2

LEMMA FullIsGood ==
    ASSUME NEW n \in Nat \ {0}
    PROVE  Good(FullBits(n), n) /\ Good(EmptyBits(n), n)
  <1> DEFINE L == ByteLen(n)
  <1>1. L \in Nat \ {0}
    BY LastByte
  <1>2. AllSet \in Byte /\ AllSet \ Spare(n) \in Byte /\ {} \in Byte
    BY DEF Byte
  <1>3. /\ FullBits(n) = [k \in 1 .. L |-> IF k = L THEN AllSet \ Spare(n) ELSE AllSet]
        /\ EmptyBits(n) = [k \in 1 .. L |-> {}]
    BY DEF FullBits, EmptyBits
  <1> HIDE DEF L
  <1>4. FullBits(n) \in Seq(Byte) /\ Len(FullBits(n)) = L /\ FullBits(n)[L] = AllSet \ Spare(n)
    BY <1>1, <1>2, <1>3
  <1>5. EmptyBits(n) \in Seq(Byte) /\ Len(EmptyBits(n)) = L /\ EmptyBits(n)[L] = {}
    BY <1>1, <1>2, <1>3
  <1>6. FullBits(n)[L] \cap Spare(n) = {} /\ EmptyBits(n)[L] \cap Spare(n) = {}
    BY <1>4, <1>5
  <1> QED BY <1>4, <1>5, <1>6, GoodMeans DEF L

-----------------------------------------------------------------------------
(* The round trip *)

LEMMA LesserOf ==
    ASSUME NEW a \in Int, NEW b \in Int
    PROVE  Min({a, b}) = IF a <= b THEN a ELSE b
  <1>1. \E x \in {a, b} : \A y \in {a, b} : x <= y
    OBVIOUS
  <1>2. Min({a, b}) \in {a, b} /\ \A y \in {a, b} : Min({a, b}) <= y
    BY <1>1 DEF Min
  <1> QED BY <1>2

\* What a record may be, in memory or decoded.
RecordType ==
    [hash : Seq(Byte), pieces : Nat \ {0}, have : Seq(Byte), verified : Seq(Byte), priorities : Seq(Byte),
     uploaded : Nat, paused : BOOLEAN, added : Nat, reason : Int]

Sound(r) ==
    /\ r \in RecordType /\ Len(r.hash) = InfoHashLen
    /\ Good(r.have, r.pieces) /\ Good(r.verified, r.pieces)
    /\ \A i \in DOMAIN r.priorities : r.priorities[i] \in Priorities

Clamped(r) == [r EXCEPT !.uploaded = ToInt(r.uploaded), !.added = ToInt(r.added)]

\* One value under a key, and what is then read.
LEMMA OneValue ==
    ASSUME NEW f, NEW key \in DOMAIN f
    PROVE  /\ f[key].kind = "int" => IntUnder(f, key) = {f[key].int} /\ OptionalInt(f, key) = f[key].int
           /\ f[key].kind = "bytes" => BytesUnder(f, key) = {f[key].bytes}
  <1>1. f[key].kind = "int" => IntUnder(f, key) = {f[key].int}
    BY DEF IntUnder
  <1>2. f[key].kind = "bytes" => BytesUnder(f, key) = {f[key].bytes}
    BY DEF BytesUnder
  <1>3. IntUnder(f, key) = {f[key].int} => OptionalInt(f, key) = f[key].int
    BY DEF OptionalInt
  <1> QED BY <1>1, <1>2, <1>3

LEMMA EncodedFields ==
    ASSUME NEW r
    PROVE  /\ DOMAIN EncodeRecord(r) = Written
           /\ EncodeRecord(r)["version"] = IntValue(Version)
           /\ EncodeRecord(r)["info_hash"] = BytesValue(r.hash)
           /\ EncodeRecord(r)["num_pieces"] = IntValue(r.pieces)
           /\ EncodeRecord(r)["have"] = BytesValue(r.have)
           /\ EncodeRecord(r)["verified"] = BytesValue(r.verified)
           /\ EncodeRecord(r)["priorities"] = BytesValue(r.priorities)
           /\ EncodeRecord(r)["uploaded"] = IntValue(ToInt(r.uploaded))
           /\ EncodeRecord(r)["paused"] = IntValue(IF r.paused THEN 1 ELSE 0)
           /\ EncodeRecord(r)["added"] = IntValue(ToInt(r.added))
           /\ EncodeRecord(r)["pause_reason"] = IntValue(r.reason)
  BY DEF EncodeRecord, Written, Optional

\* What is written is read, field by field.
LEMMA EncodedRead ==
    ASSUME NEW r
    PROVE  /\ Readable(EncodeRecord(r))
           /\ BytesUnder(EncodeRecord(r), "info_hash") = {r.hash}
           /\ IntUnder(EncodeRecord(r), "num_pieces") = {r.pieces}
           /\ BytesUnder(EncodeRecord(r), "have") = {r.have}
           /\ BytesUnder(EncodeRecord(r), "verified") = {r.verified}
           /\ BytesUnder(EncodeRecord(r), "priorities") = {r.priorities}
           /\ IntUnder(EncodeRecord(r), "uploaded") = {ToInt(r.uploaded)}
           /\ OptionalInt(EncodeRecord(r), "paused") = IF r.paused THEN 1 ELSE 0
           /\ OptionalInt(EncodeRecord(r), "added") = ToInt(r.added)
           /\ OptionalInt(EncodeRecord(r), "pause_reason") = r.reason
  <1> DEFINE f == EncodeRecord(r)
  <1>1. DOMAIN f = Written
    BY EncodedFields
  <1>2. "version" \in DOMAIN f /\ "num_pieces" \in DOMAIN f /\ "have" \in DOMAIN f
        /\ "verified" \in DOMAIN f /\ "priorities" \in DOMAIN f /\ "uploaded" \in DOMAIN f
        /\ "paused" \in DOMAIN f /\ "added" \in DOMAIN f /\ "pause_reason" \in DOMAIN f
        /\ "info_hash" \in DOMAIN f
    BY <1>1 DEF Written, Optional
  <1>3. ASSUME NEW n PROVE IntValue(n).kind = "int" /\ IntValue(n).int = n
    BY DEF IntValue
  <1>4. ASSUME NEW n PROVE BytesValue(n).kind = "bytes" /\ BytesValue(n).bytes = n
    BY DEF BytesValue
  <1>5. /\ f["version"] = IntValue(Version)
        /\ f["info_hash"] = BytesValue(r.hash)
        /\ f["num_pieces"] = IntValue(r.pieces)
        /\ f["have"] = BytesValue(r.have)
        /\ f["verified"] = BytesValue(r.verified)
        /\ f["priorities"] = BytesValue(r.priorities)
        /\ f["uploaded"] = IntValue(ToInt(r.uploaded))
        /\ f["paused"] = IntValue(IF r.paused THEN 1 ELSE 0)
        /\ f["added"] = IntValue(ToInt(r.added))
        /\ f["pause_reason"] = IntValue(r.reason)
    BY EncodedFields
  <1> HIDE DEF f
  <1>6. IntUnder(f, "version") = {Version}
    BY <1>2, <1>3, <1>5, OneValue
  <1>7. Readable(f)
    BY <1>1, <1>6, RecordsAssumption DEF Readable, Keys
  <1>8. IntUnder(f, "num_pieces") = {r.pieces} /\ IntUnder(f, "uploaded") = {ToInt(r.uploaded)}
    BY <1>2, <1>3, <1>5, OneValue
  <1>9. /\ BytesUnder(f, "have") = {r.have} /\ BytesUnder(f, "verified") = {r.verified}
        /\ BytesUnder(f, "priorities") = {r.priorities} /\ BytesUnder(f, "info_hash") = {r.hash}
    BY <1>2, <1>4, <1>5, OneValue
  <1>10. OptionalInt(f, "paused") = (IF r.paused THEN 1 ELSE 0)
    BY <1>2, <1>3, <1>5, OneValue
  <1>11. OptionalInt(f, "added") = ToInt(r.added) /\ OptionalInt(f, "pause_reason") = r.reason
    BY <1>2, <1>3, <1>5, OneValue
  <1> QED BY <1>7, <1>8, <1>9, <1>10, <1>11 DEF f

LEMMA ToIntTyped ==
    ASSUME NEW n \in Nat
    PROVE  ToInt(n) \in Nat /\ ToInt(n) <= IntTop /\ (n <= IntTop => ToInt(n) = n)
  BY LesserOf, RecordsAssumption DEF ToInt

\* The round trip: a sound record is read back clamped, and refused only if a
\* piece is verified and not held.
LEMMA RoundTrip ==
    ASSUME NEW r, Sound(r)
    PROVE  DecodeRecord(EncodeRecord(r)) = IF Exceeds(r.verified, r.have) THEN {} ELSE {Clamped(r)}
  <1> DEFINE f == EncodeRecord(r)
             c == Clamped(r)
             Fields == [hash : BytesUnder(f, "info_hash"),
                        pieces : IntUnder(f, "num_pieces"), have : BytesUnder(f, "have"),
                        verified : BytesUnder(f, "verified"), priorities : BytesUnder(f, "priorities"),
                        uploaded : IntUnder(f, "uploaded"),
                        paused : {OptionalInt(f, "paused") # 0},
                        added : {Unsigned(OptionalInt(f, "added"))},
                        reason : {OptionalInt(f, "pause_reason")}]
  <1>1. r \in RecordType
    BY DEF Sound
  <1>2. ToInt(r.uploaded) \in Nat /\ ToInt(r.added) \in Nat
    BY <1>1, ToIntTyped DEF RecordType
  <1>3. (OptionalInt(f, "paused") # 0) = r.paused
    BY <1>1, EncodedRead DEF RecordType
  <1>4. Unsigned(OptionalInt(f, "added")) = ToInt(r.added)
    BY <1>2, EncodedRead DEF Unsigned
  <1>5. Fields = [hash : {r.hash}, pieces : {r.pieces}, have : {r.have}, verified : {r.verified},
                  priorities : {r.priorities}, uploaded : {ToInt(r.uploaded)}, paused : {r.paused},
                  added : {ToInt(r.added)}, reason : {r.reason}]
    BY <1>3, <1>4, EncodedRead
  <1>6. c = [hash |-> r.hash, pieces |-> r.pieces, have |-> r.have, verified |-> r.verified, priorities |-> r.priorities,
             uploaded |-> ToInt(r.uploaded), paused |-> r.paused, added |-> ToInt(r.added), reason |-> r.reason]
    <2> DEFINE D == {"hash", "pieces", "have", "verified", "priorities", "uploaded", "paused", "added", "reason"}
               l == [hash |-> r.hash, pieces |-> r.pieces, have |-> r.have, verified |-> r.verified,
                     priorities |-> r.priorities, uploaded |-> ToInt(r.uploaded), paused |-> r.paused,
                     added |-> ToInt(r.added), reason |-> r.reason]
    <2>1. DOMAIN r = D /\ r = [x \in D |-> r[x]]
      BY <1>1 DEF RecordType
    <2>2. DOMAIN c = D /\ c = [x \in D |-> c[x]]
      BY <2>1 DEF Clamped
    <2>3. DOMAIN l = D /\ l = [x \in D |-> l[x]]
      OBVIOUS
    <2>4. \A x \in D : c[x] = l[x]
      <3>1. /\ c.hash = r.hash /\ c.pieces = r.pieces /\ c.have = r.have /\ c.verified = r.verified
            /\ c.priorities = r.priorities /\ c.paused = r.paused /\ c.reason = r.reason
        BY <2>1 DEF Clamped
      <3>2. c.uploaded = ToInt(r.uploaded) /\ c.added = ToInt(r.added)
        BY <2>1 DEF Clamped
      <3> HIDE DEF c
      <3>3. ASSUME NEW x \in D PROVE c[x] = l[x]
        BY <3>1, <3>2
      <3> QED BY <3>3
    <2> QED BY <2>2, <2>3, <2>4
  <1> HIDE DEF c
  <1>7. Fields = {c}
    <2>1. c \in Fields
      BY <1>5, <1>6
    <2>2. ASSUME NEW x \in Fields PROVE x = c
      BY <1>5, <1>6, <2>2
    <2> HIDE DEF Fields
    <2> QED BY <2>1, <2>2
  <1>8. DecodeRecord(f) =
            {x \in Fields :
                /\ Readable(f)
                /\ Len(x.hash) = InfoHashLen
                /\ x.pieces >= 1 /\ ~BadBits(x.have, x.pieces) /\ ~BadBits(x.verified, x.pieces)
                /\ ~Exceeds(x.verified, x.have)
                /\ \A i \in DOMAIN x.priorities : x.priorities[i] \in Priorities
                /\ x.uploaded >= 0}
    BY DEF DecodeRecord
  <1> HIDE DEF Fields, f
  <1>9. Readable(f)
    BY EncodedRead DEF f
  <1>10. /\ c.hash = r.hash /\ c.pieces = r.pieces /\ c.have = r.have /\ c.verified = r.verified
         /\ c.priorities = r.priorities /\ c.uploaded = ToInt(r.uploaded)
    BY <1>6
  <1>11. /\ Len(r.hash) = InfoHashLen
         /\ r.pieces >= 1 /\ ~BadBits(r.have, r.pieces) /\ ~BadBits(r.verified, r.pieces)
         /\ \A i \in DOMAIN r.priorities : r.priorities[i] \in Priorities
         /\ ToInt(r.uploaded) >= 0
    BY <1>1, <1>2 DEF Sound, Good, RecordType
  <1> QED BY <1>7, <1>8, <1>9, <1>10, <1>11 DEF f, c

-----------------------------------------------------------------------------
(* The invariant *)

\* Numbers on disk are of their width, byte strings are bytes.
ValueOK(key, v) ==
    /\ v.kind = "int" => v.int \in Int
    /\ v.kind = "int" /\ key \in {"uploaded", "added"} => v.int <= IntTop
    /\ v.kind = "bytes" => v.bytes \in Seq(Byte)

FileTyped == \A key \in DOMAIN file : ValueOK(key, file[key])

RecordInv == Sound(memory) /\ Good(bits, memory.pieces) /\ FileTyped

LEMMA EncodedTyped ==
    ASSUME NEW r, Sound(r), NEW key \in DOMAIN EncodeRecord(r)
    PROVE  ValueOK(key, EncodeRecord(r)[key])
  <1> DEFINE f == EncodeRecord(r)
  <1>1. r \in RecordType
    BY DEF Sound
  <1>2. /\ ToInt(r.uploaded) \in Nat /\ ToInt(r.uploaded) <= IntTop
        /\ ToInt(r.added) \in Nat /\ ToInt(r.added) <= IntTop
    BY <1>1, ToIntTyped DEF RecordType
  <1>3. key \in Written
    BY EncodedFields
  <1>4. ASSUME NEW n PROVE IntValue(n).kind = "int" /\ IntValue(n).int = n
    BY DEF IntValue
  <1>5. ASSUME NEW n PROVE BytesValue(n).kind = "bytes" /\ BytesValue(n).bytes = n
    BY DEF BytesValue
  <1>6. /\ f["version"] = IntValue(Version)
        /\ f["info_hash"] = BytesValue(r.hash)
        /\ f["num_pieces"] = IntValue(r.pieces)
        /\ f["have"] = BytesValue(r.have)
        /\ f["verified"] = BytesValue(r.verified)
        /\ f["priorities"] = BytesValue(r.priorities)
        /\ f["uploaded"] = IntValue(ToInt(r.uploaded))
        /\ f["paused"] = IntValue(IF r.paused THEN 1 ELSE 0)
        /\ f["added"] = IntValue(ToInt(r.added))
        /\ f["pause_reason"] = IntValue(r.reason)
    BY EncodedFields
  <1> HIDE DEF f
  <1>7. CASE key \in {"info_hash", "have", "verified", "priorities"}
    BY <1>1, <1>5, <1>6, <1>7 DEF RecordType, f, ValueOK
  <1>8. CASE key \in {"uploaded", "added"}
    BY <1>2, <1>4, <1>6, <1>8 DEF f, ValueOK
  <1>9. CASE key \in {"version", "num_pieces", "paused", "pause_reason"}
    <2>1. Version \in Int /\ r.pieces \in Int /\ r.reason \in Int
      BY <1>1, RecordsAssumption DEF RecordType
    <2> QED BY <1>4, <1>6, <1>9, <2>1 DEF f, ValueOK
  <1> QED BY <1>3, <1>7, <1>8, <1>9 DEF Written, Optional

LEMMA FreshSound == ASSUME NEW n \in Nat \ {0} PROVE Sound(Fresh(n)) /\ Fresh(n).pieces = n
  <1>1. Good(EmptyBits(n), n) /\ EmptyBits(n) \in Seq(Byte)
    BY FullIsGood DEF Good
  <1>2. {ByteBits - 1} \in Byte
    BY BitsType DEF Byte, AllSet
  <1>3. <<{ByteBits - 1}>> \in Seq(Byte) /\ \A i \in DOMAIN <<{ByteBits - 1}>> : <<{ByteBits - 1}>>[i] \in Priorities
    BY <1>2 DEF Priorities
  <1> DEFINE p == <<{ByteBits - 1}>>
             e == EmptyBits(n)
             h == [i \in 1 .. InfoHashLen |-> {}]
             r == Fresh(n)
  <1>0. h \in Seq(Byte) /\ Len(h) = InfoHashLen
    <2>1. InfoHashLen \in Nat /\ {} \in Byte
      BY RecordsAssumption DEF Byte
    <2> QED BY <2>1
  <1> HIDE DEF p, e, h
  <1>4. r = [hash |-> h, pieces |-> n, have |-> e, verified |-> e, priorities |-> p,
             uploaded |-> 0, paused |-> FALSE, added |-> 1, reason |-> 0]
    BY DEF Fresh, p, e, h
  <1> HIDE DEF r
  <1>5. r \in RecordType
    BY <1>0, <1>1, <1>3, <1>4 DEF RecordType, p, e
  <1>6. r.hash = h /\ r.pieces = n /\ r.have = e /\ r.verified = e /\ r.priorities = p
    BY <1>4
  <1>7. Sound(r)
    BY <1>0, <1>1, <1>3, <1>5, <1>6 DEF Sound, p, e
  <1> QED BY <1>6, <1>7 DEF r

LEMMA RecordInvInit == RecordsInit => RecordInv
  <1> SUFFICES ASSUME RecordsInit PROVE RecordInv
    OBVIOUS
  <1>1. PICK n \in PieceCounts : memory = Fresh(n)
    BY DEF RecordsInit
  <1>2. n \in Nat \ {0}
    BY RecordsAssumption
  <1>3. Sound(memory) /\ memory.pieces = n
    BY <1>1, <1>2, FreshSound
  <1>4. Good(bits, memory.pieces)
    BY <1>2, <1>3, FullIsGood DEF RecordsInit
  <1>5. FileTyped
    BY <1>3, EncodedTyped DEF RecordsInit, FileTyped
  <1> QED BY <1>3, <1>4, <1>5 DEF RecordInv

\* Only the record in memory changes, and stays a record of this torrent.
LEMMA RecordKeeps ==
    ASSUME RecordInv, UNCHANGED <<bits, file>>, Sound(memory'), memory'.pieces = memory.pieces
    PROVE  RecordInv'
  <1>1. FileTyped'
    BY DEF RecordInv, FileTyped, ValueOK
  <1>2. Good(bits', memory'.pieces)
    BY DEF RecordInv
  <1>3. Sound(memory)' /\ Good(bits, memory.pieces)'
    BY <1>2 DEF Sound, Good, BadBits, ByteLen, Spare
  <1> QED BY <1>1, <1>3 DEF RecordInv

LEMMA InvMeans ==
    ASSUME RecordInv
    PROVE  /\ Sound(memory) /\ memory \in RecordType
           /\ bits \in Seq(Byte) /\ Good(bits, memory.pieces)
  BY DEF RecordInv, Sound, Good

LEMMA HaveKeeps == ASSUME RecordInv, HaveTaken PROVE RecordInv'
  <1>1. memory' = [memory EXCEPT !.have = bits] /\ UNCHANGED <<bits, file>>
    BY DEF HaveTaken
  <1>2. memory' \in RecordType
    BY <1>1, InvMeans DEF RecordType
  <1>3. /\ memory'.hash = memory.hash /\ memory'.pieces = memory.pieces /\ memory'.have = bits /\ memory'.verified = memory.verified
        /\ memory'.priorities = memory.priorities
    BY <1>1, InvMeans DEF RecordType
  <1>4. Sound(memory')
    BY <1>2, <1>3, InvMeans DEF Sound
  <1> QED BY <1>1, <1>3, <1>4, RecordKeeps

LEMMA VerifiedKeeps == ASSUME RecordInv, VerifiedTaken PROVE RecordInv'
  <1>1. memory' = [memory EXCEPT !.verified = bits] /\ UNCHANGED <<bits, file>>
    BY DEF VerifiedTaken
  <1>2. memory' \in RecordType
    BY <1>1, InvMeans DEF RecordType
  <1>3. /\ memory'.hash = memory.hash /\ memory'.pieces = memory.pieces /\ memory'.verified = bits /\ memory'.have = memory.have
        /\ memory'.priorities = memory.priorities
    BY <1>1, InvMeans DEF RecordType
  <1>4. Sound(memory')
    BY <1>2, <1>3, InvMeans DEF Sound
  <1> QED BY <1>1, <1>3, <1>4, RecordKeeps

LEMMA CountedKeeps == ASSUME RecordInv, NEW n \in Nat, Counted(n) PROVE RecordInv'
  <1> DEFINE u == Min({CountTop, memory.uploaded + n})
             a == Min({CountTop, memory.added + n})
  <1>1. memory' = [memory EXCEPT !.uploaded = u, !.added = a] /\ UNCHANGED <<bits, file>>
    BY DEF Counted
  <1>2. memory.uploaded \in Nat /\ memory.added \in Nat
    BY InvMeans DEF RecordType
  <1>3. u \in Nat /\ a \in Nat
    <2>1. ASSUME NEW x \in Nat PROVE Min({CountTop, x + n}) \in Nat
      <3>1. x + n \in Nat /\ CountTop \in Nat
        BY RecordsAssumption
      <3> QED BY <3>1, LesserOf
    <2> QED BY <1>2, <2>1
  <1> HIDE DEF u, a
  <1>4. memory' \in RecordType
    BY <1>1, <1>3, InvMeans DEF RecordType
  <1>5. /\ memory'.hash = memory.hash /\ memory'.pieces = memory.pieces /\ memory'.verified = memory.verified
        /\ memory'.have = memory.have /\ memory'.priorities = memory.priorities
    BY <1>1, InvMeans DEF RecordType
  <1>6. Sound(memory')
    BY <1>4, <1>5, InvMeans DEF Sound
  <1> QED BY <1>1, <1>5, <1>6, RecordKeeps

LEMMA PausedKeeps == ASSUME RecordInv, NEW why \in {0, 1}, PausedFor(why) PROVE RecordInv'
  <1> DEFINE p == ~memory.paused
  <1>1. memory' = [memory EXCEPT !.paused = p, !.reason = why] /\ UNCHANGED <<bits, file>>
    BY DEF PausedFor
  <1>2. p \in BOOLEAN /\ why \in Int
    OBVIOUS
  <1> HIDE DEF p
  <1>4. memory' \in RecordType
    BY <1>1, <1>2, InvMeans DEF RecordType
  <1>5. /\ memory'.hash = memory.hash /\ memory'.pieces = memory.pieces /\ memory'.verified = memory.verified
        /\ memory'.have = memory.have /\ memory'.priorities = memory.priorities
    BY <1>1, InvMeans DEF RecordType
  <1>6. Sound(memory')
    BY <1>4, <1>5, InvMeans DEF Sound
  <1> QED BY <1>1, <1>5, <1>6, RecordKeeps

\* The bit set, the file or the whole record changes.
LEMMA BitsKeep ==
    ASSUME RecordInv, UNCHANGED <<memory, file>>, Good(bits', memory.pieces)
    PROVE  RecordInv'
  <1>1. FileTyped' /\ Sound(memory)'
    BY DEF RecordInv, FileTyped, Sound, Good, BadBits, ByteLen, Spare
  <1>2. Good(bits, memory.pieces)'
    BY DEF Good, BadBits, ByteLen, Spare
  <1> QED BY <1>1, <1>2 DEF RecordInv

LEMMA TamperedKeeps == ASSUME RecordInv, Tampered PROVE RecordInv'
  <1> DEFINE n == memory.pieces
  <1>1. n \in Nat \ {0} /\ FileTyped
    BY DEF RecordInv, Sound, RecordType
  <1>2. memory' = Fresh(n) /\ bits' = EmptyBits(n)
    BY DEF Tampered
  <1>3. Sound(memory') /\ memory'.pieces = n /\ Good(bits', n)
    BY <1>1, <1>2, FreshSound, FullIsGood
  <1>4. Sound(memory)' /\ Good(bits, memory.pieces)'
    BY <1>3 DEF Sound, Good, BadBits, ByteLen, Spare
  <1>5. ASSUME NEW i \in {-1, 1, Version + 1, 0}
        PROVE  \A key : ValueOK(key, IntValue(i))
    <2>1. i \in Int /\ i <= IntTop
      BY RecordsAssumption
    <2>2. IntValue(i).kind = "int" /\ IntValue(i).int = i
      BY DEF IntValue
    <2> QED BY <2>1, <2>2 DEF ValueOK
  <1>6. ASSUME NEW b \in {{}, {0}, AllSet}
        PROVE  \A key : ValueOK(key, BytesValue(<<b>>))
    <2>1. BytesValue(<<b>>).kind = "bytes" /\ BytesValue(<<b>>).bytes = <<b>> /\ <<b>> \in Seq(Byte)
      <3>1. b \in Byte
        BY BitsType DEF Byte, AllSet
      <3> QED BY <3>1 DEF BytesValue
    <2> QED BY <2>1 DEF ValueOK
  <1>7. ASSUME \A k \in DOMAIN file' : ValueOK(k, file'[k]) PROVE RecordInv'
    BY <1>4, <1>7 DEF RecordInv, FileTyped, ValueOK
  <1>8. \A k \in DOMAIN file : ValueOK(k, file[k])
    BY <1>1 DEF FileTyped
  <1>9. CASE \E key \in DOMAIN file : file' = [k \in DOMAIN file \ {key} |-> file[k]]
    <2>1. \A k \in DOMAIN file' : k \in DOMAIN file /\ file'[k] = file[k]
      BY <1>9
    <2> QED BY <1>7, <1>8, <2>1
  <1>10. CASE \E key \in {"trackers", "unknown"} : file' = WithKey(file, key)
    <2>1. \A k \in DOMAIN file' : file'[k] = ListValue \/ (k \in DOMAIN file /\ file'[k] = file[k])
      BY <1>10 DEF WithKey
    <2>2. \A k : ValueOK(k, ListValue)
      BY DEF ValueOK, ListValue
    <2> QED BY <1>7, <1>8, <2>1, <2>2
  <1>11. CASE \E key \in DOMAIN file :
                file' \in {[file EXCEPT ![key] = IntValue(i)] : i \in {-1, 1, Version + 1}}
                     \cup {[file EXCEPT ![key] = BytesValue(<<b>>)] : b \in {{}, {0}, AllSet}}
    <2>1. PICK key \in DOMAIN file :
                \/ \E i \in {-1, 1, Version + 1} : file' = [file EXCEPT ![key] = IntValue(i)]
                \/ \E b \in {{}, {0}, AllSet} : file' = [file EXCEPT ![key] = BytesValue(<<b>>)]
      BY <1>11
    <2>2. ASSUME NEW v, \A k : ValueOK(k, v), file' = [file EXCEPT ![key] = v] PROVE RecordInv'
      <3>1. \A k \in DOMAIN file' : k \in DOMAIN file /\ file'[k] \in {v, file[k]}
        BY <2>2
      <3> QED BY <1>7, <1>8, <2>2, <3>1
    <2> QED BY <1>5, <1>6, <2>1, <2>2
  <1> QED BY <1>9, <1>10, <1>11 DEF Tampered

LEMMA RecordInvStep == RecordInv /\ [RecordsNext]_recordVars => RecordInv'
  <1> SUFFICES ASSUME RecordInv, [RecordsNext]_recordVars PROVE RecordInv'
    OBVIOUS
  <1> DEFINE n == memory.pieces
  <1>1. n \in Nat \ {0} /\ Good(bits, n) /\ bits \in Seq(Byte) /\ Sound(memory)
    BY DEF RecordInv, Sound, RecordType, Good
  <1>2. ASSUME NEW i \in 0 .. memory.pieces, PieceHeld(i) PROVE RecordInv'
    <2>1. i \in Nat
      BY <1>1
    <2>2. Good(bits', n)
      BY <1>1, <1>2, <2>1, SetKeeps DEF PieceHeld
    <2> QED BY <1>2, <2>2, BitsKeep DEF PieceHeld
  <1>3. ASSUME NEW i \in 0 .. memory.pieces, PieceLost(i) PROVE RecordInv'
    <2>1. i \in Nat
      BY <1>1
    <2>2. Good(bits', n)
      BY <1>1, <1>3, <2>1, SetKeeps DEF PieceLost
    <2> QED BY <1>3, <2>2, BitsKeep DEF PieceLost
  <1>4. CASE AllThere
    <2>1. Good(bits', n)
      BY <1>1, <1>4, FullIsGood DEF AllThere
    <2> QED BY <1>4, <2>1, BitsKeep DEF AllThere
  <1>5. CASE HaveTaken
    BY <1>5, HaveKeeps
  <1>6. CASE VerifiedTaken
    BY <1>6, VerifiedKeeps
  <1>7. ASSUME NEW m \in {1, IntTop}, Counted(m) PROVE RecordInv'
    <2>1. m \in Nat
      BY RecordsAssumption
    <2> QED BY <1>7, <2>1, CountedKeeps
  <1>8. ASSUME NEW why \in {0, 1}, PausedFor(why) PROVE RecordInv'
    BY <1>8, PausedKeeps
  <1>9. CASE SaveRecord
    <2>1. Sound(memory)' /\ Good(bits, memory.pieces)'
      BY <1>1, <1>9 DEF SaveRecord, Sound, Good, BadBits, ByteLen, Spare
    <2>2. FileTyped'
      BY <1>1, <1>9, EncodedTyped DEF SaveRecord, FileTyped
    <2> QED BY <2>1, <2>2 DEF RecordInv
  <1>10. CASE Tampered
    BY <1>10, TamperedKeeps
  <1>11. CASE UNCHANGED recordVars
    <2>1. UNCHANGED <<memory, file>> /\ Good(bits', n)
      BY <1>1, <1>11 DEF recordVars
    <2> QED BY <2>1, BitsKeep
  <1> QED BY <1>2, <1>3, <1>4, <1>5, <1>6, <1>7, <1>8, <1>9, <1>10, <1>11 DEF RecordsNext

-----------------------------------------------------------------------------
(* What the invariant gives *)

LEMMA BitsExactHolds == RecordInv => BitsExact
  <1> SUFFICES ASSUME RecordInv PROVE BitsExact
    OBVIOUS
  <1>1. memory.pieces \in Nat \ {0} /\ bits \in Seq(Byte) /\ Good(bits, memory.pieces)
    BY InvMeans DEF RecordType
  <1>2. ~BadBits(bits, memory.pieces)
    BY <1>1 DEF Good
  <1> QED BY <1>1, <1>2, CountIs DEF BitsExact

LEMMA SurvivesHolds == RecordInv => RecordSurvives
  <1> SUFFICES ASSUME RecordInv PROVE RecordSurvives
    OBVIOUS
  <1> DEFINE m == memory
             inside == PiecesOf(m.verified, m.pieces) \subseteq PiecesOf(m.have, m.pieces)
  <1>1. Sound(m) /\ m \in RecordType
    BY InvMeans
  <1>2. m.pieces \in Nat \ {0} /\ m.have \in Seq(Byte) /\ m.verified \in Seq(Byte)
    BY <1>1 DEF RecordType
  <1>3. ~Exceeds(m.verified, m.have) <=> inside
    BY <1>1, <1>2, Within DEF Sound
  <1>4. DecodeRecord(EncodeRecord(m)) = IF Exceeds(m.verified, m.have) THEN {} ELSE {Clamped(m)}
    BY <1>1, RoundTrip
  <1>6. Readable(WithKey(EncodeRecord(m), "trackers"))
    <2> DEFINE f == EncodeRecord(m)
               g == WithKey(f, "trackers")
    <2>1. Readable(f) /\ DOMAIN f = Written /\ "trackers" \notin Written
      BY EncodedFields, EncodedRead DEF Written, Optional
    <2>2. DOMAIN g = DOMAIN f \cup {"trackers"} /\ \A k \in DOMAIN f : g[k] = f[k]
      BY <2>1 DEF WithKey
    <2> HIDE DEF f, g
    <2>3. "version" \in DOMAIN f /\ "version" \in DOMAIN g /\ g["version"] = f["version"]
      BY <2>1, <2>2 DEF Written
    <2>4. IntUnder(g, "version") = IntUnder(f, "version")
      BY <2>3 DEF IntUnder
    <2>5. DOMAIN g \subseteq Keys
      BY <2>1, <2>2 DEF Keys
    <2>6. Readable(g)
      BY <2>1, <2>4, <2>5 DEF Readable
    <2> QED BY <2>6 DEF f, g
  <1>5. Clamped(m) = [m EXCEPT !.uploaded = Min({@, IntTop}), !.added = Min({@, IntTop})]
    BY DEF Clamped, ToInt
  <1> QED BY <1>3, <1>4, <1>5, <1>6 DEF RecordSurvives

\* An integer that is read is one of the file's.
LEMMA ReadInt ==
    ASSUME FileTyped, NEW key
    PROVE  /\ \A n \in IntUnder(file, key) : n \in Int /\ (key \in {"uploaded", "added"} => n <= IntTop)
           /\ OptionalInt(file, key) \in Int
           /\ key \in {"uploaded", "added"} => OptionalInt(file, key) <= IntTop
           /\ \A b \in BytesUnder(file, key) : b \in Seq(Byte)
  <1>1. ASSUME NEW n \in IntUnder(file, key)
        PROVE  n \in Int /\ (key \in {"uploaded", "added"} => n <= IntTop)
    <2>1. key \in DOMAIN file /\ file[key].kind = "int" /\ n = file[key].int
      BY DEF IntUnder
    <2> QED BY <2>1 DEF FileTyped, ValueOK
  <1>2. ASSUME NEW b \in BytesUnder(file, key) PROVE b \in Seq(Byte)
    <2>1. key \in DOMAIN file /\ file[key].kind = "bytes" /\ b = file[key].bytes
      BY DEF BytesUnder
    <2> QED BY <2>1 DEF FileTyped, ValueOK
  <1>3. CASE IntUnder(file, key) = {}
    <2>1. OptionalInt(file, key) = 0
      BY <1>3 DEF OptionalInt
    <2> QED BY <1>1, <1>2, <2>1, RecordsAssumption
  <1>4. CASE IntUnder(file, key) # {}
    <2>1. OptionalInt(file, key) \in IntUnder(file, key)
      BY <1>4 DEF OptionalInt
    <2> QED BY <1>1, <1>2, <2>1
  <1> QED BY <1>3, <1>4

LEMMA DecodedTyped ==
    ASSUME FileTyped, NEW r \in DecodeRecord(file)
    PROVE  Sound(r) /\ ~Exceeds(r.verified, r.have) /\ r.uploaded <= IntTop /\ r.added <= IntTop
  <1> DEFINE Fields == [hash : BytesUnder(file, "info_hash"),
                        pieces : IntUnder(file, "num_pieces"), have : BytesUnder(file, "have"),
                        verified : BytesUnder(file, "verified"), priorities : BytesUnder(file, "priorities"),
                        uploaded : IntUnder(file, "uploaded"),
                        paused : {OptionalInt(file, "paused") # 0},
                        added : {Unsigned(OptionalInt(file, "added"))},
                        reason : {OptionalInt(file, "pause_reason")}]
  <1>1. /\ r \in Fields /\ Len(r.hash) = InfoHashLen
        /\ r.pieces >= 1 /\ ~BadBits(r.have, r.pieces) /\ ~BadBits(r.verified, r.pieces)
        /\ ~Exceeds(r.verified, r.have)
        /\ \A i \in DOMAIN r.priorities : r.priorities[i] \in Priorities
        /\ r.uploaded >= 0
    BY DEF DecodeRecord
  <1>2. r.pieces \in Int /\ r.uploaded \in Int /\ r.uploaded <= IntTop /\ r.reason \in Int
    BY <1>1, ReadInt
  <1>3. r.pieces \in Nat \ {0} /\ r.uploaded \in Nat
    BY <1>1, <1>2
  <1>4. r.have \in Seq(Byte) /\ r.verified \in Seq(Byte) /\ r.priorities \in Seq(Byte) /\ r.hash \in Seq(Byte)
    BY <1>1, ReadInt
  <1>5. r.paused \in BOOLEAN
    <2>1. r.paused = (OptionalInt(file, "paused") # 0)
      BY <1>1
    <2> QED BY <2>1
  <1>6. r.added \in Nat /\ r.added <= IntTop
    <2> DEFINE x == OptionalInt(file, "added")
    <2>1. r.added = Unsigned(x)
      BY <1>1
    <2>2. x \in Int /\ x <= IntTop
      BY ReadInt
    <2> HIDE DEF x
    <2> QED BY <2>1, <2>2, RecordsAssumption DEF Unsigned
  <1>7. r \in RecordType
    <2> DEFINE D == {"hash", "pieces", "have", "verified", "priorities", "uploaded", "paused", "added", "reason"}
    <2>1. DOMAIN r = D /\ r = [x \in D |-> r[x]]
      BY <1>1
    <2> HIDE DEF Fields
    <2>2. r = [hash |-> r.hash, pieces |-> r.pieces, have |-> r.have, verified |-> r.verified, priorities |-> r.priorities,
               uploaded |-> r.uploaded, paused |-> r.paused, added |-> r.added, reason |-> r.reason]
      BY <2>1
    <2> QED BY <1>2, <1>3, <1>4, <1>5, <1>6, <2>2 DEF RecordType
  <1> HIDE DEF Fields
  <1>8. Sound(r)
    BY <1>1, <1>4, <1>7 DEF Sound, Good
  <1> QED BY <1>1, <1>2, <1>6, <1>8

LEMMA SoundHolds == RecordInv => ReadIsSound
  <1> SUFFICES ASSUME RecordInv, NEW r \in DecodeRecord(file)
               PROVE  /\ CountBits(r.have) = Cardinality(PiecesOf(r.have, r.pieces))
                      /\ PiecesOf(r.verified, r.pieces) \subseteq PiecesOf(r.have, r.pieces)
                      /\ DecodeRecord(EncodeRecord(r)) = {r}
    BY DEF ReadIsSound
  <1>1. Sound(r) /\ ~Exceeds(r.verified, r.have) /\ r.uploaded <= IntTop /\ r.added <= IntTop
    BY DecodedTyped DEF RecordInv
  <1>2. /\ r \in RecordType /\ r.pieces \in Nat \ {0} /\ r.have \in Seq(Byte) /\ r.verified \in Seq(Byte)
        /\ r.uploaded \in Nat /\ r.added \in Nat
    BY <1>1 DEF Sound, RecordType
  <1>3. CountBits(r.have) = Cardinality(PiecesOf(r.have, r.pieces))
    BY <1>1, <1>2, CountIs DEF Sound
  <1>4. PiecesOf(r.verified, r.pieces) \subseteq PiecesOf(r.have, r.pieces)
    BY <1>1, <1>2, Within DEF Sound
  <1>5. ToInt(r.uploaded) = r.uploaded /\ ToInt(r.added) = r.added
    BY <1>1, <1>2, ToIntTyped
  <1>6. Clamped(r) = r
    <2>1. Clamped(r) = [r EXCEPT !.uploaded = r.uploaded, !.added = r.added]
      BY <1>5 DEF Clamped
    <2> QED BY <1>2, <2>1 DEF RecordType
  <1>7. DecodeRecord(EncodeRecord(r)) = {r}
    BY <1>1, <1>6, RoundTrip
  <1> QED BY <1>3, <1>4, <1>7

\* The record on disk says what it was meant to (Resume::encode and decode,
\* Bitfield): for every width of a byte, every number of pieces and every
\* width of a counter, a bit set counts its pieces, what is saved is read back
\* but for a clamped counter, and what a damaged file is read as is a record
\* the program could have written.
THEOREM RecordsAlwaysExact == RecordsSpec => []RecordsExact
  <1>1. RecordInv => RecordsExact
    BY BitsExactHolds, SurvivesHolds, SoundHolds DEF RecordsExact
  <1>2. RecordsSpec => []RecordInv
    BY RecordInvInit, RecordInvStep, PTL DEF RecordsSpec
  <1> QED BY <1>1, <1>2, PTL

-----------------------------------------------------------------------------
(* Numbers *)

LEMMA Widths ==
    /\ Word \in Nat /\ Word > 0 /\ HashBytes \in Nat /\ HashBytes > 0 /\ BlockLen \in Nat /\ BlockLen > 0
    /\ MaxMessageLen \in Nat /\ MaxMessageLen > 0 /\ MetadataPieceLen \in Nat /\ FrameSlack \in Nat
    /\ 1 + 3 * Word <= FrameSlack /\ 1 + 3 * Word + BlockLen <= MaxMessageLen
  BY WireAssumption

LEMMA Octets == \A x : x \in Octet <=> x \in Nat /\ x <= 255
  BY DEF Octet

\* The shifts of a number, each the one before divided by 256.
Shifts(n, f) == f \in [0 .. Word -> Nat] /\ f[0] = n /\ \A i \in 1 .. Word : f[i] = f[i - 1] \div 256

LEMMA ShiftsExist == ASSUME NEW n \in Nat PROVE \E f : Shifts(n, f)
  <1> DEFINE step == [i \in 1 .. Word |-> [x \in Nat |-> x \div 256]]
  <1>0. step \in [1 .. Word -> [Nat -> Nat]]
    OBVIOUS
  <1>1. \A i \in 1 .. Word : \A x \in Nat : step[i][x] = x \div 256
    OBVIOUS
  <1> HIDE DEF step
  <1>2. PICK f \in [0 .. Word -> Nat] : f[0] = n /\ \A i \in 1 .. Word : f[i] = step[i][f[i - 1]]
    <2>1. Word \in Nat
      BY Widths
    <2> QED BY <1>0, <2>1, Recursion
  <1>3. ASSUME NEW i \in 1 .. Word PROVE f[i] = f[i - 1] \div 256
    <2>1. f[i - 1] \in Nat
      BY <1>2, Widths
    <2>2. f[i] = step[i][f[i - 1]]
      BY <1>2
    <2> QED BY <1>1, <2>1, <2>2
  <1> QED BY <1>2, <1>3 DEF Shifts

LEMMA ShiftsOnly ==
    ASSUME NEW n \in Nat, NEW f, NEW g, Shifts(n, f), NEW k \in 0 .. Word,
           g = [i \in 0 .. Word |-> IF i = 0 THEN n ELSE g[i - 1] \div 256]
    PROVE  g[k] = f[k]
  <1> DEFINE T == {j \in 0 .. Word : g[j] # f[j]}
  <1>1. SUFFICES ASSUME T # {} PROVE FALSE
    OBVIOUS
  <1>2. T \in SUBSET Nat
    BY Widths
  <1>3. PICK j \in T : \A i \in T : j <= i
    BY <1>1, <1>2, LeastElement
  <1>4. g[0] = n /\ f[0] = n
    BY Widths DEF Shifts
  <1>5. j \in 1 .. Word /\ j - 1 \in 0 .. Word /\ ~(j <= j - 1) /\ g[j] # f[j] /\ j \in 0 .. Word /\ j # 0
    BY <1>3, <1>4, Widths
  <1>6. g[j - 1] = f[j - 1]
    BY <1>3, <1>5
  <1>7. g[j] = g[j - 1] \div 256
    BY <1>5
  <1> QED BY <1>5, <1>6, <1>7 DEF Shifts

\* U32, place by place.
LEMMA U32Is ==
    ASSUME NEW n \in Nat, NEW f, Shifts(n, f)
    PROVE  U32(n) = [k \in 1 .. Word |-> f[Word - k] % 256]
  <1> DEFINE S == CHOOSE g : g = [i \in 0 .. Word |-> IF i = 0 THEN n ELSE g[i - 1] \div 256]
  <1>1. f = [i \in 0 .. Word |-> IF i = 0 THEN n ELSE f[i - 1] \div 256]
    <2>1. \A i \in 0 .. Word : f[i] = IF i = 0 THEN n ELSE f[i - 1] \div 256
      BY Widths DEF Shifts
    <2> QED BY <2>1 DEF Shifts
  <1>2. S = [i \in 0 .. Word |-> IF i = 0 THEN n ELSE S[i - 1] \div 256]
    BY <1>1
  <1>3. U32(n) = [k \in 1 .. Word |-> S[Word - k] % 256]
    BY DEF U32
  <1> HIDE DEF S
  <1>4. \A k \in 1 .. Word : S[Word - k] = f[Word - k]
    <2>1. \A k \in 1 .. Word : Word - k \in 0 .. Word
      BY Widths
    <2>2. \A k \in 0 .. Word : S[k] = f[k]
      BY <1>2, ShiftsOnly, Widths
    <2> QED BY <2>1, <2>2
  <1> QED BY <1>3, <1>4

\* The values of the leading bytes of a u32.
Values(b, v) == v \in [0 .. Word -> Nat] /\ v[0] = 0 /\ \A i \in 1 .. Word : v[i] = 256 * v[i - 1] + b[i]

LEMMA ValuesExist == ASSUME NEW b \in [1 .. Word -> Octet] PROVE \E v : Values(b, v)
  <1> DEFINE step == [i \in 1 .. Word |-> [x \in Nat |-> 256 * x + b[i]]]
  <1>0. step \in [1 .. Word -> [Nat -> Nat]]
    <2>1. \A i \in 1 .. Word : b[i] \in Nat
      BY Widths, Octets
    <2> QED BY <2>1, Widths
  <1>1. \A i \in 1 .. Word : \A x \in Nat : step[i][x] = 256 * x + b[i]
    OBVIOUS
  <1> HIDE DEF step
  <1>2. PICK f \in [0 .. Word -> Nat] : f[0] = 0 /\ \A i \in 1 .. Word : f[i] = step[i][f[i - 1]]
    <2>1. Word \in Nat
      BY Widths
    <2> QED BY <1>0, <2>1, Recursion
  <1>3. ASSUME NEW i \in 1 .. Word PROVE f[i] = 256 * f[i - 1] + b[i]
    <2>1. f[i - 1] \in Nat
      BY <1>2, Widths
    <2>2. f[i] = step[i][f[i - 1]]
      BY <1>2
    <2> QED BY <1>1, <2>1, <2>2
  <1> QED BY <1>2, <1>3 DEF Values

LEMMA ValuesOnly ==
    ASSUME NEW b \in [1 .. Word -> Octet], NEW v, NEW g, Values(b, v), NEW k \in 0 .. Word,
           g = [i \in 0 .. Word |-> IF i = 0 THEN 0 ELSE 256 * g[i - 1] + b[i]]
    PROVE  g[k] = v[k]
  <1> DEFINE T == {j \in 0 .. Word : g[j] # v[j]}
  <1>1. SUFFICES ASSUME T # {} PROVE FALSE
    OBVIOUS
  <1>2. T \in SUBSET Nat
    BY Widths
  <1>3. PICK j \in T : \A i \in T : j <= i
    BY <1>1, <1>2, LeastElement
  <1>4. g[0] = 0 /\ v[0] = 0
    BY Widths DEF Values
  <1>5. j \in 1 .. Word /\ j - 1 \in 0 .. Word /\ ~(j <= j - 1) /\ g[j] # v[j] /\ j \in 0 .. Word /\ j # 0
    BY <1>3, <1>4, Widths
  <1>6. g[j - 1] = v[j - 1]
    BY <1>3, <1>5
  <1>7. g[j] = 256 * g[j - 1] + b[j]
    BY <1>5
  <1> QED BY <1>5, <1>6, <1>7 DEF Values

LEMMA ReadIs ==
    ASSUME NEW b \in [1 .. Word -> Octet], NEW v, Values(b, v)
    PROVE  ReadU32(b) = v[Word]
  <1> DEFINE S == CHOOSE g : g = [i \in 0 .. Word |-> IF i = 0 THEN 0 ELSE 256 * g[i - 1] + b[i]]
  <1>1. v = [i \in 0 .. Word |-> IF i = 0 THEN 0 ELSE 256 * v[i - 1] + b[i]]
    <2>1. \A i \in 0 .. Word : v[i] = IF i = 0 THEN 0 ELSE 256 * v[i - 1] + b[i]
      BY Widths DEF Values
    <2> QED BY <2>1 DEF Values
  <1>2. S = [i \in 0 .. Word |-> IF i = 0 THEN 0 ELSE 256 * S[i - 1] + b[i]]
    BY <1>1, ZenonT(60)
  <1>3. ReadU32(b) = S[Word]
    BY DEF ReadU32
  <1> HIDE DEF S
  <1>4. Word \in 0 .. Word
    BY Widths
  <1> QED BY <1>2, <1>3, <1>4, ValuesOnly

\* The powers of 256, and what a number below one of them shifts to.
LEMMA Powers == Power \in [0 .. Word -> Nat] /\ Power[0] = 1 /\ \A i \in 1 .. Word : Power[i] = 256 * Power[i - 1]
  <1> DEFINE step == [i \in 1 .. Word |-> [x \in Nat |-> 256 * x]]
  <1>0. step \in [1 .. Word -> [Nat -> Nat]]
    OBVIOUS
  <1>1. \A i \in 1 .. Word : \A x \in Nat : step[i][x] = 256 * x
    OBVIOUS
  <1> HIDE DEF step
  <1>2. PICK f \in [0 .. Word -> Nat] : f[0] = 1 /\ \A i \in 1 .. Word : f[i] = step[i][f[i - 1]]
    <2>1. Word \in Nat
      BY Widths
    <2> DEFINE c == 1
    <2>2. c \in Nat
      OBVIOUS
    <2>3. \E f \in [0 .. Word -> Nat] : f[0] = c /\ \A i \in 1 .. Word : f[i] = step[i][f[i - 1]]
      <3> HIDE DEF c
      <3> QED BY <1>0, <2>1, <2>2, Recursion
    <2> QED BY <2>3
  <1>3. ASSUME NEW i \in 1 .. Word PROVE f[i] = 256 * f[i - 1]
    <2>1. f[i - 1] \in Nat
      BY <1>2, Widths
    <2>2. f[i] = step[i][f[i - 1]]
      BY <1>2
    <2> QED BY <1>1, <2>1, <2>2, ZenonT(60)
  <1>4. f = [i \in 0 .. Word |-> IF i = 0 THEN 1 ELSE 256 * f[i - 1]]
    <2>1. \A i \in 0 .. Word : f[i] = IF i = 0 THEN 1 ELSE 256 * f[i - 1]
      BY <1>2, <1>3, Widths
    <2> QED BY <1>2, <2>1
  <1>5. Power = [i \in 0 .. Word |-> IF i = 0 THEN 1 ELSE 256 * Power[i - 1]]
    BY <1>4, ZenonT(60) DEF Power
  <1>6. Power[0] = 1 /\ \A i \in 1 .. Word : Power[i] = 256 * Power[i - 1]
    BY <1>5, Widths
  <1>7. ASSUME NEW k \in 0 .. Word PROVE Power[k] = f[k]
    <2> DEFINE T == {j \in 0 .. Word : Power[j] # f[j]}
    <2>1. SUFFICES ASSUME T # {} PROVE FALSE
      OBVIOUS
    <2>2. T \in SUBSET Nat
      BY Widths
    <2>3. PICK j \in T : \A i \in T : j <= i
      BY <2>1, <2>2, LeastElement
    <2>4. j \in 1 .. Word /\ j - 1 \in 0 .. Word /\ ~(j <= j - 1) /\ Power[j] # f[j]
      BY <1>2, <1>6, <2>3, Widths
    <2>5. Power[j - 1] = f[j - 1]
      BY <2>3, <2>4
    <2> QED BY <1>3, <1>6, <2>4, <2>5
  <1>8. Power = f
    BY <1>2, <1>5, <1>7
  <1> QED BY <1>2, <1>6, <1>8

LEMMA Mod256 == \A x \in Nat : x % 256 \in Octet /\ x \div 256 \in Nat /\ 256 * (x \div 256) + (x % 256) = x
  BY Octets

LEMMA Split256 == \A x, y \in Nat : y <= 255 => (256 * x + y) \div 256 = x /\ (256 * x + y) % 256 = y
  OBVIOUS

LEMMA U32Typed ==
    ASSUME NEW n \in Nat
    PROVE  U32(n) \in [1 .. Word -> Octet] /\ U32(n) \in Seq(Octet) /\ Len(U32(n)) = Word
  <1>1. PICK f : Shifts(n, f)
    BY ShiftsExist
  <1>2. U32(n) = [k \in 1 .. Word |-> f[Word - k] % 256]
    BY <1>1, U32Is
  <1>3. ASSUME NEW k \in 1 .. Word PROVE f[Word - k] % 256 \in Octet
    <2>1. Word - k \in 0 .. Word
      BY Widths
    <2>2. f[Word - k] \in Nat
      BY <1>1, <2>1 DEF Shifts
    <2> QED BY <2>2, Mod256
  <1>4. U32(n) \in [1 .. Word -> Octet]
    BY <1>2, <1>3
  <1> QED BY <1>4, Widths

\* A number below the power of Word is shifted away.
LEMMA ShiftsBelow ==
    ASSUME NEW n \in Nat, n < Power[Word], NEW f, Shifts(n, f), NEW k \in 0 .. Word
    PROVE  f[k] < Power[Word - k]
  <1> DEFINE T == {j \in 0 .. Word : ~(f[j] < Power[Word - j])}
  <1>1. SUFFICES ASSUME T # {} PROVE FALSE
    OBVIOUS
  <1>2. T \in SUBSET Nat
    BY Widths
  <1>3. PICK j \in T : \A i \in T : j <= i
    BY <1>1, <1>2, LeastElement
  <1>4. j \in 0 .. Word /\ ~(f[j] < Power[Word - j])
    BY <1>3
  <1>5. j # 0
    BY <1>4, Widths DEF Shifts
  <1>6. j - 1 \in 0 .. Word /\ ~(j <= j - 1) /\ j \in 1 .. Word
    BY <1>4, <1>5, Widths
  <1>7. f[j - 1] < Power[Word - (j - 1)]
    BY <1>3, <1>6
  <1> DEFINE m == Word - j
  <1>8. m \in 0 .. Word /\ m + 1 \in 1 .. Word /\ Word - (j - 1) = m + 1 /\ (m + 1) - 1 = m
    BY <1>6, Widths
  <1>9. Power[m + 1] = 256 * Power[m] /\ Power[m] \in Nat
    BY <1>8, Powers
  <1>10. f[j] = f[j - 1] \div 256 /\ f[j - 1] \in Nat
    BY <1>6 DEF Shifts
  <1>11. f[j - 1] < 256 * Power[m] /\ ~(f[j] < Power[m])
    BY <1>4, <1>7, <1>8, <1>9
  <1> HIDE DEF m
  <1> QED BY <1>9, <1>10, <1>11

\* Reading undoes writing.
LEMMA ReadBack == ASSUME NEW n \in Nat, n < Power[Word] PROVE ReadU32(U32(n)) = n
  <1>1. PICK f : Shifts(n, f)
    BY ShiftsExist
  <1> DEFINE b == U32(n)
  <1>2. b \in [1 .. Word -> Octet]
    BY U32Typed
  <1>3. \A k \in 1 .. Word : b[k] = f[Word - k] % 256
    <2>1. b = [k \in 1 .. Word |-> f[Word - k] % 256]
      BY <1>1, U32Is
    <2> QED BY <2>1
  <1> HIDE DEF b
  <1>4. PICK v : Values(b, v)
    BY <1>2, ValuesExist
  <1>5. ASSUME NEW k \in 0 .. Word PROVE v[k] = f[Word - k]
    <2> DEFINE T == {j \in 0 .. Word : v[j] # f[Word - j]}
    <2>1. SUFFICES ASSUME T # {} PROVE FALSE
      OBVIOUS
    <2>2. T \in SUBSET Nat
      BY Widths
    <2>3. PICK j \in T : \A i \in T : j <= i
      BY <2>1, <2>2, LeastElement
    <2>4. j \in 0 .. Word /\ v[j] # f[Word - j]
      BY <2>3
    <2>5. v[0] = 0 /\ f[Word] = 0
      <3>1. Word \in 0 .. Word /\ Word - Word = 0
        BY Widths
      <3>2. f[Word] < Power[0] /\ f[Word] \in Nat
        BY <1>1, <3>1, ShiftsBelow, ZenonT(60) DEF Shifts
      <3> QED BY <1>4, <3>2, Powers DEF Values
    <2>6. j # 0
      BY <2>4, <2>5, Widths
    <2>7. j - 1 \in 0 .. Word /\ ~(j <= j - 1) /\ j \in 1 .. Word
      BY <2>4, <2>6, Widths
    <2>8. v[j - 1] = f[Word - (j - 1)]
      BY <2>3, <2>7
    <2> DEFINE m == Word - j
    <2>9. m \in 0 .. Word /\ m + 1 \in 1 .. Word /\ Word - (j - 1) = m + 1 /\ (m + 1) - 1 = m
      BY <2>7, Widths
    <2>10. f[m + 1] = f[m] \div 256 /\ f[m] \in Nat
      BY <1>1, <2>9 DEF Shifts
    <2>11. v[j] = 256 * v[j - 1] + b[j] /\ b[j] = f[m] % 256
      BY <1>3, <1>4, <2>7 DEF Values
    <2>12. v[j - 1] = f[m] \div 256
      BY <2>8, <2>9, <2>10
    <2>13. v[j] # f[m]
      BY <2>4
    <2> HIDE DEF m
    <2> QED BY <2>10, <2>11, <2>12, <2>13, Mod256
  <1>6. Word \in 0 .. Word /\ Word - Word = 0
    BY Widths
  <1>7. v[Word] = f[0]
    BY <1>5, <1>6
  <1>8. ReadU32(b) = v[Word]
    BY <1>2, <1>4, ReadIs
  <1> QED BY <1>1, <1>7, <1>8 DEF Shifts, b

\* And writing undoes reading.
LEMMA WriteBack ==
    ASSUME NEW b \in [1 .. Word -> Octet]
    PROVE  ReadU32(b) \in Nat /\ U32(ReadU32(b)) = b
  <1>1. PICK v : Values(b, v)
    BY ValuesExist
  <1> DEFINE n == ReadU32(b)
  <1>2. n = v[Word]
    BY <1>1, ReadIs
  <1>3. n \in Nat
    <2>1. Word \in 0 .. Word
      BY Widths
    <2> QED BY <1>1, <1>2, <2>1 DEF Values
  <1> HIDE DEF n
  <1>4. PICK f : Shifts(n, f)
    BY <1>3, ShiftsExist
  <1>5. ASSUME NEW k \in 0 .. Word PROVE f[k] = v[Word - k]
    <2> DEFINE T == {j \in 0 .. Word : f[j] # v[Word - j]}
    <2>1. SUFFICES ASSUME T # {} PROVE FALSE
      OBVIOUS
    <2>2. T \in SUBSET Nat
      BY Widths
    <2>3. PICK j \in T : \A i \in T : j <= i
      BY <2>1, <2>2, LeastElement
    <2>4. j \in 0 .. Word /\ f[j] # v[Word - j]
      BY <2>3
    <2>5. j # 0
      <3>1. Word - 0 = Word
        BY Widths
      <3> QED BY <1>2, <1>4, <2>4, <3>1 DEF Shifts
    <2>6. j - 1 \in 0 .. Word /\ ~(j <= j - 1) /\ j \in 1 .. Word
      BY <2>4, <2>5, Widths
    <2>7. f[j - 1] = v[Word - (j - 1)]
      BY <2>3, <2>6
    <2> DEFINE m == Word - j
    <2>8. m \in 0 .. Word /\ m + 1 \in 1 .. Word /\ Word - (j - 1) = m + 1 /\ (m + 1) - 1 = m
      BY <2>6, Widths
    <2>9. v[m + 1] = 256 * v[m] + b[m + 1] /\ v[m] \in Nat /\ b[m + 1] \in Octet
      BY <1>1, <2>8 DEF Values
    <2>10. f[j] = f[j - 1] \div 256
      BY <1>4, <2>6 DEF Shifts
    <2>11. f[j] = (256 * v[m] + b[m + 1]) \div 256
      BY <2>7, <2>8, <2>9, <2>10
    <2>12. f[j] # v[m]
      BY <2>4
    <2> HIDE DEF m
    <2>13. b[m + 1] \in Nat /\ b[m + 1] <= 255
      BY <2>9, Octets
    <2>14. (256 * v[m] + b[m + 1]) \div 256 = v[m]
      BY <2>9, <2>13, Split256, SMTT(60)
    <2> QED BY <2>11, <2>12, <2>14
  <1>6. ASSUME NEW k \in 1 .. Word PROVE f[Word - k] % 256 = b[k]
    <2>1. Word - k \in 0 .. Word /\ Word - (Word - k) = k
      BY Widths
    <2>2. f[Word - k] = v[k]
      BY <1>5, <2>1
    <2>3. v[k] = 256 * v[k - 1] + b[k] /\ v[k - 1] \in Nat /\ b[k] \in Nat /\ b[k] <= 255
      <3>1. k - 1 \in 0 .. Word
        BY Widths
      <3> QED BY <1>1, <3>1, Octets DEF Values
    <2>4. (256 * v[k - 1] + b[k]) % 256 = b[k]
      BY <2>3, Split256
    <2> QED BY <2>2, <2>3, <2>4
  <1>7. U32(n) = [k \in 1 .. Word |-> f[Word - k] % 256]
    BY <1>3, <1>4, U32Is
  <1>8. U32(n) = b
    BY <1>6, <1>7
  <1> QED BY <1>3, <1>8 DEF n

-----------------------------------------------------------------------------
(* Bytes put together and taken apart *)

LEMMA Joined ==
    ASSUME NEW s \in Seq(Octet), NEW t \in Seq(Octet)
    PROVE  /\ s \o t \in Seq(Octet) /\ Len(s) \in Nat /\ Len(t) \in Nat /\ Len(s \o t) = Len(s) + Len(t)
           /\ \A i \in 1 .. Len(s) : (s \o t)[i] = s[i]
           /\ \A i \in 1 .. Len(t) : (s \o t)[Len(s) + i] = t[i]
  <1>1. s \o t \in Seq(Octet) /\ Len(s) \in Nat /\ Len(t) \in Nat /\ Len(s \o t) = Len(s) + Len(t)
    OBVIOUS
  <1>2. ASSUME NEW i \in 1 .. Len(s) PROVE (s \o t)[i] = s[i]
    BY <1>1
  <1>3. ASSUME NEW i \in 1 .. Len(t) PROVE (s \o t)[Len(s) + i] = t[i]
    BY <1>1
  <1> QED BY <1>1, <1>2, <1>3

LEMMA SameSeq ==
    ASSUME NEW s \in Seq(Octet), NEW t \in Seq(Octet), Len(s) = Len(t), \A i \in 1 .. Len(s) : s[i] = t[i]
    PROVE  s = t
  OBVIOUS

LEMMA Part ==
    ASSUME NEW s \in Seq(Octet), NEW a \in Nat, NEW n \in Nat, a + n <= Len(s)
    PROVE  /\ SubSeq(s, a + 1, a + n) \in Seq(Octet) /\ Len(SubSeq(s, a + 1, a + n)) = n
           /\ \A i \in 1 .. n : SubSeq(s, a + 1, a + n)[i] = s[a + i]
  <1>1. Len(s) \in Nat /\ s \in [1 .. Len(s) -> Octet]
    OBVIOUS
  <1>2. \A i \in a + 1 .. a + n : s[i] \in Octet
    BY <1>1
  <1>3. SubSeq(s, a + 1, a + n) = [i \in 1 .. n |-> s[a + i]]
    <2>1. (a + n) - (a + 1) + 1 = n /\ \A i \in 1 .. n : (a + 1) + i - 1 = a + i
      OBVIOUS
    <2> QED BY <2>1
  <1>4. [i \in 1 .. n |-> s[a + i]] \in [1 .. n -> Octet]
    <2>1. \A i \in 1 .. n : a + i \in a + 1 .. a + n
      OBVIOUS
    <2> QED BY <1>2, <2>1
  <1> QED BY <1>3, <1>4

\* What was put together comes apart.
LEMMA Apart ==
    ASSUME NEW s \in Seq(Octet), NEW t \in Seq(Octet)
    PROVE  SubSeq(s \o t, 1, Len(s)) = s /\ SubSeq(s \o t, Len(s) + 1, Len(s \o t)) = t
  <1> DEFINE w == s \o t
  <1>1. w \in Seq(Octet) /\ Len(s) \in Nat /\ Len(t) \in Nat /\ Len(w) = Len(s) + Len(t)
    BY Joined
  <1>2. \A i \in 1 .. Len(s) : w[i] = s[i]
    BY Joined
  <1>3. \A i \in 1 .. Len(t) : w[Len(s) + i] = t[i]
    BY Joined
  <1> HIDE DEF w
  <1>4. SubSeq(w, 1, Len(s)) = s
    <2>1. 0 + Len(s) <= Len(w) /\ 0 + 1 = 1 /\ 0 + Len(s) = Len(s) /\ \A i \in 1 .. Len(s) : 0 + i = i
      BY <1>1
    <2>2. /\ SubSeq(w, 0 + 1, 0 + Len(s)) \in Seq(Octet) /\ Len(SubSeq(w, 0 + 1, 0 + Len(s))) = Len(s)
          /\ \A i \in 1 .. Len(s) : SubSeq(w, 0 + 1, 0 + Len(s))[i] = w[0 + i]
      BY <1>1, <2>1, Part
    <2> QED BY <1>2, <2>1, <2>2, SameSeq
  <1>5. SubSeq(w, Len(s) + 1, Len(w)) = t
    <2>1. /\ SubSeq(w, Len(s) + 1, Len(s) + Len(t)) \in Seq(Octet)
          /\ Len(SubSeq(w, Len(s) + 1, Len(s) + Len(t))) = Len(t)
          /\ \A i \in 1 .. Len(t) : SubSeq(w, Len(s) + 1, Len(s) + Len(t))[i] = w[Len(s) + i]
      BY <1>1, Part
    <2> QED BY <1>1, <1>3, <2>1, SameSeq
  <1> QED BY <1>4, <1>5 DEF w

\* And what was taken apart goes together.
LEMMA Together ==
    ASSUME NEW w \in Seq(Octet), NEW k \in 0 .. Len(w)
    PROVE  /\ SubSeq(w, 1, k) \in Seq(Octet) /\ Len(SubSeq(w, 1, k)) = k
           /\ SubSeq(w, k + 1, Len(w)) \in Seq(Octet) /\ Len(SubSeq(w, k + 1, Len(w))) = Len(w) - k
           /\ SubSeq(w, 1, k) \o SubSeq(w, k + 1, Len(w)) = w
  <1> DEFINE s == SubSeq(w, 1, k)
             t == SubSeq(w, k + 1, Len(w))
             n == Len(w) - k
  <1>1. Len(w) \in Nat /\ k \in Nat /\ n \in Nat /\ k + n = Len(w) /\ 0 + k <= Len(w) /\ 0 + k = k /\ 0 + 1 = 1
    OBVIOUS
  <1>2. s \in Seq(Octet) /\ Len(s) = k /\ \A i \in 1 .. k : s[i] = w[0 + i]
    <2>1. /\ SubSeq(w, 0 + 1, 0 + k) \in Seq(Octet) /\ Len(SubSeq(w, 0 + 1, 0 + k)) = k
          /\ \A i \in 1 .. k : SubSeq(w, 0 + 1, 0 + k)[i] = w[0 + i]
      BY <1>1, Part
    <2> QED BY <1>1, <2>1
  <1>3. t \in Seq(Octet) /\ Len(t) = n /\ \A i \in 1 .. n : t[i] = w[k + i]
    <2>1. /\ SubSeq(w, k + 1, k + n) \in Seq(Octet) /\ Len(SubSeq(w, k + 1, k + n)) = n
          /\ \A i \in 1 .. n : SubSeq(w, k + 1, k + n)[i] = w[k + i]
      <3> HIDE DEF n
      <3> QED BY <1>1, Part
    <2> QED BY <1>1, <2>1
  <1> HIDE DEF s, t, n
  <1>4. /\ s \o t \in Seq(Octet) /\ Len(s \o t) = Len(w)
        /\ \A i \in 1 .. k : (s \o t)[i] = s[i]
        /\ \A i \in 1 .. n : (s \o t)[k + i] = t[i]
    BY <1>1, <1>2, <1>3, Joined
  <1>5. ASSUME NEW i \in 1 .. Len(w) PROVE (s \o t)[i] = w[i]
    <2>1. CASE i \in 1 .. k
      <3>1. 0 + i = i
        OBVIOUS
      <3> QED BY <1>2, <1>4, <2>1, <3>1
    <2>2. CASE i \notin 1 .. k
      <3>1. i - k \in 1 .. n /\ k + (i - k) = i
        BY <1>1, <2>2
      <3> QED BY <1>3, <1>4, <3>1
    <2> QED BY <2>1, <2>2
  <1>6. s \o t = w
    BY <1>4, <1>5, SameSeq
  <1> QED BY <1>2, <1>3, <1>6 DEF s, t, n

LEMMA Joins ==
    ASSUME NEW s \in Seq(Octet), NEW t \in Seq(Octet), NEW u \in Seq(Octet)
    PROVE  (s \o t) \o u = s \o (t \o u)
  OBVIOUS

Four(s, t, u, v) == s \o t \o u \o v = s \o (t \o (u \o v))

LEMMA JoinsFour ==
    ASSUME NEW s \in Seq(Octet), NEW t \in Seq(Octet), NEW u \in Seq(Octet), NEW v \in Seq(Octet)
    PROVE  Four(s, t, u, v)
  <1>1. u \o v \in Seq(Octet) /\ s \o t \in Seq(Octet)
    OBVIOUS
  <1>2. (s \o t) \o u \o v = (s \o t) \o (u \o v)
    BY <1>1, Joins, ZenonT(60)
  <1>3. (s \o t) \o (u \o v) = s \o (t \o (u \o v))
    BY <1>1, Joins, ZenonT(60)
  <1> QED BY <1>2, <1>3 DEF Four

LEMMA TwoBytes ==
    ASSUME NEW c \in Octet, NEW d \in Octet
    PROVE  <<c>> \in Seq(Octet) /\ <<d>> \in Seq(Octet) /\ <<c, d>> = <<c>> \o <<d>>
  <1>1. <<c>> \in Seq(Octet) /\ <<d>> \in Seq(Octet) /\ Len(<<c>>) = 1 /\ Len(<<d>>) = 1 /\ <<c>>[1] = c /\ <<d>>[1] = d
    OBVIOUS
  <1>2. <<c, d>> \in Seq(Octet) /\ Len(<<c, d>>) = 2 /\ <<c, d>>[1] = c /\ <<c, d>>[2] = d
    OBVIOUS
  <1> DEFINE w == <<c>> \o <<d>>
  <1>3. w \in Seq(Octet) /\ Len(w) = 2 /\ w[1] = c /\ w[2] = d
    <2>1. /\ w \in Seq(Octet) /\ Len(w) = Len(<<c>>) + Len(<<d>>)
          /\ \A i \in 1 .. Len(<<c>>) : w[i] = <<c>>[i]
          /\ \A i \in 1 .. Len(<<d>>) : w[Len(<<c>>) + i] = <<d>>[i]
      BY <1>1, Joined
    <2>2. 1 \in 1 .. Len(<<c>>) /\ 1 \in 1 .. Len(<<d>>) /\ Len(<<c>>) + 1 = 2 /\ Len(<<c>>) + Len(<<d>>) = 2
      BY <1>1
    <2> HIDE DEF w
    <2> QED BY <1>1, <2>1, <2>2
  <1> HIDE DEF w
  <1>4. \A i \in 1 .. 2 : <<c, d>>[i] = w[i]
    <2>1. \A i \in 1 .. 2 : i = 1 \/ i = 2
      OBVIOUS
    <2> QED BY <1>2, <1>3, <2>1
  <1>5. <<c, d>> = w
    BY <1>2, <1>3, <1>4, SameSeq
  <1> QED BY <1>1, <1>5 DEF w

\* A byte before others.
LEMMA Led ==
    ASSUME NEW c \in Octet, NEW s \in Seq(Octet)
    PROVE  /\ <<c>> \in Seq(Octet) /\ Len(<<c>>) = 1 /\ <<c>> \o s \in Seq(Octet) /\ Len(<<c>> \o s) = 1 + Len(s)
           /\ <<c>> \o s # <<>> /\ (<<c>> \o s)[1] = c /\ Tail(<<c>> \o s) = s
  <1>1. <<c>> \in Seq(Octet) /\ Len(<<c>>) = 1 /\ <<c>>[1] = c
    OBVIOUS
  <1> DEFINE w == <<c>> \o s
  <1>2. w \in Seq(Octet) /\ Len(s) \in Nat /\ Len(w) = 1 + Len(s) /\ w[1] = c
    <2>1. 1 \in 1 .. Len(<<c>>)
      BY <1>1
    <2> HIDE DEF w
    <2> QED BY <1>1, <2>1, Joined DEF w
  <1>3. SubSeq(w, 2, Len(w)) = s
    <2>1. SubSeq(w, Len(<<c>>) + 1, Len(w)) = s
      BY <1>1, Apart
    <2> QED BY <1>1, <2>1
  <1>4. Tail(w) = SubSeq(w, 2, Len(w)) /\ w # <<>>
    <2> HIDE DEF w
    <2> QED BY <1>2
  <1> QED BY <1>1, <1>2, <1>3, <1>4

LEMMA Leads ==
    ASSUME NEW w \in Seq(Octet), w # <<>>
    PROVE  w[1] \in Octet /\ Tail(w) \in Seq(Octet) /\ Len(Tail(w)) = Len(w) - 1 /\ <<w[1]>> \o Tail(w) = w
  <1>1. Len(w) \in Nat /\ Len(w) >= 1 /\ w[1] \in Octet /\ Tail(w) \in Seq(Octet) /\ Len(Tail(w)) = Len(w) - 1
    OBVIOUS
  <1> QED BY <1>1

-----------------------------------------------------------------------------
(* Messages *)

\* What a u32 holds, and what a Piece carries.
Held == {n \in Nat : n < Power[Word]}

Block == {b \in Seq(Octet) : Len(b) <= BlockLen}

Kinds == Simple \cup Indexed \cup Ranged \cup {"Bitfield", "Piece", "Extended"}

LEMMA KindsAre == DOMAIN IdOf = Kinds
  BY DEF IdOf, Kinds, Simple, Indexed, Ranged

LEMMA IdsDiffer == \A j, k \in Kinds : IdOf[j] = IdOf[k] => j = k
  BY DEF IdOf, Kinds, Simple, Indexed, Ranged

LEMMA IdsFit == \A k \in Kinds : IdOf[k] \in Octet
  BY DEF IdOf, Kinds, Simple, Indexed, Ranged, Octet

LEMMA KindsApart ==
    /\ \A k \in Simple : k \notin Indexed /\ k \notin Ranged /\ k \notin {"Bitfield", "Piece", "Extended", "KeepAlive"}
    /\ \A k \in Indexed : k \notin Simple /\ k \notin Ranged /\ k \notin {"Bitfield", "Piece", "Extended", "KeepAlive"}
    /\ \A k \in Ranged : k \notin Simple /\ k \notin Indexed /\ k \notin {"Bitfield", "Piece", "Extended", "KeepAlive"}
    /\ \A k \in {"Bitfield", "Piece", "Extended", "KeepAlive"} : k \notin Simple /\ k \notin Indexed /\ k \notin Ranged
    /\ "error" \notin Simple /\ "error" \notin Indexed /\ "error" \notin Ranged
  BY DEF Simple, Indexed, Ranged

\* Message::parse, for each kind of body.
LEMMA ParseOne ==
    ASSUME NEW k \in Kinds, NEW w \in Seq(Octet), w # <<>>, w[1] = IdOf[k]
    PROVE  /\ k \in Simple => Parse(w) = ParseEmpty(k, Tail(w))
           /\ k \in Indexed => Parse(w) = ParseIndexed(k, Tail(w))
           /\ k \in Ranged => Parse(w) = ParseRanged(k, Tail(w))
           /\ k = "Bitfield" => Parse(w) = [kind |-> "Bitfield", bits |-> Tail(w)]
           /\ k = "Piece" => Parse(w) = ParsePiece(Tail(w))
           /\ k = "Extended" => Parse(w) = IF Tail(w) = <<>> THEN Error("BadLength")
                                           ELSE [kind |-> "Extended", sub |-> Tail(w)[1], payload |-> Tail(Tail(w))]
  <1> DEFINE kinds == {j \in DOMAIN IdOf : IdOf[j] = w[1]}
             kind == CHOOSE j \in kinds : TRUE
  <1>1. kinds = {k}
    BY KindsAre, IdsDiffer
  <1>2. kind = k /\ kinds # {}
    BY <1>1
  <1>3. Parse(w) = CASE kind \in Simple  -> ParseEmpty(kind, Tail(w))
                     [] kind \in Indexed -> ParseIndexed(kind, Tail(w))
                     [] kind \in Ranged  -> ParseRanged(kind, Tail(w))
                     [] kind = "Bitfield" -> [kind |-> kind, bits |-> Tail(w)]
                     [] kind = "Piece"    -> ParsePiece(Tail(w))
                     [] kind = "Extended" ->
                           IF Tail(w) = <<>> THEN Error("BadLength")
                           ELSE [kind |-> kind, sub |-> Tail(w)[1], payload |-> Tail(Tail(w))]
    <2> HIDE DEF kind
    <2>1. kinds # {}
      BY <1>2
    <2> HIDE DEF kinds
    <2> QED BY <2>1 DEF Parse, kinds, kind
  <1> HIDE DEF kind
  <1>4. Parse(w) = CASE k \in Simple  -> ParseEmpty(k, Tail(w))
                     [] k \in Indexed -> ParseIndexed(k, Tail(w))
                     [] k \in Ranged  -> ParseRanged(k, Tail(w))
                     [] k = "Bitfield" -> [kind |-> k, bits |-> Tail(w)]
                     [] k = "Piece"    -> ParsePiece(Tail(w))
                     [] k = "Extended" ->
                           IF Tail(w) = <<>> THEN Error("BadLength")
                           ELSE [kind |-> k, sub |-> Tail(w)[1], payload |-> Tail(Tail(w))]
    BY <1>2, <1>3
  <1>5. k \in Simple => Parse(w) = ParseEmpty(k, Tail(w))
    BY <1>4, KindsApart
  <1>6. k \in Indexed => Parse(w) = ParseIndexed(k, Tail(w))
    BY <1>4, KindsApart
  <1>7. k \in Ranged => Parse(w) = ParseRanged(k, Tail(w))
    BY <1>4, KindsApart
  <1>8. k = "Bitfield" => Parse(w) = [kind |-> "Bitfield", bits |-> Tail(w)]
    BY <1>4, KindsApart
  <1>9. k = "Piece" => Parse(w) = ParsePiece(Tail(w))
    BY <1>4, KindsApart
  <1>10. k = "Extended" => Parse(w) = IF Tail(w) = <<>> THEN Error("BadLength")
                                      ELSE [kind |-> "Extended", sub |-> Tail(w)[1], payload |-> Tail(Tail(w))]
    BY <1>4, KindsApart
  <1> QED BY <1>5, <1>6, <1>7, <1>8, <1>9, <1>10

\* A body of no known kind, or of none.
LEMMA ParseNone ==
    ASSUME NEW w \in Seq(Octet)
    PROVE  /\ w = <<>> => Parse(w) = [kind |-> "KeepAlive"]
           /\ w # <<>> /\ (\A k \in Kinds : w[1] # IdOf[k]) => Parse(w) = Error("UnknownId")
  <1>1. w = <<>> => Parse(w) = [kind |-> "KeepAlive"]
    BY DEF Parse
  <1>2. ASSUME w # <<>>, \A k \in Kinds : w[1] # IdOf[k] PROVE Parse(w) = Error("UnknownId")
    <2>1. {k \in DOMAIN IdOf : IdOf[k] = w[1]} = {}
      BY <1>2, KindsAre
    <2> QED BY <1>2, <2>1 DEF Parse
  <1> QED BY <1>1, <1>2

\* encode_into, for each kind of message.
LEMMA BodyOne ==
    ASSUME NEW m
    PROVE  /\ m.kind = "KeepAlive" => Body(m) = <<>>
           /\ m.kind \in Simple => Body(m) = <<IdOf[m.kind]>>
           /\ m.kind \in Indexed => Body(m) = <<IdOf[m.kind]>> \o U32(m.index)
           /\ m.kind \in Ranged => Body(m) = <<IdOf[m.kind]>> \o U32(m.index) \o U32(m.begin) \o U32(m.length)
           /\ m.kind = "Bitfield" => Body(m) = <<IdOf[m.kind]>> \o m.bits
           /\ m.kind = "Piece" => Body(m) = <<IdOf[m.kind]>> \o U32(m.index) \o U32(m.begin) \o m.block
           /\ m.kind = "Extended" => Body(m) = <<IdOf[m.kind], m.sub>> \o m.payload
  <1>1. m.kind = "KeepAlive" => Body(m) = <<>>
    BY KindsApart DEF Body
  <1>2. m.kind \in Simple => Body(m) = <<IdOf[m.kind]>>
    BY KindsApart DEF Body
  <1>3. m.kind \in Indexed => Body(m) = <<IdOf[m.kind]>> \o U32(m.index)
    BY KindsApart DEF Body
  <1>4. m.kind \in Ranged => Body(m) = <<IdOf[m.kind]>> \o U32(m.index) \o U32(m.begin) \o U32(m.length)
    BY KindsApart DEF Body
  <1>5. m.kind = "Bitfield" => Body(m) = <<IdOf[m.kind]>> \o m.bits
    BY KindsApart DEF Body
  <1>6. m.kind = "Piece" => Body(m) = <<IdOf[m.kind]>> \o U32(m.index) \o U32(m.begin) \o m.block
    BY KindsApart DEF Body
  <1>7. m.kind = "Extended" => Body(m) = <<IdOf[m.kind], m.sub>> \o m.payload
    BY KindsApart DEF Body
  <1> QED BY <1>1, <1>2, <1>3, <1>4, <1>5, <1>6, <1>7

LEMMA WordSeq ==
    \A s : s \in Seq(Octet) /\ Len(s) = Word <=> s \in [1 .. Word -> Octet]
  <1>1. ASSUME NEW s, s \in Seq(Octet), Len(s) = Word PROVE s \in [1 .. Word -> Octet]
    BY <1>1
  <1>2. ASSUME NEW s, s \in [1 .. Word -> Octet] PROVE s \in Seq(Octet) /\ Len(s) = Word
    BY <1>2, Widths
  <1> QED BY <1>1, <1>2

\* Two words and what follows them.
TwoWords(w, a, b, r) ==
    /\ w \in Seq(Octet) /\ Len(w) = 2 * Word + Len(r)
    /\ SubSeq(w, 1, Word) = a /\ SubSeq(w, Word + 1, 2 * Word) = b /\ SubSeq(w, 2 * Word + 1, Len(w)) = r

LEMMA WordsApart ==
    ASSUME NEW a \in [1 .. Word -> Octet], NEW b \in [1 .. Word -> Octet], NEW r \in Seq(Octet)
    PROVE  TwoWords(a \o (b \o r), a, b, r)
  <1> DEFINE w == a \o (b \o r)
  <1>1. a \in Seq(Octet) /\ Len(a) = Word /\ b \in Seq(Octet) /\ Len(b) = Word
    BY WordSeq
  <1>2. b \o r \in Seq(Octet) /\ Len(b \o r) = Word + Len(r) /\ Len(r) \in Nat
    BY <1>1, Joined
  <1>3. w \in Seq(Octet) /\ Len(w) = 2 * Word + Len(r)
    <2>1. w \in Seq(Octet) /\ Len(w) = Len(a) + Len(b \o r)
      BY <1>1, <1>2, Joined
    <2> HIDE DEF w
    <2> QED BY <1>1, <1>2, <2>1, Widths
  <1>4. SubSeq(w, 1, Word) = a
    BY <1>1, <1>2, Apart
  <1>5. (a \o b) \in Seq(Octet) /\ Len(a \o b) = 2 * Word /\ w = (a \o b) \o r
    <2>1. (a \o b) \in Seq(Octet) /\ Len(a \o b) = Len(a) + Len(b)
      BY <1>1, Joined
    <2>2. Len(a) + Len(b) = 2 * Word
      BY <1>1, Widths
    <2>3. w = (a \o b) \o r
      BY <1>1, Joins
    <2> QED BY <2>1, <2>2, <2>3
  <1>6. SubSeq(w, 2 * Word + 1, Len(w)) = r
    BY <1>5, Apart
  <1>7. SubSeq(w, Word + 1, 2 * Word) = b
    <2>1. /\ SubSeq(w, Word + 1, Word + Word) \in Seq(Octet) /\ Len(SubSeq(w, Word + 1, Word + Word)) = Word
          /\ \A i \in 1 .. Word : SubSeq(w, Word + 1, Word + Word)[i] = w[Word + i]
      <3>1. Word + Word <= Len(w)
        BY <1>2, <1>3, Widths
      <3> HIDE DEF w
      <3> QED BY <1>3, <3>1, Part, Widths
    <2>2. \A i \in 1 .. Word : w[Word + i] = b[i]
      <3>1. \A i \in 1 .. Len(b \o r) : w[Word + i] = (b \o r)[i]
        BY <1>1, <1>2, Joined
      <3>2. \A i \in 1 .. Word : (b \o r)[i] = b[i] /\ i \in 1 .. Len(b \o r)
        BY <1>1, <1>2, Joined, Widths
      <3> HIDE DEF w
      <3> QED BY <3>1, <3>2
    <2>3. Word + Word = 2 * Word
      BY Widths
    <2> HIDE DEF w
    <2> QED BY <1>1, <2>1, <2>2, <2>3, SameSeq
  <1> QED BY <1>3, <1>4, <1>6, <1>7 DEF TwoWords

LEMMA WordsTogether ==
    ASSUME NEW w \in Seq(Octet), 2 * Word <= Len(w)
    PROVE  /\ SubSeq(w, 1, Word) \in [1 .. Word -> Octet] /\ SubSeq(w, Word + 1, 2 * Word) \in [1 .. Word -> Octet]
           /\ SubSeq(w, 2 * Word + 1, Len(w)) \in Seq(Octet)
           /\ Len(SubSeq(w, 2 * Word + 1, Len(w))) = Len(w) - 2 * Word
           /\ w = SubSeq(w, 1, Word) \o (SubSeq(w, Word + 1, 2 * Word) \o SubSeq(w, 2 * Word + 1, Len(w)))
  <1> DEFINE a == SubSeq(w, 1, Word)
             b == SubSeq(w, Word + 1, 2 * Word)
             r == SubSeq(w, 2 * Word + 1, Len(w))
             c == SubSeq(w, 1, 2 * Word)
  <1>1. Len(w) \in Nat /\ 2 * Word \in 0 .. Len(w) /\ Word \in 0 .. 2 * Word /\ Word + Word = 2 * Word
    BY Widths
  <1>2. c \in Seq(Octet) /\ Len(c) = 2 * Word /\ r \in Seq(Octet) /\ Len(r) = Len(w) - 2 * Word /\ c \o r = w
    BY <1>1, Together
  <1>3. \A i \in 1 .. 2 * Word : c[i] = w[i]
    BY <1>2, Joined
  <1>4. /\ a \in Seq(Octet) /\ Len(a) = Word /\ \A i \in 1 .. Word : a[i] = w[0 + i]
    <2>1. /\ SubSeq(w, 0 + 1, 0 + Word) \in Seq(Octet) /\ Len(SubSeq(w, 0 + 1, 0 + Word)) = Word
          /\ \A i \in 1 .. Word : SubSeq(w, 0 + 1, 0 + Word)[i] = w[0 + i]
      <3>1. 0 + Word <= Len(w) /\ Word \in Nat
        BY <1>1, Widths
      <3> QED BY <3>1, Part
    <2>2. 0 + 1 = 1 /\ 0 + Word = Word
      BY Widths
    <2> QED BY <2>1, <2>2
  <1>5. /\ b \in Seq(Octet) /\ Len(b) = Word /\ \A i \in 1 .. Word : b[i] = w[Word + i]
    <2>1. /\ SubSeq(w, Word + 1, Word + Word) \in Seq(Octet) /\ Len(SubSeq(w, Word + 1, Word + Word)) = Word
          /\ \A i \in 1 .. Word : SubSeq(w, Word + 1, Word + Word)[i] = w[Word + i]
      <3>1. Word + Word <= Len(w) /\ Word \in Nat
        BY <1>1, Widths
      <3> QED BY <3>1, Part
    <2> QED BY <1>1, <2>1
  <1> HIDE DEF a, b, r, c
  <1>6. a \o b \in Seq(Octet) /\ Len(a \o b) = 2 * Word
    BY <1>1, <1>4, <1>5, Joined
  <1>7. ASSUME NEW i \in 1 .. 2 * Word PROVE (a \o b)[i] = c[i]
    <2>1. CASE i \in 1 .. Word
      <3>1. (a \o b)[i] = a[i] /\ 0 + i = i
        BY <1>4, <1>5, <2>1, Joined
      <3> QED BY <1>3, <1>4, <2>1, <3>1
    <2>2. CASE i \notin 1 .. Word
      <3>1. i - Word \in 1 .. Word /\ Word + (i - Word) = i
        BY <1>1, <2>2, Widths
      <3>2. (a \o b)[Word + (i - Word)] = b[i - Word]
        BY <1>4, <1>5, <3>1, Joined
      <3> QED BY <1>3, <1>5, <3>1, <3>2
    <2> QED BY <2>1, <2>2
  <1>8. a \o b = c
    BY <1>2, <1>6, <1>7, SameSeq
  <1>9. w = a \o (b \o r)
    <2>1. (a \o b) \o r = a \o (b \o r)
      BY <1>2, <1>4, <1>5, Joins, ZenonT(60)
    <2>2. (a \o b) \o r = w
      BY <1>2, <1>8
    <2> QED BY <2>1, <2>2
  <1> QED BY <1>2, <1>4, <1>5, <1>9, WordSeq DEF a, b, r

LEMMA HeldWords ==
    \A n \in Held : /\ U32(n) \in [1 .. Word -> Octet] /\ U32(n) \in Seq(Octet) /\ Len(U32(n)) = Word
                    /\ ReadU32(U32(n)) = n
  BY U32Typed, ReadBack DEF Held

\* Message::parse undoes encode, and how long a body is.
Encodes(m, n) == Body(m) \in Seq(Octet) /\ Len(Body(m)) = n /\ Parse(Body(m)) = m

LEMMA KeepAliveEncodes == Encodes([kind |-> "KeepAlive"], 0)
  <1> DEFINE m == [kind |-> "KeepAlive"]
  <1>1. m.kind = "KeepAlive"
    OBVIOUS
  <1> HIDE DEF m
  <1>2. Body(m) = <<>>
    BY <1>1, BodyOne
  <1>3. <<>> \in Seq(Octet) /\ Len(<<>>) = 0
    OBVIOUS
  <1>4. Parse(<<>>) = [kind |-> "KeepAlive"]
    BY <1>3, ParseNone
  <1> QED BY <1>2, <1>3, <1>4 DEF Encodes, m

LEMMA SimpleEncodes == ASSUME NEW m \in [kind : Simple] PROVE Encodes(m, 1)
  <1>1. m.kind \in Simple /\ m.kind \in Kinds /\ m = [kind |-> m.kind]
    BY DEF Kinds
  <1> DEFINE c == IdOf[m.kind]
  <1>2. c \in Octet
    BY <1>1, IdsFit
  <1>3. Body(m) = <<c>>
    BY <1>1, BodyOne
  <1>4. <<c>> \in Seq(Octet) /\ Len(<<c>>) = 1 /\ <<c>> # <<>> /\ <<c>>[1] = c /\ Tail(<<c>>) = <<>>
    BY <1>2
  <1>5. Parse(<<c>>) = ParseEmpty(m.kind, Tail(<<c>>))
    BY <1>1, <1>4, ParseOne
  <1>6. Parse(<<c>>) = [kind |-> m.kind]
    BY <1>4, <1>5 DEF ParseEmpty
  <1> QED BY <1>1, <1>3, <1>4, <1>6 DEF Encodes

LEMMA IndexedEncodes == ASSUME NEW m \in [kind : Indexed, index : Held] PROVE Encodes(m, 1 + Word)
  <1>1. m.kind \in Indexed /\ m.kind \in Kinds /\ m.index \in Held /\ m = [kind |-> m.kind, index |-> m.index]
    BY DEF Kinds
  <1> DEFINE c == IdOf[m.kind]
             s == U32(m.index)
             w == <<c>> \o s
  <1>2. c \in Octet /\ s \in Seq(Octet) /\ Len(s) = Word /\ ReadU32(s) = m.index
    BY <1>1, IdsFit, HeldWords
  <1>3. Body(m) = w
    BY <1>1, BodyOne
  <1>4. w \in Seq(Octet) /\ Len(w) = 1 + Word /\ w # <<>> /\ w[1] = c /\ Tail(w) = s
    BY <1>2, Led
  <1>5. Parse(w) = ParseIndexed(m.kind, Tail(w))
    <2> HIDE DEF w
    <2> QED BY <1>1, <1>4, ParseOne
  <1>6. Parse(w) = [kind |-> m.kind, index |-> m.index]
    <2> HIDE DEF w, s
    <2> QED BY <1>2, <1>4, <1>5 DEF ParseIndexed
  <1> QED BY <1>1, <1>3, <1>4, <1>6 DEF Encodes

LEMMA RangedEncodes ==
    ASSUME NEW m \in [kind : Ranged, index : Held, begin : Held, length : {n \in Held : n <= BlockLen}]
    PROVE  Encodes(m, 1 + 3 * Word)
  <1>1. /\ m.kind \in Ranged /\ m.kind \in Kinds /\ m.index \in Held /\ m.begin \in Held
        /\ m.length \in Held /\ m.length <= BlockLen
        /\ m = [kind |-> m.kind, index |-> m.index, begin |-> m.begin, length |-> m.length]
    BY DEF Kinds
  <1> DEFINE c == IdOf[m.kind]
             a == U32(m.index)
             b == U32(m.begin)
             r == U32(m.length)
             s == a \o (b \o r)
             w == <<c>> \o s
  <1>2. /\ c \in Octet /\ a \in [1 .. Word -> Octet] /\ b \in [1 .. Word -> Octet] /\ r \in Seq(Octet)
        /\ a \in Seq(Octet) /\ b \in Seq(Octet)
        /\ Len(r) = Word /\ ReadU32(a) = m.index /\ ReadU32(b) = m.begin /\ ReadU32(r) = m.length
    BY <1>1, IdsFit, HeldWords
  <1>3. Body(m) = <<c>> \o a \o b \o r
    BY <1>1, BodyOne
  <1> HIDE DEF c, a, b, r
  <1>4. <<c>> \o a \o b \o r = w
    <2>1. <<c>> \in Seq(Octet)
      BY <1>2
    <2>2. Four(<<c>>, a, b, r)
      BY <1>2, <2>1, JoinsFour
    <2> QED BY <2>2 DEF Four
  <1>5. /\ s \in Seq(Octet) /\ Len(s) = 3 * Word
        /\ SubSeq(s, 1, Word) = a /\ SubSeq(s, Word + 1, 2 * Word) = b /\ SubSeq(s, 2 * Word + 1, 3 * Word) = r
    <2>1. TwoWords(s, a, b, r)
      BY <1>2, WordsApart
    <2>2. 2 * Word + Len(r) = 3 * Word
      BY <1>2, Widths
    <2> HIDE DEF s
    <2> QED BY <2>1, <2>2 DEF TwoWords
  <1> HIDE DEF s
  <1>6. w \in Seq(Octet) /\ Len(w) = 1 + 3 * Word /\ w # <<>> /\ w[1] = c /\ Tail(w) = s
    BY <1>2, <1>5, Led
  <1> HIDE DEF w
  <1>7. Parse(w) = ParseRanged(m.kind, s)
    BY <1>1, <1>6, ParseOne DEF c
  <1>8. 0 * Word + 1 = 1 /\ (0 + 1) * Word = Word /\ 1 * Word + 1 = Word + 1 /\ (1 + 1) * Word = 2 * Word /\ (2 + 1) * Word = 3 * Word
    BY Widths
  <1>9. ParseRanged(m.kind, s) = [kind |-> m.kind, index |-> m.index, begin |-> m.begin, length |-> m.length]
    <2> DEFINE word(i) == ReadU32(SubSeq(s, i * Word + 1, (i + 1) * Word))
    <2>1. word(0) = m.index /\ word(1) = m.begin /\ word(2) = m.length
      BY <1>2, <1>5, <1>8
    <2>2. ParseRanged(m.kind, s) = IF word(2) > BlockLen THEN Error("BlockTooLarge")
                                   ELSE [kind |-> m.kind, index |-> word(0), begin |-> word(1), length |-> word(2)]
      BY <1>5 DEF ParseRanged
    <2>3. ~(word(2) > BlockLen)
      <3>1. m.length \in Nat
        BY <1>1 DEF Held
      <3> QED BY <1>1, <2>1, <3>1, Widths
    <2> HIDE DEF word
    <2> QED BY <2>1, <2>2, <2>3
  <1> QED BY <1>1, <1>3, <1>4, <1>6, <1>7, <1>9 DEF Encodes

LEMMA BitfieldEncodes ==
    ASSUME NEW m \in [kind : {"Bitfield"}, bits : Seq(Octet)]
    PROVE  Encodes(m, 1 + Len(m.bits))
  <1>1. m.kind = "Bitfield" /\ m.kind \in Kinds /\ m.bits \in Seq(Octet) /\ m = [kind |-> "Bitfield", bits |-> m.bits]
    BY DEF Kinds
  <1> DEFINE c == IdOf[m.kind]
             w == <<c>> \o m.bits
  <1>2. c \in Octet
    BY <1>1, IdsFit
  <1>3. Body(m) = w
    BY <1>1, BodyOne
  <1>4. w \in Seq(Octet) /\ Len(w) = 1 + Len(m.bits) /\ w # <<>> /\ w[1] = c /\ Tail(w) = m.bits
    BY <1>1, <1>2, Led
  <1> HIDE DEF w
  <1>5. Parse(w) = [kind |-> "Bitfield", bits |-> Tail(w)]
    BY <1>1, <1>4, ParseOne
  <1> QED BY <1>1, <1>3, <1>4, <1>5 DEF Encodes

LEMMA PieceEncodes ==
    ASSUME NEW m \in [kind : {"Piece"}, index : Held, begin : Held, block : Block]
    PROVE  Encodes(m, 1 + 2 * Word + Len(m.block))
  <1>1. /\ m.kind = "Piece" /\ m.kind \in Kinds /\ m.index \in Held /\ m.begin \in Held
        /\ m.block \in Seq(Octet) /\ Len(m.block) <= BlockLen
        /\ m = [kind |-> "Piece", index |-> m.index, begin |-> m.begin, block |-> m.block]
    BY DEF Kinds, Block
  <1> DEFINE c == IdOf[m.kind]
             a == U32(m.index)
             b == U32(m.begin)
             r == m.block
             s == a \o (b \o r)
             w == <<c>> \o s
  <1>2. /\ c \in Octet /\ a \in [1 .. Word -> Octet] /\ b \in [1 .. Word -> Octet] /\ r \in Seq(Octet)
        /\ a \in Seq(Octet) /\ b \in Seq(Octet) /\ Len(r) \in Nat /\ Len(r) <= BlockLen
        /\ ReadU32(a) = m.index /\ ReadU32(b) = m.begin
    BY <1>1, IdsFit, HeldWords
  <1>3. Body(m) = <<c>> \o a \o b \o r
    BY <1>1, BodyOne
  <1> HIDE DEF c, a, b, r
  <1>4. <<c>> \o a \o b \o r = w
    <2>1. <<c>> \in Seq(Octet)
      BY <1>2
    <2>2. Four(<<c>>, a, b, r)
      BY <1>2, <2>1, JoinsFour
    <2> QED BY <2>2 DEF Four
  <1>5. /\ s \in Seq(Octet) /\ Len(s) = 2 * Word + Len(r)
        /\ SubSeq(s, 1, Word) = a /\ SubSeq(s, Word + 1, 2 * Word) = b /\ SubSeq(s, 2 * Word + 1, Len(s)) = r
    <2>1. TwoWords(s, a, b, r)
      BY <1>2, WordsApart
    <2> HIDE DEF s
    <2> QED BY <2>1 DEF TwoWords
  <1> HIDE DEF s
  <1>6. w \in Seq(Octet) /\ Len(w) = 1 + 2 * Word + Len(r) /\ w # <<>> /\ w[1] = c /\ Tail(w) = s
    <2>1. w \in Seq(Octet) /\ Len(w) = 1 + Len(s) /\ w # <<>> /\ w[1] = c /\ Tail(w) = s
      BY <1>2, <1>5, Led
    <2> HIDE DEF w
    <2> QED BY <1>2, <1>5, <2>1, Widths
  <1> HIDE DEF w
  <1>7. Parse(w) = ParsePiece(s)
    BY <1>1, <1>6, ParseOne DEF c
  <1>8. ~(Len(s) < 2 * Word) /\ ~(Len(s) - 2 * Word > BlockLen)
    BY <1>2, <1>5, Widths
  <1>9. ParsePiece(s) = [kind |-> "Piece", index |-> m.index, begin |-> m.begin, block |-> r]
    BY <1>2, <1>5, <1>8 DEF ParsePiece
  <1> QED BY <1>1, <1>3, <1>4, <1>6, <1>7, <1>9 DEF Encodes, r

LEMMA ExtendedEncodes ==
    ASSUME NEW m \in [kind : {"Extended"}, sub : Octet, payload : Seq(Octet)]
    PROVE  Encodes(m, 2 + Len(m.payload))
  <1>1. /\ m.kind = "Extended" /\ m.kind \in Kinds /\ m.sub \in Octet /\ m.payload \in Seq(Octet)
        /\ m = [kind |-> "Extended", sub |-> m.sub, payload |-> m.payload]
    BY DEF Kinds
  <1> DEFINE c == IdOf[m.kind]
             s == <<m.sub>> \o m.payload
             w == <<c>> \o s
  <1>2. c \in Octet
    BY <1>1, IdsFit
  <1>3. Body(m) = <<c, m.sub>> \o m.payload
    BY <1>1, BodyOne
  <1>4. <<c, m.sub>> \o m.payload = w
    <2>1. <<c>> \in Seq(Octet) /\ <<m.sub>> \in Seq(Octet) /\ <<c, m.sub>> = <<c>> \o <<m.sub>>
      BY <1>1, <1>2
    <2> HIDE DEF c
    <2> QED BY <1>1, <2>1, Joins
  <1>5. s \in Seq(Octet) /\ Len(s) = 1 + Len(m.payload) /\ s # <<>> /\ s[1] = m.sub /\ Tail(s) = m.payload
    BY <1>1, Led
  <1> HIDE DEF s
  <1>6. w \in Seq(Octet) /\ Len(w) = 1 + Len(s) /\ w # <<>> /\ w[1] = c /\ Tail(w) = s
    BY <1>2, <1>5, Led
  <1> HIDE DEF w
  <1>7. Parse(w) = IF Tail(w) = <<>> THEN Error("BadLength")
                   ELSE [kind |-> "Extended", sub |-> Tail(w)[1], payload |-> Tail(Tail(w))]
    BY <1>1, <1>6, ParseOne
  <1>8. Parse(w) = [kind |-> "Extended", sub |-> m.sub, payload |-> m.payload]
    BY <1>5, <1>6, <1>7
  <1>9. Len(w) = 2 + Len(m.payload)
    <2>1. Len(m.payload) \in Nat
      BY <1>1
    <2> QED BY <1>5, <1>6, <2>1
  <1> QED BY <1>1, <1>3, <1>4, <1>6, <1>8, <1>9 DEF Encodes

\* encode undoes Message::parse: no two bodies are the same message.
LEMMA BodyParse == ASSUME NEW w \in Seq(Octet), Parse(w).kind # "error" PROVE Body(Parse(w)) = w
  <1> DEFINE m == Parse(w)
             s == Tail(w)
  <1>1. CASE w = <<>>
    <2>1. m = [kind |-> "KeepAlive"]
      BY <1>1, ParseNone
    <2> HIDE DEF m
    <2>2. m.kind = "KeepAlive"
      BY <2>1
    <2> QED BY <1>1, <2>2, BodyOne DEF m
  <1>2. CASE w # <<>> /\ \A k \in Kinds : w[1] # IdOf[k]
    <2>1. m = [kind |-> "error", why |-> "UnknownId"]
      BY <1>2, ParseNone DEF Error
    <2> QED BY <2>1
  <1>3. ASSUME w # <<>>, NEW k \in Kinds, w[1] = IdOf[k] PROVE Body(m) = w
    <2>1. w[1] \in Octet /\ s \in Seq(Octet) /\ Len(s) \in Nat /\ w = <<IdOf[k]>> \o s
      BY <1>3, Leads
    <2>2. CASE k \in Simple
      <3>1. m = ParseEmpty(k, s)
        BY <1>3, <2>2, ParseOne
      <3> HIDE DEF m, s
      <3>2. s = <<>> /\ m.kind = k
        BY <3>1 DEF ParseEmpty, Error, m
      <3>3. Body(m) = <<IdOf[k]>>
        BY <2>2, <3>2, BodyOne
      <3>4. w = <<IdOf[k]>>
        BY <2>1, <3>2
      <3> QED BY <3>3, <3>4
    <2>3. CASE k \in Indexed
      <3>1. m = ParseIndexed(k, s)
        BY <1>3, <2>3, ParseOne
      <3>0. m.kind # "error"
        OBVIOUS
      <3> HIDE DEF m, s
      <3>2. Len(s) = Word /\ m = [kind |-> k, index |-> ReadU32(s)]
        BY <3>0, <3>1 DEF ParseIndexed, Error
      <3>3. m.kind = k /\ m.index = ReadU32(s)
        BY <3>2
      <3>4. U32(m.index) = s
        BY <2>1, <3>2, <3>3, WordSeq, WriteBack
      <3> QED BY <2>1, <2>3, <3>3, <3>4, BodyOne
    <2>4. CASE k \in Ranged
      <3>1. m = ParseRanged(k, s)
        BY <1>3, <2>4, ParseOne
      <3>0. m.kind # "error"
        OBVIOUS
      <3> HIDE DEF m, s
      <3> DEFINE a == SubSeq(s, 1, Word)
                 b == SubSeq(s, Word + 1, 2 * Word)
                 r == SubSeq(s, 2 * Word + 1, Len(s))
                 word(i) == ReadU32(SubSeq(s, i * Word + 1, (i + 1) * Word))
      <3>2. Len(s) = 3 * Word
        BY <3>0, <3>1 DEF ParseRanged, Error
      <3>3. m = [kind |-> k, index |-> word(0), begin |-> word(1), length |-> word(2)]
        BY <3>0, <3>1, <3>2 DEF ParseRanged, Error
      <3>4. 0 * Word + 1 = 1 /\ (0 + 1) * Word = Word /\ 1 * Word + 1 = Word + 1 /\ (1 + 1) * Word = 2 * Word /\ (2 + 1) * Word = 3 * Word
        BY Widths
      <3>5. word(0) = ReadU32(a) /\ word(1) = ReadU32(b) /\ word(2) = ReadU32(r)
        BY <3>2, <3>4
      <3>6. /\ a \in [1 .. Word -> Octet] /\ b \in [1 .. Word -> Octet]
            /\ r \in Seq(Octet) /\ Len(r) = Len(s) - 2 * Word /\ s = a \o (b \o r)
        <4>1. 2 * Word <= Len(s)
          BY <3>2, Widths
        <4> QED BY <2>1, <4>1, WordsTogether
      <3> HIDE DEF word, a, b, r
      <3>7. r \in [1 .. Word -> Octet] /\ a \in Seq(Octet) /\ b \in Seq(Octet)
        <4>1. Len(r) = Word
          BY <3>2, <3>6, Widths
        <4> QED BY <3>6, <4>1, WordSeq
      <3>8. m.kind = k /\ m.index = ReadU32(a) /\ m.begin = ReadU32(b) /\ m.length = ReadU32(r)
        BY <3>3, <3>5
      <3>9. U32(m.index) = a /\ U32(m.begin) = b /\ U32(m.length) = r
        BY <3>6, <3>7, <3>8, WriteBack
      <3>10. Body(m) = <<IdOf[k]>> \o a \o b \o r
        BY <2>4, <3>8, <3>9, BodyOne
      <3>11. <<IdOf[k]>> \o a \o b \o r = <<IdOf[k]>> \o (a \o (b \o r))
        <4> DEFINE c == <<IdOf[k]>>
        <4>1. c \in Seq(Octet)
          BY <1>3, <2>1
        <4> HIDE DEF c
        <4>2. Four(c, a, b, r)
          BY <3>6, <3>7, <4>1, JoinsFour
        <4> QED BY <4>2 DEF Four, c
      <3> QED BY <2>1, <3>6, <3>10, <3>11
    <2>5. CASE k = "Bitfield"
      <3>1. m = [kind |-> "Bitfield", bits |-> s]
        BY <1>3, <2>5, ParseOne
      <3> HIDE DEF m, s
      <3>2. m.kind = "Bitfield" /\ m.bits = s
        BY <3>1
      <3> QED BY <2>1, <2>5, <3>2, BodyOne
    <2>6. CASE k = "Piece"
      <3>1. m = ParsePiece(s)
        BY <1>3, <2>6, ParseOne
      <3>0. m.kind # "error"
        OBVIOUS
      <3> HIDE DEF m, s
      <3> DEFINE a == SubSeq(s, 1, Word)
                 b == SubSeq(s, Word + 1, 2 * Word)
                 r == SubSeq(s, 2 * Word + 1, Len(s))
      <3>2. ~(Len(s) < 2 * Word) /\ m = [kind |-> "Piece", index |-> ReadU32(a), begin |-> ReadU32(b), block |-> r]
        BY <3>0, <3>1 DEF ParsePiece, Error
      <3>3. 2 * Word <= Len(s)
        BY <2>1, <3>2, Widths
      <3>4. /\ a \in [1 .. Word -> Octet] /\ b \in [1 .. Word -> Octet] /\ r \in Seq(Octet) /\ s = a \o (b \o r)
        BY <2>1, <3>3, WordsTogether
      <3> HIDE DEF a, b, r
      <3>5. a \in Seq(Octet) /\ b \in Seq(Octet)
        BY <3>4, WordSeq
      <3>6. m.kind = "Piece" /\ m.index = ReadU32(a) /\ m.begin = ReadU32(b) /\ m.block = r
        BY <3>2
      <3>7. U32(m.index) = a /\ U32(m.begin) = b
        BY <3>4, <3>6, WriteBack
      <3>8. Body(m) = <<IdOf[k]>> \o a \o b \o r
        BY <2>6, <3>6, <3>7, BodyOne
      <3>9. <<IdOf[k]>> \o a \o b \o r = <<IdOf[k]>> \o (a \o (b \o r))
        <4> DEFINE c == <<IdOf[k]>>
        <4>1. c \in Seq(Octet)
          BY <1>3, <2>1
        <4> HIDE DEF c
        <4>2. Four(c, a, b, r)
          BY <3>4, <3>5, <4>1, JoinsFour
        <4> QED BY <4>2 DEF Four, c
      <3> QED BY <2>1, <3>4, <3>8, <3>9
    <2>7. CASE k = "Extended"
      <3>1. m = IF s = <<>> THEN Error("BadLength") ELSE [kind |-> "Extended", sub |-> s[1], payload |-> Tail(s)]
        BY <1>3, <2>7, ParseOne
      <3>0. m.kind # "error"
        OBVIOUS
      <3> HIDE DEF m, s
      <3>2. s # <<>> /\ m = [kind |-> "Extended", sub |-> s[1], payload |-> Tail(s)]
        BY <3>0, <3>1 DEF Error
      <3>3. m.kind = "Extended" /\ m.sub = s[1] /\ m.payload = Tail(s)
        BY <3>2
      <3>4. Body(m) = <<IdOf[k], s[1]>> \o Tail(s)
        BY <2>7, <3>3, BodyOne
      <3>5. s[1] \in Octet /\ Tail(s) \in Seq(Octet) /\ <<s[1]>> \o Tail(s) = s
        BY <2>1, <3>2, Leads
      <3>6. <<IdOf[k], s[1]>> \o Tail(s) = <<IdOf[k]>> \o (<<s[1]>> \o Tail(s))
        <4> DEFINE c == IdOf[k]
                   d == s[1]
                   t == Tail(s)
        <4>1. c \in Octet /\ d \in Octet /\ t \in Seq(Octet)
          BY <1>3, <2>1, <3>5
        <4> HIDE DEF c, d, t
        <4>2. <<c>> \in Seq(Octet) /\ <<d>> \in Seq(Octet) /\ <<c, d>> = <<c>> \o <<d>>
          BY <4>1, TwoBytes
        <4>3. <<c, d>> \o t = <<c>> \o (<<d>> \o t)
          BY <4>1, <4>2, Joins
        <4> QED BY <4>3 DEF c, d, t
      <3> QED BY <2>1, <3>4, <3>5, <3>6
    <2> QED BY <1>3, <2>2, <2>3, <2>4, <2>5, <2>6, <2>7 DEF Kinds
  <1> QED BY <1>1, <1>2, <1>3

-----------------------------------------------------------------------------
(* What a clove sends is within what the other end reads *)

LEMMA Largest ==
    ASSUME NEW a \in Nat, NEW b \in Nat, NEW c \in Nat
    PROVE  Max({a, b, c}) \in Nat /\ a <= Max({a, b, c}) /\ b <= Max({a, b, c}) /\ c <= Max({a, b, c})
  <1>1. \E x \in {a, b, c} : \A y \in {a, b, c} : x >= y
    <2>1. CASE a >= b /\ a >= c
      BY <2>1
    <2>2. CASE b >= a /\ b >= c
      BY <2>2
    <2>3. CASE c >= a /\ c >= b
      BY <2>3
    <2> QED BY <2>1, <2>2, <2>3
  <1>2. Max({a, b, c}) \in {a, b, c} /\ \A y \in {a, b, c} : Max({a, b, c}) >= y
    BY <1>1 DEF Max
  <1> QED BY <1>2

LEMMA CapFacts ==
    ASSUME NEW t \in Torrents
    PROVE  /\ FrameCap(t) \in Nat /\ FrameCap(t) <= MaxMessageLen /\ BitfieldLen(t.pieces) \in Nat
           /\ 1 + BitfieldLen(t.pieces) <= FrameCap(t)
           /\ 1 + 3 * Word <= FrameCap(t) /\ 1 + 2 * Word + BlockLen <= FrameCap(t)
  <1> DEFINE n == BitfieldLen(t.pieces)
             x == Max({n, BlockLen, MetadataPieceLen})
  <1>1. t.pieces \in Nat /\ t.pieces <= (MaxMessageLen - 1) * 8
    BY WireAssumption, Widths
  <1>2. n \in Nat /\ n <= MaxMessageLen - 1
    BY <1>1, Widths DEF BitfieldLen
  <1>3. x \in Nat /\ n <= x /\ BlockLen <= x
    <2> HIDE DEF n
    <2> QED BY <1>2, Largest, Widths
  <1>4. FrameCap(t) = IF x + FrameSlack < MaxMessageLen THEN x + FrameSlack ELSE MaxMessageLen
    BY DEF FrameCap, MaxFrame
  <1> HIDE DEF n, x
  <1>5. /\ FrameCap(t) \in Nat /\ FrameCap(t) <= MaxMessageLen /\ 1 + n <= FrameCap(t)
        /\ 1 + 3 * Word <= FrameCap(t) /\ 1 + 2 * Word + BlockLen <= FrameCap(t)
    <2>1. CASE x + FrameSlack < MaxMessageLen
      BY <1>2, <1>3, <1>4, <2>1, Widths
    <2>2. CASE ~(x + FrameSlack < MaxMessageLen)
      BY <1>2, <1>3, <1>4, <2>2, Widths
    <2> QED BY <2>1, <2>2
  <1> QED BY <1>2, <1>5 DEF n

\* Every message a clove sends is read as what it is, and within the cap.
Fine(t, m) ==
    /\ Body(m) \in Seq(Octet) /\ Len(Body(m)) \in Nat /\ Len(Body(m)) <= FrameCap(t)
    /\ Parse(Body(m)) = m /\ m.kind # "error"

LEMMA FineIf ==
    ASSUME NEW t \in Torrents, NEW m, NEW n \in Nat, n <= FrameCap(t), Encodes(m, n), m.kind # "error"
    PROVE  Fine(t, m)
  BY DEF Encodes, Fine

LEMMA SendableFine == ASSUME NEW t \in Torrents, NEW m \in Sendable(t) PROVE Fine(t, m)
  <1>1. /\ FrameCap(t) \in Nat /\ 1 + BitfieldLen(t.pieces) <= FrameCap(t)
        /\ 1 + 3 * Word <= FrameCap(t) /\ 1 + 2 * Word + BlockLen <= FrameCap(t) /\ BitfieldLen(t.pieces) \in Nat
    BY CapFacts
  <1>2. Numbers \subseteq Held
    <2>1. Power[Word] \in Nat
      BY Powers, Widths
    <2> QED BY <2>1, WireAssumption DEF Held
  <1>3. Index(t) \subseteq Held
    BY <1>2 DEF Index
  <1>4. Blobs \subseteq Seq(Octet)
    BY BytesAssumption
  <1>5. 0 \in Nat /\ 0 <= FrameCap(t) /\ 1 \in Nat /\ 1 <= FrameCap(t)
    BY <1>1, Widths
  <1>6. CASE m = [kind |-> "KeepAlive"]
    <2>1. m.kind # "error"
      BY <1>6
    <2> QED BY <1>5, <1>6, <2>1, KeepAliveEncodes, FineIf
  <1>7. CASE m \in [kind : Simple]
    <2>1. m.kind # "error"
      BY <1>7, KindsApart
    <2> QED BY <1>5, <1>7, <2>1, SimpleEncodes, FineIf
  <1>8. CASE m \in [kind : Indexed, index : Index(t)]
    <2>1. m.kind # "error" /\ m \in [kind : Indexed, index : Held]
      BY <1>3, <1>8, KindsApart
    <2>2. 1 + Word \in Nat /\ 1 + Word <= FrameCap(t)
      BY <1>1, Widths
    <2> QED BY <2>1, <2>2, IndexedEncodes, FineIf
  <1>9. CASE m \in [kind : Ranged, index : Index(t), begin : Numbers, length : {n \in Numbers : n <= BlockLen}]
    <2>1. /\ m.kind # "error"
          /\ m \in [kind : Ranged, index : Held, begin : Held, length : {n \in Held : n <= BlockLen}]
      BY <1>2, <1>3, <1>9, KindsApart
    <2>2. 1 + 3 * Word \in Nat
      BY Widths
    <2> QED BY <1>1, <2>1, <2>2, RangedEncodes, FineIf
  <1>10. CASE m \in [kind : {"Bitfield"}, bits : {b \in Blobs : Len(b) = BitfieldLen(t.pieces)}]
    <2>1. m.kind # "error" /\ m \in [kind : {"Bitfield"}, bits : Seq(Octet)] /\ Len(m.bits) = BitfieldLen(t.pieces)
      BY <1>4, <1>10
    <2>2. 1 + Len(m.bits) \in Nat /\ 1 + Len(m.bits) <= FrameCap(t)
      BY <1>1, <2>1
    <2> QED BY <2>1, <2>2, BitfieldEncodes, FineIf
  <1>11. CASE m \in [kind : {"Piece"}, index : Index(t), begin : Numbers, block : {b \in Blobs : Len(b) <= BlockLen}]
    <2>1. /\ m.kind # "error" /\ m \in [kind : {"Piece"}, index : Held, begin : Held, block : Block]
          /\ Len(m.block) <= BlockLen /\ m.block \in Seq(Octet)
      BY <1>2, <1>3, <1>4, <1>11 DEF Block
    <2>2. Len(m.block) \in Nat
      BY <2>1
    <2>3. 1 + 2 * Word + Len(m.block) \in Nat /\ 1 + 2 * Word + Len(m.block) <= FrameCap(t)
      BY <1>1, <2>1, <2>2, Widths
    <2> QED BY <2>1, <2>3, PieceEncodes, FineIf
  <1>12. CASE m \in Payloads[t]
    <2>1. m \in [kind : {"Extended"}, sub : Octet, payload : Seq(Octet)] /\ 2 + Len(m.payload) <= FrameCap(t)
      BY <1>12, BytesAssumption
    <2>2. m.kind # "error" /\ m.payload \in Seq(Octet)
      BY <2>1
    <2>3. 2 + Len(m.payload) \in Nat
      BY <2>2
    <2> QED BY <2>1, <2>2, <2>3, ExtendedEncodes, FineIf
  <1> QED BY <1>6, <1>7, <1>8, <1>9, <1>10, <1>11, <1>12 DEF Sendable

\* A frame, and the two readings that take it off the stream again.
LEMMA FrameFacts ==
    ASSUME NEW t \in Torrents, NEW m, Fine(t, m)
    PROVE  LET n == Len(Body(m))
           IN  /\ n \in Nat /\ n <= FrameCap(t) /\ U32(n) \in Seq(Octet) /\ Len(U32(n)) = Word /\ ReadU32(U32(n)) = n
               /\ Body(m) \in Seq(Octet) /\ Frame(m) = U32(n) \o Body(m) /\ Frame(m) \in Seq(Octet)
               /\ Frame(m) # <<>>
  <1> DEFINE n == Len(Body(m))
  <1>1. n \in Nat /\ n <= FrameCap(t) /\ Body(m) \in Seq(Octet)
    BY DEF Fine
  <1>2. n < Power[Word]
    <2>1. Power[Word] \in Nat /\ MaxMessageLen < Power[Word]
      BY Powers, Widths, WireAssumption
    <2>2. FrameCap(t) \in Nat /\ FrameCap(t) <= MaxMessageLen
      BY CapFacts
    <2> HIDE DEF n
    <2> QED BY <1>1, <2>1, <2>2, Widths
  <1>3. U32(n) \in Seq(Octet) /\ Len(U32(n)) = Word /\ ReadU32(U32(n)) = n
    <2> HIDE DEF n
    <2> QED BY <1>1, <1>2, U32Typed, ReadBack
  <1>4. Frame(m) = U32(n) \o Body(m)
    BY DEF Frame
  <1>5. Frame(m) \in Seq(Octet) /\ Len(Frame(m)) = Word + n
    BY <1>1, <1>3, <1>4, Joined
  <1>6. Frame(m) # <<>>
    <2> HIDE DEF n
    <2> QED BY <1>1, <1>5, Widths
  <1> QED BY <1>1, <1>3, <1>4, <1>5, <1>6

-----------------------------------------------------------------------------
(* The handshake *)

Flags == [fast : BOOLEAN, extended : BOOLEAN]

Greeting(x) == [OurHandshake EXCEPT !.extensions = x]

LEMMA GreetingIs == ASSUME NEW x PROVE Greeting(x) = [hash |-> InfoHash, id |-> PeerId, extensions |-> x]
  BY DEF Greeting, OurHandshake

LEMMA Reserves ==
    ASSUME NEW x \in Flags
    PROVE  /\ Reserved(x) \in Seq(Octet) /\ Len(Reserved(x)) = 8
           /\ BitSet(Reserved(x)[6], 16) = x.extended /\ BitSet(Reserved(x)[8], 4) = x.fast
  <1> DEFINE e == IF x.extended THEN 16 ELSE 0
             f == IF x.fast THEN 4 ELSE 0
  <1>1. e \in Octet /\ f \in Octet /\ 0 \in Octet
    BY DEF Octet
  <1>2. Reserved(x) = <<0, 0, 0, 0, 0, e, 0, f>>
    BY DEF Reserved
  <1>3. BitSet(e, 16) = x.extended /\ BitSet(f, 4) = x.fast
    <2>1. x.extended \in BOOLEAN /\ x.fast \in BOOLEAN
      BY DEF Flags
    <2>2. BitSet(16, 16) = TRUE /\ BitSet(0, 16) = FALSE /\ BitSet(4, 4) = TRUE /\ BitSet(0, 4) = FALSE
      BY DEF BitSet
    <2>3. CASE x.extended
      <3>1. BitSet(e, 16) = x.extended
        BY <2>1, <2>2, <2>3
      <3>2. BitSet(f, 4) = x.fast
        BY <2>1, <2>2
      <3> QED BY <3>1, <3>2
    <2>4. CASE ~x.extended
      <3>1. BitSet(e, 16) = x.extended
        BY <2>1, <2>2, <2>4
      <3>2. BitSet(f, 4) = x.fast
        BY <2>1, <2>2
      <3> QED BY <3>1, <3>2
    <2> QED BY <2>3, <2>4
  <1> HIDE DEF e, f
  <1>4. Reserved(x) \in Seq(Octet) /\ Len(Reserved(x)) = 8 /\ Reserved(x)[6] = e /\ Reserved(x)[8] = f
    BY <1>1, <1>2
  <1> QED BY <1>3, <1>4

\* Handshake::parse undoes Handshake::encode.
LEMMA Greets ==
    ASSUME NEW x \in Flags
    PROVE  LET w == EncodeHandshake(Greeting(x))
           IN  w \in Seq(Octet) /\ Len(w) = HandshakeLen /\ ParseHandshake(w) = {Greeting(x)}
  <1> DEFINE w == EncodeHandshake(Greeting(x))
             R == Reserved(x)
             p == <<1>> \o <<66>>
             q == p \o R
             z == q \o InfoHash
  <1>1. /\ R \in Seq(Octet) /\ Len(R) = 8 /\ BitSet(R[6], 16) = x.extended /\ BitSet(R[8], 4) = x.fast
    BY Reserves
  <1>2. /\ InfoHash \in Seq(Octet) /\ Len(InfoHash) = HashBytes /\ PeerId \in Seq(Octet) /\ Len(PeerId) = HashBytes
    <2>1. InfoHash \in [1 .. HashBytes -> Octet] /\ PeerId \in [1 .. HashBytes -> Octet]
      BY WireAssumption
    <2> QED BY <2>1, Widths
  <1>3. Len(Protocol) = 1 /\ Protocol = <<66>> /\ HandshakeLen = 10 + 2 * HashBytes
    <2>1. Len(Protocol) = 1 /\ Protocol = <<66>>
      BY DEF Protocol
    <2> QED BY <2>1, Widths DEF HandshakeLen
  <1>4. w = z \o PeerId
    BY <1>3, GreetingIs DEF EncodeHandshake
  <1>5. p = <<1, 66>> /\ p \in Seq(Octet) /\ Len(p) = 2 /\ p[1] = 1 /\ p[2] = 66
    <2>1. 1 \in Octet /\ 66 \in Octet
      BY Octets
    <2>2. p = <<1, 66>>
      BY <2>1, TwoBytes
    <2> HIDE DEF p
    <2> QED BY <2>1, <2>2
  <1> HIDE DEF R, p
  <1>6. /\ q \in Seq(Octet) /\ Len(q) = 10 /\ q[1] = 1 /\ q[2] = 66 /\ q[8] = R[6] /\ q[10] = R[8]
    <2>1. /\ q \in Seq(Octet) /\ Len(q) = Len(p) + Len(R)
          /\ \A i \in 1 .. Len(p) : q[i] = p[i]
          /\ \A i \in 1 .. Len(R) : q[Len(p) + i] = R[i]
      BY <1>1, <1>5, Joined, ZenonT(60)
    <2>2. q[Len(p) + 6] = R[6] /\ q[Len(p) + 8] = R[8] /\ q[1] = p[1] /\ q[2] = p[2]
      <3>1. 6 \in 1 .. Len(R) /\ 8 \in 1 .. Len(R) /\ 1 \in 1 .. Len(p) /\ 2 \in 1 .. Len(p)
        BY <1>1, <1>5
      <3> HIDE DEF q
      <3> QED BY <2>1, <3>1
    <2> HIDE DEF q
    <2> QED BY <1>1, <1>5, <2>1, <2>2
  <1> HIDE DEF q
  <1>7. /\ z \in Seq(Octet) /\ Len(z) = 10 + HashBytes /\ \A i \in 1 .. 10 : z[i] = q[i]
        /\ SubSeq(z, 10 + 1, 10 + HashBytes) = InfoHash
    <2>1. z \in Seq(Octet) /\ Len(z) = Len(q) + Len(InfoHash) /\ \A i \in 1 .. Len(q) : z[i] = q[i]
      BY <1>2, <1>6, Joined, ZenonT(60)
    <2>2. SubSeq(z, Len(q) + 1, Len(z)) = InfoHash
      BY <1>2, <1>6, Apart
    <2> HIDE DEF z
    <2> QED BY <1>2, <1>6, <2>1, <2>2
  <1> HIDE DEF z
  <1>8. /\ w \in Seq(Octet) /\ Len(w) = 10 + 2 * HashBytes /\ \A i \in 1 .. 10 + HashBytes : w[i] = z[i]
        /\ SubSeq(w, 10 + HashBytes + 1, 10 + 2 * HashBytes) = PeerId
    <2> HIDE DEF w
    <2>0. /\ z \o PeerId \in Seq(Octet) /\ Len(z \o PeerId) = Len(z) + Len(PeerId)
          /\ \A i \in 1 .. Len(z) : (z \o PeerId)[i] = z[i]
      BY <1>2, <1>7, Joined
    <2>1. w \in Seq(Octet) /\ Len(w) = Len(z) + Len(PeerId) /\ \A i \in 1 .. Len(z) : w[i] = z[i]
      BY <1>4, <2>0
    <2>2. SubSeq(w, Len(z) + 1, Len(w)) = PeerId
      BY <1>2, <1>4, <1>7, Apart
    <2>3. Len(z) + Len(PeerId) = 10 + 2 * HashBytes
      BY <1>2, <1>7, Widths
    <2> HIDE DEF w
    <2> QED BY <1>2, <1>7, <2>1, <2>2, <2>3
  <1> HIDE DEF w
  <1>9. w[1] = 1 /\ w[2] = 66 /\ w[8] = R[6] /\ w[10] = R[8]
    <2>1. \A i \in 1 .. 10 : w[i] = q[i]
      BY <1>7, <1>8, Widths
    <2> QED BY <1>6, <2>1
  <1>10. SubSeq(w, 11, 10 + HashBytes) = InfoHash
    <2>1. /\ SubSeq(w, 10 + 1, 10 + HashBytes) \in Seq(Octet) /\ Len(SubSeq(w, 10 + 1, 10 + HashBytes)) = HashBytes
          /\ \A i \in 1 .. HashBytes : SubSeq(w, 10 + 1, 10 + HashBytes)[i] = w[10 + i]
      BY <1>8, Part, Widths
    <2>2. \A i \in 1 .. HashBytes : SubSeq(z, 10 + 1, 10 + HashBytes)[i] = z[10 + i]
      BY <1>7, Part, Widths
    <2>3. \A i \in 1 .. HashBytes : w[10 + i] = z[10 + i]
      BY <1>8, Widths
    <2>4. \A i \in 1 .. HashBytes : SubSeq(w, 10 + 1, 10 + HashBytes)[i] = InfoHash[i]
      BY <1>7, <2>1, <2>2, <2>3
    <2>5. SubSeq(w, 10 + 1, 10 + HashBytes) = InfoHash
      BY <1>2, <2>1, <2>4, SameSeq
    <2>6. 10 + 1 = 11
      OBVIOUS
    <2> QED BY <2>5, <2>6
  <1>11. SubSeq(w, 2, 2) = <<66>>
    <2>1. /\ SubSeq(w, 1 + 1, 1 + 1) \in Seq(Octet) /\ Len(SubSeq(w, 1 + 1, 1 + 1)) = 1
          /\ \A i \in 1 .. 1 : SubSeq(w, 1 + 1, 1 + 1)[i] = w[1 + i]
      BY <1>8, Part, Widths
    <2>2. 66 \in Octet /\ <<66>> \in Seq(Octet) /\ Len(<<66>>) = 1 /\ <<66>>[1] = 66 /\ 1 + 1 = 2
      BY Octets
    <2>3. SubSeq(w, 2, 2)[1] = 66
      BY <1>9, <2>1, <2>2
    <2>4. \A i \in 1 .. 1 : SubSeq(w, 2, 2)[i] = <<66>>[i]
      BY <2>2, <2>3
    <2>5. SubSeq(w, 2, 2) \in Seq(Octet) /\ Len(SubSeq(w, 2, 2)) = 1
      BY <2>1, <2>2
    <2> QED BY <2>2, <2>4, <2>5, SameSeq
  <1>12. ParseHandshake(w) = {[hash |-> InfoHash, id |-> PeerId, extensions |-> [fast |-> x.fast, extended |-> x.extended]]}
    <2> DEFINE from == 1 + Len(Protocol)
               field(a, n) == SubSeq(w, from + a, from + a + n - 1)
    <2>1. from = 2
      BY <1>3
    <2>2. field(9, HashBytes) = InfoHash
      <3>1. from + 9 = 11 /\ from + 9 + HashBytes - 1 = 10 + HashBytes
        BY <2>1, Widths
      <3> QED BY <1>10, <3>1
    <2>3. field(9 + HashBytes, HashBytes) = PeerId
      <3>1. from + (9 + HashBytes) = 10 + HashBytes + 1 /\ from + (9 + HashBytes) + HashBytes - 1 = 10 + 2 * HashBytes
        BY <2>1, Widths
      <3> QED BY <1>8, <3>1
    <2>4. ParseHandshake(w) =
             IF w[1] # Len(Protocol) \/ SubSeq(w, 2, from) # Protocol THEN {}
             ELSE {[hash |-> field(9, HashBytes), id |-> field(9 + HashBytes, HashBytes),
                    extensions |-> [fast |-> BitSet(w[from + 8], 4), extended |-> BitSet(w[from + 6], 16)]]}
      BY DEF ParseHandshake
    <2> HIDE DEF from, field
    <2>5. ~(w[1] # Len(Protocol) \/ SubSeq(w, 2, from) # Protocol)
      BY <1>3, <1>9, <1>11, <2>1
    <2>6. BitSet(w[from + 8], 4) = x.fast /\ BitSet(w[from + 6], 16) = x.extended
      <3>1. from + 8 = 10 /\ from + 6 = 8
        BY <2>1
      <3> QED BY <1>1, <1>9, <3>1
    <2> QED BY <2>2, <2>3, <2>4, <2>5, <2>6
  <1>13. x = [fast |-> x.fast, extended |-> x.extended]
    BY DEF Flags
  <1>14. ParseHandshake(w) = {Greeting(x)}
    BY <1>12, <1>13, GreetingIs
  <1> QED BY <1>3, <1>8, <1>14 DEF w

-----------------------------------------------------------------------------
(* The invariant *)

Parsed == {Parse(w) : w \in Seq(Octet)}

\* What is still to be read, w, after k of the messages ms: what is left after
\* each message is its frame's successors.
Unread(w, ms, k) ==
    \E left \in [0 .. Len(ms) -> Seq(Octet)] :
        /\ left[Len(ms)] = <<>> /\ left[k] = w
        /\ \A j \in 1 .. Len(ms) : left[j - 1] = Frame(ms[j]) \o left[j]

\* The reader is between two frames, or between a length and its body.
InStep ==
    \/ declared = {} /\ Unread(link, sent, Len(heard))
    \/ /\ Len(heard) < Len(sent)
       /\ LET n == Len(Body(sent[Len(heard) + 1]))
          IN  declared = {n} /\ Unread(U32(n) \o link, sent, Len(heard))

WireTyped ==
    /\ torrent \in Torrents /\ honest \in BOOLEAN /\ offered \in Flags /\ link \in Seq(Octet)
    /\ receiver \in {"greeting", "open", "refused", "cut"} /\ greeted \subseteq {Greeting(offered)}
    /\ (declared = {} \/ \E n \in Nat : declared = {n})
    /\ raw \in Seq(Seq(Octet)) /\ heard \in Seq(Parsed)

WireInv ==
    /\ WireTyped
    /\ Len(heard) = Len(raw) /\ \A i \in 1 .. Len(heard) : heard[i] = Parse(raw[i])
    /\ receiver = "greeting" => /\ sent = <<>> /\ heard = <<>> /\ greeted = {} /\ declared = {}
                                /\ (link = <<>> \/ link = EncodeHandshake(Greeting(offered)))
    /\ honest => /\ sent \in Seq(Sendable(torrent)) /\ receiver # "refused" /\ Len(heard) <= Len(sent)
                 /\ \A i \in 1 .. Len(heard) : heard[i] = sent[i]
                 /\ receiver = "open" => InStep

LEMMA WireInitInv == WireInit => WireInv
  <1> SUFFICES ASSUME WireInit PROVE WireInv
    OBVIOUS
  <1>1. offered \in Flags
    BY DEF WireInit, OurHandshake, Flags
  <1>2. /\ <<>> \in Seq(Octet) /\ <<>> \in Seq(Seq(Octet)) /\ <<>> \in Seq(Parsed) /\ Len(<<>>) = 0
        /\ <<>> \in Seq(Sendable(torrent))
    OBVIOUS
  <1>3. WireTyped
    BY <1>1, <1>2 DEF WireInit, WireTyped
  <1>4. receiver = "greeting" /\ heard = <<>> /\ raw = <<>> /\ sent = <<>> /\ link = <<>> /\ greeted = {} /\ declared = {}
    BY DEF WireInit
  <1>5. \A i \in 1 .. Len(heard) : FALSE
    BY <1>2, <1>4
  <1> QED BY <1>2, <1>3, <1>4, <1>5 DEF WireInv

\* One more message, and one message less.
LEMMA UnreadMore ==
    ASSUME NEW S, NEW ms \in Seq(S), NEW m \in S, Frame(m) \in Seq(Octet), \A x \in S : Frame(x) \in Seq(Octet),
           NEW w \in Seq(Octet), NEW k \in 0 .. Len(ms), Unread(w, ms, k)
    PROVE  Unread(w \o Frame(m), Append(ms, m), k)
  <1> DEFINE N == Len(ms)
             us == Append(ms, m)
             F == Frame(m)
  <1>1. N \in Nat /\ Len(us) = N + 1 /\ us[N + 1] = m /\ \A j \in 1 .. N : us[j] = ms[j] /\ ms[j] \in S
    OBVIOUS
  <1>2. PICK left \in [0 .. N -> Seq(Octet)] :
            /\ left[N] = <<>> /\ left[k] = w /\ \A j \in 1 .. N : left[j - 1] = Frame(ms[j]) \o left[j]
    BY DEF Unread
  <1> HIDE DEF N, us, F
  <1> DEFINE more == [j \in 0 .. N + 1 |-> IF j = N + 1 THEN <<>> ELSE left[j] \o F]
  <1>3. F \in Seq(Octet) /\ <<>> \in Seq(Octet)
    BY DEF F
  <1>4. \A j \in 0 .. N + 1 : j # N + 1 => j \in 0 .. N
    BY <1>1
  <1>5. more \in [0 .. N + 1 -> Seq(Octet)]
    <2>1. ASSUME NEW j \in 0 .. N PROVE left[j] \o F \in Seq(Octet)
      <3>1. left[j] \in Seq(Octet)
        BY <1>2
      <3> QED BY <1>3, <3>1, Joined
    <2> QED BY <1>3, <1>4, <2>1
  <1>6. more[N + 1] = <<>> /\ more[k] = w \o F
    <2>1. N + 1 \in 0 .. N + 1 /\ k \in 0 .. N + 1 /\ k # N + 1
      BY <1>1 DEF N
    <2> QED BY <1>2, <2>1
  <1>7. ASSUME NEW j \in 1 .. N + 1 PROVE more[j - 1] = Frame(us[j]) \o more[j]
    <2>1. j - 1 \in 0 .. N + 1 /\ j - 1 # N + 1 /\ j \in 0 .. N + 1
      BY <1>1
    <2>2. more[j - 1] = left[j - 1] \o F
      BY <2>1
    <2>3. CASE j = N + 1
      <3>1. left[j - 1] = <<>> /\ more[j] = <<>> /\ us[j] = m
        <4>1. j - 1 = N
          BY <1>1, <2>3
        <4> QED BY <1>1, <1>2, <2>1, <2>3, <4>1
      <3>2. <<>> \o F = F /\ F \o <<>> = F
        BY <1>3
      <3> QED BY <2>2, <3>1, <3>2 DEF F
    <2>4. CASE j # N + 1
      <3>1. j \in 1 .. N /\ j \in 0 .. N
        BY <1>1, <2>4
      <3>2. more[j] = left[j] \o F /\ us[j] = ms[j] /\ ms[j] \in S /\ left[j] \in Seq(Octet)
        BY <1>1, <1>2, <2>1, <2>4, <3>1
      <3>3. left[j - 1] = Frame(ms[j]) \o left[j] /\ Frame(ms[j]) \in Seq(Octet)
        BY <1>2, <3>1, <3>2
      <3>4. (Frame(ms[j]) \o left[j]) \o F = Frame(ms[j]) \o (left[j] \o F)
        BY <1>3, <3>2, <3>3, Joins
      <3> QED BY <2>2, <3>2, <3>3, <3>4
    <2> QED BY <2>3, <2>4
  <1> HIDE DEF more
  <1>8. Unread(w \o F, us, k)
    BY <1>1, <1>5, <1>6, <1>7 DEF Unread
  <1> QED BY <1>8 DEF F, us

LEMMA UnreadNext ==
    ASSUME NEW S, NEW ms \in Seq(S), NEW w \in Seq(Octet), NEW k \in 0 .. Len(ms), Unread(w, ms, k)
    PROVE  /\ w # <<>> => k < Len(ms)
           /\ k < Len(ms) => \E r \in Seq(Octet) : w = Frame(ms[k + 1]) \o r /\ Unread(r, ms, k + 1)
  <1> DEFINE N == Len(ms)
  <1>1. N \in Nat
    OBVIOUS
  <1>2. PICK left \in [0 .. N -> Seq(Octet)] :
            /\ left[N] = <<>> /\ left[k] = w /\ \A j \in 1 .. N : left[j - 1] = Frame(ms[j]) \o left[j]
    BY DEF Unread
  <1>3. w # <<>> => k < N
    BY <1>1, <1>2
  <1>4. ASSUME k < N PROVE \E r \in Seq(Octet) : w = Frame(ms[k + 1]) \o r /\ Unread(r, ms, k + 1)
    <2>1. k + 1 \in 1 .. N /\ k + 1 \in 0 .. N /\ (k + 1) - 1 = k
      BY <1>1, <1>4
    <2>2. w = Frame(ms[k + 1]) \o left[k + 1] /\ left[k + 1] \in Seq(Octet)
      BY <1>2, <2>1
    <2>3. Unread(left[k + 1], ms, k + 1)
      BY <1>2 DEF Unread
    <2> QED BY <2>2, <2>3
  <1> QED BY <1>3, <1>4

-----------------------------------------------------------------------------
(* One lemma for each action *)

LEMMA SendHandshakeKeeps ==
    ASSUME WireInv, NEW f \in BOOLEAN, NEW e \in BOOLEAN, SendHandshake([fast |-> f, extended |-> e])
    PROVE  WireInv'
  <1> DEFINE x == [fast |-> f, extended |-> e]
  <1>1. x \in Flags
    BY DEF Flags
  <1> HIDE DEF x
  <1>2. /\ receiver = "greeting" /\ link' = EncodeHandshake(Greeting(x)) /\ offered' = x
        /\ UNCHANGED <<torrent, sent, heard, raw, declared, receiver, greeted, honest>>
    BY DEF SendHandshake, Greeting, x
  <1>3. link' \in Seq(Octet)
    BY <1>1, <1>2, Greets
  <1>4. WireTyped /\ greeted = {}
    BY <1>2 DEF WireInv
  <1>5. WireTyped'
    BY <1>1, <1>2, <1>3, <1>4 DEF WireTyped
  <1> QED BY <1>2, <1>5 DEF WireInv

LEMMA ReadHandshakeKeeps == ASSUME WireInv, ReadHandshake PROVE WireInv'
  <1>1. /\ WireTyped /\ receiver = "greeting" /\ sent = <<>> /\ heard = <<>> /\ declared = {}
        /\ (link = <<>> \/ link = EncodeHandshake(Greeting(offered)))
    BY DEF WireInv, ReadHandshake
  <1>2. offered \in Flags /\ link \in Seq(Octet)
    BY <1>1 DEF WireTyped
  <1> DEFINE w == EncodeHandshake(Greeting(offered))
  <1>3. w \in Seq(Octet) /\ Len(w) = HandshakeLen /\ ParseHandshake(w) = {Greeting(offered)}
    BY <1>2, Greets
  <1>4. Len(link) >= HandshakeLen /\ HandshakeLen \in Nat /\ HandshakeLen > 0
    <2>1. Len(Protocol) = 1
      BY DEF Protocol
    <2> QED BY <2>1, Widths DEF ReadHandshake, HandshakeLen
  <1>5. link = w
    <2>1. Len(<<>>) = 0
      OBVIOUS
    <2> QED BY <1>1, <1>4, <2>1
  <1> HIDE DEF w
  <1>6. SubSeq(w, 1, HandshakeLen) = w /\ SubSeq(w, HandshakeLen + 1, Len(w)) = <<>>
    <2>1. w \o <<>> = w /\ <<>> \in Seq(Octet)
      BY <1>3
    <2> QED BY <1>3, <2>1, Apart
  <1>7. /\ greeted' = {Greeting(offered)} /\ link' = <<>> /\ receiver' = "open"
        /\ UNCHANGED <<torrent, sent, heard, raw, declared, offered, honest>>
    <2>1. greeted' = {Greeting(offered)} /\ link' = <<>>
      BY <1>3, <1>5, <1>6 DEF ReadHandshake
    <2> QED BY <2>1 DEF ReadHandshake
  <1>8. <<>> \in Seq(Octet) /\ Len(<<>>) = 0
    OBVIOUS
  <1>9. WireTyped'
    BY <1>1, <1>7, <1>8 DEF WireTyped
  <1>10. Unread(<<>>, <<>>, 0)
    <2> DEFINE left == [j \in 0 .. 0 |-> <<>>]
    <2>1. left \in [0 .. 0 -> Seq(Octet)] /\ left[0] = <<>>
      BY <1>8
    <2> HIDE DEF left
    <2> QED BY <1>8, <2>1 DEF Unread
  <1>11. InStep'
    <2>1. declared' = {} /\ Unread(link', sent', Len(heard'))
      BY <1>1, <1>7, <1>8, <1>10
    <2> QED BY <2>1 DEF InStep
  <1> QED BY <1>7, <1>9, <1>11 DEF WireInv

LEMMA SendableFrame ==
    ASSUME NEW t \in Torrents PROVE \A x \in Sendable(t) : Fine(t, x) /\ Frame(x) \in Seq(Octet)
  BY SendableFine, FrameFacts

LEMMA SendKeeps == ASSUME WireInv, NEW m \in Sendable(torrent), Send(m) PROVE WireInv'
  <1>1. /\ honest /\ receiver # "cut" /\ greeted # {} /\ sent' = Append(sent, m) /\ link' = link \o Frame(m)
        /\ UNCHANGED <<torrent, heard, raw, declared, receiver, offered, greeted, honest>>
    BY DEF Send
  <1>2. WireTyped /\ torrent \in Torrents /\ link \in Seq(Octet) /\ Len(heard) \in Nat
    BY DEF WireInv, WireTyped
  <1>3. receiver = "open"
    BY <1>1, <1>2 DEF WireInv, WireTyped
  <1>4. /\ sent \in Seq(Sendable(torrent)) /\ Len(heard) <= Len(sent)
        /\ \A i \in 1 .. Len(heard) : heard[i] = sent[i]
    BY <1>1 DEF WireInv
  <1>5. InStep
    BY <1>1, <1>3 DEF WireInv
  <1> DEFINE S == Sendable(torrent)
             F == Frame(m)
             k == Len(heard)
  <1>6. F \in Seq(Octet) /\ \A x \in S : Frame(x) \in Seq(Octet)
    BY <1>2, SendableFrame
  <1>7. link' \in Seq(Octet)
    BY <1>1, <1>2, <1>6, Joined
  <1>8. /\ sent' \in Seq(S) /\ Len(sent') = Len(sent) + 1 /\ Len(sent) \in Nat
        /\ \A i \in 1 .. Len(sent) : sent'[i] = sent[i]
    <2> HIDE DEF S
    <2>1. m \in S
      BY DEF S
    <2>2. sent \in Seq(S)
      BY <1>4 DEF S
    <2> QED BY <1>1, <2>1, <2>2
  <1>9. k \in 0 .. Len(sent)
    BY <1>2, <1>4, <1>8
  <1>10. InStep'
    <2>1. CASE declared = {} /\ Unread(link, sent, k)
      <3>1. Unread(link \o F, Append(sent, m), k)
        BY <1>2, <1>4, <1>6, <1>9, <2>1, UnreadMore
      <3> QED BY <1>1, <2>1, <3>1 DEF InStep
    <2>2. CASE /\ k < Len(sent)
               /\ declared = {Len(Body(sent[k + 1]))} /\ Unread(U32(Len(Body(sent[k + 1]))) \o link, sent, k)
      <3> DEFINE n == Len(Body(sent[k + 1]))
                 w == U32(n) \o link
      <3>1. k + 1 \in 1 .. Len(sent)
        BY <1>2, <1>8, <2>2
      <3>2. sent[k + 1] \in S
        BY <1>4, <3>1
      <3>3. U32(n) \in Seq(Octet)
        BY <1>2, <3>2, SendableFrame, FrameFacts
      <3> HIDE DEF n
      <3>4. w \in Seq(Octet)
        BY <1>2, <3>3, Joined
      <3>5. Unread(w \o F, Append(sent, m), k)
        <4> HIDE DEF w
        <4>1. Unread(w, sent, k)
          BY <2>2 DEF w, n
        <4> QED BY <1>4, <1>6, <1>9, <3>4, <4>1, UnreadMore
      <3>6. w \o F = U32(n) \o (link \o F)
        BY <1>2, <1>6, <3>3, Joins
      <3>7. n = Len(Body(sent'[k + 1])) /\ k < Len(sent')
        BY <1>2, <1>8, <2>2, <3>1 DEF n
      <3>8. declared' = {n} /\ Unread(U32(n) \o link', sent', k)
        <4>1. declared' = {n}
          BY <1>1, <2>2 DEF n
        <4>2. link' = link \o F /\ sent' = Append(sent, m)
          BY <1>1
        <4> HIDE DEF w, F
        <4> QED BY <3>5, <3>6, <4>1, <4>2
      <3>9. Len(heard') = k
        BY <1>1
      <3> QED BY <3>7, <3>8, <3>9 DEF InStep
    <2> QED BY <1>5, <2>1, <2>2 DEF InStep
  <1>11. WireTyped'
    BY <1>1, <1>2, <1>7 DEF WireTyped
  <1>12. /\ Len(heard') <= Len(sent') /\ \A i \in 1 .. Len(heard') : heard'[i] = sent'[i]
    <2>1. heard' = heard /\ k <= Len(sent) + 1 /\ \A i \in 1 .. k : i \in 1 .. Len(sent)
      BY <1>1, <1>2, <1>4, <1>8
    <2> QED BY <1>4, <1>8, <2>1
  <1>13. /\ Len(heard') = Len(raw') /\ \A i \in 1 .. Len(heard') : heard'[i] = Parse(raw'[i])
    BY <1>1 DEF WireInv
  <1>14. sent' \in Seq(Sendable(torrent')) /\ receiver' = "open"
    BY <1>1, <1>3, <1>8
  <1> QED BY <1>10, <1>11, <1>12, <1>13, <1>14 DEF WireInv

LEMMA SendAnythingKeeps ==
    ASSUME WireInv, NEW b \in Hostile, NEW n \in {Len(b), Len(b) + 1}, SendAnything(n, b)
    PROVE  WireInv'
  <1>1. /\ ~honest /\ receiver # "cut" /\ greeted # {} /\ link' = link \o U32(n) \o b
        /\ UNCHANGED <<torrent, heard, raw, declared, receiver, offered, greeted, honest>>
    BY DEF SendAnything
  <1>2. WireTyped /\ link \in Seq(Octet) /\ receiver # "greeting"
    BY <1>1 DEF WireInv, WireTyped
  <1>3. b \in Seq(Octet) /\ n \in Nat
    <2>1. b \in Seq(Octet)
      BY BytesAssumption
    <2>2. Len(b) \in Nat
      BY <2>1
    <2> QED BY <2>1, <2>2
  <1>4. U32(n) \in Seq(Octet)
    BY <1>3, U32Typed
  <1>5. link \o U32(n) \in Seq(Octet)
    BY <1>2, <1>4, Joined
  <1>6. link' \in Seq(Octet)
    BY <1>1, <1>3, <1>5, Joined
  <1>7. WireTyped'
    BY <1>1, <1>2, <1>6 DEF WireTyped
  <1> QED BY <1>1, <1>2, <1>7 DEF WireInv

\* What an honest sender's next frame begins with, for the reader of a length.
LEMMA NextLength ==
    ASSUME NEW t \in Torrents, NEW ms \in Seq(Sendable(t)), NEW w \in Seq(Octet), NEW k \in 0 .. Len(ms),
           Unread(w, ms, k), w # <<>>
    PROVE  /\ k < Len(ms) /\ Fine(t, ms[k + 1])
           /\ \E r \in Seq(Octet) : w = U32(Len(Body(ms[k + 1]))) \o (Body(ms[k + 1]) \o r) /\ Unread(r, ms, k + 1)
  <1> DEFINE S == Sendable(t)
             m == ms[k + 1]
  <1>1. k < Len(ms)
    BY UnreadNext
  <1>2. PICK r \in Seq(Octet) : w = Frame(m) \o r /\ Unread(r, ms, k + 1)
    BY <1>1, UnreadNext
  <1>3. m \in S
    <2>1. k + 1 \in 1 .. Len(ms)
      BY <1>1
    <2> QED BY <2>1
  <1>4. Fine(t, m)
    BY <1>3, SendableFine
  <1> HIDE DEF m
  <1>5. U32(Len(Body(m))) \in Seq(Octet) /\ Body(m) \in Seq(Octet) /\ Frame(m) = U32(Len(Body(m))) \o Body(m)
    BY <1>4, FrameFacts
  <1>6. w = U32(Len(Body(m))) \o (Body(m) \o r)
    <2>1. (U32(Len(Body(m))) \o Body(m)) \o r = U32(Len(Body(m))) \o (Body(m) \o r)
      BY <1>2, <1>5, Joins
    <2> QED BY <1>2, <1>5, <2>1
  <1> QED BY <1>1, <1>2, <1>4, <1>6 DEF m

LEMMA ReadLengthKeeps == ASSUME WireInv, ReadLength PROVE WireInv'
  <1> DEFINE n == ReadU32(SubSeq(link, 1, Word))
             k == Len(heard)
  <1>1. /\ receiver = "open" /\ declared = {} /\ Len(link) >= Word
        /\ IF Oversized(n) THEN receiver' = "refused" /\ UNCHANGED declared
           ELSE declared' = {n} /\ UNCHANGED receiver
        /\ link' = SubSeq(link, Word + 1, Len(link))
        /\ UNCHANGED <<torrent, sent, heard, raw, offered, greeted, honest>>
    BY DEF ReadLength
  <1>2. WireTyped /\ torrent \in Torrents /\ link \in Seq(Octet) /\ k \in Nat /\ honest \in BOOLEAN
    BY DEF WireInv, WireTyped
  <1>3. Word \in 0 .. Len(link) /\ Len(link) \in Nat /\ link # <<>>
    BY <1>1, <1>2, Widths
  <1>4. link' \in Seq(Octet) /\ SubSeq(link, 1, Word) \o link' = link /\ SubSeq(link, 1, Word) \in [1 .. Word -> Octet]
    BY <1>1, <1>2, <1>3, Together, WordSeq
  <1>5. n \in Nat
    BY <1>4, WriteBack
  <1> HIDE DEF n
  <1>6. receiver' \in {"open", "refused"} /\ (declared' = {} \/ \E j \in Nat : declared' = {j})
    BY <1>1, <1>5
  <1>7. WireTyped'
    BY <1>1, <1>2, <1>4, <1>6 DEF WireTyped
  <1>8. /\ Len(heard') = Len(raw') /\ \A i \in 1 .. Len(heard') : heard'[i] = Parse(raw'[i])
    BY <1>1 DEF WireInv
  <1>9. ASSUME honest PROVE receiver' = "open" /\ InStep'
    <2>1. sent \in Seq(Sendable(torrent)) /\ Len(sent) \in Nat /\ k <= Len(sent) /\ InStep
      BY <1>1, <1>9 DEF WireInv
    <2>2. k \in 0 .. Len(sent) /\ Unread(link, sent, k)
      BY <1>1, <1>2, <2>1 DEF InStep
    <2> DEFINE m == sent[k + 1]
               l == Len(Body(m))
    <2>3. k < Len(sent) /\ Fine(torrent, m)
      BY <1>2, <1>3, <2>1, <2>2, NextLength
    <2>4. PICK r \in Seq(Octet) : link = U32(l) \o (Body(m) \o r)
      BY <1>2, <1>3, <2>1, <2>2, NextLength, ZenonT(60)
    <2> HIDE DEF m
    <2>5. /\ l \in Nat /\ l <= FrameCap(torrent) /\ U32(l) \in Seq(Octet) /\ Len(U32(l)) = Word /\ ReadU32(U32(l)) = l
          /\ Body(m) \in Seq(Octet)
      BY <1>2, <2>3, FrameFacts
    <2>6. Body(m) \o r \in Seq(Octet)
      BY <2>4, <2>5, Joined
    <2> HIDE DEF l
    <2>7. SubSeq(link, 1, Word) = U32(l)
      BY <2>4, <2>5, <2>6, Apart
    <2>8. n = l
      BY <2>5, <2>7 DEF n
    <2>9. ~Oversized(n)
      <3>1. FrameCap(torrent) \in Nat
        BY <1>2, CapFacts
      <3> QED BY <2>5, <2>8, <3>1 DEF Oversized
    <2>10. declared' = {l} /\ receiver' = "open"
      BY <1>1, <2>8, <2>9
    <2>11. U32(l) \o link' = link
      BY <1>4, <2>7
    <2>12. Len(heard') = k /\ sent' = sent
      BY <1>1
    <2>13. InStep'
      <3>1. /\ Len(heard') < Len(sent') /\ l = Len(Body(sent'[Len(heard') + 1]))
            /\ declared' = {l} /\ Unread(U32(l) \o link', sent', Len(heard'))
        BY <2>2, <2>3, <2>10, <2>11, <2>12 DEF l, m
      <3> QED BY <3>1 DEF InStep
    <2> QED BY <2>10, <2>13
  <1>10. receiver' # "greeting"
    BY <1>6
  <1> QED BY <1>1, <1>7, <1>8, <1>9, <1>10 DEF WireInv

LEMMA ReadBodyKeeps == ASSUME WireInv, ReadBody PROVE WireInv'
  <1> DEFINE n == CHOOSE j \in declared : TRUE
             body == SubSeq(link, 1, n)
             k == Len(heard)
  <1>1. /\ receiver = "open" /\ (\E j \in declared : Len(link) >= j) /\ heard' = Append(heard, Parse(body))
        /\ raw' = Append(raw, body)
        /\ receiver' = IF Parse(body).kind = "error" THEN "refused" ELSE receiver
        /\ link' = SubSeq(link, n + 1, Len(link)) /\ declared' = {}
        /\ UNCHANGED <<torrent, sent, offered, greeted, honest>>
    BY DEF ReadBody
  <1>2. /\ WireTyped /\ torrent \in Torrents /\ link \in Seq(Octet) /\ k \in Nat /\ honest \in BOOLEAN
        /\ raw \in Seq(Seq(Octet)) /\ heard \in Seq(Parsed)
    BY DEF WireInv, WireTyped
  <1>3. declared = {n} /\ n \in Nat
    BY <1>1, <1>2 DEF WireTyped
  <1> HIDE DEF n
  <1>4. n \in 0 .. Len(link) /\ Len(link) \in Nat
    BY <1>1, <1>2, <1>3
  <1>5. body \in Seq(Octet) /\ link' \in Seq(Octet)
    BY <1>1, <1>2, <1>4, Together
  <1> HIDE DEF body
  <1>6. Parse(body) \in Parsed
    BY <1>5 DEF Parsed
  <1>7. /\ raw' \in Seq(Seq(Octet)) /\ heard' \in Seq(Parsed) /\ Len(heard') = k + 1 /\ Len(raw') = Len(raw) + 1
        /\ heard'[k + 1] = Parse(body) /\ raw'[Len(raw) + 1] = body
        /\ (\A i \in 1 .. k : heard'[i] = heard[i]) /\ \A i \in 1 .. Len(raw) : raw'[i] = raw[i]
    BY <1>1, <1>2, <1>5, <1>6
  <1>8. receiver' \in {"open", "refused"}
    BY <1>1
  <1>9. WireTyped'
    BY <1>1, <1>2, <1>5, <1>7, <1>8 DEF WireTyped
  <1>10. Len(heard') = Len(raw') /\ \A i \in 1 .. Len(heard') : heard'[i] = Parse(raw'[i])
    <2>1. k = Len(raw) /\ \A i \in 1 .. k : heard[i] = Parse(raw[i])
      BY DEF WireInv
    <2>2. \A i \in 1 .. k + 1 : i \in 1 .. k \/ i = k + 1
      BY <1>2
    <2> QED BY <1>7, <2>1, <2>2
  <1>11. ASSUME honest
         PROVE  /\ receiver' = "open" /\ Len(heard') <= Len(sent')
                /\ (\A i \in 1 .. Len(heard') : heard'[i] = sent'[i]) /\ InStep'
    <2>1. /\ sent \in Seq(Sendable(torrent)) /\ Len(sent) \in Nat /\ k <= Len(sent) /\ InStep
          /\ \A i \in 1 .. k : heard[i] = sent[i]
      BY <1>1, <1>11 DEF WireInv
    <2> DEFINE m == sent[k + 1]
               l == Len(Body(m))
               w == U32(l) \o link
    <2>2. k < Len(sent) /\ declared = {l} /\ Unread(w, sent, k)
      BY <1>3, <2>1 DEF InStep
    <2>3. n = l
      BY <1>3, <2>2
    <2>4. k \in 0 .. Len(sent) /\ k + 1 \in 1 .. Len(sent)
      BY <1>2, <2>1, <2>2
    <2>5. m \in Sendable(torrent)
      BY <2>1, <2>4
    <2> HIDE DEF m
    <2>6. Fine(torrent, m) /\ U32(l) \in Seq(Octet) /\ Len(U32(l)) = Word /\ Body(m) \in Seq(Octet)
      BY <1>2, <2>5, SendableFine, FrameFacts
    <2> HIDE DEF l
    <2>7. w \in Seq(Octet) /\ Len(w) = Word + Len(link)
      BY <1>2, <2>6, Joined
    <2>8. w # <<>>
      <3> HIDE DEF w
      <3> QED BY <1>4, <2>7, Widths
    <2>9. PICK r \in Seq(Octet) : w = U32(l) \o (Body(m) \o r) /\ Unread(r, sent, k + 1)
      <3> HIDE DEF w
      <3> QED BY <1>2, <2>1, <2>2, <2>4, <2>7, <2>8, NextLength DEF m, l
    <2>10. Body(m) \o r \in Seq(Octet)
      BY <2>6, <2>9, Joined
    <2>11. link = Body(m) \o r
      <3>1. SubSeq(w, Word + 1, Len(w)) = link
        BY <1>2, <2>6, Apart
      <3>2. SubSeq(U32(l) \o (Body(m) \o r), Word + 1, Len(U32(l) \o (Body(m) \o r))) = Body(m) \o r
        BY <2>6, <2>10, Apart
      <3> HIDE DEF w
      <3> QED BY <2>9, <3>1, <3>2
    <2>12. body = Body(m) /\ link' = r
      <3>1. SubSeq(link, 1, Len(Body(m))) = Body(m) /\ SubSeq(link, Len(Body(m)) + 1, Len(link)) = r
        BY <2>6, <2>9, <2>11, Apart
      <3> QED BY <1>1, <2>3, <3>1 DEF body, l
    <2>13. Parse(body) = m /\ m.kind # "error"
      BY <2>6, <2>12 DEF Fine
    <2>14. receiver' = "open" /\ sent' = sent
      BY <1>1, <2>13
    <2>15. \A i \in 1 .. k + 1 : heard'[i] = sent[i]
      <3>1. \A i \in 1 .. k + 1 : i \in 1 .. k \/ i = k + 1
        BY <1>2
      <3> QED BY <1>7, <2>1, <2>13, <3>1 DEF m
    <2>16. Len(heard') <= Len(sent)
      BY <1>2, <1>7, <2>1, <2>2
    <2>17. InStep'
      BY <1>1, <1>7, <2>9, <2>12, <2>14 DEF InStep
    <2> QED BY <1>7, <2>14, <2>15, <2>16, <2>17
  <1>12. honest' = honest /\ sent' = sent /\ torrent' = torrent /\ receiver' # "greeting"
    BY <1>1, <1>8
  <1> QED BY <1>9, <1>10, <1>11, <1>12 DEF WireInv

LEMMA CutKeeps == ASSUME WireInv, Cut PROVE WireInv'
  <1>1. /\ link' = <<>> /\ receiver' = "cut"
        /\ UNCHANGED <<torrent, sent, heard, raw, declared, offered, greeted, honest>>
    BY DEF Cut
  <1>2. <<>> \in Seq(Octet)
    OBVIOUS
  <1>3. WireTyped'
    BY <1>1, <1>2 DEF WireInv, WireTyped
  <1> QED BY <1>1, <1>3 DEF WireInv

LEMMA WireInvKept == WireInv /\ [WireNext]_wireVars => WireInv'
  <1> SUFFICES ASSUME WireInv, [WireNext]_wireVars PROVE WireInv'
    OBVIOUS
  <1>1. CASE UNCHANGED wireVars
    <2>1. UNCHANGED <<torrent, link, sent, heard, raw, declared, receiver, offered, greeted, honest>>
      BY <1>1 DEF wireVars
    <2>2. WireTyped' /\ (InStep <=> InStep')
      BY <2>1 DEF WireInv, WireTyped, InStep
    <2> QED BY <2>1, <2>2 DEF WireInv
  <1>2. CASE WireNext
    <2>1. CASE \E f \in BOOLEAN, e \in BOOLEAN : SendHandshake([fast |-> f, extended |-> e])
      BY <2>1, SendHandshakeKeeps
    <2>2. CASE \E m \in Sendable(torrent) : Send(m)
      BY <2>2, SendKeeps
    <2>3. CASE \E b \in Hostile : \E n \in {Len(b), Len(b) + 1} : SendAnything(n, b)
      BY <2>3, SendAnythingKeeps
    <2> QED BY <1>2, <2>1, <2>2, <2>3, ReadHandshakeKeeps, ReadLengthKeeps, ReadBodyKeeps, CutKeeps DEF WireNext
  <1> QED BY <1>1, <1>2

\* What the invariant says of a conversation.
LEMMA WireMeans == WireInv => ConversationKept
  <1> SUFFICES ASSUME WireInv PROVE ConversationKept
    OBVIOUS
  <1>1. ASSUME honest PROVE UnderstandsOwn
    <2>1. /\ receiver # "refused" /\ Len(heard) <= Len(sent) /\ \A i \in 1 .. Len(heard) : heard[i] = sent[i]
      BY <1>1 DEF WireInv
    <2>2. Len(heard) \in Nat /\ greeted \subseteq {Greeting(offered)}
      BY DEF WireInv, WireTyped
    <2>3. SubSeq(heard, 1, Len(heard)) = SubSeq(sent, 1, Len(heard))
      <3>1. heard \in Seq(Parsed) /\ sent \in Seq(Sendable(torrent))
        BY <1>1 DEF WireInv, WireTyped
      <3> QED BY <2>1, <2>2, <3>1
    <2> QED BY <2>1, <2>2, <2>3 DEF UnderstandsOwn, IsPrefix, Greeting
  <1>2. UnderstandsOwn
    BY <1>1 DEF UnderstandsOwn
  <1>3. ASSUME NEW i \in DOMAIN heard, heard[i].kind # "error" PROVE Body(heard[i]) = raw[i]
    <2>1. raw \in Seq(Seq(Octet)) /\ heard \in Seq(Parsed) /\ Len(heard) = Len(raw)
      BY DEF WireInv, WireTyped
    <2>2. i \in 1 .. Len(heard) /\ i \in 1 .. Len(raw)
      BY <2>1
    <2>3. heard[i] = Parse(raw[i]) /\ raw[i] \in Seq(Octet)
      BY <2>1, <2>2 DEF WireInv
    <2> QED BY <1>3, <2>3, BodyParse
  <1> QED BY <1>2, <1>3 DEF ConversationKept, OneToOne

\* Two cloves understand each other (Message::encode, Message::parse,
\* read_frame_into, Handshake::encode and parse): for every torrent, every
\* message on it within the limits, and wherever the stream is cut, what one
\* sends the other reads in the same order and refuses none of; and no two
\* bodies of a stranger are the same message.
THEOREM ConversationAlwaysKept == WireSpec => []ConversationKept
  <1>1. WireInit => WireInv
    BY WireInitInv
  <1>2. WireInv /\ [WireNext]_wireVars => WireInv'
    BY WireInvKept
  <1>3. WireInv => ConversationKept
    BY WireMeans
  <1> QED BY <1>1, <1>2, <1>3, PTL DEF WireSpec

=============================================================================
