------------------------------ MODULE Bencode ------------------------------
(***************************************************************************)
(* The bencode codec (clove-core/src/bencode.rs).  Extensions builds the   *)
(* messages read off its trees on it.                                      *)
(*                                                                         *)
(* Bytes are their ASCII codes.  The decoder is a recursive function of    *)
(* its position: a result is [err, at, nodes, val, span], with err =       *)
(* "none" for a value.  The input grows token by token, and what the       *)
(* decoder says of it is compared with what it says of its prefixes.       *)
(* RECURSIVE operators: this module is for TLC only.                       *)
(***************************************************************************)
EXTENDS Integers, Sequences, FiniteSets, SequencesExt

CONSTANTS Token,            \* what inputs are put together from, byte sequences
          MaxTokens,        \* how many to an input (a bound)
          MaxDepth,         \* MAX_DEPTH
          MinNodeBytes,     \* MIN_NODE_BYTES
          IntMin, IntMax,   \* i64::MIN and i64::MAX
          LenMax            \* usize::MAX

ASSUME BencodeAssumption ==
    /\ \A t \in Token : t # <<>> /\ \A k \in DOMAIN t : t[k] \in 0 .. 255
    /\ IntMin = -IntMax - 1
    /\ MaxDepth \in Nat \ {0} /\ MinNodeBytes \in Nat \ {0} /\ {IntMax, LenMax, MaxTokens} \subseteq Nat

VARIABLES input,    \* the bytes so far
          tokens    \* how many more may follow

bencodeVars == <<input, tokens>>

Minus == 45
Colon == 58
LowerD == 100
LowerE == 101
LowerI == 105
LowerL == 108

IsDigit(b) == b \in 48 .. 57

AsBytes(s) == [kind |-> "bytes", bytes |-> s]
AsInt(n)   == [kind |-> "int", int |-> n]
AsList(s)  == [kind |-> "list", items |-> s]
AsDict(f)  == [kind |-> "dict", map |-> f]

-----------------------------------------------------------------------------
(* Encoding *)

RECURSIVE Decimal(_)
Decimal(n) == IF n < 10 THEN <<48 + n>> ELSE Append(Decimal(n \div 10), 48 + (n % 10))

PutBytes(b) == Decimal(Len(b)) \o <<Colon>> \o b

BytesBefore(a, b) ==
    \/ IsStrictPrefix(a, b)
    \/ \E k \in DOMAIN a \cap DOMAIN b : a[k] < b[k] /\ \A j \in 1 .. k - 1 : a[j] = b[j]

\* BTreeMap's order.
SortedKeys(map) == SetToSortSeq(DOMAIN map, BytesBefore)

RECURSIVE Encode(_)
Encode(v) ==
    CASE v.kind = "bytes" -> PutBytes(v.bytes)
      [] v.kind = "int"   -> <<LowerI>> \o (IF v.int < 0 THEN <<Minus>> \o Decimal(-v.int) ELSE Decimal(v.int))
                                        \o <<LowerE>>
      [] v.kind = "list"  -> <<LowerL>> \o FlattenSeq([k \in DOMAIN v.items |-> Encode(v.items[k])]) \o <<LowerE>>
      [] v.kind = "dict"  ->
            LET keys == SortedKeys(v.map)
            IN  <<LowerD>> \o FlattenSeq([k \in DOMAIN keys |-> PutBytes(keys[k]) \o Encode(v.map[keys[k]])])
                           \o <<LowerE>>

-----------------------------------------------------------------------------
(* Decoding *)

\* The input, the budget and the key whose place is wanted.
Decoder(in, want) == [in |-> in, budget |-> Len(in) \div MinNodeBytes, want |-> want]

Ended(d, pos) == pos > Len(d.in)

Fail(kind, pos) == [err |-> kind, at |-> pos]

\* A value that ends before byte pos, nodes built so far, the span if found.
Got(v, pos, nodes, span) == [err |-> "none", at |-> pos, nodes |-> nodes, val |-> v, span |-> span]

Failed(r) == r.err # "none"

\* The first position from pos on that is no digit.
RECURSIVE DigitsEnd(_, _)
DigitsEnd(d, pos) == IF ~Ended(d, pos) /\ IsDigit(d.in[pos]) THEN DigitsEnd(d, pos + 1) ELSE pos

Number(digits) == FoldLeft(LAMBDA n, b : 10 * n + (b - 48), 0, digits)

\* checked_mul and checked_sub/add on the way: the first prefix that is too
\* large is refused, whatever follows it.
Overflows(digits, limit) == \E k \in DOMAIN digits : Number(SubSeq(digits, 1, k)) > limit

LeadingZero(digits) == Len(digits) > 1 /\ digits[1] = 48

\* The number is accumulated negatively: IntMin fits while it is read.
IntLimit == -IntMin

\* int: `i`, at pos, its digits, `e`.
IntAt(d, pos, nodes) ==
    IF Ended(d, pos + 1) THEN Fail("Truncated", pos + 1)
    ELSE LET negative == d.in[pos + 1] = Minus
             first == IF negative THEN pos + 2 ELSE pos + 1
             last == DigitsEnd(d, first)
             digits == SubSeq(d.in, first, last - 1)
         IN  IF Overflows(digits, IntLimit) THEN Fail("BadInt", pos)
             ELSE IF Ended(d, last) THEN Fail("Truncated", last)
             ELSE IF \/ d.in[last] # LowerE \/ digits = <<>> \/ LeadingZero(digits)
                     \/ negative /\ Number(digits) = 0
                     \/ ~negative /\ Number(digits) > IntMax
                  THEN Fail("BadInt", pos)
             ELSE Got(AsInt(IF negative THEN -Number(digits) ELSE Number(digits)), last + 1, nodes, {})

\* Mutant: the declared length is not held against what is there.
BytesAt_Clipped(d, pos, nodes) ==
    LET last == DigitsEnd(d, pos)
        digits == SubSeq(d.in, pos, last - 1)
        end == last + 1 + Number(digits)
    IN  IF Overflows(digits, LenMax) THEN Fail("BadLength", pos)
        ELSE IF Ended(d, last) THEN Fail("Truncated", last)
        ELSE IF d.in[last] # Colon \/ digits = <<>> \/ LeadingZero(digits) THEN Fail("BadLength", pos)
        ELSE LET stop == IF end > Len(d.in) + 1 THEN Len(d.in) + 1 ELSE end
             IN  Got(AsBytes(SubSeq(d.in, last + 1, stop - 1)), stop, nodes, {})

\* bytes, bytes_span: digits, `:`, and as many bytes as they say.
BytesAt(d, pos, nodes) ==
    LET last == DigitsEnd(d, pos)
        digits == SubSeq(d.in, pos, last - 1)
        end == last + 1 + Number(digits)
    IN  IF Overflows(digits, LenMax) THEN Fail("BadLength", pos)
        ELSE IF Ended(d, last) THEN Fail("Truncated", last)
        ELSE IF d.in[last] # Colon \/ digits = <<>> \/ LeadingZero(digits) THEN Fail("BadLength", pos)
        ELSE IF end - 1 > Len(d.in) THEN Fail("Truncated", last + 1)
        ELSE Got(AsBytes(SubSeq(d.in, last + 1, end - 1)), end, nodes, {})

RECURSIVE ValueAt(_, _, _, _)
RECURSIVE ItemsAt(_, _, _, _, _)
RECURSIVE EntriesAt(_, _, _, _, _, _)

\* Only the top-level dictionary is asked about.
SpanOf(d, depth, key, start, end, span) ==
    IF depth = 0 /\ key = d.want THEN {<<start, end - 1>>} ELSE span

\* The rest of a list, after an item.
ItemsAfter(d, depth, items, r) ==
    IF Failed(r) THEN r ELSE ItemsAt(d, r.at, depth, r.nodes, Append(items, r.val))

ItemsAt(d, pos, depth, nodes, items) ==
    IF Ended(d, pos) THEN Fail("Truncated", pos)
    ELSE IF d.in[pos] = LowerE THEN Got(AsList(items), pos + 1, nodes, {})
    ELSE ItemsAfter(d, depth, items, ValueAt(d, pos, depth + 1, nodes))

\* The rest of a dictionary, after the entry at pos of key k and value r.
EntriesAfter(d, pos, depth, map, span, k, r) ==
    IF Failed(r) THEN r
    ELSE IF k.val.bytes \in DOMAIN map THEN Fail("BadKey", pos)
    ELSE EntriesAt(d, r.at, depth, r.nodes, map @@ (k.val.bytes :> r.val),
                   SpanOf(d, depth, k.val.bytes, k.at, r.at, span))

\* The value of key k, and what comes after it.
EntryAfter(d, pos, depth, nodes, map, span, k) ==
    IF Failed(k) THEN k
    ELSE EntriesAfter(d, pos, depth, map, span, k, ValueAt(d, k.at, depth + 1, nodes))

EntriesAt(d, pos, depth, nodes, map, span) ==
    IF Ended(d, pos) THEN Fail("Truncated", pos)
    ELSE IF d.in[pos] = LowerE THEN Got(AsDict(map), pos + 1, nodes, span)
    ELSE IF ~IsDigit(d.in[pos]) THEN Fail("BadKey", pos)
    ELSE EntryAfter(d, pos, depth, nodes, map, span, BytesAt(d, pos, nodes))

\* node: what the first byte says is there.
NodeAt(d, pos, depth, nodes) ==
    IF Ended(d, pos) THEN Fail("Truncated", pos)
    ELSE CASE d.in[pos] = LowerI    -> IntAt(d, pos, nodes)
           [] IsDigit(d.in[pos])    -> BytesAt(d, pos, nodes)
           [] d.in[pos] = LowerL    -> ItemsAt(d, pos + 1, depth, nodes, <<>>)
           [] d.in[pos] = LowerD    -> EntriesAt(d, pos + 1, depth, nodes, <<>>, {})
           [] OTHER                 -> Fail("BadValueStart", pos)

\* One more node, if the budget has room for it.
WithinBudget(d, r) ==
    IF Failed(r) THEN r
    ELSE IF r.nodes + 1 > d.budget THEN Fail("TooManyNodes", r.at)
    ELSE [r EXCEPT !.nodes = @ + 1]

\* value: the depth limit before, the node budget after.
ValueAt(d, pos, depth, nodes) ==
    IF depth >= MaxDepth THEN Fail("TooDeep", pos) ELSE WithinBudget(d, NodeAt(d, pos, depth, nodes))

DecodePrefix(in) == ValueAt(Decoder(in, <<>>), 1, 0, 0)

\* Nothing may follow the value.
Whole(in, r) == IF Failed(r) \/ r.at > Len(in) THEN r ELSE Fail("TrailingData", r.at)

\* decode_with_entry; decode and raw_entry are halves of its answer.
DecodeWithEntry(in, want) == Whole(in, ValueAt(Decoder(in, want), 1, 0, 0))

Decode(in) == DecodeWithEntry(in, <<>>)

-----------------------------------------------------------------------------
(* The input *)

Verdict == DecodePrefix(input)

BencodeInit == input = <<>> /\ tokens = MaxTokens

\* More of the input, up to what settled the matter.
Feed(t) ==
    /\ tokens > 0 /\ tokens' = tokens - 1
    /\ Verdict.err = "Truncated"
    /\ input' = input \o t

BencodeNext == \E t \in Token : Feed(t)

BencodeSpec == BencodeInit /\ [][BencodeNext]_bencodeVars

-----------------------------------------------------------------------------
(* Properties *)

\* Strict syntax: what decode accepts, encode writes again in as many bytes,
\* and decode reads the same value from it, the smallest integer included.
\* Only the order of keys may differ.
Canonical ==
    \A r \in {Decode(input)} : ~Failed(r) =>
        \A written \in {Encode(r.val)} : \A again \in {Decode(written)} :
            ~Failed(again) /\ again.val = r.val /\ Len(written) = Len(input)

\* raw_entry's range is exactly the value of that key of the top-level
\* dictionary, on its own: the bytes an info-hash is computed over.
EntryExact ==
    \A whole \in {Decode(input)} : ~Failed(whole) /\ whole.val.kind = "dict" =>
        \A key \in DOMAIN whole.val.map : \A spans \in {DecodeWithEntry(input, key).span} :
            /\ Cardinality(spans) = 1
            /\ \A s \in spans : \A alone \in {Decode(SubSeq(input, s[1], s[2]))} :
                   ~Failed(alone) /\ alone.val = whole.val.map[key]

\* node_budget is the memory bound written down: no input runs into it.
BudgetNeverBites == Verdict.err # "TooManyNodes"

\* decode_prefix stops where the value does: whatever follows (the raw bytes
\* of a ut_metadata piece), the answer is the same, and so is any error but
\* that the input ended too soon.
VerdictFinal ==
    \A k \in 0 .. Len(input) :
        LET before == DecodePrefix(SubSeq(input, 1, k))
        IN  before.err # "Truncated" => Verdict = before
=============================================================================
