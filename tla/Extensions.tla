----------------------------- MODULE Extensions -----------------------------
(***************************************************************************)
(* What the extension messages of the wire protocol carry (extension.rs,   *)
(* pex.rs, metadata.rs): bencoded dictionaries, and what the other end     *)
(* makes of them.  Names and keys are one byte long; a destination is      *)
(* HashBytes bytes.                                                        *)
(***************************************************************************)
EXTENDS Bencode, Wire

CONSTANTS MaxPexPeers,
          Known             \* destinations the sender knows

ASSUME ExtensionsAssumption == MaxPexPeers \in Nat \ {0}

-----------------------------------------------------------------------------
(* What the extension messages carry *)

KeyM == <<109>>             \* "m"
KeySize == <<122>>          \* "metadata_size", "total_size"
KeyClient == <<118>>        \* "v"
KeyAdded == <<97>>          \* "added"
KeyDropped == <<100>>       \* "dropped"
KeyPiece == <<112>>         \* "piece"
KeyType == <<116>>          \* "msg_type"
I2pPex == <<120>>
UtMetadata == <<117>>
OurPexId == 1
OurMetadataId == 2

\* Value::get, and the accessors on what it finds: a set, empty for None.
GetKey(tree, key) == IF tree.kind = "dict" /\ key \in DOMAIN tree.map THEN {tree.map[key]} ELSE {}
Ints(values) == {v.int : v \in {w \in values : w.kind = "int"}}
ByteStrings(values) == {v.bytes : v \in {w \in values : w.kind = "bytes"}}

\* extension::Handshake::encode
EncodeExt(h) ==
    Encode(AsDict((KeyM :> AsDict([n \in DOMAIN h.ids |-> AsInt(h.ids[n])]))
                  @@ (IF h.size = {} THEN <<>> ELSE KeySize :> AsInt(CHOOSE n \in h.size : TRUE))
                  @@ (KeyClient :> AsBytes(h.client))))

\* extension::Handshake::parse, of what decode made of the payload; {} for
\* Malformed.
HandshakeOf(r) ==
    LET m == {v.map : v \in {w \in GetKey(r.val, KeyM) : w.kind = "dict"}}
        bad == \E f \in m : \E n \in DOMAIN f : f[n].kind # "int" \/ f[n].int \notin 0 .. 255
        named(f) == {n \in DOMAIN f : f[n].int # 0}
    IN  IF Failed(r) \/ bad THEN {}
        ELSE {[ids |-> IF m = {} THEN <<>> ELSE LET f == CHOOSE g \in m : TRUE IN [n \in named(f) |-> f[n].int],
               size |-> {n \in Ints(GetKey(r.val, KeySize)) : n >= 0},
               client |-> ByteStrings(GetKey(r.val, KeyClient))]}

ParseExt(payload) == HandshakeOf(Decode(payload))

\* PexMessage::encode, pack
EncodePex(added) ==
    Encode(AsDict((KeyAdded :> AsBytes(FlattenSeq(added))) @@ (KeyDropped :> AsBytes(<<>>))))

\* unpack: a concatenation of hashes, {} for Malformed.
Unpack(values) ==
    IF values = {} THEN {<<>>}
    ELSE {[k \in 1 .. Len(b) \div HashBytes |-> SubSeq(b, (k - 1) * HashBytes + 1, k * HashBytes)] :
              b \in {x \in ByteStrings(values) : Len(x) % HashBytes = 0}}

\* PexMessage::parse
PexOf(r) ==
    IF Failed(r) THEN {}
    ELSE {p \in {[added |-> a, dropped |-> d] : a \in Unpack(GetKey(r.val, KeyAdded)),
                                                d \in Unpack(GetKey(r.val, KeyDropped))} :
             Len(p.added) + Len(p.dropped) <= MaxPexPeers}

ParsePex(payload) == PexOf(Decode(payload))

\* MetadataMessage::encode
EncodeMetadata(m) ==
    Encode(AsDict((KeyType :> AsInt(m.type)) @@ (KeyPiece :> AsInt(m.piece))
                  @@ (IF m.type = 1 THEN KeySize :> AsInt(m.total) ELSE <<>>))) \o m.data

\* MetadataMessage::parse: a header r, and the raw bytes after it.
MetadataOf(payload, r) ==
    LET data == SubSeq(payload, r.at, Len(payload))
        piece == {n \in Ints(GetKey(r.val, KeyPiece)) : n >= 0}
        type == Ints(GetKey(r.val, KeyType))
        total == {n \in Ints(GetKey(r.val, KeySize)) : n >= 0}
    IN  IF Failed(r) THEN {}
        ELSE {[type |-> t, piece |-> p, total |-> 0, data |-> <<>>] : t \in type \cap {0, 2}, p \in piece}
             \cup {[type |-> 1, piece |-> p, total |-> n, data |-> data] :
                       p \in {q \in piece : 1 \in type /\ Len(data) <= MetadataPieceLen}, n \in total}

ParseMetadata(payload) == MetadataOf(payload, DecodePrefix(payload))

-----------------------------------------------------------------------------
(* What a clove sends on a torrent *)

\* our_extension_handshake
OurExtension(t) ==
    [ids |-> (IF t.private THEN <<>> ELSE I2pPex :> OurPexId) @@ (UtMetadata :> OurMetadataId),
     size |-> IF t.info = <<>> THEN {} ELSE {Len(t.info)}, client |-> <<99>>]

\* send_pex: as many as the parser takes.
PexAdded == SubSeq(Known, 1, IF Len(Known) < MaxPexPeers THEN Len(Known) ELSE MaxPexPeers)

\* serve_metadata's answer for a piece.
MetadataAnswer(t, piece) ==
    LET start == piece * MetadataPieceLen
        end == IF start + MetadataPieceLen < Len(t.info) THEN start + MetadataPieceLen ELSE Len(t.info)
    IN  IF start < Len(t.info)
        THEN [type |-> 1, piece |-> piece, total |-> Len(t.info), data |-> SubSeq(t.info, start + 1, end)]
        ELSE [type |-> 2, piece |-> piece, total |-> 0, data |-> <<>>]

\* Extension messages go out under the id the receiver advertised, the same
\* here, a clove's.
Extended(sub, payload) == [kind |-> "Extended", sub |-> sub, payload |-> payload]

OurPayloads ==
    [t \in Torrents |->
        {Extended(0, EncodeExt(OurExtension(t)))}
        \cup {Extended(OurMetadataId, EncodeMetadata(MetadataAnswer(t, p))) :
                  p \in 0 .. Len(t.info) \div MetadataPieceLen}
        \cup {Extended(OurPexId, EncodePex(PexAdded)) : p \in {x \in {1} : ~t.private /\ Known # <<>>}}]

-----------------------------------------------------------------------------
(* Properties *)

\* What the extension messages carry arrives: the handshake, the peers of a
\* busy torrent (PexMessage::parse drops a message over its limit, so send_pex
\* must not build one), a metadata piece with the raw bytes after its header.
PayloadsKept ==
    honest => \A i \in DOMAIN heard :
        heard[i].kind = "Extended" =>
            /\ heard[i].sub = 0 => \E h \in ParseExt(heard[i].payload) :
                                      /\ h.ids = OurExtension(torrent).ids
                                      /\ h.size = OurExtension(torrent).size
            /\ heard[i].sub = OurPexId => {p.added : p \in ParsePex(heard[i].payload)} = {PexAdded}
            /\ heard[i].sub = OurMetadataId =>
                   \E p \in 0 .. Len(torrent.info) \div MetadataPieceLen :
                       ParseMetadata(heard[i].payload) = {MetadataAnswer(torrent, p)}

\* The decoder accepts the canonical form of each value, a dictionary's keys in
\* any order, and nothing else; it finds entries where they are, stays in its
\* budget and is not swayed by what follows; and what cloves put into extension
\* messages comes out again.
CodecExact == Canonical /\ EntryExact /\ BudgetNeverBites /\ VerdictFinal /\ PayloadsKept
=============================================================================
