------------------------------- MODULE MCData -------------------------------
(***************************************************************************)
(* What is read, written and named, one part at a time: `part` says which  *)
(* component a behaviour is about; the others rest in an initial state.    *)
(***************************************************************************)
EXTENDS Extensions, Layout, Beneath, Commands, Mock, Http, Records

CONSTANTS e1, e2, m1, m2

Endpoints == {e1, e2}
Dials == {m1, m2}

\* A path and its ways to go wrong: itself in capitals, one through another,
\* one with a component that is refused, and none at all.
Lengths == {-1, 0, 1, 3}
Paths == {<<1>>, <<11>>, <<1, 2>>, <<1, 3>>, <<2>>, <<0>>, <<>>}

\* Two hashes share a prefix, which names one of them when the other is not there.
Hashes == {<<1, 1, 1, 2>>, <<1, 1, 12, 1>>}
References == {<<0>>, <<1>>, <<2>>, <<12>>, <<1, 1>>, <<1, 1, 1, 2>>}

\* d l e 0: 0:0: 1:0 i0e i-300e i300e i- 0 2: 300:
Tokens == {<<100>>, <<108>>, <<101>>, <<48, 58>>, <<48, 58, 48, 58>>, <<49, 58, 48>>, <<105, 48, 101>>,
           <<105, 45, 51, 48, 48, 101>>, <<105, 51, 48, 48, 101>>, <<105, 45>>, <<48>>, <<50, 58>>,
           <<51, 48, 48, 58>>}
Least == -300

\* The largest torrent, and one whose info dictionary takes two pieces.
AllTorrents == {[pieces |-> 32, private |-> FALSE, info |-> <<4, 4, 4, 4, 101, 4>>],
                [pieces |-> 472, private |-> TRUE, info |-> <<>>]}
Destinations == <<<<1, 1>>, <<1, 2>>, <<1, 3>>>>
\* A bit set for each torrent, one of them as long as a block; one number that takes two bytes.
ByteBlobs == {[k \in 1 .. n |-> 255] : n \in {4, 59}}
Words == {4, 471}
Hash3 == <<3, 3>>
Id5 == <<5, 5>>
Strange == {<<i>> \o [k \in 1 .. n |-> 1] : i \in 0 .. 21, n \in 0 .. 7}

\* One body is over the cap; a head may tell two stories, or be too long.
HttpBodies == {<<>>, <<1>>, <<2, 63>>, <<1, 63, 0>>}
HeaderLines ==
    {[name |-> "content-length", value |-> n] : n \in {1, 2, 9}}
        \cup {[name |-> "transfer-encoding", value |-> 1], [name |-> "malformed", value |-> 0]}
Heads == UNION {[1 .. n -> HeaderLines] : n \in 0 .. 2} \cup {[k \in 1 .. 3 |-> [name |-> "other", value |-> 0]]}
HttpBytes == UNION {[1 .. n -> {0, 1, 59, 63}] : n \in 0 .. 2}
                \cup {<<1, 59, 63>>, <<1, 1, 1>>, <<0, 63, 63>>, <<0, 63, 1, 1, 63, 63>>}
SizeNumerals == {<<n>> : n \in 0 .. 4} \cup {<<0, 1>>}

VARIABLE part

dataVars == <<part, bencodeVars, wireVars, layoutVars, beneathVars, commandVars, mockVars, httpVars, recordVars>>

DataInit ==
    /\ part \in {"bencode", "wire", "layout", "beneath", "commands", "net", "http", "records"}
    /\ BencodeInit /\ LayoutInit
    /\ WireInit /\ (part # "wire" => torrent.private /\ honest)
    /\ BeneathInit /\ (part # "beneath" => rootThere /\ entry = [k \in Level |-> CHOOSE kind \in Kind : TRUE])
    /\ CommandsInit /\ (part # "commands" => Hosted = {} /\ magnets = {})
    /\ MockInit /\ patience = "none"
    /\ HttpInit /\ (part # "http" => role = "request" /\ genuine /\ framing = "none" /\ reach = 0)
    /\ RecordsInit /\ (part # "records" => memory.pieces = Max(PieceCounts))

DataNext ==
    /\ UNCHANGED part
    /\ \/ /\ part = "bencode" /\ BencodeNext
          /\ UNCHANGED <<wireVars, layoutVars, beneathVars, commandVars, mockVars, httpVars, recordVars>>
       \/ /\ part = "wire" /\ WireNext
          /\ UNCHANGED <<bencodeVars, layoutVars, beneathVars, commandVars, mockVars, httpVars, recordVars>>
       \/ /\ part = "layout" /\ LayoutNext
          /\ UNCHANGED <<bencodeVars, wireVars, beneathVars, commandVars, mockVars, httpVars, recordVars>>
       \/ /\ part = "beneath" /\ BeneathNext
          /\ UNCHANGED <<bencodeVars, wireVars, layoutVars, commandVars, mockVars, httpVars, recordVars>>
       \/ /\ part = "commands" /\ CommandsNext
          /\ UNCHANGED <<bencodeVars, wireVars, layoutVars, beneathVars, mockVars, httpVars, recordVars>>
       \/ /\ part = "net" /\ NetNext
          /\ UNCHANGED <<bencodeVars, wireVars, layoutVars, beneathVars, commandVars, httpVars, recordVars>>
       \/ /\ part = "http" /\ HttpNext
          /\ UNCHANGED <<bencodeVars, wireVars, layoutVars, beneathVars, commandVars, mockVars, recordVars>>
       \/ /\ part = "records" /\ RecordsNext
          /\ UNCHANGED <<bencodeVars, wireVars, layoutVars, beneathVars, commandVars, mockVars, httpVars>>

DataSpec == DataInit /\ [][DataNext]_dataVars
=============================================================================
