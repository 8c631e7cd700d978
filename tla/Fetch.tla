-------------------------------- MODULE Fetch --------------------------------
(***************************************************************************)
(* Turning a magnet into a torrent: the rounds of one metadata-fetch       *)
(* thread (spawn_metadata_fetch and try_fetch_round in cloved/src/main.rs),*)
(* the exchange with one peer (fetch_metadata in clove-core/src/torrent.rs *)
(* over metadata.rs and extension.rs), and how a peer running this code    *)
(* serves it (serve_metadata).                                             *)
(*                                                                         *)
(* Peers are numbers, in the order of their destinations.  Honest ones run *)
(* this code; the others send whatever they like, or nothing.  A metadata  *)
(* piece is "good" or "bad", and only all good ones of the true size have  *)
(* the magnet's hash.  METADATA_DEADLINE, which is looked at between       *)
(* frames, could only end an exchange sooner and is left out; an honest    *)
(* peer is assumed to beat it.                                             *)
(***************************************************************************)
EXTENDS Naturals, Sequences, FiniteSets, SequencesExt

CONSTANTS MaxPeer,          \* peers are 1 .. MaxPeer
          Honest,           \* those that run this code
          TrueSize,         \* metadata pieces of the torrent
          MaxSize,          \* MAX_METADATA_SIZE, in pieces
          Allowance,        \* MAX_METADATA_REQUESTS_PER_TICK
          GreetingFrames,   \* METADATA_GREETING_FRAMES
          Slack,            \* METADATA_FRAME_SLACK
          ExtraFrames,      \* the frames allowed beyond those
          MaxAnswer         \* peers the trackers name in one round, at most

Remote == 1 .. MaxPeer

ASSUME FetchAssumption ==
    /\ MaxPeer \in Nat /\ Honest \subseteq Remote /\ MaxAnswer \in Nat
    /\ TrueSize \in 1 .. MaxSize /\ MaxSize \in Nat
    /\ Allowance \in Nat /\ GreetingFrames \in Nat \ {0} /\ Slack \in Nat \ {0}
    /\ ExtraFrames \in Nat

VARIABLES
    fetch,      \* where the thread is
    queue,      \* the peers of this round still to be tried
    dialled,    \* those already dialled in it
    remote,     \* the peer of the exchange, 0 for none
    claim,      \* the size it claims, in pieces
    got,        \* the assembler: what it has of each piece
    due,        \* the requests an honest peer has not answered
    budget,     \* frames the peer may still spend
    quiet       \* nothing has arrived for METADATA_IO_TIMEOUT

exchangeVars == <<remote, claim, got, due, budget, quiet>>
fetchVars == <<fetch, queue, dialled, exchangeVars>>

FetchTypeOK ==
    /\ fetch \in {"waiting", "trying", "greeting", "assembling", "resolved", "removed"}
    /\ queue \in Seq(Remote) /\ Len(queue) <= MaxAnswer
    /\ dialled \in Seq(Remote)
    /\ remote \in 0 .. MaxPeer /\ claim \in 0 .. MaxSize + 1
    /\ DOMAIN got \subseteq 1 .. MaxSize /\ Range(got) \subseteq {"none", "good", "bad"}
    /\ due \in 0 .. MaxSize
    /\ budget \in 0 .. GreetingFrames + (MaxSize * Slack) + ExtraFrames
    /\ quiet \in BOOLEAN

FetchInit ==
    /\ fetch = "waiting" /\ queue = <<>> /\ dialled = <<>>
    /\ remote = 0 /\ claim = 0 /\ got = <<>> /\ due = 0 /\ budget = 0 /\ quiet = FALSE

\* The exchange is over; the thread is with the next peer of the round.
Ended ==
    /\ fetch' = "trying"
    /\ remote' = 0 /\ claim' = 0 /\ got' = <<>> /\ due' = 0 /\ budget' = 0 /\ quiet' = FALSE

-----------------------------------------------------------------------------
(* A round *)

\* sort: where the i-th element goes, and the sequence with each at its place.
Place(s, i) == Cardinality({j \in DOMAIN s : s[j] < s[i] \/ (s[j] = s[i] /\ j <= i)})
Sorted(s) == [k \in DOMAIN s |-> s[CHOOSE i \in DOMAIN s : Place(s, i) = k]]

\* dedup: what equals its neighbour goes, the rest moves up.
Dedup(s) ==
    LET kept == {i \in DOMAIN s : i = 1 \/ s[i] # s[i - 1]}
    IN  [k \in 1 .. Cardinality(kept) |->
            s[CHOOSE i \in kept : Cardinality({j \in kept : j <= i}) = k]]

Distinct(s) == Dedup(Sorted(s))

\* try_fetch_round, first half: every tracker is asked, and answers or not.
AskTrackers(answers) ==
    /\ fetch = "waiting" /\ fetch' = "trying"
    /\ queue' = Distinct(answers) /\ dialled' = <<>>
    /\ UNCHANGED exchangeVars

\* The next peer is dialled; one that cannot be reached is passed over.
DialPeer ==
    /\ fetch = "trying" /\ queue # <<>>
    /\ queue' = Tail(queue) /\ dialled' = Append(dialled, Head(queue))
    /\ \/ /\ fetch' = "greeting" /\ remote' = Head(queue)
          /\ budget' = GreetingFrames
          /\ UNCHANGED <<claim, got, due, quiet>>
       \/ Head(queue) \notin Honest /\ UNCHANGED <<fetch, exchangeVars>>

\* Nobody left: FETCH_ROUND_WAIT, and another round.
EndRound ==
    /\ fetch = "trying" /\ queue = <<>>
    /\ fetch' = "waiting"
    /\ UNCHANGED <<queue, dialled, exchangeVars>>

\* fetch_context finds the magnet gone.
MagnetRemoved ==
    /\ fetch = "waiting" /\ fetch' = "removed"
    /\ UNCHANGED <<queue, dialled, exchangeVars>>

-----------------------------------------------------------------------------
(* The exchange: fetch_metadata *)

\* Mutant: a peer that fails us ends the round.
ExchangeFails_EndsRound ==
    /\ fetch' = "waiting" /\ queue' = <<>> /\ UNCHANGED dialled
    /\ remote' = 0 /\ claim' = 0 /\ got' = <<>> /\ due' = 0 /\ budget' = 0 /\ quiet' = FALSE

ExchangeFails == Ended /\ UNCHANGED <<queue, dialled>>

\* MetadataAssembler::new refuses a size of nothing and one past the cap; else
\* every piece is requested at once.
Requests(size) ==
    IF size = 0 \/ size > MaxSize
    THEN ExchangeFails
    ELSE /\ fetch' = "assembling" /\ claim' = size
         /\ got' = [k \in 1 .. size |-> "none"]
         /\ due' = size
         /\ budget' = (size * Slack) + ExtraFrames
         /\ quiet' = FALSE
         /\ UNCHANGED <<queue, dialled, remote>>

\* Mutant: what was assembled is taken as it is.
Finish_Unchecked(pieces) == TRUE

\* MetadataAssembler::finish compares the hash.
Finish(pieces) == Len(pieces) = TrueSize /\ \A k \in DOMAIN pieces : pieces[k] = "good"

\* add_piece: out of range, of the wrong length or already held changes
\* nothing.  The last one missing ends the exchange, one way or the other.
\* `left` requests are then unanswered.
AddPiece(k, what, left) ==
    LET new == IF k \in DOMAIN got /\ got[k] = "none" /\ what \in {"good", "bad"}
               THEN [got EXCEPT ![k] = what] ELSE got
    IN  IF "none" \in Range(new)
        THEN /\ got' = new /\ due' = left /\ budget' = budget - 1 /\ quiet' = FALSE
             /\ UNCHANGED <<fetch, queue, dialled, remote, claim>>
        ELSE IF Finish(new)
        THEN /\ fetch' = "resolved" /\ got' = new /\ due' = left
             /\ UNCHANGED <<queue, dialled, remote, claim, budget, quiet>>
        ELSE ExchangeFails

\* A frame that is not what the loop waits for.
Useless ==
    /\ budget' = budget - 1 /\ quiet' = FALSE
    /\ UNCHANGED <<fetch, queue, dialled, remote, claim, got, due>>

\* An honest peer: its extension handshake, then serve_metadata on each request
\* in turn, until the allowance of the tick is used up.
HonestFrame ==
    /\ remote \in Honest /\ budget > 0
    /\ \/ fetch = "greeting" /\ Requests(TrueSize)
       \/ /\ fetch = "assembling" /\ due > 0
          /\ IF claim - due < Allowance
             THEN AddPiece(claim - due + 1, "good", due - 1)
             ELSE ExchangeFails

\* Anybody else, in any order, as often as the loop lets him.
OtherFrame ==
    /\ remote \in Remote \ Honest /\ budget > 0
    /\ \/ fetch \in {"greeting", "assembling"} /\ Useless
       \/ fetch = "greeting" /\ \E size \in 0 .. MaxSize + 1 : Requests(size)
       \/ fetch = "assembling" /\ ExchangeFails
       \/ /\ fetch = "assembling"
          /\ \E k \in 1 .. MaxSize, what \in {"good", "bad", "short"} : AddPiece(k, what, due)

\* The loop's own limit, read before every frame.
FramesSpent ==
    /\ fetch \in {"greeting", "assembling"} /\ budget = 0
    /\ ExchangeFails

\* A peer says nothing for METADATA_IO_TIMEOUT, and the read fails.
FallsSilent ==
    /\ fetch \in {"greeting", "assembling"} /\ ~quiet /\ remote \notin Honest
    /\ quiet' = TRUE
    /\ UNCHANGED <<fetch, queue, dialled, remote, claim, got, due, budget>>

ReadTimesOut ==
    /\ fetch \in {"greeting", "assembling"} /\ quiet
    /\ ExchangeFails

FetchNext ==
    \/ \E answers \in SeqOf(Remote, MaxAnswer) : AskTrackers(answers)
    \/ DialPeer \/ EndRound \/ MagnetRemoved
    \/ HonestFrame \/ OtherFrame \/ FramesSpent \/ FallsSilent \/ ReadTimesOut

FetchSpec == FetchInit /\ [][FetchNext]_fetchVars

\* The thread runs, an honest peer answers, and a socket on which nothing
\* happens times out.  Nobody else has to send anything.
FetchMust ==
    \/ \E answers \in SeqOf(Remote, MaxAnswer) : AskTrackers(answers)
    \/ DialPeer \/ EndRound \/ HonestFrame \/ FramesSpent \/ ReadTimesOut

FetchFairness == WF_fetchVars(FetchMust) /\ WF_fetchVars(FallsSilent)

-----------------------------------------------------------------------------
(* Properties *)

\* A magnet resolves to its own torrent or not at all, whatever sizes, pieces
\* and repetitions peers send and in whatever order (finish).
Authentic ==
    fetch = "resolved" => Len(got) = TrueSize /\ \A k \in DOMAIN got : got[k] = "good"

\* No peer is dialled twice in a round, although several trackers name it
\* (distinct: "survives it and gets dialled twice").
DialledOnce == \A i, j \in DOMAIN dialled : i # j => dialled[i] # dialled[j]

\* No peer keeps the thread: one that answers promptly and uselessly runs out
\* of frames, one that says nothing into the socket's timeout.
ExchangeEnds == remote # 0 ~> (remote = 0 \/ fetch = "resolved")

\* One honest peer is enough: if the trackers keep naming one, the magnet
\* resolves, whoever else is tried before it.
HonestResolves ==
    []<>(\E i \in DOMAIN queue : queue[i] \in Honest) => <>(fetch \in {"resolved", "removed"})

\* What peers say changes neither what is fetched nor who is asked: the right
\* metadata or none, and every peer once (fetch_metadata, distinct).
FetchSafe == FetchTypeOK /\ Authentic /\ DialledOnce

\* A round moves on from every peer and ends well if one of them is honest.
FetchProgress == ExchangeEnds /\ HonestResolves
=============================================================================
