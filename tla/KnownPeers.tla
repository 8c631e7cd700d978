----------------------------- MODULE KnownPeers -----------------------------
(***************************************************************************)
(* The destinations one torrent knows (State.known_peers, banned, offences *)
(* and local_dest in clove-core/src/torrent.rs): where each was heard of,  *)
(* who may displace whom when the table is full, and how long a            *)
(* destination that misbehaved is left alone.  Peer exchange is part of    *)
(* it: what a message adds and what is sent on.                            *)
(*                                                                         *)
(* Every operation runs under the state lock, so it is one action.  Holds  *)
(* are counted down instead of comparing instants.                         *)
(***************************************************************************)
EXTENDS Naturals, FiniteSets, FiniteSetsExt

CONSTANTS Address,        \* destinations
          MaxKnown,       \* MAX_KNOWN_PEERS, which bounds offences too
          MaxPex,         \* MAX_PEX_PEERS
          Backoff,        \* MISBEHAVIOUR_BACKOFF, in ticks
          MaxBackoff,     \* MAX_MISBEHAVIOUR_BACKOFF
          ShiftCap,       \* the 16 the shift is clamped at
          MaxCount,       \* cap of an offence count, above ShiftCap
          Private         \* Shared.private

ASSUME KnownPeersAssumption ==
    /\ IsFiniteSet(Address)
    /\ MaxKnown \in Nat \ {0} /\ MaxPex \in Nat
    /\ Backoff \in Nat \ {0} /\ MaxBackoff \in Nat /\ Backoff <= MaxBackoff
    /\ ShiftCap \in Nat /\ MaxCount \in Nat /\ ShiftCap < MaxCount
    /\ Private \in BOOLEAN

VARIABLES
    known,      \* known_peers: "pex", "trusted", or "no" for no entry
    refused,    \* State.banned
    local,      \* local_dest, as a set of at most one
    offences,   \* offence count, 0 for no entry
    holds       \* ticks until the hold of an entry ends

knownVars == <<known, refused, local, offences, holds>>

Known == {d \in Address : known[d] # "no"}
Offenders == {d \in Address : offences[d] > 0}

KnownPeersTypeOK ==
    /\ known \in [Address -> {"pex", "trusted", "no"}]
    /\ refused \subseteq Address /\ local \subseteq Address
    /\ offences \in [Address -> 0 .. MaxCount]
    /\ holds \in [Address -> 0 .. MaxBackoff]

KnownPeersInit ==
    /\ known = [d \in Address |-> "no"]
    /\ refused = {} /\ local = {}
    /\ offences = [d \in Address |-> 0] /\ holds = [d \in Address |-> 0]

-----------------------------------------------------------------------------
(* remember_peer_from *)

\* Mutant: a full table makes room by evicting anybody.
Victims_Anyone(table) == {d \in Address : table[d] # "no"}

\* Whom a trusted destination may displace.
Victims(table) == {d \in Address : table[d] = "pex"}

Refuses(d) == d \in refused \cup local

\* The tables remember_peer_from may leave: any victim will do.
Remembered(table, d, source) ==
    IF Refuses(d) THEN {table}
    ELSE IF table[d] # "no"
    THEN {IF source = "trusted" THEN [table EXCEPT ![d] = "trusted"] ELSE table}
    ELSE IF Cardinality({e \in Address : table[e] # "no"}) < MaxKnown
    THEN {[table EXCEPT ![d] = source]}
    ELSE IF source = "pex" \/ Victims(table) = {} THEN {table}
    ELSE {[table EXCEPT ![v] = "no", ![d] = source] : v \in Victims(table)}

\* A tracker's answer, the operator, or a registration.
AddPeer(d) ==
    /\ known' \in Remembered(known, d, "trusted")
    /\ UNCHANGED <<refused, local, offences, holds>>

\* OUR_PEX_ID: ignored on a private torrent.
OnPex(d) ==
    /\ ~Private
    /\ known' \in Remembered(known, d, "pex")
    /\ UNCHANGED <<refused, local, offences, holds>>

\* send_pex: the lists the peer at d may be sent once its extension handshake
\* is in, never longer than the parser at the other end accepts.
SendPex(d) ==
    IF Private THEN {}
    ELSE LET tell == Known \ {d}
         IN  {S \in SUBSET tell : S # {} /\ Cardinality(S) = Min({MaxPex, Cardinality(tell)})}

\* set_local_dest: we are nobody's peer.  A rebuilt session keeps the identity.
SetLocalDest(d) ==
    /\ local = {}
    /\ local' = {d}
    /\ known' = [known EXCEPT ![d] = "no"]
    /\ UNCHANGED <<refused, offences, holds>>

\* State::ban, as far as this table goes.
Ban(d) ==
    /\ refused' = refused \cup {d}
    /\ known' = [known EXCEPT ![d] = "no"]
    /\ UNCHANGED <<local, offences, holds>>

-----------------------------------------------------------------------------
(* penalise, held_for, dial_candidates *)

\* Mutant: the hold is not clamped at an hour.
HoldFor_Unclamped(count) == Backoff * 2 ^ Min({count - 1, ShiftCap})

\* The hold an offence earns: doubled each time, clamped twice.
HoldFor(count) == Min({MaxBackoff, Backoff * 2 ^ Min({count - 1, ShiftCap})})

\* The entries that stay when one for d has to be made: all while there is
\* room, else those whose hold still runs.
Kept(d) ==
    IF Cardinality(Offenders) < MaxKnown \/ offences[d] > 0 THEN Offenders
    ELSE {e \in Offenders : holds[e] > 0}

Penalise(d) ==
    LET kept  == Kept(d)
        count == Min({offences[d] + 1, MaxCount})
    IN  /\ IF d \notin kept /\ Cardinality(kept) >= MaxKnown
           THEN /\ offences' = [e \in Address |-> IF e \in kept THEN offences[e] ELSE 0]
                /\ holds' = [e \in Address |-> IF e \in kept THEN holds[e] ELSE 0]
           ELSE /\ offences' = [e \in Address |-> IF e = d THEN count
                                                ELSE IF e \in kept THEN offences[e] ELSE 0]
                /\ holds' = [e \in Address |-> IF e = d THEN HoldFor(count)
                                             ELSE IF e \in kept THEN holds[e] ELSE 0]
        /\ UNCHANGED <<known, refused, local>>

HoldTick ==
    /\ holds' = [d \in Address |-> IF holds[d] = 0 THEN 0 ELSE holds[d] - 1]
    /\ UNCHANGED <<known, refused, local, offences>>

\* What the dial sweep may try.
DialCandidates == {d \in Known : d \notin refused \cup local /\ holds[d] = 0}

KnownPeersNext ==
    \/ \E d \in Address : \/ AddPeer(d) \/ OnPex(d)
                        \/ SetLocalDest(d) \/ Ban(d) \/ Penalise(d)
    \/ HoldTick

KnownPeersSpec == KnownPeersInit /\ [][KnownPeersNext]_knownVars

-----------------------------------------------------------------------------
(* Properties *)

\* A stranger's word displaces nothing: an entry a tracker, an inbound peer or
\* the operator vouched for leaves only by a ban or by being ourselves, and
\* is never downgraded.
TrustedStays ==
    \A d \in Address : known[d] = "trusted"
        => known'[d] = "trusted" \/ d \in refused' \cup local'

\* A ban outlives every source, and so does our own address: neither is known
\* again, dialled or passed on, however often a tracker or a peer names it.
RefusedForgotten ==
    /\ (refused \cup local) \cap Known = {}
    /\ DialCandidates \cap (refused \cup local) = {}
    /\ Cardinality(Known) <= MaxKnown
    /\ \A d \in Address : \A S \in SendPex(d) : S \cap (refused \cup local \cup {d}) = {}

\* A hold is served: whatever else happens, an offender is off the dial list
\* until its time is up, a further offence never brings that forward, and a
\* full table never drops a hold that is still running.
HoldServed == \A d \in Address : holds'[d] < holds[d] => HoldTick

\* The table withstands a flood of addresses: what was vouched for stays, what
\* was refused stays out, and a hold is served to its end, at the bound too
\* (remember_peer_from, ban, penalise).
TableWithstands == [][TrustedStays /\ HoldServed /\ RefusedForgotten']_knownVars
=============================================================================
