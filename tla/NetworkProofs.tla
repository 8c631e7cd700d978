--------------------------- MODULE NetworkProofs ---------------------------
(***************************************************************************)
(* Proofs about what a torrent does towards the network: the two tables    *)
(* it keeps of its peers (KnownPeers, Upload), the announce loop, the      *)
(* lookup cache, the SAM session, and the five components together.        *)
(*                                                                         *)
(* KnownPeers: a hold is served to its end because it never exceeds what   *)
(* the recorded offences earn, and that only grows (HoldsEarned,           *)
(* HoldForGrows).  Upload: a round of the choker fills at most the slots   *)
(* there are because the rank it sorts by gives every interested peer a    *)
(* place of its own (PlacesApart), so the chosen can be counted by their   *)
(* places.  Announce: what an announce loop owes a tracker is the rest it  *)
(* has had plus the wait it still keeps (Rests).  Naming: a lookup that    *)
(* was not overtaken still has the table's count, and the hold it waited   *)
(* for is over (Fresh).  Session: who may hold a session follows from the  *)
(* stage the supervisor is in (Held), and a stored key is only at risk     *)
(* from a bring-up that could not read it (KeyStands).                     *)
(***************************************************************************)
EXTENDS Ordering, MCNetwork

-----------------------------------------------------------------------------
(* Arithmetic *)

LEMMA MinOfTwo ==
    ASSUME NEW a \in Int, NEW b \in Int
    PROVE  Min({a, b}) = IF a <= b THEN a ELSE b
  BY DEF Min

LEMMA MaxOfTwo ==
    ASSUME NEW a \in Int, NEW b \in Int
    PROVE  Max({a, b}) = IF a >= b THEN a ELSE b
  BY DEF Max

\* Powers of two are positive and grow: 2 ^ n counts the subsets of 1 .. n.
LEMMA PowerOfTwo ==
    ASSUME NEW n \in Nat
    PROVE  /\ 2 ^ n \in Nat /\ 2 ^ n >= 1
           /\ \A m \in 0 .. n : 2 ^ m \in Nat /\ 2 ^ m <= 2 ^ n
  <1>1. ASSUME NEW k \in Nat
        PROVE  IsFiniteSet(SUBSET (1 .. k)) /\ Cardinality(SUBSET (1 .. k)) = 2 ^ k
    <2>1. IsFiniteSet(1 .. k) /\ Cardinality(1 .. k) = k
      BY FS_Interval
    <2> QED BY <2>1, FS_SUBSET
  <1>2. ASSUME NEW k \in Nat PROVE 2 ^ k \in Nat /\ 2 ^ k >= 1
    <2>1. Cardinality(SUBSET (1 .. k)) \in Nat
      BY <1>1, FS_CardinalityType
    <2>2. Cardinality(SUBSET (1 .. k)) # 0
      <3>1. {} \in SUBSET (1 .. k)
        OBVIOUS
      <3> QED BY <1>1, <3>1, FS_EmptySet
    <2> QED BY <1>1, <2>1, <2>2
  <1>3. ASSUME NEW m \in 0 .. n PROVE 2 ^ m <= 2 ^ n
    <2>1. SUBSET (1 .. m) \in SUBSET (SUBSET (1 .. n))
      OBVIOUS
    <2>2. Cardinality(SUBSET (1 .. m)) <= Cardinality(SUBSET (1 .. n))
      BY <1>1, <2>1, FS_Subset
    <2>3. m \in Nat
      OBVIOUS
    <2> QED BY <1>1, <2>2, <2>3
  <1> QED BY <1>2, <1>3

LEMMA Products ==
    ASSUME NEW a \in Nat, NEW x \in Nat, NEW y \in Nat, x <= y
    PROVE  a * x \in Nat /\ a * x <= a * y
  OBVIOUS

-----------------------------------------------------------------------------
(* Known destinations *)

\* The entries of a table.
Listed(table) == {d \in Address : table[d] # "no"}

KnownBounded == Cardinality(Known) <= MaxKnown

RefusedOut == (refused \cup local) \cap Known = {}

\* A hold belongs to an entry and is at most what its offences earn.
HoldsEarned ==
    \A d \in Address : IF offences[d] = 0 THEN holds[d] = 0 ELSE holds[d] <= HoldFor(offences[d])

KnownInv == KnownPeersTypeOK /\ KnownBounded /\ RefusedOut /\ HoldsEarned

\* A hold is within its ceiling, and more offences earn no less.
LEMMA HoldForGrows ==
    ASSUME NEW n \in 1 .. MaxCount
    PROVE  /\ HoldFor(n) \in 0 .. MaxBackoff
           /\ \A m \in 1 .. n : HoldFor(m) <= HoldFor(n)
  <1> USE KnownPeersAssumption
  <1> DEFINE shift(k) == Min({k - 1, ShiftCap})
  <1>1. ASSUME NEW k \in 1 .. MaxCount
        PROVE  /\ shift(k) \in Nat /\ shift(k) = IF k - 1 <= ShiftCap THEN k - 1 ELSE ShiftCap
               /\ 2 ^ shift(k) \in Nat /\ Backoff * 2 ^ shift(k) \in Nat
               /\ HoldFor(k) = IF MaxBackoff <= Backoff * 2 ^ shift(k) THEN MaxBackoff
                               ELSE Backoff * 2 ^ shift(k)
    <2>1. shift(k) \in Nat /\ shift(k) = IF k - 1 <= ShiftCap THEN k - 1 ELSE ShiftCap
      BY MinOfTwo
    <2> HIDE DEF shift
    <2>2. 2 ^ shift(k) \in Nat
      BY <2>1, PowerOfTwo
    <2>3. Backoff * 2 ^ shift(k) \in Nat
      BY <2>2, Products
    <2>4. HoldFor(k) = Min({MaxBackoff, Backoff * 2 ^ shift(k)})
      BY DEF HoldFor, shift
    <2>5. HoldFor(k) = IF MaxBackoff <= Backoff * 2 ^ shift(k) THEN MaxBackoff
                       ELSE Backoff * 2 ^ shift(k)
      BY <2>3, <2>4, MinOfTwo
    <2> QED BY <2>1, <2>2, <2>3, <2>5
  <1> HIDE DEF shift
  <1>2. ASSUME NEW m \in 1 .. n PROVE HoldFor(m) <= HoldFor(n)
    <2>1. shift(m) \in 0 .. shift(n) /\ shift(n) \in Nat /\ m \in 1 .. MaxCount
      BY <1>1
    <2>2. 2 ^ shift(m) <= 2 ^ shift(n)
      BY <2>1, PowerOfTwo
    <2>3. Backoff * 2 ^ shift(m) <= Backoff * 2 ^ shift(n)
      BY <1>1, <2>1, <2>2, Products
    <2> QED BY <1>1, <2>1, <2>3
  <1> QED BY <1>1, <1>2

LEMMA AddressesFinite ==
    ASSUME NEW S \in SUBSET Address
    PROVE  IsFiniteSet(S) /\ Cardinality(S) \in Nat
  BY KnownPeersAssumption, FS_Subset, FS_CardinalityType

\* What remember_peer_from may do to a table: no refused destination enters,
\* no trusted entry leaves or is downgraded, and the bound holds.
LEMMA RememberedKeeps ==
    ASSUME NEW table \in [Address -> {"pex", "trusted", "no"}],
           Cardinality(Listed(table)) <= MaxKnown,
           NEW d \in Address, NEW source \in {"pex", "trusted"},
           NEW next \in Remembered(table, d, source)
    PROVE  /\ next \in [Address -> {"pex", "trusted", "no"}]
           /\ Cardinality(Listed(next)) <= MaxKnown
           /\ \A e \in Address : table[e] = "trusted" => next[e] = "trusted"
           /\ \A e \in Listed(next) : e \in Listed(table) \/ ~Refuses(e)
  <1> USE KnownPeersAssumption
  <1>1. Listed(table) \in SUBSET Address
    BY DEF Listed
  <1>2. IsFiniteSet(Listed(table)) /\ Cardinality(Listed(table)) \in Nat
    BY <1>1, AddressesFinite
  <1>3. CASE Refuses(d)
    BY <1>3 DEF Remembered, Listed
  <1>4. CASE ~Refuses(d) /\ table[d] # "no"
    <2>1. next = table \/ next = [table EXCEPT ![d] = "trusted"]
      BY <1>4 DEF Remembered
    <2>2. Listed(next) = Listed(table)
      BY <1>4, <2>1 DEF Listed
    <2> QED BY <2>1, <2>2, <1>4
  <1>5. CASE /\ ~Refuses(d) /\ table[d] = "no"
             /\ Cardinality(Listed(table)) < MaxKnown
    <2>1. next = [table EXCEPT ![d] = source]
      BY <1>5 DEF Remembered, Listed
    <2>2. Listed(next) = Listed(table) \cup {d} /\ d \notin Listed(table)
      BY <1>5, <2>1 DEF Listed
    <2>3. Cardinality(Listed(next)) = Cardinality(Listed(table)) + 1
      BY <1>2, <2>2, FS_AddElement
    <2>4. Cardinality(Listed(next)) <= MaxKnown
      BY <1>2, <1>5, <2>3
    <2>5. /\ next \in [Address -> {"pex", "trusted", "no"}]
          /\ \A e \in Address : table[e] = "trusted" => next[e] = "trusted"
      BY <1>5, <2>1
    <2> QED BY <1>5, <2>2, <2>4, <2>5
  <1>6. CASE /\ ~Refuses(d) /\ table[d] = "no"
             /\ ~(Cardinality(Listed(table)) < MaxKnown)
    <2>1. \/ next = table
          \/ \E v \in Victims(table) : next = [table EXCEPT ![v] = "no", ![d] = source]
      BY <1>6 DEF Remembered, Listed
    <2>2. CASE next = table
      BY <2>2
    <2>3. ASSUME NEW v \in Victims(table), next = [table EXCEPT ![v] = "no", ![d] = source]
          PROVE  /\ next \in [Address -> {"pex", "trusted", "no"}]
                 /\ Cardinality(Listed(next)) <= MaxKnown
                 /\ \A e \in Address : table[e] = "trusted" => next[e] = "trusted"
                 /\ \A e \in Listed(next) : e \in Listed(table) \/ ~Refuses(e)
      <3>1. v \in Address /\ table[v] = "pex" /\ v # d
        BY <1>6, <2>3 DEF Victims
      <3>2. Listed(next) = (Listed(table) \ {v}) \cup {d}
        BY <1>6, <2>3, <3>1 DEF Listed
      <3>3. v \in Listed(table) /\ d \notin Listed(table) \ {v}
        BY <1>6, <3>1 DEF Listed
      <3>4. /\ IsFiniteSet(Listed(table) \ {v})
            /\ Cardinality(Listed(table) \ {v}) = Cardinality(Listed(table)) - 1
        BY <1>2, <3>3, FS_RemoveElement
      <3>5. Cardinality(Listed(next)) = Cardinality(Listed(table) \ {v}) + 1
        BY <3>2, <3>3, <3>4, FS_AddElement
      <3>6. Cardinality(Listed(next)) <= MaxKnown
        BY <1>2, <3>4, <3>5
      <3>7. /\ next \in [Address -> {"pex", "trusted", "no"}]
            /\ \A e \in Address : table[e] = "trusted" => next[e] = "trusted"
        BY <1>6, <2>3, <3>1
      <3> QED BY <1>6, <3>2, <3>6, <3>7
    <2> QED BY <2>1, <2>2, <2>3
  <1> QED BY <1>3, <1>4, <1>5, <1>6

LEMMA KnownInvInit == KnownPeersInit => KnownInv
  <1> SUFFICES ASSUME KnownPeersInit PROVE KnownInv
    OBVIOUS
  <1> USE KnownPeersAssumption DEF KnownPeersInit
  <1>1. KnownPeersTypeOK /\ HoldsEarned
    BY DEF KnownPeersTypeOK, HoldsEarned
  <1>2. Known = {}
    BY DEF Known
  <1>3. Cardinality(Known) = 0
    BY <1>2, FS_EmptySet
  <1> QED BY <1>1, <1>2, <1>3 DEF KnownInv, KnownBounded, RefusedOut

\* A tracker, a peer or a registration names a destination.
LEMMA RememberStep ==
    ASSUME KnownInv, NEW d \in Address, NEW source \in {"pex", "trusted"},
           known' \in Remembered(known, d, source), UNCHANGED <<refused, local, offences, holds>>
    PROVE  KnownInv' /\ TrustedStays
  <1>1. Known = Listed(known) /\ Known' = Listed(known')
    BY DEF Known, Listed
  <1>2. /\ known' \in [Address -> {"pex", "trusted", "no"}]
        /\ Cardinality(Listed(known')) <= MaxKnown
        /\ \A e \in Address : known[e] = "trusted" => known'[e] = "trusted"
        /\ \A e \in Listed(known') : e \in Listed(known) \/ ~Refuses(e)
    BY <1>1, RememberedKeeps DEF KnownInv, KnownPeersTypeOK, KnownBounded
  <1>3. KnownPeersTypeOK' /\ HoldsEarned'
    BY <1>2 DEF KnownInv, KnownPeersTypeOK, HoldsEarned
  <1>4. RefusedOut'
    BY <1>1, <1>2 DEF KnownInv, RefusedOut, Refuses
  <1> QED BY <1>1, <1>2, <1>3, <1>4 DEF KnownInv, KnownBounded, TrustedStays

\* A destination is struck out: it is ourselves, or banned.
LEMMA ForgetStep ==
    ASSUME KnownInv, NEW d \in Address, SetLocalDest(d) \/ Ban(d)
    PROVE  KnownInv' /\ TrustedStays
  <1> USE DEF KnownInv
  <1>1. /\ known' = [known EXCEPT ![d] = "no"] /\ UNCHANGED <<offences, holds>>
        /\ refused' \cup local' = refused \cup local \cup {d}
        /\ refused' \subseteq Address /\ local' \subseteq Address
    BY DEF SetLocalDest, Ban, KnownPeersTypeOK
  <1>2. Known' = Known \ {d} /\ Known \in SUBSET Address
    BY <1>1 DEF Known, KnownPeersTypeOK
  <1>3. Cardinality(Known') <= MaxKnown
    <2>1. Known' \in SUBSET Known
      BY <1>2
    <2>2. Cardinality(Known') <= Cardinality(Known) /\ Cardinality(Known') \in Nat
      BY <1>2, <2>1, AddressesFinite, FS_Subset
    <2> QED BY <1>2, <2>2, AddressesFinite, KnownPeersAssumption DEF KnownBounded
  <1>4. KnownPeersTypeOK' /\ HoldsEarned'
    BY <1>1 DEF KnownPeersTypeOK, HoldsEarned
  <1>5. RefusedOut'
    BY <1>1, <1>2 DEF RefusedOut
  <1>6. TrustedStays
    BY <1>1 DEF TrustedStays, KnownPeersTypeOK
  <1> QED BY <1>3, <1>4, <1>5, <1>6 DEF KnownBounded

\* An offence: the hold it earns is no shorter than what is left of the last,
\* and making room drops only holds that have run out.
LEMMA PenaliseStep ==
    ASSUME KnownInv, NEW d \in Address, Penalise(d)
    PROVE  KnownInv' /\ \A e \in Address : holds'[e] >= holds[e]
  <1> USE KnownPeersAssumption DEF KnownInv
  <1> DEFINE count == Min({offences[d] + 1, MaxCount})
  <1>1. /\ count \in 1 .. MaxCount /\ offences[d] <= count
        /\ offences[d] > 0 => offences[d] \in 1 .. count
    BY MinOfTwo DEF KnownPeersTypeOK
  <1> HIDE DEF count
  <1>2. /\ HoldFor(count) \in 0 .. MaxBackoff
        /\ offences[d] > 0 => HoldFor(offences[d]) <= HoldFor(count)
    BY <1>1, HoldForGrows
  <1>3. ASSUME NEW e \in Address PROVE offences[e] > 0 => HoldFor(offences[e]) \in 0 .. MaxBackoff
    BY HoldForGrows DEF KnownPeersTypeOK
  <1>4. ASSUME NEW e \in Address, e \notin Kept(d) PROVE holds[e] = 0
    BY <1>4 DEF Kept, Offenders, HoldsEarned, KnownPeersTypeOK
  <1>5. HoldFor(count) >= holds[d]
    <2>1. holds[d] \in 0 .. MaxBackoff /\ offences[d] \in 0 .. MaxCount
      BY DEF KnownPeersTypeOK
    <2>2. CASE offences[d] = 0
      BY <1>2, <2>1, <2>2 DEF HoldsEarned
    <2>3. CASE offences[d] > 0
      BY <1>2, <1>3, <2>1, <2>3 DEF HoldsEarned
    <2> QED BY <2>1, <2>2, <2>3
  <1>6. /\ offences' \in [Address -> 0 .. MaxCount] /\ holds' \in [Address -> 0 .. MaxBackoff]
        /\ UNCHANGED <<known, refused, local>>
        /\ \A e \in Address :
              \/ offences'[e] = offences[e] /\ holds'[e] = holds[e]
              \/ offences'[e] = 0 /\ holds'[e] = 0 /\ e \notin Kept(d)
              \/ e = d /\ offences'[e] = count /\ holds'[e] = HoldFor(count)
    BY <1>1, <1>2 DEF Penalise, KnownPeersTypeOK, count
  <1>7. ASSUME NEW e \in Address
        PROVE  /\ holds'[e] >= holds[e]
               /\ IF offences'[e] = 0 THEN holds'[e] = 0 ELSE holds'[e] <= HoldFor(offences'[e])
    <2>1. holds[e] \in 0 .. MaxBackoff
      BY DEF KnownPeersTypeOK
    <2> QED BY <1>1, <1>2, <1>4, <1>5, <1>6, <2>1 DEF HoldsEarned
  <1>8. KnownPeersTypeOK' /\ Known' = Known
    BY <1>6 DEF KnownPeersTypeOK, Known
  <1> QED BY <1>6, <1>7, <1>8 DEF HoldsEarned, KnownBounded, RefusedOut

\* Time only shortens holds.
LEMMA HoldTickStep ==
    ASSUME KnownInv, HoldTick
    PROVE  KnownInv'
  <1> USE KnownPeersAssumption DEF KnownInv
  <1>1. KnownPeersTypeOK' /\ Known' = Known
    BY DEF HoldTick, KnownPeersTypeOK, Known
  <1>2. ASSUME NEW e \in Address
        PROVE  IF offences'[e] = 0 THEN holds'[e] = 0 ELSE holds'[e] <= HoldFor(offences'[e])
    <2>1. /\ offences'[e] = offences[e] /\ offences[e] \in 0 .. MaxCount
          /\ holds[e] \in 0 .. MaxBackoff
          /\ holds'[e] = IF holds[e] = 0 THEN 0 ELSE holds[e] - 1
      BY DEF HoldTick, KnownPeersTypeOK
    <2>2. offences[e] > 0 => HoldFor(offences[e]) \in 0 .. MaxBackoff
      BY <2>1, HoldForGrows
    <2> QED BY <2>1, <2>2 DEF HoldsEarned
  <1> QED BY <1>1, <1>2 DEF HoldTick, HoldsEarned, KnownBounded, RefusedOut

LEMMA KnownInvStep ==
    ASSUME KnownInv, [KnownPeersNext]_knownVars
    PROVE  KnownInv' /\ [TrustedStays /\ HoldServed]_knownVars
  <1>1. ASSUME NEW d \in Address, AddPeer(d) \/ OnPex(d)
        PROVE  KnownInv' /\ TrustedStays /\ HoldServed
    <2>1. UNCHANGED <<refused, local, offences, holds>>
      BY <1>1 DEF AddPeer, OnPex
    <2>2. HoldServed
      BY <2>1 DEF HoldServed, KnownInv, KnownPeersTypeOK
    <2> QED BY <1>1, <2>1, <2>2, RememberStep DEF AddPeer, OnPex
  <1>2. ASSUME NEW d \in Address, SetLocalDest(d) \/ Ban(d)
        PROVE  KnownInv' /\ TrustedStays /\ HoldServed
    <2>1. HoldServed
      BY <1>2 DEF SetLocalDest, Ban, HoldServed, KnownInv, KnownPeersTypeOK
    <2> QED BY <1>2, <2>1, ForgetStep
  <1>3. ASSUME NEW d \in Address, Penalise(d)
        PROVE  KnownInv' /\ TrustedStays /\ HoldServed
    <2>1. TrustedStays
      BY <1>3 DEF Penalise, TrustedStays
    <2>2. HoldServed
      <3> SUFFICES ASSUME NEW e \in Address PROVE ~(holds'[e] < holds[e])
        BY DEF HoldServed
      <3>1. holds'[e] >= holds[e] /\ holds[e] \in Nat /\ holds'[e] \in Nat
        BY <1>3, PenaliseStep DEF KnownInv, KnownPeersTypeOK
      <3> QED BY <3>1
    <2> QED BY <1>3, <2>1, <2>2, PenaliseStep
  <1>4. CASE HoldTick
    BY <1>4, HoldTickStep DEF HoldTick, TrustedStays, HoldServed
  <1>5. CASE UNCHANGED knownVars
    BY <1>5 DEF knownVars, KnownInv, KnownPeersTypeOK, KnownBounded, RefusedOut, HoldsEarned, Known
  <1> QED BY <1>1, <1>2, <1>3, <1>4, <1>5 DEF KnownPeersNext

\* What the invariant says of the lists that go out.
LEMMA KnownInvForgotten == KnownInv => RefusedForgotten
  BY DEF KnownInv, KnownBounded, RefusedOut, RefusedForgotten, DialCandidates, SendPex

\* Every table keeps its type: offence counts and holds stay under their caps
\* (penalise).
THEOREM KnownPeersTyped == KnownPeersSpec => []KnownPeersTypeOK
  <1>1. KnownPeersInit => KnownInv
    BY KnownInvInit
  <1>2. KnownInv /\ [KnownPeersNext]_knownVars => KnownInv'
    BY KnownInvStep
  <1>3. KnownInv => KnownPeersTypeOK
    BY DEF KnownInv
  <1> QED BY <1>1, <1>2, <1>3, PTL DEF KnownPeersSpec

\* However many destinations trackers and peers name, at any size of the table:
\* what was vouched for stays, what was refused stays out, and a hold is
\* served to its end (remember_peer_from, ban, penalise).
THEOREM KnownPeersWithstand == KnownPeersSpec => TableWithstands
  <1>1. KnownPeersInit => KnownInv
    BY KnownInvInit
  <1>2. KnownInv /\ [KnownPeersNext]_knownVars => KnownInv'
    BY KnownInvStep
  <1>3. KnownInv /\ KnownInv' /\ [KnownPeersNext]_knownVars
            => [TrustedStays /\ HoldServed /\ RefusedForgotten']_knownVars
    <2>1. KnownInv' => RefusedForgotten'
      BY KnownInvForgotten, PTL
    <2> QED BY <2>1, KnownInvStep
  <1> QED BY <1>1, <1>2, <1>3, PTL DEF KnownPeersSpec, TableWithstands

-----------------------------------------------------------------------------
(* Upload slots *)

\* The interested peers ranked before p, which Place counts.
Ahead(p, want, rate) ==
    {q \in present : want[q] /\ (rate[q] > rate[p] \/ (rate[q] = rate[p] /\ q < p))}

UploadTyped ==
    /\ arrived \in 0 .. MaxPeerId /\ present \subseteq 1 .. arrived
    /\ weChoke \in [Peer -> BOOLEAN] /\ theyWant \in [Peer -> BOOLEAN]
    /\ moved \in [Peer -> 0 .. MaxRate]
    /\ seeding \in BOOLEAN /\ calm \in BOOLEAN
    /\ round \in 0 .. RoundWrap - 1

\* Whoever is not connected is as register_peer will find it.
AbsentChoked == \A p \in Peer \ present : weChoke[p] /\ ~theyWant[p]

UploadInv == UploadTyped /\ AbsentChoked /\ SlotsBound /\ UninterestedChoked

LEMMA PeersFinite ==
    ASSUME present \subseteq Peer, NEW S \in SUBSET present
    PROVE  IsFiniteSet(S) /\ Cardinality(S) \in Nat
  <1>1. IsFiniteSet(Peer)
    BY UploadAssumption, FS_Interval DEF Peer
  <1>2. S \in SUBSET Peer
    OBVIOUS
  <1> QED BY <1>1, <1>2, FS_Subset, FS_CardinalityType

\* The rank is strict: two interested peers never share a place.
LEMMA PlacesApart ==
    ASSUME present \subseteq Peer, NEW want, NEW rate \in [Peer -> Int],
           NEW p \in present, NEW q \in present, p # q, want[p], want[q]
    PROVE  Place(p, want, rate) # Place(q, want, rate)
  <1>1. \A x \in present : x \in Int /\ rate[x] \in Int
    BY UploadAssumption DEF Peer
  <1>2. ASSUME NEW x \in present, NEW y \in present, want[x], x \in Ahead(y, want, rate)
        PROVE  Place(x, want, rate) # Place(y, want, rate)
    <2>1. Ahead(x, want, rate) \subseteq Ahead(y, want, rate)
      BY <1>1, <1>2 DEF Ahead
    <2>2. x \notin Ahead(x, want, rate)
      BY <1>1 DEF Ahead
    <2>3. Ahead(y, want, rate) \in SUBSET present
      BY DEF Ahead
    <2>4. IsFiniteSet(Ahead(y, want, rate))
      BY <2>3, PeersFinite
    <2>5. Cardinality(Ahead(x, want, rate)) # Cardinality(Ahead(y, want, rate))
      BY <1>2, <2>1, <2>2, <2>4, FS_Subset
    <2> QED BY <2>5 DEF Place, Ahead
  <1>3. p \in Ahead(q, want, rate) \/ q \in Ahead(p, want, rate)
    BY <1>1 DEF Ahead
  <1> QED BY <1>2, <1>3

LEMMA FirstPlaces ==
    ASSUME NEW n \in Nat
    PROVE  /\ IsFiniteSet(0 .. n - 1) /\ Cardinality(0 .. n - 1) = n
           /\ \A x : /\ IsFiniteSet((0 .. n - 1) \cup {x})
                    /\ Cardinality((0 .. n - 1) \cup {x}) <= n + 1
  <1>1. IsFiniteSet(0 .. n - 1) /\ Cardinality(0 .. n - 1) = n
    BY FS_Interval
  <1>2. ASSUME NEW x
        PROVE  /\ IsFiniteSet((0 .. n - 1) \cup {x})
               /\ Cardinality((0 .. n - 1) \cup {x}) <= n + 1
    <2>1. /\ IsFiniteSet((0 .. n - 1) \cup {x})
          /\ Cardinality((0 .. n - 1) \cup {x}) = IF x \in 0 .. n - 1 THEN n ELSE n + 1
      BY <1>1, FS_AddElement
    <2> QED BY <2>1
  <1> QED BY <1>1, <1>2

\* A plan unchokes interested peers only, and no more than there are slots,
\* in an optimistic round too (Choker::plan, check_decision).
LEMMA ChosenFits ==
    ASSUME present \subseteq Peer, NEW r \in Nat, NEW want, NEW rate \in [Peer -> Int]
    PROVE  /\ Chosen(r, want, rate) \subseteq {p \in present : want[p]}
           /\ Cardinality(Chosen(r, want, rate)) <= MaxUnchoked
  <1> USE UploadAssumption
  <1> DEFINE interested == {p \in present : want[p]}
             candidates == Cardinality(interested) - MaxUnchoked
             optimistic == r % 3 = 0 /\ candidates > 0
             regular == IF optimistic THEN MaxUnchoked - 1 ELSE MaxUnchoked
             last == MaxUnchoked + Turn(r, candidates)
             places == (0 .. regular - 1) \cup (IF optimistic THEN {last} ELSE {})
             C == Chosen(r, want, rate)
             place == [p \in C |-> Place(p, want, rate)]
  <1>1. ASSUME NEW p \in C
        PROVE  /\ p \in interested
               /\ \/ Place(p, want, rate) < regular
                  \/ optimistic /\ Place(p, want, rate) = last
    BY DEF Chosen
  <1>2. C \subseteq interested /\ C \in SUBSET present
    BY <1>1
  <1>3. ASSUME NEW p \in present PROVE Place(p, want, rate) \in Nat
    <2>1. Ahead(p, want, rate) \in SUBSET present
      BY DEF Ahead
    <2> QED BY <2>1, PeersFinite DEF Place, Ahead
  <1>4. regular \in Nat
    OBVIOUS
  <1>5. IsFiniteSet(places) /\ Cardinality(places) <= MaxUnchoked
    <2> HIDE DEF last, optimistic
    <2>1. CASE ~optimistic
      <3>1. places = 0 .. MaxUnchoked - 1
        BY <2>1
      <3> HIDE DEF places
      <3>2. MaxUnchoked \in Nat
        OBVIOUS
      <3> QED BY <3>1, <3>2, FirstPlaces
    <2>2. CASE optimistic
      <3>1. places = (0 .. (MaxUnchoked - 1) - 1) \cup {last}
        BY <2>2
      <3>2. MaxUnchoked - 1 \in Nat
        OBVIOUS
      <3> HIDE DEF places
      <3>3. IsFiniteSet(places) /\ Cardinality(places) <= (MaxUnchoked - 1) + 1
        BY <3>1, <3>2, FirstPlaces
      <3> QED BY <3>3
    <2> QED BY <2>1, <2>2
  <1>6. place \in Injection(C, places)
    <2>1. ASSUME NEW p \in C PROVE Place(p, want, rate) \in places
      <3>1. Place(p, want, rate) \in Nat
        BY <1>2, <1>3
      <3> HIDE DEF C, last, interested, optimistic
      <3> QED BY <1>1, <1>4, <3>1
    <2>2. place \in [C -> places]
      BY <2>1
    <2>3. ASSUME NEW p \in C, NEW q \in C, place[p] = place[q] PROVE p = q
      BY <1>2, <2>3, PlacesApart
    <2> QED BY <2>2, <2>3 DEF Injection, IsInjective
  <1>7. Cardinality(C) <= Cardinality(places)
    BY <1>5, <1>6, FS_Injection
  <1>8. Cardinality(C) \in Nat /\ Cardinality(places) \in Nat
    BY <1>2, <1>5, PeersFinite, FS_CardinalityType
  <1> HIDE DEF places
  <1>9. Cardinality(C) <= MaxUnchoked
    BY <1>5, <1>7, <1>8
  <1> QED BY <1>2, <1>9

\* What one more round leaves: the plan's peers unchoked, an empty window.
LEMMA RoundFits ==
    ASSUME present \subseteq Peer,
           NEW s, s.round \in Nat, s.moved \in [Peer -> 0 .. MaxRate],
           s.choke \in [Peer -> BOOLEAN], \A p \in Peer \ present : s.choke[p],
           NEW want \in [Peer -> BOOLEAN]
    PROVE  LET t == RunChoker(s, want)
           IN  /\ t.round \in 0 .. RoundWrap - 1 /\ t.moved \in [Peer -> 0 .. MaxRate]
               /\ t.choke \in [Peer -> BOOLEAN] /\ \A p \in Peer \ present : t.choke[p]
               /\ Cardinality({p \in present : ~t.choke[p]}) <= MaxUnchoked
               /\ \A p \in present : want[p] \/ t.choke[p]
  <1> USE UploadAssumption
  <1> DEFINE r == (s.round + 1) % RoundWrap
             chosen == Chosen(r, want, s.moved)
             t == RunChoker(s, want)
  <1>1. r \in 0 .. RoundWrap - 1
    OBVIOUS
  <1>2. s.moved \in [Peer -> Int]
    OBVIOUS
  <1> HIDE DEF r
  <1>3. chosen \subseteq {p \in present : want[p]} /\ Cardinality(chosen) <= MaxUnchoked
    <2>1. r \in Nat
      BY <1>1
    <2> QED BY <1>2, <2>1, ChosenFits
  <1> HIDE DEF chosen
  <1>4. /\ t.choke = [p \in Peer |-> IF p \in present THEN p \notin chosen ELSE s.choke[p]]
        /\ t.moved = [p \in Peer |-> 0] /\ t.round = r
    BY DEF RunChoker, r, chosen
  <1> HIDE DEF t
  <1>5. {p \in present : ~t.choke[p]} = chosen
    BY <1>3, <1>4
  <1>6. t.round \in 0 .. RoundWrap - 1 /\ t.moved \in [Peer -> 0 .. MaxRate]
    BY <1>1, <1>4
  <1>7. t.choke \in [Peer -> BOOLEAN] /\ \A p \in Peer \ present : t.choke[p]
    BY <1>4
  <1>8. \A p \in present : want[p] \/ t.choke[p]
    BY <1>3, <1>4
  <1> QED BY <1>3, <1>5, <1>6, <1>7, <1>8 DEF t

\* A handler that leaves the table sound ends in a sound table, whether or not
\* a round is due.
LEMMA FinishKeeps ==
    ASSUME UploadInv, NEW s, NEW want \in [Peer -> BOOLEAN], NEW due \in BOOLEAN,
           s.round \in 0 .. RoundWrap - 1, s.moved \in [Peer -> 0 .. MaxRate],
           s.choke \in [Peer -> BOOLEAN], \A p \in Peer \ present : s.choke[p] /\ ~want[p],
           Cardinality({p \in present : ~s.choke[p]}) <= MaxUnchoked,
           \A p \in present : want[p] \/ s.choke[p],
           Finish(s, want, due)
    PROVE  UploadInv'
  <1> USE UploadAssumption
  <1>1. present \subseteq Peer
    BY DEF UploadInv, UploadTyped, Peer
  <1> DEFINE t == RunChoker(s, want)
             u == IF due THEN t ELSE s
  <1>2. /\ t.round \in 0 .. RoundWrap - 1 /\ t.moved \in [Peer -> 0 .. MaxRate]
        /\ t.choke \in [Peer -> BOOLEAN] /\ \A p \in Peer \ present : t.choke[p]
        /\ Cardinality({p \in present : ~t.choke[p]}) <= MaxUnchoked
        /\ \A p \in present : want[p] \/ t.choke[p]
    <2>1. s.round \in Nat
      OBVIOUS
    <2> QED BY <1>1, <2>1, RoundFits
  <1> HIDE DEF t
  <1>3. /\ u.round \in 0 .. RoundWrap - 1 /\ u.moved \in [Peer -> 0 .. MaxRate]
        /\ u.choke \in [Peer -> BOOLEAN] /\ \A p \in Peer \ present : u.choke[p]
        /\ Cardinality({p \in present : ~u.choke[p]}) <= MaxUnchoked
        /\ \A p \in present : want[p] \/ u.choke[p]
    BY <1>2
  <1>4. /\ weChoke' = u.choke /\ moved' = u.moved /\ round' = u.round /\ theyWant' = want
        /\ UNCHANGED <<present, arrived, seeding, calm>>
    BY DEF Finish, t
  <1> HIDE DEF u
  <1>5. Unchoked' = {p \in present : ~u.choke[p]}
    BY <1>4 DEF Unchoked
  <1> QED BY <1>3, <1>4, <1>5 DEF UploadInv, UploadTyped, AbsentChoked, SlotsBound, UninterestedChoked

LEMMA UploadInvInit == UploadInit => UploadInv
  <1> SUFFICES ASSUME UploadInit PROVE UploadInv
    OBVIOUS
  <1> USE UploadAssumption DEF UploadInit
  <1>1. UploadTyped /\ AbsentChoked /\ UninterestedChoked
    <2>1. 0 \in 0 .. MaxRate /\ 0 \in 0 .. RoundWrap - 1 /\ 0 \in 0 .. MaxPeerId
      OBVIOUS
    <2>2. UploadTyped
      BY <2>1 DEF UploadTyped
    <2>3. AbsentChoked /\ UninterestedChoked
      BY DEF AbsentChoked, UninterestedChoked
    <2> QED BY <2>2, <2>3
  <1>2. Unchoked = {}
    BY DEF Unchoked
  <1>3. Cardinality(Unchoked) = 0
    BY <1>2, FS_EmptySet
  <1> QED BY <1>1, <1>3 DEF UploadInv, SlotsBound

LEMMA UploadInvStep ==
    ASSUME UploadInv, [UploadNext]_uploadVars
    PROVE  UploadInv'
  <1> USE UploadAssumption
  <1>1. /\ present \subseteq Peer /\ theyWant \in [Peer -> BOOLEAN]
        /\ Current.round \in 0 .. RoundWrap - 1 /\ Current.moved \in [Peer -> 0 .. MaxRate]
        /\ Current.choke \in [Peer -> BOOLEAN]
        /\ Current.choke = weChoke /\ Current.moved = moved /\ Current.round = round
        /\ Current = [choke |-> weChoke, moved |-> moved, round |-> round]
        /\ Unchoked = {p \in present : ~Current.choke[p]}
        /\ Unchoked \subseteq present
        /\ Cardinality(Unchoked) <= MaxUnchoked
        /\ \A p \in Peer \ present : Current.choke[p] /\ ~theyWant[p]
        /\ \A p \in present : theyWant[p] \/ Current.choke[p]
    BY DEF UploadInv, UploadTyped, Peer, Current, Unchoked, SlotsBound, AbsentChoked, UninterestedChoked
  <1>2. ASSUME NEW p \in Peer, NEW due \in BOOLEAN, OnInterested(p, due) PROVE UploadInv'
    <2> DEFINE want == [theyWant EXCEPT ![p] = TRUE]
               s == IF Cardinality(Unchoked) < MaxUnchoked THEN RunChoker(Current, want) ELSE Current
    <2>1. /\ want \in [Peer -> BOOLEAN] /\ p \in present
          /\ \A q \in Peer : theyWant[q] => want[q]
          /\ \A q \in Peer \ present : ~want[q]
      BY <1>1, <1>2 DEF OnInterested, Receives
    <2>2. Finish(s, want, due)
      BY <1>2 DEF OnInterested
    <2> HIDE DEF want
    <2>3. /\ s.round \in 0 .. RoundWrap - 1 /\ s.moved \in [Peer -> 0 .. MaxRate]
          /\ s.choke \in [Peer -> BOOLEAN] /\ \A q \in Peer \ present : s.choke[q]
          /\ Cardinality({q \in present : ~s.choke[q]}) <= MaxUnchoked
          /\ \A q \in present : want[q] \/ s.choke[q]
      <3>1. CASE Cardinality(Unchoked) < MaxUnchoked
        <4>1. Current.round \in Nat
          BY <1>1
        <4>2. /\ present \subseteq Peer
              /\ Current.moved \in [Peer -> 0 .. MaxRate] /\ Current.choke \in [Peer -> BOOLEAN]
              /\ \A q \in Peer \ present : Current.choke[q]
          BY <1>1
        <4> DEFINE t == RunChoker(Current, want)
        <4>3. /\ t.round \in 0 .. RoundWrap - 1 /\ t.moved \in [Peer -> 0 .. MaxRate]
              /\ t.choke \in [Peer -> BOOLEAN] /\ \A q \in Peer \ present : t.choke[q]
              /\ Cardinality({q \in present : ~t.choke[q]}) <= MaxUnchoked
              /\ \A q \in present : want[q] \/ t.choke[q]
          BY <2>1, <4>1, <4>2, RoundFits
        <4>4. s = t
          BY <3>1
        <4> HIDE DEF s, t
        <4> QED BY <4>3, <4>4
      <3>2. CASE ~(Cardinality(Unchoked) < MaxUnchoked)
        BY <1>1, <2>1, <3>2
      <3> QED BY <3>1, <3>2
    <2> HIDE DEF s
    <2> QED BY <2>1, <2>2, <2>3, FinishKeeps
  <1>3. ASSUME NEW p \in Peer, NEW due \in BOOLEAN, OnNotInterested(p, due) PROVE UploadInv'
    <2> DEFINE want == [theyWant EXCEPT ![p] = FALSE]
               s == [Current EXCEPT !.choke[p] = TRUE]
    <2>1. want \in [Peer -> BOOLEAN] /\ \A q \in Peer \ present : ~want[q]
      BY <1>1
    <2>2. s.round = round /\ s.moved = moved /\ s.choke = [weChoke EXCEPT ![p] = TRUE]
      BY <1>1
    <2>3. Finish(s, want, due)
      BY <1>3 DEF OnNotInterested
    <2>4. \A q \in present : want[q] \/ s.choke[q]
      BY <1>1, <2>2
    <2> HIDE DEF s, want
    <2>5. /\ s.round \in 0 .. RoundWrap - 1 /\ s.moved \in [Peer -> 0 .. MaxRate]
          /\ s.choke \in [Peer -> BOOLEAN] /\ \A q \in Peer \ present : s.choke[q]
      BY <1>1, <2>2
    <2>6. Cardinality({q \in present : ~s.choke[q]}) <= MaxUnchoked
      <3>1. {q \in present : ~s.choke[q]} \in SUBSET Unchoked
        BY <1>1, <2>2
      <3>2. IsFiniteSet(Unchoked) /\ Cardinality(Unchoked) \in Nat
        BY <1>1, PeersFinite
      <3>3. /\ Cardinality({q \in present : ~s.choke[q]}) <= Cardinality(Unchoked)
            /\ Cardinality({q \in present : ~s.choke[q]}) \in Nat
        BY <3>1, <3>2, FS_Subset, FS_CardinalityType
      <3> QED BY <1>1, <3>2, <3>3
    <2> QED BY <2>1, <2>3, <2>4, <2>5, <2>6, FinishKeeps
  <1>4. ASSUME NEW p \in Peer, NEW due \in BOOLEAN, OnRequest(p, due) \/ OnPiece(p, due)
        PROVE  UploadInv'
    <2> DEFINE s == [Current EXCEPT !.moved[p] = @ + 1]
    <2>1. s.round = round /\ s.choke = weChoke /\ s.moved = [moved EXCEPT ![p] = @ + 1]
      BY <1>1
    <2>2. Finish(s, theyWant, due) /\ moved[p] < MaxRate
      BY <1>4 DEF OnRequest, OnPiece
    <2> HIDE DEF s
    <2>3. s.moved \in [Peer -> 0 .. MaxRate]
      BY <1>1, <2>1, <2>2
    <2>4. /\ s.round \in 0 .. RoundWrap - 1 /\ s.choke \in [Peer -> BOOLEAN]
          /\ \A q \in Peer \ present : s.choke[q] /\ ~theyWant[q]
          /\ Cardinality({q \in present : ~s.choke[q]}) <= MaxUnchoked
          /\ \A q \in present : theyWant[q] \/ s.choke[q]
      BY <1>1, <2>1
    <2> QED BY <1>1, <2>2, <2>3, <2>4, FinishKeeps
  <1>5. CASE PeriodicRound
    BY <1>1, <1>5, FinishKeeps DEF PeriodicRound
  <1>6. CASE Join
    <2>1. arrived + 1 \in Peer \ present /\ present' = present \cup {arrived + 1}
      BY <1>6 DEF Join, UploadInv, UploadTyped, Peer
    <2>2. Unchoked' = Unchoked
      BY <1>1, <1>6, <2>1 DEF Join, Unchoked
    <2>3. UploadTyped'
      BY <1>6 DEF Join, UploadInv, UploadTyped
    <2> QED BY <1>1, <1>6, <2>1, <2>2, <2>3
            DEF Join, UploadInv, AbsentChoked, SlotsBound, UninterestedChoked
  <1>7. ASSUME NEW p \in Peer, Leave(p) PROVE UploadInv'
    <2>1. Unchoked' \in SUBSET Unchoked
      BY <1>7 DEF Leave, Unchoked, UploadInv, UploadTyped
    <2>2. Cardinality(Unchoked') <= MaxUnchoked
      <3>1. IsFiniteSet(Unchoked) /\ Cardinality(Unchoked) \in Nat
        BY <1>1, PeersFinite
      <3>2. Cardinality(Unchoked') <= Cardinality(Unchoked) /\ Cardinality(Unchoked') \in Nat
        BY <2>1, <3>1, FS_Subset, FS_CardinalityType
      <3> QED BY <1>1, <3>1, <3>2
    <2>3. UploadTyped'
      BY <1>7 DEF Leave, UploadInv, UploadTyped
    <2> QED BY <1>1, <1>7, <2>2, <2>3
            DEF Leave, UploadInv, UploadTyped, AbsentChoked, SlotsBound, UninterestedChoked
  <1>8. CASE Completes \/ CalmDown \/ UNCHANGED uploadVars
    BY <1>8 DEF Completes, CalmDown, uploadVars, UploadInv, UploadTyped, AbsentChoked, SlotsBound,
                UninterestedChoked, Unchoked
  <1> QED BY <1>2, <1>3, <1>4, <1>5, <1>6, <1>7, <1>8 DEF UploadNext

\* However many peers join, leave, ask and change their minds between rounds,
\* no more are unchoked than there are slots, and none without interest
\* (Choker::plan, run_choker): what check_decision asserts of one plan.
THEOREM UploadSlotsKept == UploadSpec => [](SlotsBound /\ UninterestedChoked)
  <1>1. UploadInit => UploadInv
    BY UploadInvInit
  <1>2. UploadInv /\ [UploadNext]_uploadVars => UploadInv'
    BY UploadInvStep
  <1>3. UploadInv => SlotsBound /\ UninterestedChoked
    BY DEF UploadInv
  <1> QED BY <1>1, <1>2, <1>3, PTL DEF UploadSpec

-----------------------------------------------------------------------------
(* The announce loop *)

\* The shortest rest between two announces to one tracker.
Rest == Min({MinInterval, FailBase})

\* A tracker that is not being announced to has rested, or will have when its
\* wait is over, unless finishing hurried its announce.
Rests ==
    \A u \in Url : \/ at = u /\ sending # "none"
                   \/ rested[u] + wait[u] >= Rest
                   \/ u \in hurried /\ ~completed[u]

\* The type invariant, flags and counts apart.
AnnounceFlags ==
    /\ finished \in BOOLEAN /\ wasComplete \in BOOLEAN
    /\ started \in [Url -> BOOLEAN] /\ completed \in [Url -> BOOLEAN]
    /\ stop \in BOOLEAN /\ quit \in BOOLEAN

AnnounceCounts ==
    /\ wait \in [Url -> Nat] /\ failures \in [Url -> 0 .. MaxFailures]
    /\ at \in 0 .. NumUrls /\ sending \in {"none", "started", "completed", "periodic"}
    /\ snatches \in [Url -> 0 .. 2] /\ rested \in [Url -> 0 .. Longest] /\ hurried \subseteq Url

\* What is under way.
SendingStands ==
    /\ at = 0 => sending = "none"
    /\ sending = "completed" => started[at] /\ ~completed[at]

WaitsBounded == \A u \in Url : wait[u] <= Longest

AnnounceInv == AnnounceFlags /\ AnnounceCounts /\ SendingStands /\ SnatchOnce /\ Rests /\ WaitsBounded

LEMMA MaxOfThree ==
    ASSUME NEW a \in Nat, NEW b \in Nat, NEW c \in Nat
    PROVE  LET m == Max({a, b, c}) IN m \in Nat /\ m >= a /\ m >= b /\ m >= c
  <1>1. \E m \in {a, b, c} : \A k \in {a, b, c} : m >= k
    OBVIOUS
  <1> QED BY <1>1 DEF Max

\* The bounds of the schedule: a rest within every ceiling, no wait under it.
LEMMA ScheduleBounds ==
    /\ Rest \in Nat /\ Rest <= MinInterval /\ Rest <= FailBase
    /\ Longest \in Nat /\ Rest <= Longest /\ MaxInterval <= Longest /\ MaxFailWait <= Longest
    /\ \A i, f \in Interval : NextWait(i, f) \in Rest .. Longest
    /\ \A n \in 1 .. MaxFailures : FailWait(n) \in Rest .. Longest
  <1> USE AnnounceAssumption
  <1>1. Rest \in Nat /\ Rest <= MinInterval /\ Rest <= FailBase
    BY MinOfTwo DEF Rest
  <1>2. Longest \in Nat /\ Rest <= Longest /\ MaxInterval <= Longest /\ MaxFailWait <= Longest
    BY <1>1, MaxOfTwo DEF Longest
  <1>3. ASSUME NEW i \in Interval, NEW f \in Interval PROVE NextWait(i, f) \in Rest .. Longest
    <2> DEFINE m == Max({i, f, MinInterval})
    <2>1. m \in Nat /\ m >= MinInterval
      BY MaxOfThree
    <2> HIDE DEF m
    <2>2. NextWait(i, f) = Min({MaxInterval, m})
      BY DEF NextWait, m
    <2>3. NextWait(i, f) = IF MaxInterval <= m THEN MaxInterval ELSE m
      BY <2>1, <2>2, MinOfTwo
    <2> QED BY <1>1, <1>2, <2>1, <2>3
  <1>4. ASSUME NEW n \in 1 .. MaxFailures PROVE FailWait(n) \in Rest .. Longest
    <2> DEFINE k == Min({n - 1, FailShift})
    <2>1. k \in Nat
      BY MinOfTwo
    <2> HIDE DEF k
    <2>2. 2 ^ k \in Nat /\ 1 <= 2 ^ k
      BY <2>1, PowerOfTwo
    <2>3. FailBase * 2 ^ k \in Nat /\ FailBase * 1 <= FailBase * 2 ^ k
      BY <2>2, Products
    <2>4. FailWait(n) = IF MaxFailWait <= FailBase * 2 ^ k THEN MaxFailWait ELSE FailBase * 2 ^ k
      BY <2>3, MinOfTwo DEF FailWait, k
    <2> QED BY <1>1, <1>2, <2>3, <2>4
  <1> QED BY <1>1, <1>2, <1>3, <1>4

LEMMA AnnounceInvInit == AnnounceInit => AnnounceInv
  <1> SUFFICES ASSUME AnnounceInit PROVE AnnounceInv
    OBVIOUS
  <1> USE AnnounceAssumption DEF AnnounceInit
  <1>0. Rest \in Nat /\ Longest \in Nat /\ Rest <= Longest
    BY ScheduleBounds
  <1>1. AnnounceFlags /\ AnnounceCounts
    <2>1. AnnounceFlags
      BY DEF AnnounceFlags
    <2>2. AnnounceCounts
      BY <1>0 DEF AnnounceCounts
    <2> QED BY <2>1, <2>2
  <1>2. Rests /\ WaitsBounded
    BY <1>0 DEF Rests, WaitsBounded
  <1>3. SendingStands /\ SnatchOnce
    BY DEF SendingStands, SnatchOnce
  <1> QED BY <1>1, <1>2, <1>3 DEF AnnounceInv

\* The loop moves on to the next tracker, or to its pause.
LEMMA OnwardTyped ==
    ASSUME at \in 0 .. NumUrls, at # 0, Onward
    PROVE  at' \in 0 .. NumUrls
  BY AnnounceAssumption DEF Onward

LEMMA AnnounceInvStep ==
    ASSUME AnnounceInv, [AnnounceNext]_announceVars
    PROVE  AnnounceInv' /\ [Spaced]_announceVars
  <1> USE AnnounceAssumption DEF scheduleVars, AnnounceInv
  <1>0. Rest \in Nat /\ Longest \in Nat /\ Rest <= Longest
    BY ScheduleBounds
  <1>1. CASE BeginRound
    <2>1. AnnounceFlags' /\ AnnounceCounts'
      <3>1. AnnounceFlags'
        BY <1>1 DEF BeginRound, AnnounceFlags
      <3>2. hurried' \subseteq Url /\ wait' \in [Url -> Nat]
        BY <1>1 DEF BeginRound, AnnounceCounts, CompletionDue
      <3>3. at' \in 0 .. NumUrls
        BY <1>1 DEF BeginRound
      <3> QED BY <1>1, <3>1, <3>2, <3>3 DEF BeginRound, AnnounceCounts
    <2>2. SendingStands' /\ SnatchOnce' /\ Spaced
      BY <1>1 DEF BeginRound, SendingStands, SnatchOnce, Spaced, AnnounceCounts
    <2>3. Rests' /\ WaitsBounded'
      BY <1>0, <1>1 DEF BeginRound, Rests, WaitsBounded, AnnounceCounts, CompletionDue, SendingStands
    <2> QED BY <2>1, <2>2, <2>3
  <1>2. CASE Send
    <2>0. at \in Url /\ NextEvent(at) \in {"started", "completed", "periodic"}
      BY <1>2 DEF Send, AnnounceCounts, NextEvent, Url
    <2>1. AnnounceFlags' /\ AnnounceCounts'
      <3>1. AnnounceFlags'
        BY <1>2 DEF Send, AnnounceFlags
      <3>2. AnnounceCounts'
        BY <1>0, <1>2, <2>0 DEF Send, AnnounceCounts
      <3> QED BY <3>1, <3>2
    <2>2. SendingStands' /\ SnatchOnce'
      BY <1>2 DEF Send, SendingStands, SnatchOnce, AnnounceCounts, NextEvent
    <2>3. Rests' /\ WaitsBounded'
      BY <1>2 DEF Send, Rests, WaitsBounded, AnnounceCounts, NextEvent
    <2>4. Spaced
      <3>1. rested[at] + 0 >= Rest \/ (at \in hurried /\ ~completed[at])
        BY <1>2, <2>0 DEF Send, Rests
      <3>2. rested[at] \in Nat
        BY <1>0, <2>0 DEF AnnounceCounts
      <3> QED BY <1>0, <3>1, <3>2 DEF Spaced, Rest
    <2> QED BY <2>1, <2>2, <2>3, <2>4
  <1>3. CASE NotDue
    <2>1. AnnounceFlags' /\ AnnounceCounts'
      BY <1>3, OnwardTyped DEF NotDue, AnnounceFlags, AnnounceCounts
    <2>2. SendingStands' /\ SnatchOnce' /\ Rests' /\ WaitsBounded' /\ Spaced
      BY <1>3 DEF NotDue, SendingStands, SnatchOnce, Rests, WaitsBounded, Spaced, AnnounceCounts
    <2> QED BY <2>1, <2>2
  <1>4. ASSUME NEW i \in Interval, NEW f \in Interval, Succeed(i, f)
        PROVE  AnnounceInv' /\ Spaced
    <2> DEFINE w == NextWait(i, f)
    <2>1. w \in Rest .. Longest /\ at \in Url /\ w \in Nat
      <3>1. at \in Url
        BY <1>4 DEF Succeed, SendingStands, AnnounceCounts, Url
      <3>2. w \in Rest .. Longest
        BY ScheduleBounds
      <3> QED BY <1>0, <3>1, <3>2
    <2>2. Min({2, snatches[at] + 1}) = IF 2 <= snatches[at] + 1 THEN 2 ELSE snatches[at] + 1
      BY <2>1, MinOfTwo DEF AnnounceCounts
    <2>3. /\ wait' = [wait EXCEPT ![at] = w] /\ sending' = "none"
          /\ started' = [started EXCEPT ![at] = TRUE]
          /\ completed' = [completed EXCEPT ![at] = @ \/ sending = "completed"]
          /\ snatches' = [snatches EXCEPT ![at] = IF sending = "completed" THEN Min({2, @ + 1}) ELSE @]
          /\ failures' = [failures EXCEPT ![at] = 0]
          /\ UNCHANGED <<finished, wasComplete, stop, quit, rested, hurried>>
      BY <1>4 DEF Succeed
    <2> HIDE DEF w
    <2>4. at' \in 0 .. NumUrls
      BY <1>4, <2>1, OnwardTyped DEF Succeed, AnnounceCounts, Url
    <2>5. AnnounceFlags' /\ AnnounceCounts'
      <3>1. AnnounceFlags'
        BY <2>1, <2>3 DEF AnnounceFlags
      <3>2. AnnounceCounts'
        BY <2>1, <2>2, <2>3, <2>4 DEF AnnounceCounts
      <3> QED BY <3>1, <3>2
    <2>6. SnatchOnce'
      <3> SUFFICES ASSUME NEW u \in Url
                   PROVE  snatches'[u] <= 1 /\ (snatches'[u] = 1 => completed'[u] /\ started'[u])
        BY DEF SnatchOnce
      <3>1. snatches[u] \in 0 .. 1 /\ (snatches[u] = 1 => completed[u] /\ started[u])
        BY DEF SnatchOnce, AnnounceCounts
      <3>2. CASE u = at /\ sending = "completed"
        <4>1. snatches[u] = 0
          BY <3>1, <3>2 DEF SendingStands
        <4>2. snatches'[u] = 1
          BY <2>1, <2>2, <2>3, <3>2, <4>1 DEF AnnounceCounts
        <4>3. completed'[u] /\ started'[u]
          BY <2>1, <2>3, <3>2 DEF AnnounceFlags
        <4> QED BY <4>2, <4>3
      <3>3. CASE ~(u = at /\ sending = "completed")
        <4>1. snatches'[u] = snatches[u]
          BY <2>3, <3>3 DEF AnnounceCounts
        <4>2. completed[u] /\ started[u] => completed'[u] /\ started'[u]
          BY <2>3, <3>3 DEF AnnounceFlags
        <4> QED BY <3>1, <4>1, <4>2
      <3> QED BY <3>2, <3>3
    <2>7. Rests' /\ WaitsBounded'
      BY <1>0, <2>1, <2>3 DEF Rests, WaitsBounded, AnnounceCounts
    <2>8. SendingStands' /\ Spaced
      BY <2>3 DEF SendingStands, Spaced
    <2> QED BY <2>5, <2>6, <2>7, <2>8
  <1>5. CASE Fail
    <2> DEFINE n == Min({failures[at] + 1, MaxFailures})
               w == FailWait(n)
    <2>1. at \in Url /\ n \in 1 .. MaxFailures
      <3>1. at \in Url
        BY <1>5 DEF Fail, SendingStands, AnnounceCounts, Url
      <3>2. failures[at] \in 0 .. MaxFailures /\ MaxFailures > 0
        BY <3>1 DEF AnnounceCounts
      <3> QED BY <3>1, <3>2, MinOfTwo
    <2> HIDE DEF n
    <2>2. w \in Rest .. Longest /\ w \in Nat
      BY <1>0, <2>1, ScheduleBounds
    <2>3. /\ failures' = [failures EXCEPT ![at] = n] /\ wait' = [wait EXCEPT ![at] = w]
          /\ sending' = "none"
          /\ UNCHANGED <<finished, wasComplete, started, completed, stop, quit, snatches, rested, hurried>>
      BY <1>5, <2>1 DEF Fail, n, AnnounceCounts
    <2> HIDE DEF w
    <2>4. at' \in 0 .. NumUrls
      BY <1>5, <2>1, OnwardTyped DEF Fail, AnnounceCounts, Url
    <2>5. AnnounceFlags' /\ AnnounceCounts'
      <3>1. AnnounceFlags'
        BY <2>1, <2>3 DEF AnnounceFlags
      <3>2. AnnounceCounts'
        BY <2>1, <2>2, <2>3, <2>4 DEF AnnounceCounts
      <3> QED BY <3>1, <3>2
    <2>6. Rests' /\ WaitsBounded'
      BY <1>0, <2>1, <2>2, <2>3 DEF Rests, WaitsBounded, AnnounceCounts
    <2>7. SendingStands' /\ SnatchOnce' /\ Spaced
      BY <2>3 DEF SendingStands, SnatchOnce, Spaced
    <2> QED BY <2>5, <2>6, <2>7
  <1>6. CASE AnnounceTick
    <2>1. ASSUME NEW u \in Url
          PROVE  /\ wait'[u] = IF wait[u] = 0 THEN 0 ELSE wait[u] - 1
                 /\ rested'[u] = IF Longest <= rested[u] + 1 THEN Longest ELSE rested[u] + 1
                 /\ wait[u] \in Nat /\ rested[u] \in 0 .. Longest
      BY <1>0, <1>6, MinOfTwo DEF AnnounceTick, AnnounceCounts
    <2>2. /\ wait' = [u \in Url |-> wait'[u]] /\ rested' = [u \in Url |-> rested'[u]]
          /\ UNCHANGED <<finished, wasComplete, started, completed, failures, at, sending, stop, quit, snatches, hurried>>
      BY <1>6 DEF AnnounceTick
    <2>3. AnnounceFlags' /\ AnnounceCounts'
      <3>1. AnnounceFlags'
        BY <2>2 DEF AnnounceFlags
      <3>2. wait' \in [Url -> Nat] /\ rested' \in [Url -> 0 .. Longest]
        BY <1>0, <2>1, <2>2
      <3>3. AnnounceCounts'
        BY <2>2, <3>2 DEF AnnounceCounts
      <3> QED BY <3>1, <3>3
    <2>4. Rests' /\ WaitsBounded'
      BY <1>0, <2>1, <2>2 DEF Rests, WaitsBounded
    <2>5. SendingStands' /\ SnatchOnce' /\ Spaced
      BY <2>2 DEF SendingStands, SnatchOnce, Spaced
    <2> QED BY <2>3, <2>4, <2>5
  <1>7. CASE DownloadFinishes \/ MoreWanted \/ RequestStop \/ Quit \/ UNCHANGED announceVars
    <2>1. AnnounceFlags'
      BY <1>7 DEF DownloadFinishes, MoreWanted, RequestStop, Quit, announceVars, AnnounceFlags
    <2>2. /\ UNCHANGED <<scheduleVars, sending, snatches, rested, hurried>>
          /\ at' = at \/ (at' = 0 /\ sending = "none")
      BY <1>7 DEF DownloadFinishes, MoreWanted, RequestStop, Quit, announceVars
    <2>3. AnnounceCounts'
      BY <2>2 DEF AnnounceCounts
    <2>4. SendingStands' /\ SnatchOnce' /\ WaitsBounded' /\ Spaced
      BY <2>2 DEF SendingStands, SnatchOnce, WaitsBounded, Spaced
    <2>5. Rests'
      BY <2>2 DEF Rests
    <2> QED BY <2>1, <2>3, <2>4, <2>5
  <1> QED BY <1>1, <1>2, <1>3, <1>4, <1>5, <1>6, <1>7 DEF AnnounceNext

\* The schedule keeps its types: failures, waits and rests stay under their
\* caps (AnnounceState).
THEOREM AnnounceTyped == AnnounceSpec => []AnnounceTypeOK
  <1>1. AnnounceInit => AnnounceInv
    BY AnnounceInvInit
  <1>2. AnnounceInv /\ [AnnounceNext]_announceVars => AnnounceInv'
    BY AnnounceInvStep
  <1>3. AnnounceInv => AnnounceTypeOK
    BY DEF AnnounceInv, AnnounceFlags, AnnounceCounts, AnnounceTypeOK
  <1> QED BY <1>1, <1>2, <1>3, PTL DEF AnnounceSpec

\* A tracker is never hammered and hears of a completion once, whatever it
\* answers and whenever the download finishes, for every choice of intervals
\* (AnnounceState, announce_once).
THEOREM TrackersSpared == AnnounceSpec => TrackerSpared
  <1>1. AnnounceInit => AnnounceInv
    BY AnnounceInvInit
  <1>2. AnnounceInv /\ [AnnounceNext]_announceVars => AnnounceInv' /\ [Spaced]_announceVars
    BY AnnounceInvStep
  <1>3. AnnounceInv /\ AnnounceInv' /\ [Spaced]_announceVars
            => [Spaced /\ SnatchOnce']_announceVars
    BY DEF AnnounceInv
  <1> QED BY <1>1, <1>2, <1>3, PTL DEF AnnounceSpec, TrackerSpared

\* No answer and no number of failures puts the next announce further off than
\* the two ceilings (on_success_with_min, on_failure).
THEOREM AnnounceNeverFarOff == AnnounceSpec => []WaitsBounded
  <1>1. AnnounceInit => AnnounceInv
    BY AnnounceInvInit
  <1>2. AnnounceInv /\ [AnnounceNext]_announceVars => AnnounceInv'
    BY AnnounceInvStep
  <1>3. AnnounceInv => WaitsBounded
    BY DEF AnnounceInv
  <1> QED BY <1>1, <1>2, <1>3, PTL DEF AnnounceSpec

-----------------------------------------------------------------------------
(* The SAM session *)

\* The stages in which the supervisor has a session, and those in which the
\* registry has it too.
Hosting == {"forward", "remember", "accept", "attach", "report", "wait", "stop", "poke", "detach"}
Attached == {"report", "wait", "stop", "poke", "detach"}

\* Who holds which session: the supervisor and the registry the current one,
\* an accept thread the current one or one that was told to stop.
Held ==
    /\ sup \in Hosting <=> cur # NoSession
    /\ sup \in Hosting => "supervisor" \in refs[cur]
    /\ sup \in Attached => "registry" \in refs[cur]
    /\ sup = "forward" => "listener" \notin refs[cur]
    /\ sup \in {"poke", "detach"} => cur \in stopping
    /\ \A s \in SessionId :
         /\ control[s] \in {"none", "dropped"} => refs[s] = {}
         /\ "registry" \in refs[s] => s = cur /\ sup \in Attached
         /\ "listener" \in refs[s] /\ s # cur => s \in stopping
    /\ status = "connected" => sup = "wait"

\* A stored key is the one the next session is created with, if it could be
\* read; and from `remember` on the session's key is the stored one, if it could
\* be saved.
KeyStands ==
    /\ ~Ephemeral /\ keyFile \in Key /\ "load" \notin trouble =>
         /\ sup = "create" => loaded = keyFile
         /\ sup \in {"forward", "remember"} => keyOf[cur] = keyFile
    /\ ~Ephemeral /\ "save" \notin trouble /\ sup \in Hosting \ {"forward", "remember"} =>
         keyOf[cur] = keyFile

\* A step that writes over a stored key is of a bring-up that could not read it.
OnlyUnread == keyFile \in Key /\ keyFile' # keyFile => "load" \in trouble

SessionInv == SessionTypeOK /\ Held /\ KeyStands

\* The wait before a retry: positive, bounded, and never shorter than the one
\* before.
LEMMA BaseDelayGrows ==
    ASSUME NEW n \in Nat
    PROVE  /\ BaseDelay(n) \in 0 .. MaxDelay
           /\ BaseDelay(n + 1) \in 1 .. MaxDelay /\ BaseDelay(n) <= BaseDelay(n + 1)
  <1> USE SessionAssumption
  <1>1. ASSUME NEW k \in Nat
        PROVE  /\ 2 ^ k \in Nat /\ InitialDelay * 2 ^ k \in Nat /\ InitialDelay * 2 ^ k >= 1
               /\ Min({InitialDelay * 2 ^ k, MaxDelay})
                     = IF InitialDelay * 2 ^ k <= MaxDelay THEN InitialDelay * 2 ^ k ELSE MaxDelay
    <2>1. 2 ^ k \in Nat /\ 1 <= 2 ^ k
      BY PowerOfTwo
    <2>2. InitialDelay * 2 ^ k \in Nat /\ InitialDelay * 1 <= InitialDelay * 2 ^ k
      BY <2>1, Products
    <2> QED BY <2>1, <2>2, MinOfTwo
  <1>2. ASSUME NEW k \in Nat
        PROVE  BaseDelay(k + 1) = IF k >= DelayBits THEN MaxDelay
                                  ELSE Min({InitialDelay * 2 ^ k, MaxDelay})
    <2>1. k + 1 # 0 /\ (k + 1) - 1 = k
      OBVIOUS
    <2> QED BY <2>1 DEF BaseDelay
  <1>3. ASSUME NEW k \in Nat PROVE BaseDelay(k + 1) \in 1 .. MaxDelay
    <2> DEFINE d == InitialDelay * 2 ^ k
               m == Min({d, MaxDelay})
    <2>1. d \in Nat /\ d >= 1 /\ m = IF d <= MaxDelay THEN d ELSE MaxDelay
      BY <1>1
    <2>2. BaseDelay(k + 1) = IF k >= DelayBits THEN MaxDelay ELSE m
      BY <1>2
    <2> HIDE DEF d, m
    <2> QED BY <2>1, <2>2
  <1>4. CASE n = 0
    <2>1. BaseDelay(0 + 1) \in 1 .. MaxDelay /\ BaseDelay(0) = 0
      BY <1>3 DEF BaseDelay
    <2> QED BY <1>4, <2>1
  <1>5. CASE n # 0
    <2> DEFINE k == n - 1
    <2>1. k \in Nat /\ n = k + 1 /\ n \in Nat /\ k \in 0 .. n
      BY <1>5
    <2> HIDE DEF k
    <2>2. 2 ^ k <= 2 ^ n
      BY <2>1, PowerOfTwo
    <2>3. InitialDelay * 2 ^ k <= InitialDelay * 2 ^ n
      BY <1>1, <2>1, <2>2, Products
    <2>4. BaseDelay(n) = IF k >= DelayBits THEN MaxDelay
                         ELSE Min({InitialDelay * 2 ^ k, MaxDelay})
      BY <1>2, <2>1
    <2>5. BaseDelay(n + 1) = IF n >= DelayBits THEN MaxDelay
                             ELSE Min({InitialDelay * 2 ^ n, MaxDelay})
      BY <1>2
    <2>6. BaseDelay(n) <= BaseDelay(n + 1)
      BY <1>1, <2>1, <2>3, <2>4, <2>5
    <2> QED BY <1>3, <2>1, <2>6
  <1> QED BY <1>4, <1>5

\* A failed bring-up.
LEMMA BackOffStep ==
    ASSUME SessionTypeOK, BackOff
    PROVE  /\ fails' \in 0 .. MaxFails /\ delay' \in 0 .. MaxDelay /\ BackoffGrows
  <1> USE SessionAssumption
  <1>1. fails \in 0 .. MaxFails /\ MaxFails \in Nat
    BY DEF SessionTypeOK
  <1>2. fails' = (IF fails + 1 <= MaxFails THEN fails + 1 ELSE MaxFails) /\ delay' = BaseDelay(fails')
    BY <1>1, MinOfTwo DEF BackOff
  <1>3. fails' \in 0 .. MaxFails /\ delay' \in 0 .. MaxDelay
    BY <1>1, <1>2, BaseDelayGrows
  <1>4. BackoffGrows
    <2> SUFFICES ASSUME fails' > fails
                 PROVE  delay' >= BaseDelay(fails) /\ delay' <= MaxDelay /\ delay' > 0
      BY DEF BackoffGrows
    <2>1. fails' = fails + 1 /\ fails \in Nat
      BY <1>1, <1>2
    <2>2. /\ BaseDelay(fails) \in 0 .. MaxDelay /\ BaseDelay(fails + 1) \in 1 .. MaxDelay
          /\ BaseDelay(fails) <= BaseDelay(fails + 1)
      BY <2>1, BaseDelayGrows
    <2> QED BY <1>2, <2>1, <2>2
  <1> QED BY <1>3, <1>4

\* Every step keeps the types.
LEMMA SessionTypesKept ==
    ASSUME SessionInv, [SessionNext]_sessionVars
    PROVE  SessionTypeOK'
  <1> USE SessionAssumption
      DEF SessionInv, SessionTypeOK, Held, Hosting, Attached, Stage, Holder, Let, Without,
          routerVars, keyVars, objectVars, supVars
  <1>1. CASE Awake
    BY <1>1 DEF Awake
  <1>2. CASE LoadKey
    BY <1>2 DEF LoadKey
  <1>3. CASE Connect
    BY <1>3 DEF Connect
  <1>4. CASE ConnectFails
    <2>1. BackOff /\ faults' \in 0 .. MaxFaults
      BY <1>4 DEF ConnectFails
    <2>2. fails' \in 0 .. MaxFails /\ delay' \in 0 .. MaxDelay
      BY <2>1, BackOffStep
    <2>3. /\ status' = "waiting-for-router" /\ sup' = "sleep" /\ cur' = NoSession
          /\ UNCHANGED <<routerUp, hosted, objectVars, loaded, keyVars, active>>
      BY <1>4 DEF ConnectFails, BackOff
    <2> QED BY <2>1, <2>2, <2>3
  <1>5. CASE Forward
    BY <1>5 DEF Forward
  <1>6. CASE ForwardFails
    <2>1. BackOff /\ faults' \in 0 .. MaxFaults
      BY <1>6 DEF ForwardFails
    <2>2. fails' \in 0 .. MaxFails /\ delay' \in 0 .. MaxDelay
      BY <2>1, BackOffStep
    <2>3. /\ status' = "waiting-for-router" /\ sup' = "sleep" /\ cur' = NoSession
          /\ UNCHANGED <<routerUp, hosted, keyOf, ended, stopping, woken, loaded, keyVars, active>>
      BY <1>6 DEF ForwardFails, BackOff
    <2>4. /\ refs' \in [SessionId -> SUBSET Holder]
          /\ control' \in [SessionId -> {"none", "open", "said", "closed", "dropped"}]
      BY <1>6 DEF ForwardFails
    <2> QED BY <2>1, <2>2, <2>3, <2>4
  <1>7. CASE Remember
    <2>1. sup = "remember" /\ sup' = "accept" /\ cur \in SessionId
      BY <1>7 DEF Remember
    <2>2. keyFile' \in Key \cup {NoKey, "corrupt"}
      BY <1>7, <2>1 DEF Remember
    <2>3. trouble' \subseteq {"load", "save"} /\ faults' \in 0 .. MaxFaults
      <3>1. CASE UNCHANGED <<trouble, faults>>
        BY <3>1
      <3>2. CASE faults > 0 /\ faults' = faults - 1 /\ trouble' = trouble \cup {"save"}
        <4>1. trouble' \subseteq {"load", "save"}
          BY <3>2
        <4>2. faults' \in 0 .. MaxFaults
          BY <3>2
        <4> QED BY <4>1, <4>2
      <3> QED BY <1>7, <3>1, <3>2 DEF Remember
    <2>4. UNCHANGED <<routerUp, hosted, objectVars, active, cur, loaded, fails, delay, status>>
      BY <1>7 DEF Remember
    <2> QED BY <2>1, <2>2, <2>3, <2>4
  <1>8. CASE StartAccept
    <2>1. BaseDelay(1) \in 0 .. MaxDelay /\ 0 \in 0 .. MaxFails
      <3>1. 0 \in Nat /\ BaseDelay(0 + 1) \in 1 .. MaxDelay
        BY BaseDelayGrows
      <3> QED BY <3>1
    <2>2. CASE sup' = "attach" /\ UNCHANGED <<faults, objectVars, cur, status, fails, delay>>
      BY <1>8, <2>2 DEF StartAccept
    <2>3. CASE Let([refs EXCEPT ![cur] = {}], control)
      <3>1. /\ refs' \in [SessionId -> SUBSET Holder]
            /\ control' \in [SessionId -> {"none", "open", "said", "closed", "dropped"}]
        BY <2>3
      <3> QED BY <1>8, <2>1, <3>1 DEF StartAccept
    <2> QED BY <1>8, <2>2, <2>3 DEF StartAccept
  <1>9. CASE Attach
    BY <1>9 DEF Attach
  <1>10. CASE Report
    BY <1>10 DEF Report
  <1>11. CASE Lost
    BY <1>11 DEF Lost
  <1>12. CASE StopDemux
    BY <1>12 DEF StopDemux
  <1>13. CASE Poke
    BY <1>13 DEF Poke
  <1>14. CASE Detach
    BY <1>14 DEF Detach
  <1>15. CASE RouterCrashes
    <2>1. control' \in [SessionId -> {"none", "open", "said", "closed", "dropped"}]
      BY <1>15 DEF RouterCrashes
    <2>2. routerUp' = FALSE /\ hosted' = {} /\ faults' \in 0 .. MaxFaults
      BY <1>15 DEF RouterCrashes
    <2>3. UNCHANGED <<keyOf, ended, refs, stopping, woken, supVars, keyVars, active>>
      BY <1>15 DEF RouterCrashes
    <2> QED BY <2>1, <2>2, <2>3
  <1>16. CASE RouterReturns
    BY <1>16 DEF RouterReturns
  <1>17. CASE Restart
    BY <1>17 DEF Restart
  <1>18. ASSUME NEW s \in SessionId, Watch(s) PROVE SessionTypeOK'
    BY <1>18 DEF Watch
  <1>19. ASSUME NEW s \in SessionId, DialRefused(s) PROVE SessionTypeOK'
    BY <1>19 DEF DialRefused
  <1>20. ASSUME NEW s \in SessionId, AcceptWakes(s) PROVE SessionTypeOK'
    BY <1>20 DEF AcceptWakes
  <1>21. ASSUME NEW s \in SessionId, AcceptFails(s) PROVE SessionTypeOK'
    BY <1>21 DEF AcceptFails
  <1>22. ASSUME NEW s \in SessionId, Borrow(s) PROVE SessionTypeOK'
    BY <1>22 DEF Borrow
  <1>23. ASSUME NEW s \in SessionId, GiveBack(s) PROVE SessionTypeOK'
    BY <1>23 DEF GiveBack
  <1>24. ASSUME NEW s \in SessionId, RouterEnds(s) PROVE SessionTypeOK'
    BY <1>24 DEF RouterEnds
  <1>25. ASSUME NEW s \in SessionId, RouterLetsGo(s) PROVE SessionTypeOK'
    BY <1>25 DEF RouterLetsGo
  <1>26. CASE TorrentsChange
    BY <1>26 DEF TorrentsChange
  <1>27. CASE UNCHANGED sessionVars
    BY <1>27 DEF sessionVars
  <1> QED
    BY <1>1, <1>2, <1>3, <1>4, <1>5, <1>6, <1>7, <1>8, <1>9, <1>10, <1>11, <1>12,
       <1>13, <1>14, <1>15, <1>16, <1>17, <1>18, <1>19, <1>20, <1>21, <1>22, <1>23,
       <1>24, <1>25, <1>26, <1>27
       DEF SessionNext, Supervise

\* Every step leaves each session with the holders its stage allows.
LEMMA HeldKept ==
    ASSUME SessionInv, [SessionNext]_sessionVars
    PROVE  Held'
  <1> USE SessionAssumption
      DEF SessionInv, SessionTypeOK, Held, Hosting, Attached, Let, Without, BackOff,
          routerVars, keyVars, objectVars, supVars
  <1>1. CASE Awake
    BY <1>1 DEF Awake
  <1>2. CASE LoadKey
    BY <1>2 DEF LoadKey
  <1>3. CASE Connect
    BY <1>3 DEF Connect
  <1>4. CASE ConnectFails
    BY <1>4 DEF ConnectFails
  <1>5. CASE Forward
    BY <1>5 DEF Forward
  <1>6. CASE ForwardFails
    BY <1>6 DEF ForwardFails
  <1>7. CASE Remember
    BY <1>7 DEF Remember
  <1>8. CASE StartAccept
    BY <1>8 DEF StartAccept
  <1>9. CASE Attach
    BY <1>9 DEF Attach
  <1>10. CASE Report
    BY <1>10 DEF Report
  <1>11. CASE Lost
    BY <1>11 DEF Lost
  <1>12. CASE StopDemux
    BY <1>12 DEF StopDemux
  <1>13. CASE Poke
    BY <1>13 DEF Poke
  <1>14. CASE Detach
    BY <1>14 DEF Detach
  <1>15. CASE RouterCrashes
    BY <1>15 DEF RouterCrashes
  <1>16. CASE RouterReturns
    BY <1>16 DEF RouterReturns
  <1>17. CASE Restart
    BY <1>17 DEF Restart
  <1>18. ASSUME NEW s \in SessionId, Watch(s) PROVE Held'
    BY <1>18 DEF Watch
  <1>19. ASSUME NEW s \in SessionId, DialRefused(s) PROVE Held'
    BY <1>19 DEF DialRefused
  <1>20. ASSUME NEW s \in SessionId, AcceptWakes(s) PROVE Held'
    BY <1>20 DEF AcceptWakes
  <1>21. ASSUME NEW s \in SessionId, AcceptFails(s) PROVE Held'
    BY <1>21 DEF AcceptFails
  <1>22. ASSUME NEW s \in SessionId, Borrow(s) PROVE Held'
    BY <1>22 DEF Borrow
  <1>23. ASSUME NEW s \in SessionId, GiveBack(s) PROVE Held'
    BY <1>23 DEF GiveBack
  <1>24. ASSUME NEW s \in SessionId, RouterEnds(s) PROVE Held'
    BY <1>24 DEF RouterEnds
  <1>25. ASSUME NEW s \in SessionId, RouterLetsGo(s) PROVE Held'
    BY <1>25 DEF RouterLetsGo
  <1>26. CASE TorrentsChange
    BY <1>26 DEF TorrentsChange
  <1>27. CASE UNCHANGED sessionVars
    BY <1>27 DEF sessionVars
  <1> QED
    BY <1>1, <1>2, <1>3, <1>4, <1>5, <1>6, <1>7, <1>8, <1>9, <1>10, <1>11, <1>12,
       <1>13, <1>14, <1>15, <1>16, <1>17, <1>18, <1>19, <1>20, <1>21, <1>22, <1>23,
       <1>24, <1>25, <1>26, <1>27
       DEF SessionNext, Supervise

\* Every step leaves a stored key the one in use.
LEMMA KeyKept ==
    ASSUME SessionInv, [SessionNext]_sessionVars
    PROVE  KeyStands' /\ OnlyUnread
  <1> USE SessionAssumption
      DEF SessionInv, SessionTypeOK, Held, Hosting, KeyStands, OnlyUnread, Let, Without, BackOff,
          routerVars, keyVars, objectVars, supVars
  <1>1. CASE Awake
    BY <1>1 DEF Awake
  <1>2. CASE LoadKey
    BY <1>2 DEF LoadKey
  <1>3. CASE Connect
    BY <1>3 DEF Connect
  <1>4. CASE ConnectFails
    BY <1>4 DEF ConnectFails
  <1>5. CASE Forward
    BY <1>5 DEF Forward
  <1>6. CASE ForwardFails
    BY <1>6 DEF ForwardFails
  <1>7. CASE Remember
    BY <1>7 DEF Remember
  <1>8. CASE StartAccept
    BY <1>8 DEF StartAccept
  <1>9. CASE Attach
    BY <1>9 DEF Attach
  <1>10. CASE Report
    BY <1>10 DEF Report
  <1>11. CASE Lost
    BY <1>11 DEF Lost
  <1>12. CASE StopDemux
    BY <1>12 DEF StopDemux
  <1>13. CASE Poke
    BY <1>13 DEF Poke
  <1>14. CASE Detach
    BY <1>14 DEF Detach
  <1>15. CASE RouterCrashes
    BY <1>15 DEF RouterCrashes
  <1>16. CASE RouterReturns
    BY <1>16 DEF RouterReturns
  <1>17. CASE Restart
    BY <1>17 DEF Restart
  <1>18. ASSUME NEW s \in SessionId, Watch(s) PROVE KeyStands' /\ OnlyUnread
    BY <1>18 DEF Watch
  <1>19. ASSUME NEW s \in SessionId, DialRefused(s) PROVE KeyStands' /\ OnlyUnread
    BY <1>19 DEF DialRefused
  <1>20. ASSUME NEW s \in SessionId, AcceptWakes(s) PROVE KeyStands' /\ OnlyUnread
    BY <1>20 DEF AcceptWakes
  <1>21. ASSUME NEW s \in SessionId, AcceptFails(s) PROVE KeyStands' /\ OnlyUnread
    BY <1>21 DEF AcceptFails
  <1>22. ASSUME NEW s \in SessionId, Borrow(s) PROVE KeyStands' /\ OnlyUnread
    BY <1>22 DEF Borrow
  <1>23. ASSUME NEW s \in SessionId, GiveBack(s) PROVE KeyStands' /\ OnlyUnread
    BY <1>23 DEF GiveBack
  <1>24. ASSUME NEW s \in SessionId, RouterEnds(s) PROVE KeyStands' /\ OnlyUnread
    BY <1>24 DEF RouterEnds
  <1>25. ASSUME NEW s \in SessionId, RouterLetsGo(s) PROVE KeyStands' /\ OnlyUnread
    BY <1>25 DEF RouterLetsGo
  <1>26. CASE TorrentsChange
    BY <1>26 DEF TorrentsChange
  <1>27. CASE UNCHANGED sessionVars
    BY <1>27 DEF sessionVars
  <1> QED
    BY <1>1, <1>2, <1>3, <1>4, <1>5, <1>6, <1>7, <1>8, <1>9, <1>10, <1>11, <1>12,
       <1>13, <1>14, <1>15, <1>16, <1>17, <1>18, <1>19, <1>20, <1>21, <1>22, <1>23,
       <1>24, <1>25, <1>26, <1>27
       DEF SessionNext, Supervise

\* Only a failed bring-up counts one, and it waits as BackOffStep says.
LEMMA BackoffKept ==
    ASSUME SessionInv, [SessionNext]_sessionVars
    PROVE  [BackoffGrows]_sessionVars
  <1>1. CASE BackOff
    BY <1>1, BackOffStep DEF SessionInv
  <1>2. CASE UNCHANGED fails
    <2>1. ~(fails' > fails)
      BY <1>2, SessionAssumption DEF SessionInv, SessionTypeOK
    <2> QED BY <2>1 DEF BackoffGrows
  <1>3. CASE fails' = 0
    <2>1. ~(fails' > fails)
      BY <1>3, SessionAssumption DEF SessionInv, SessionTypeOK
    <2> QED BY <2>1 DEF BackoffGrows
  <1>4. CASE SessionNext
    BY <1>1, <1>2, <1>3, <1>4
       DEF SessionNext, Supervise, Awake, LoadKey, Connect, ConnectFails, Forward, ForwardFails,
           Remember, StartAccept, Attach, Report, Lost, StopDemux, Poke, Detach, RouterCrashes,
           RouterReturns, Restart, TorrentsChange, Watch, DialRefused, AcceptWakes, AcceptFails, Borrow, GiveBack,
           RouterEnds, RouterLetsGo, supVars
  <1> QED BY <1>4

LEMMA SessionInvInit == SessionInit => SessionInv
  <1> SUFFICES ASSUME SessionInit PROVE SessionInv
    OBVIOUS
  <1> USE SessionAssumption
  <1>1. SessionTypeOK
    <2>1. SessionInit => active \in BOOLEAN /\ routerUp \in BOOLEAN
      BY Zenon DEF SessionInit
    <2> QED BY <2>1 DEF SessionInit, SessionTypeOK, Stage
  <1>2. Held
    BY DEF SessionInit, Held, Hosting, Attached
  <1>3. KeyStands
    BY DEF SessionInit, KeyStands, Hosting
  <1> QED BY <1>1, <1>2, <1>3 DEF SessionInv

LEMMA SessionInvStep == SessionInv /\ [SessionNext]_sessionVars => SessionInv'
  BY SessionTypesKept, HeldKept, KeyKept DEF SessionInv

\* The types of the session, its objects and the supervisor hold through
\* every loss, teardown, rebuild and restart.
THEOREM SessionTyped == SessionSpec => []SessionTypeOK
  <1>1. SessionInv => SessionTypeOK
    BY DEF SessionInv
  <1> QED BY SessionInvInit, SessionInvStep, <1>1, PTL DEF SessionSpec

LEMMA HeldIsOneNetwork == SessionInv => OneNetwork
  BY SessionAssumption DEF SessionInv, SessionTypeOK, Held, Hosting, Attached, OneNetwork

\* Through every loss, teardown and restart: the registry has the current
\* session only, an accept thread of an old one was told to stop, a stored key
\* is overwritten by nothing but a bring-up that could not read it and is the
\* one in use unless it could not be saved, and the wait between failed
\* bring-ups grows (spawn_sam_supervisor, Identity::load and remember,
\* base_delay).
THEOREM SessionIsKept == SessionSpec => SessionKept
  <1>1. SessionInv /\ SessionInv' /\ [SessionNext]_sessionVars
           => [OneNetwork' /\ IdentityKept /\ BackoffGrows]_sessionVars
    <2>1. SessionInv' => OneNetwork'
      BY HeldIsOneNetwork, PTL
    <2>2. ASSUME SessionInv' PROVE
            ~Ephemeral /\ status' = "connected" /\ "save" \notin trouble' => keyOf'[cur'] = keyFile'
      BY <2>2 DEF SessionInv, Held, KeyStands, Hosting
    <2>3. SessionInv /\ SessionInv' /\ [SessionNext]_sessionVars => IdentityKept
      BY <2>2, KeyKept DEF IdentityKept, OnlyUnread
    <2> QED BY <2>1, <2>3, BackoffKept
  <1> QED BY SessionInvInit, SessionInvStep, <1>1, PTL DEF SessionSpec, SessionKept

-----------------------------------------------------------------------------
(* The naming cache *)

Room == Cardinality(Entries) < MaxEntries

NamingTypes ==
    /\ cached \in [Name -> {"none", "hit", "miss"}]
    /\ held \in [Name -> 0 .. NegativeMax] /\ misses \in [Name -> 0 .. MaxMisses]
    /\ asking \in [Asker -> {{}} \cup {{n} : n \in Name}]
    /\ prior \in [Asker -> 0 .. MaxMisses] /\ lasted \in [Asker -> 0 .. LookupTicks]
    /\ overtaken \subseteq Asker

\* No two entries went in at the same time.
AgesApart ==
    /\ age \in [Name -> 0 .. Cardinality(Name)]
    /\ \A n \in Entries : age[n] \in 1 .. Cardinality(Entries)
    /\ \A m, n \in Entries : age[m] = age[n] => m = n

\* A name the table has nothing for has no failures and no hold.
Blank == \A n \in Name : cached[n] = "none" => misses[n] = 0 /\ held[n] = 0

\* The count after one more failure.
Once(n) == IF n + 1 <= MaxMisses THEN n + 1 ELSE MaxMisses

\* A lookup that was not overtaken still has the table's count, and the hold it
\* found is over.
Fresh ==
    \A a \in Asker \ overtaken : \A n \in asking[a] :
        cached[n] # "hit" /\ held[n] = 0 /\ misses[n] = prior[a]

NamingInv == NamingTypes /\ AgesApart /\ Blank /\ TableBounded /\ Fresh

\* The k-th failure in a row is held back for at least NegativeInitial.
LEMMA HoldBounds ==
    ASSUME NEW k \in Nat \ {0}
    PROVE  Hold(k) \in NegativeInitial .. NegativeMax
  <1> USE NamingAssumption
  <1> DEFINE e == Min({k - 1, NegativeShift})
             d == NegativeInitial * 2 ^ e
  <1>1. e \in Nat
    <2>1. k - 1 \in Nat
      OBVIOUS
    <2> QED BY <2>1, MinOfTwo
  <1>2. d \in Nat /\ d >= NegativeInitial
    <2>1. 2 ^ e \in Nat /\ 1 <= 2 ^ e
      BY <1>1, PowerOfTwo
    <2> HIDE DEF e
    <2>2. NegativeInitial * 1 <= NegativeInitial * 2 ^ e /\ NegativeInitial * 2 ^ e \in Nat
      BY <2>1, Products
    <2> QED BY <2>2
  <1>3. Hold(k) = Min({d, NegativeMax})
    BY DEF Hold
  <1> HIDE DEF d
  <1>4. Min({d, NegativeMax}) = IF d <= NegativeMax THEN d ELSE NegativeMax
    BY <1>2, MinOfTwo
  <1> QED BY <1>2, <1>3, <1>4

LEMMA EntriesFinite ==
    ASSUME NEW S \in SUBSET Name
    PROVE  /\ IsFiniteSet(S) /\ Cardinality(S) \in Nat /\ Cardinality(S) <= Cardinality(Name)
           /\ Cardinality(Name) \in Nat
  BY NamingAssumption, FS_Subset, FS_CardinalityType

\* Cache::oldest finds an entry, and no other is older.
LEMMA OldestIsOldest ==
    ASSUME AgesApart, NEW of \in SUBSET Entries, of # {}
    PROVE  Oldest(of) \in of /\ \A m \in of : age[Oldest(of)] <= age[m]
  <1> DEFINE T == {age[m] : m \in of}
  <1>1. of \subseteq Name /\ T \in SUBSET Nat /\ T # {}
    BY EntriesFinite DEF AgesApart, Entries
  <1>2. PICK x \in T : \A y \in T : x <= y
    BY <1>1, LeastElement
  <1>3. \E n \in of : \A m \in of : age[n] <= age[m]
    BY <1>2
  <1> QED BY <1>3 DEF Oldest

\* The names of the table after an insertion, with the counts the limit and
\* the ranks need.
LEMMA InsertMakesRoom ==
    ASSUME NamingInv, NEW name \in Name
    PROVE  LET kept == Entries \ (Evicted(name) \cup {name}) IN
           /\ kept \subseteq Entries /\ name \notin kept
           /\ Cardinality(kept \cup {name}) = Cardinality(kept) + 1
           /\ Cardinality(kept) + 1 <= MaxEntries
  <1> USE NamingAssumption
  <1> DEFINE kept == Entries \ (Evicted(name) \cup {name})
  <1> SUFFICES /\ kept \subseteq Entries /\ name \notin kept
               /\ Cardinality(kept \cup {name}) = Cardinality(kept) + 1
               /\ Cardinality(kept) + 1 <= MaxEntries
    OBVIOUS
  <1>1. Entries \subseteq Name /\ IsFiniteSet(Entries) /\ Cardinality(Entries) \in Nat
    BY EntriesFinite DEF Entries
  <1>2. Cardinality(Entries) <= MaxEntries
    BY DEF NamingInv, TableBounded
  <1>3. Cardinality(kept \cup {name}) = Cardinality(kept) + 1
    <2>1. IsFiniteSet(kept) /\ name \notin kept
      BY <1>1, FS_Subset
    <2> HIDE DEF kept
    <2> QED BY <2>1, FS_AddElement
  <1>4. CASE name \in Entries
    <2>1. Evicted(name) = {} /\ kept = Entries \ {name}
      BY <1>4 DEF Evicted
    <2>2. Cardinality(kept) = Cardinality(Entries) - 1
      BY <1>1, <1>4, <2>1, FS_RemoveElement
    <2> HIDE DEF kept
    <2> QED BY <1>1, <1>2, <1>3, <2>1, <2>2 DEF Room
  <1>5. CASE name \notin Entries /\ Room
    <2>1. Evicted(name) = {} /\ kept = Entries \ {name} /\ kept = Entries
      BY <1>5 DEF Evicted, Room
    <2> HIDE DEF kept
    <2>2. kept \subseteq Entries /\ name \notin kept
      BY <1>5, <2>1
    <2>3. Cardinality(kept) \in Nat /\ Cardinality(kept) < MaxEntries
      BY <1>1, <1>5, <2>1 DEF Room
    <2> QED BY <1>3, <1>5, <2>1, <2>2, <2>3
  <1>6. CASE name \notin Entries /\ ~Room
    <2> DEFINE stale == {n \in Entries : cached[n] = "miss"}
               of == IF stale # {} THEN stale ELSE Entries
    <2>1. Cardinality(Entries) = MaxEntries /\ Entries # {}
      BY <1>1, <1>2, <1>6, FS_EmptySet DEF Room
    <2>2. of \in SUBSET Entries /\ of # {}
      BY <2>1
    <2>3. Evicted(name) = {Oldest(of)}
      BY <1>6 DEF Evicted, Room
    <2> HIDE DEF of
    <2>4. Oldest(of) \in Entries
      BY <2>2, OldestIsOldest DEF NamingInv
    <2>5. kept = Entries \ {Oldest(of)}
      BY <1>6, <2>3
    <2>6. Cardinality(kept) = MaxEntries - 1
      <3>1. Cardinality(Entries \ {Oldest(of)}) = Cardinality(Entries) - 1
        BY <1>1, <2>4, FS_RemoveElement, Zenon
      <3> QED BY <2>1, <2>5, <3>1
    <2>7. kept \subseteq Entries /\ name \notin kept
      BY <2>5, <1>6
    <2> HIDE DEF kept
    <2> QED BY <1>3, <2>6, <2>7
  <1> QED BY <1>4, <1>5, <1>6

\* The ranks after an insertion are again all different.
LEMMA InsertRanks ==
    ASSUME NamingInv, NEW name \in Name, NEW what \in {"hit", "miss"}, NEW hold, NEW count,
           Insert(name, what, hold, count)
    PROVE  /\ Entries' = (Entries \ (Evicted(name) \cup {name})) \cup {name}
           /\ AgesApart' /\ TableBounded'
  <1> USE NamingAssumption
  <1> DEFINE kept == Entries \ (Evicted(name) \cup {name})
             c == Cardinality(kept)
             upto(n) == {m \in kept : age[m] <= age[n]}
             rank(n) == Cardinality(upto(n))
  <1>1. /\ kept \subseteq Entries /\ name \notin kept
        /\ Cardinality(kept \cup {name}) = c + 1 /\ c + 1 <= MaxEntries
    BY InsertMakesRoom
  <1>2. /\ cached' = [n \in Name |-> IF n = name THEN what ELSE IF n \in kept THEN cached[n] ELSE "none"]
        /\ age' = [n \in Name |-> IF n = name THEN c + 1 ELSE IF n \in kept THEN rank(n) ELSE 0]
    BY DEF Insert
  <1>3. kept \subseteq Name /\ \A n \in kept : cached[n] # "none"
    BY DEF Entries
  <1>4. IsFiniteSet(kept) /\ c \in Nat /\ Cardinality(Name) \in Nat
    BY <1>3, EntriesFinite
  <1>5. c + 1 <= Cardinality(Name)
    <2>1. kept \cup {name} \in SUBSET Name
      BY <1>3
    <2> QED BY <1>1, <2>1, EntriesFinite
  <1>6. \A n \in Entries : age[n] \in Nat
    BY EntriesFinite DEF NamingInv, AgesApart, Entries
  <1>7. \A m, n \in kept : age[m] = age[n] => m = n
    BY <1>1 DEF NamingInv, AgesApart
  <1> HIDE DEF kept
  <1>8. Entries' = kept \cup {name}
    BY <1>2, <1>3 DEF Entries
  <1>9. ASSUME NEW n \in kept PROVE rank(n) \in 1 .. c
    <2>1. upto(n) \in SUBSET kept /\ n \in upto(n)
      BY <1>1, <1>6
    <2> HIDE DEF upto
    <2>2. IsFiniteSet(upto(n)) /\ rank(n) <= c
      BY <1>4, <2>1, FS_Subset
    <2>3. rank(n) \in Nat /\ rank(n) # 0
      BY <2>1, <2>2, FS_CardinalityType, FS_EmptySet
    <2> HIDE DEF rank, c
    <2> QED BY <1>4, <2>2, <2>3
  <1>10. ASSUME NEW m \in kept, NEW n \in kept, age[m] < age[n] PROVE rank(m) # rank(n)
    <2>1. age[m] \in Nat /\ age[n] \in Nat
      BY <1>1, <1>6
    <2>2. upto(m) \in SUBSET upto(n)
      BY <1>1, <1>6, <1>10, <2>1
    <2>3. n \in upto(n) /\ n \notin upto(m)
      BY <1>10, <2>1
    <2>4. IsFiniteSet(upto(n))
      <3>1. upto(n) \in SUBSET kept
        OBVIOUS
      <3> HIDE DEF upto
      <3> QED BY <1>4, <3>1, FS_Subset
    <2> HIDE DEF upto
    <2> QED BY <2>2, <2>3, <2>4, FS_Subset
  <1>11. ASSUME NEW m \in kept, NEW n \in kept, rank(m) = rank(n) PROVE m = n
    <2>1. age[m] \in Nat /\ age[n] \in Nat
      BY <1>1, <1>6
    <2>2. age[m] = age[n]
      BY <1>10, <1>11, <2>1
    <2> QED BY <1>7, <2>2
  <1> HIDE DEF rank
  <1>12. Cardinality(Entries)' = c + 1
    BY <1>1, <1>8
  <1> HIDE DEF c
  <1>13. age' \in [Name -> 0 .. Cardinality(Name)]
    BY <1>2, <1>3, <1>4, <1>5, <1>9
  <1>14. /\ age'[name] = c + 1
         /\ \A n \in kept : age'[n] = rank(n)
    BY <1>1, <1>2, <1>3
  <1>15. \A n \in Entries' : age'[n] \in 1 .. c + 1
    BY <1>4, <1>8, <1>9, <1>14
  <1>16. \A m, n \in Entries' : age'[m] = age'[n] => m = n
    <2>1. \A n \in kept : age'[n] # c + 1
      BY <1>4, <1>9, <1>14
    <2> QED BY <1>8, <1>11, <1>14, <2>1
  <1>17. AgesApart'
    BY <1>12, <1>13, <1>15, <1>16 DEF AgesApart
  <1>18. TableBounded'
    BY <1>1, <1>12 DEF TableBounded
  <1> QED BY <1>8, <1>17, <1>18 DEF kept

\* What an insertion leaves of the other names: everything, but for the one it
\* throws out; a hit only goes when the whole table is hits, and then the oldest.
LEMMA InsertSpares ==
    ASSUME NamingInv, NEW name \in Name, NEW what \in {"hit", "miss"}, NEW hold, NEW count,
           Insert(name, what, hold, count)
    PROVE  /\ \A n \in Name \ (Evicted(name) \cup {name}) :
                cached'[n] = cached[n] /\ held'[n] = held[n] /\ misses'[n] = misses[n]
           /\ \A n \in Evicted(name) \ {name} : n \in Name => cached'[n] = "none"
           /\ \A n \in Name \ {name} : cached[n] = "hit" /\ cached'[n] # "hit" =>
                /\ Cardinality(Entries) = MaxEntries /\ \A m \in Entries : cached[m] = "hit"
                /\ \A m \in Entries : age[n] <= age[m]
  <1> USE NamingAssumption
  <1> DEFINE kept == Entries \ (Evicted(name) \cup {name})
             stale == {n \in Entries : cached[n] = "miss"}
             of == IF stale # {} THEN stale ELSE Entries
  <1>1. /\ cached' = [n \in Name |-> IF n = name THEN what ELSE IF n \in kept THEN cached[n] ELSE "none"]
        /\ held' = [n \in Name |-> IF n = name THEN hold ELSE IF n \in kept THEN held[n] ELSE 0]
        /\ misses' = [n \in Name |-> IF n = name THEN count ELSE IF n \in kept THEN misses[n] ELSE 0]
    BY DEF Insert
  <1>4. Entries \subseteq Name /\ Cardinality(Entries) \in Nat /\ Cardinality(Entries) <= MaxEntries
    BY EntriesFinite DEF Entries, NamingInv, TableBounded
  <1>5. ASSUME NEW n \in Name \ (Evicted(name) \cup {name})
        PROVE  cached'[n] = cached[n] /\ held'[n] = held[n] /\ misses'[n] = misses[n]
    <2>1. CASE n \in Entries
      BY <1>1, <2>1
    <2>2. CASE n \notin Entries
      <3>1. cached[n] = "none" /\ held[n] = 0 /\ misses[n] = 0
        BY <2>2 DEF Entries, NamingInv, Blank
      <3> QED BY <1>1, <2>2, <3>1
    <2> QED BY <2>1, <2>2
  <1>7. \A n \in Evicted(name) \ {name} : n \in Name => cached'[n] = "none"
    BY <1>1
  <1>6. ASSUME NEW n \in Name \ {name}, cached[n] = "hit", cached'[n] # "hit"
        PROVE  /\ Cardinality(Entries) = MaxEntries /\ \A m \in Entries : cached[m] = "hit"
               /\ \A m \in Entries : age[n] <= age[m]
    <2>1. n \in Entries /\ n \notin kept
      BY <1>1, <1>6 DEF Entries
    <2>2. n \in Evicted(name)
      BY <2>1
    <2>3. ~(Cardinality(Entries) < MaxEntries \/ name \in Entries) /\ Evicted(name) = {Oldest(of)}
      BY <2>2 DEF Evicted
    <2>4. of \in SUBSET Entries /\ of # {}
      BY <2>1
    <2>5. n = Oldest(of) /\ n \in of /\ \A m \in of : age[n] <= age[m]
      <3> HIDE DEF of
      <3> QED BY <2>2, <2>3, <2>4, OldestIsOldest DEF NamingInv
    <2>6. stale = {}
      BY <1>6, <2>5
    <2>7. \A m \in Entries : cached[m] = "hit"
      BY <2>6 DEF Entries, NamingInv, NamingTypes
    <2>8. Cardinality(Entries) = MaxEntries
      BY <1>4, <2>3
    <2> QED BY <2>5, <2>6, <2>7, <2>8
  <1> HIDE DEF kept
  <1> QED BY <1>5, <1>6, <1>7

\* An insertion keeps the types.
LEMMA InsertTypes ==
    ASSUME NamingInv, NEW name \in Name, NEW what \in {"hit", "miss"},
           NEW hold \in 0 .. NegativeMax, NEW count \in 0 .. MaxMisses,
           Insert(name, what, hold, count)
    PROVE  /\ cached' \in [Name -> {"none", "hit", "miss"}] /\ Blank'
           /\ held' \in [Name -> 0 .. NegativeMax] /\ misses' \in [Name -> 0 .. MaxMisses]
           /\ cached'[name] = what /\ held'[name] = hold /\ misses'[name] = count
  <1> USE NamingAssumption
  <1> DEFINE kept == Entries \ (Evicted(name) \cup {name})
  <1>1. /\ cached' = [n \in Name |-> IF n = name THEN what ELSE IF n \in kept THEN cached[n] ELSE "none"]
        /\ held' = [n \in Name |-> IF n = name THEN hold ELSE IF n \in kept THEN held[n] ELSE 0]
        /\ misses' = [n \in Name |-> IF n = name THEN count ELSE IF n \in kept THEN misses[n] ELSE 0]
    BY DEF Insert
  <1>2. \A n \in kept : n \in Name /\ cached[n] # "none"
    BY DEF Entries
  <1> HIDE DEF kept
  <1>3. cached' \in [Name -> {"none", "hit", "miss"}]
    BY <1>1 DEF NamingInv, NamingTypes
  <1>4. held' \in [Name -> 0 .. NegativeMax] /\ misses' \in [Name -> 0 .. MaxMisses]
    BY <1>1 DEF NamingInv, NamingTypes
  <1>5. Blank'
    BY <1>1, <1>2 DEF Blank
  <1> QED BY <1>1, <1>3, <1>4, <1>5

LEMMA ReturnTypes ==
    ASSUME NamingInv, NEW a \in Asker, Return(a)
    PROVE  /\ asking' \in [Asker -> {{}} \cup {{n} : n \in Name}]
           /\ prior' \in [Asker -> 0 .. MaxMisses] /\ lasted' \in [Asker -> 0 .. LookupTicks]
           /\ asking'[a] = {}
           /\ \A b \in Asker \ {a} : asking'[b] = asking[b] /\ prior'[b] = prior[b] /\ lasted'[b] = lasted[b]
  BY NamingAssumption DEF NamingInv, NamingTypes, Return

\* An answer is written down: every other thread that asked for a name this
\* touched is overtaken, and what the rest saw still stands.
LEMMA InsertKeeps ==
    ASSUME NamingInv, NEW a \in Asker, NEW n \in asking[a], NEW what \in {"hit", "miss"},
           NEW hold \in 0 .. NegativeMax, NEW count \in 0 .. MaxMisses,
           Insert(n, what, hold, count), Return(a), Overtakes(a, Evicted(n) \cup {n})
    PROVE  /\ NamingInv' /\ n \in Name
           /\ cached'[n] = what /\ held'[n] = hold /\ misses'[n] = count
           /\ \A m \in Name \ (Evicted(n) \cup {n}) :
                cached'[m] = cached[m] /\ held'[m] = held[m] /\ misses'[m] = misses[m]
           /\ \A m \in Evicted(n) \ {n} : m \in Name => cached'[m] = "none"
           /\ \A m \in Name \ {n} : cached[m] = "hit" /\ cached'[m] # "hit" =>
                /\ Cardinality(Entries) = MaxEntries /\ \A k \in Entries : cached[k] = "hit"
                /\ \A k \in Entries : age[m] <= age[k]
  <1>1. n \in Name
    BY DEF NamingInv, NamingTypes
  <1>2. /\ cached' \in [Name -> {"none", "hit", "miss"}] /\ Blank'
        /\ held' \in [Name -> 0 .. NegativeMax] /\ misses' \in [Name -> 0 .. MaxMisses]
        /\ cached'[n] = what /\ held'[n] = hold /\ misses'[n] = count
    BY <1>1, InsertTypes
  <1>3. AgesApart' /\ TableBounded'
    BY <1>1, InsertRanks
  <1>4. overtaken' = {b \in Asker \ {a} : b \in overtaken \/ asking[b] \cap (Evicted(n) \cup {n}) # {}}
    BY DEF Overtakes
  <1>5. NamingTypes'
    BY <1>2, <1>4, ReturnTypes DEF NamingTypes
  <1>6. /\ \A m \in Name \ (Evicted(n) \cup {n}) :
             cached'[m] = cached[m] /\ held'[m] = held[m] /\ misses'[m] = misses[m]
        /\ \A m \in Evicted(n) \ {n} : m \in Name => cached'[m] = "none"
        /\ \A m \in Name \ {n} : cached[m] = "hit" /\ cached'[m] # "hit" =>
             /\ Cardinality(Entries) = MaxEntries /\ \A k \in Entries : cached[k] = "hit"
             /\ \A k \in Entries : age[m] <= age[k]
    BY <1>1, InsertSpares
  <1>7. Fresh'
    <2> SUFFICES ASSUME NEW b \in Asker \ overtaken', NEW m \in asking'[b]
                 PROVE  cached'[m] # "hit" /\ held'[m] = 0 /\ misses'[m] = prior'[b]
      BY DEF Fresh
    <2>1. b # a
      BY ReturnTypes
    <2>2. m \in asking[b] /\ prior'[b] = prior[b]
      BY <2>1, ReturnTypes
    <2>3. b \notin overtaken /\ m \notin Evicted(n) \cup {n}
      BY <1>4, <2>1, <2>2
    <2>4. m \in Name
      BY <2>2 DEF NamingInv, NamingTypes
    <2>5. cached[m] # "hit" /\ held[m] = 0 /\ misses[m] = prior[b]
      BY <2>2, <2>3 DEF NamingInv, Fresh
    <2> QED BY <1>6, <2>2, <2>3, <2>4, <2>5
  <1> QED BY <1>1, <1>2, <1>3, <1>5, <1>6, <1>7 DEF NamingInv

\* An answer nothing is kept of.
LEMMA ReturnKeeps ==
    ASSUME NamingInv, NEW a \in Asker, Return(a), Overtakes(a, {}), UNCHANGED tableVars
    PROVE  NamingInv' /\ HitsStay /\ DoublingKept
  <1>1. cached' = cached /\ held' = held /\ misses' = misses /\ age' = age
    BY DEF tableVars
  <1>2. overtaken' = overtaken \ {a}
    BY DEF Overtakes, NamingInv, NamingTypes
  <1>3. NamingTypes' /\ AgesApart' /\ Blank' /\ TableBounded'
    BY <1>1, <1>2, ReturnTypes
       DEF NamingInv, NamingTypes, AgesApart, Blank, TableBounded, Entries
  <1>4. Fresh'
    <2> SUFFICES ASSUME NEW b \in Asker \ overtaken', NEW m \in asking'[b]
                 PROVE  cached[m] # "hit" /\ held[m] = 0 /\ misses[m] = prior'[b]
      BY <1>1 DEF Fresh
    <2>1. b # a /\ b \notin overtaken
      BY <1>2, ReturnTypes
    <2>2. m \in asking[b] /\ prior'[b] = prior[b]
      BY <2>1, ReturnTypes
    <2> QED BY <2>1, <2>2 DEF NamingInv, Fresh
  <1>5. HitsStay /\ DoublingKept
    BY <1>1 DEF HitsStay, DoublingKept, NamingInv, NamingTypes
  <1> QED BY <1>3, <1>4, <1>5 DEF NamingInv

\* A resolved name.
LEMMA ResolvedKeeps ==
    ASSUME NamingInv, NEW a \in Asker, Resolved(a)
    PROVE  NamingInv' /\ HitsStay /\ DoublingKept
  <1>1. PICK n \in asking[a] : Insert(n, "hit", 0, 0) /\ Overtakes(a, Evicted(n) \cup {n})
    BY DEF Resolved
  <1>2. Return(a) /\ 0 \in 0 .. NegativeMax /\ 0 \in 0 .. MaxMisses
    BY NamingAssumption DEF Resolved
  <1>3. /\ NamingInv' /\ n \in Name /\ cached'[n] = "hit"
        /\ \A m \in Name \ (Evicted(n) \cup {n}) :
             cached'[m] = cached[m] /\ held'[m] = held[m] /\ misses'[m] = misses[m]
        /\ \A m \in Evicted(n) \ {n} : m \in Name => cached'[m] = "none"
        /\ \A m \in Name \ {n} : cached[m] = "hit" /\ cached'[m] # "hit" =>
             /\ Cardinality(Entries) = MaxEntries /\ \A k \in Entries : cached[k] = "hit"
             /\ \A k \in Entries : age[m] <= age[k]
    BY <1>1, <1>2, InsertKeeps
  <1>4. HitsStay
    BY <1>3 DEF HitsStay
  <1>5. DoublingKept
    BY <1>3 DEF DoublingKept, NamingInv, NamingTypes
  <1> QED BY <1>3, <1>4, <1>5

\* A failed lookup.
LEMMA UnresolvedKeeps ==
    ASSUME NamingInv, NEW a \in Asker, Unresolved(a)
    PROVE  NamingInv' /\ HitsStay /\ DoublingKept
  <1> USE NamingAssumption
  <1> DEFINE count == Min({prior[a] + 1, MaxMisses})
             left == Hold(count) - Min({lasted[a], Hold(count)})
  <1>1. PICK n \in asking[a] :
            IF cached[n] = "hit" THEN UNCHANGED tableVars /\ Overtakes(a, {})
            ELSE Insert(n, "miss", left, count) /\ Overtakes(a, Evicted(n) \cup {n})
    BY DEF Unresolved
  <1>2. Return(a)
    BY DEF Unresolved
  <1>3. n \in Name /\ prior[a] \in 0 .. MaxMisses /\ lasted[a] \in 0 .. LookupTicks
    BY DEF NamingInv, NamingTypes
  <1>4. count = Once(prior[a]) /\ count \in 1 .. MaxMisses
    <2>1. prior[a] + 1 \in Int /\ MaxMisses \in Int
      BY <1>3
    <2> QED BY <1>3, <2>1, MinOfTwo DEF Once
  <1>5. left \in 0 .. NegativeMax
    <2>1. Hold(count) \in NegativeInitial .. NegativeMax
      BY <1>4, HoldBounds
    <2> HIDE DEF count
    <2>2. Min({lasted[a], Hold(count)}) = IF lasted[a] <= Hold(count) THEN lasted[a] ELSE Hold(count)
      BY <1>3, <2>1, MinOfTwo
    <2> QED BY <1>3, <2>1, <2>2
  <1> HIDE DEF count, left
  <1>6. CASE cached[n] = "hit"
    BY <1>1, <1>2, <1>6, ReturnKeeps
  <1>7. CASE cached[n] # "hit"
    <2>1. /\ Insert(n, "miss", left, count) /\ count \in 0 .. MaxMisses
          /\ Overtakes(a, Evicted(n) \cup {n})
      BY <1>1, <1>4, <1>7
    <2>2. /\ NamingInv' /\ cached'[n] = "miss" /\ held'[n] = left /\ misses'[n] = count
          /\ \A m \in Name \ (Evicted(n) \cup {n}) :
               cached'[m] = cached[m] /\ held'[m] = held[m] /\ misses'[m] = misses[m]
          /\ \A m \in Evicted(n) \ {n} : m \in Name => cached'[m] = "none"
          /\ \A m \in Name \ {n} : cached[m] = "hit" /\ cached'[m] # "hit" =>
               /\ Cardinality(Entries) = MaxEntries /\ \A k \in Entries : cached[k] = "hit"
               /\ \A k \in Entries : age[m] <= age[k]
      BY <1>2, <1>5, <2>1, InsertKeeps
    <2>3. HitsStay
      BY <1>7, <2>2 DEF HitsStay
    <2>4. DoublingKept
      <3> SUFFICES ASSUME NEW m \in Name, cached[m] = "miss", cached'[m] = "miss",
                          misses'[m] # misses[m] \/ held'[m] + 1 < held[m]
                   PROVE  \E b \in Asker :
                            /\ asking[b] = {m} /\ asking'[b] = {}
                            /\ \/ b \in overtaken
                               \/ held[m] = 0 /\ misses'[m] = Min({misses[m] + 1, MaxMisses})
        BY DEF DoublingKept
      <3>1. m = n
        BY <2>2 DEF NamingInv, NamingTypes
      <3>2. asking[a] = {m} /\ asking'[a] = {}
        BY <1>2, <3>1, ReturnTypes DEF NamingInv, NamingTypes
      <3>3. a \in overtaken \/ (held[m] = 0 /\ misses[m] = prior[a])
        <4>1. m \in asking[a]
          BY <3>1
        <4>2. CASE a \notin overtaken
          <5>1. a \in Asker \ overtaken
            BY <4>2
          <5> QED BY <4>1, <5>1 DEF NamingInv, Fresh
        <4> QED BY <4>2
      <3> QED BY <2>2, <3>1, <3>2, <3>3 DEF count
    <2> QED BY <2>2, <2>3, <2>4
  <1> QED BY <1>6, <1>7

\* A lookup begins: the thread takes the count of a miss that is not held.
LEMMA LookupKeeps ==
    ASSUME NamingInv, NEW a \in Asker, NEW n \in Name, Lookup(a, n)
    PROVE  NamingInv' /\ HitsStay /\ DoublingKept
  <1> USE NamingAssumption
  <1>1. /\ cached' = cached /\ held' = held /\ misses' = misses /\ overtaken' = overtaken
        /\ AgesApart' /\ Blank' /\ TableBounded'
    BY DEF Lookup, NamingInv, AgesApart, Blank, TableBounded, Entries, tableVars
  <1>2. NamingTypes'
    BY DEF Lookup, NamingInv, NamingTypes, tableVars
  <1>3. /\ asking'[a] = {n} /\ prior'[a] = misses[n]
        /\ \A b \in Asker \ {a} : asking'[b] = asking[b] /\ prior'[b] = prior[b]
    BY DEF Lookup, NamingInv, NamingTypes
  <1>4. cached[n] # "hit" /\ held[n] = 0
    BY DEF Lookup, NamingInv, NamingTypes, Blank
  <1>5. Fresh'
    BY <1>1, <1>3, <1>4 DEF NamingInv, Fresh
  <1>6. HitsStay /\ DoublingKept
    BY <1>1 DEF HitsStay, DoublingKept, NamingInv, NamingTypes
  <1> QED BY <1>1, <1>2, <1>5, <1>6 DEF NamingInv

LEMMA NotANameKeeps ==
    ASSUME NamingInv, NEW a \in Asker, NotAName(a)
    PROVE  NamingInv' /\ HitsStay /\ DoublingKept
  BY ReturnKeeps DEF NotAName

\* Time: a hold shrinks by a tick, and one that is over stays so.
LEMMA NamingTickKeeps ==
    ASSUME NamingInv, NamingTick
    PROVE  NamingInv' /\ HitsStay /\ DoublingKept
  <1> USE NamingAssumption
  <1>1. /\ UNCHANGED <<cached, misses, age, asking, prior, overtaken>>
        /\ held' = [n \in Name |-> IF held[n] > 0 THEN held[n] - 1 ELSE 0]
        /\ lasted' = [a \in Asker |-> IF asking[a] # {} THEN lasted[a] + 1 ELSE 0]
        /\ \A a \in Asker : asking[a] # {} => lasted[a] < LookupTicks
    BY DEF NamingTick
  <1>2. AgesApart' /\ TableBounded'
    BY <1>1 DEF NamingInv, AgesApart, TableBounded, Entries
  <1>3. held' \in [Name -> 0 .. NegativeMax] /\ lasted' \in [Asker -> 0 .. LookupTicks]
    BY <1>1 DEF NamingInv, NamingTypes
  <1>4. NamingTypes' /\ Blank'
    BY <1>1, <1>3 DEF NamingInv, NamingTypes, Blank
  <1>5. Fresh'
    <2> SUFFICES ASSUME NEW b \in Asker \ overtaken, NEW m \in asking[b]
                 PROVE  cached[m] # "hit" /\ held'[m] = 0 /\ misses[m] = prior[b]
      BY <1>1 DEF Fresh
    <2>1. m \in Name /\ cached[m] # "hit" /\ held[m] = 0 /\ misses[m] = prior[b]
      BY DEF NamingInv, NamingTypes, Fresh
    <2> QED BY <1>1, <2>1
  <1>6. HitsStay /\ DoublingKept
    BY <1>1 DEF HitsStay, DoublingKept, NamingInv, NamingTypes
  <1> QED BY <1>2, <1>4, <1>5, <1>6 DEF NamingInv

LEMMA NamingInvInit == NamingInit => NamingInv
  <1> SUFFICES ASSUME NamingInit PROVE NamingInv
    OBVIOUS
  <1> USE NamingAssumption DEF NamingInit
  <1>1. Entries = {} /\ Cardinality(Entries) = 0 /\ Cardinality(Name) \in Nat
    BY FS_EmptySet, EntriesFinite DEF Entries
  <1>2. NamingTypes
    BY DEF NamingTypes
  <1>3. AgesApart /\ Blank /\ TableBounded
    BY <1>1 DEF AgesApart, Blank, TableBounded
  <1>4. Fresh
    BY DEF Fresh
  <1> QED BY <1>2, <1>3, <1>4 DEF NamingInv

LEMMA NamingInvStep ==
    NamingInv /\ [NamingNext]_namingVars => NamingInv' /\ [HitsStay /\ DoublingKept]_namingVars
  <1> SUFFICES ASSUME NamingInv, [NamingNext]_namingVars
               PROVE  NamingInv' /\ [HitsStay /\ DoublingKept]_namingVars
    OBVIOUS
  <1>1. CASE UNCHANGED namingVars
    <2>1. UNCHANGED <<cached, held, misses, age, asking, prior, lasted, overtaken>>
      BY <1>1 DEF namingVars, tableVars, askVars
    <2> QED BY <1>1, <2>1
            DEF NamingInv, NamingTypes, AgesApart, Blank, TableBounded, Fresh, Entries
  <1>2. CASE NamingNext
    BY <1>2, NamingTickKeeps, ResolvedKeeps, UnresolvedKeeps, NotANameKeeps, LookupKeeps DEF NamingNext
  <1> QED BY <1>1, <1>2

\* Ages that are all different and in 1 .. the number of entries are all of it.
LEMMA AgesCount == NamingInv => NamingTypeOK
  <1> SUFFICES ASSUME NamingInv PROVE {age[n] : n \in Entries} = 1 .. Cardinality(Entries)
    BY DEF NamingInv, NamingTypes, AgesApart, NamingTypeOK
  <1> DEFINE c == Cardinality(Entries)
             f == [n \in Entries |-> age[n]]
  <1>1. Entries \subseteq Name /\ IsFiniteSet(Entries) /\ c \in Nat
    BY EntriesFinite DEF Entries
  <1>2. f \in [Entries -> 1 .. c] /\ \A m, n \in Entries : f[m] = f[n] => m = n
    BY DEF NamingInv, AgesApart
  <1>3. IsFiniteSet(1 .. c) /\ Cardinality(1 .. c) = c
    <2> HIDE DEF c
    <2> QED BY <1>1, FS_Interval
  <1> HIDE DEF f
  <1>4. f \in Injection(Entries, 1 .. c)
    BY <1>2 DEF Injection, IsInjective
  <1>5. f \in Surjection(Entries, 1 .. c)
    BY <1>3, <1>4, FS_Injection
  <1>6. \A t \in 1 .. c : \E n \in Entries : f[n] = t
    BY <1>5 DEF Surjection
  <1> QED BY <1>2, <1>6 DEF f

\* The cache and the threads that ask have their types, and the ages of its
\* entries are exactly the ranks 1 to their number (Cache::insert).
THEOREM NamingTyped == NamingSpec => []NamingTypeOK
  BY NamingInvInit, NamingInvStep, AgesCount, PTL DEF NamingSpec

\* In whatever order overlapping lookups come back: a hit stays until a full
\* table holds nothing but hits, a hold keeps its doubling against every lookup
\* whose name was not answered for since it began, and the table keeps its limit
\* (NamingCache::lookup, Cache::insert).  Nothing is assumed of how long a
\* lookup takes against how long a miss is held.
THEOREM AnswersAreKept == NamingSpec => AnswersKept
  <1>1. NamingInv' => TableBounded'
    BY DEF NamingInv
  <1>2. NamingInv /\ NamingInv' /\ [NamingNext]_namingVars
          => [HitsStay /\ DoublingKept /\ TableBounded']_namingVars
    BY <1>1, NamingInvStep
  <1> QED BY NamingInvInit, NamingInvStep, <1>2, PTL DEF NamingSpec, AnswersKept

-----------------------------------------------------------------------------
(* The composition *)

\* A behaviour of the composition is a behaviour of each component, which
\* carries what is proved of the components over to it.
LEMMA NetworkIsItsParts ==
    NetworkSpec => UploadSpec /\ KnownPeersSpec /\ AnnounceSpec /\ SessionSpec /\ NamingSpec
  <1>1. NetworkInit => UploadInit /\ KnownPeersInit /\ AnnounceInit /\ SessionInit /\ NamingInit
    BY DEF NetworkInit
  <1>2. [NetworkNext]_networkVars => /\ [UploadNext]_uploadVars /\ [KnownPeersNext]_knownVars
                                     /\ [AnnounceNext]_announceVars /\ [SessionNext]_sessionVars
                                     /\ [NamingNext]_namingVars
    BY DEF NetworkNext, networkVars
  <1> QED BY <1>1, <1>2, PTL
          DEF NetworkSpec, UploadSpec, KnownPeersSpec, AnnounceSpec, SessionSpec, NamingSpec

\* Every table of the network's components keeps its type in the composition:
\* clamps and caps hold whatever peers, trackers and the router do (penalise,
\* on_failure, base_delay, Hold).
THEOREM NetworkTyped == NetworkSpec => []NetworkTypeOK
  BY NetworkIsItsParts, KnownPeersTyped, AnnounceTyped, SessionTyped, NamingTyped, PTL
     DEF NetworkTypeOK

\* What the network's run checks of its components holds of the composition for
\* every value of the constants: holds are served, trackers spared, one session
\* and (while its file can be read) one identity kept, and a lookup that was not
\* overtaken undoes nothing.
THEOREM NetworkKeepsItsPromises ==
    NetworkSpec => TableWithstands /\ TrackerSpared /\ SessionKept /\ AnswersKept
  BY NetworkIsItsParts, KnownPeersWithstand, TrackersSpared, SessionIsKept, AnswersAreKept, PTL

=============================================================================
