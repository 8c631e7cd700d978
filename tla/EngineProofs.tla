---------------------------- MODULE EngineProofs ----------------------------
(***************************************************************************)
(* Proofs about the download engine.  The inductive invariant is stated    *)
(* for a picker value and a table of debts rather than for the variables,  *)
(* because a handler moves through several of them under one lock: release *)
(* or write first, refill after.  One lemma per picker operation says that *)
(* the books still balance; an action's proof composes them.               *)
(***************************************************************************)
EXTENDS Engine, FiniteSetTheorems, TLAPS

-----------------------------------------------------------------------------
(* The picker: each operator maps a well-typed picker to a well-typed picker, *)
(* and what each leaves of the fields the engine's invariants speak of        *)

\* Saturating subtraction (saturating_sub) stays a natural number.
LEMMA MonusType == ASSUME NEW a \in Nat, NEW b \in Nat PROVE Monus(a, b) \in Nat
  BY DEF Monus

\* A block belongs to exactly one piece, the one its first component names.
LEMMA BlockFacts ==
    /\ \A x \in Block : x[1] \in Piece /\ x \in BlockOf(x[1])
    /\ \A i \in Piece : \A x \in BlockOf(i) : x \in Block /\ x[1] = i
  BY DEF Block, BlockOf

\* The torrent has finitely many pieces.
LEMMA PieceFinite == IsFiniteSet(Piece)
  BY PickerAssumption, FS_Interval DEF Piece

\* A piece has finitely many blocks.
LEMMA BlockOfFinite == ASSUME NEW i \in Piece PROVE IsFiniteSet(BlockOf(i))
  <1> DEFINE S == 0 .. BlockCount[i] - 1
             T == BlockOf(i)
             f == [b \in S |-> <<i, b>>]
  <1>1. IsFiniteSet(S)
    <2>1. BlockCount[i] - 1 \in Int
      BY PickerAssumption
    <2> QED BY <2>1, FS_Interval
  <1>2. f \in Surjection(S, T)
    BY DEF Surjection, BlockOf
  <1> QED BY <1>1, <1>2, FS_Surjection

\* The wanted-and-missing pieces are a finite set.
LEMMA WantedFinite ==
    ASSUME NEW pk PROVE IsFiniteSet(Wanted(pk)) /\ Cardinality(Wanted(pk)) \in Nat
  <1>1. Wanted(pk) \in SUBSET Piece
    BY DEF Wanted
  <1> QED BY <1>1, PieceFinite, FS_Subset, FS_CardinalityType

\* A fresh picker is well typed, whatever the resumed pieces.
LEMMA NewPickerType ==
    ASSUME NEW held \in SUBSET Piece, NEW m \in Mode
    PROVE  NewPicker(held, m) \in PickerType
  <1>1. Cardinality(Piece \ held) \in Nat
    BY PieceFinite, FS_Difference, FS_CardinalityType
  <1> QED BY <1>1 DEF NewPicker, PickerType

\* set_piece_priorities keeps the picker well typed.
LEMMA PrioritiesType ==
    ASSUME NEW pk \in PickerType, NEW pr \in [Piece -> 0 .. 2]
    PROVE  set_piece_priorities(pk, pr) \in PickerType
  BY WantedFinite DEF set_piece_priorities, PickerType

\* So do the availability updates,
LEMMA BitfieldType ==
    ASSUME NEW pk \in PickerType, NEW field \in SUBSET Piece
    PROVE  /\ add_bitfield(pk, field) \in PickerType
           /\ remove_bitfield(pk, field) \in PickerType
  BY MonusType DEF add_bitfield, remove_bitfield, PickerType

\* the release of blocks that will not come,
LEMMA FailedType ==
    ASSUME NEW pk \in PickerType, NEW S
    PROVE  blocks_failed(pk, S) \in PickerType
  BY MonusType DEF blocks_failed, PickerType

\* the arrival of a block,
LEMMA ReceivedType ==
    ASSUME NEW pk \in PickerType, NEW x \in Block
    PROVE  block_received(pk, x) \in PickerType
  <1> DEFINE S == pk.started \cup {x[1]}
             R == pk.received \cup {x}
             F == [pk.inflight EXCEPT ![x] = Monus(pk.inflight[x], 1)]
             new == [pk EXCEPT !.started = S, !.received = R, !.inflight = F]
  <1>1. S \in SUBSET Piece /\ R \in SUBSET Block
    BY BlockFacts DEF PickerType
  <1>2. F \in [Block -> Nat]
    <2>1. pk.inflight \in [Block -> Nat]
      BY DEF PickerType
    <2>2. Monus(pk.inflight[x], 1) \in Nat
      BY <2>1, MonusType
    <2> QED BY <2>1, <2>2
  <1> HIDE DEF S, R, F
  <1>3. new \in PickerType
    BY <1>1, <1>2 DEF PickerType
  <1>4. block_received(pk, x) = IF x[1] \in pk.have THEN pk ELSE new
    BY DEF block_received, S, R, F
  <1> QED BY <1>3, <1>4

\* the verdict on a piece,
LEMMA VerdictType ==
    ASSUME NEW pk \in PickerType, NEW i \in Piece
    PROVE  set_have(pk, i) \in PickerType /\ reset_piece(pk, i) \in PickerType
  <1> DEFINE drop == DropProgress(pk, i)
             less == IF i \notin pk.have /\ wants(pk, i)
                     THEN Monus(pk.missing, 1) ELSE pk.missing
             more == IF i \in pk.have /\ wants(pk, i)
                     THEN pk.missing + 1 ELSE pk.missing
  <1>1. drop \in PickerType
    BY DEF DropProgress, PickerType
  <1>2. less \in Nat /\ more \in Nat
    <2>1. pk.missing \in Nat
      BY DEF PickerType
    <2>2. Monus(pk.missing, 1) \in Nat /\ pk.missing + 1 \in Nat
      BY <2>1 DEF Monus
    <2> QED BY <2>1, <2>2
  <1>3. pk.have \cup {i} \in SUBSET Piece /\ pk.have \ {i} \in SUBSET Piece
    BY DEF PickerType
  <1> HIDE DEF drop, less, more
  <1>4. [drop EXCEPT !.have = pk.have \cup {i}, !.missing = less] \in PickerType
    BY <1>1, <1>2, <1>3 DEF PickerType
  <1>5. [drop EXCEPT !.have = pk.have \ {i}, !.missing = more] \in PickerType
    BY <1>1, <1>2, <1>3 DEF PickerType
  <1> QED BY <1>4, <1>5 DEF set_have, reset_piece, drop, less, more

\* and the choice of the next requests.
LEMMA PickType ==
    ASSUME NEW pk \in PickerType, NEW S \in SUBSET Block
    PROVE  MarkPicked(pk, S) \in PickerType
  <1> DEFINE T == pk.started \cup {x[1] : x \in S}
             F == [x \in Block |-> IF x \in S THEN pk.inflight[x] + 1
                                              ELSE pk.inflight[x]]
  <1>1. T \in SUBSET Piece
    BY BlockFacts DEF PickerType
  <1>2. F \in [Block -> Nat]
    BY DEF PickerType
  <1> HIDE DEF T, F
  <1>3. [pk EXCEPT !.started = T, !.inflight = F] \in PickerType
    BY <1>1, <1>2 DEF PickerType
  <1> QED BY <1>3 DEF MarkPicked, T, F

\* pick only ever names blocks that are missing, wanted and not received.
LEMMA PickedOfferable ==
    ASSUME NEW pk, NEW field, NEW want
    PROVE  /\ Picked(pk, field, want) \in SUBSET Block
           /\ \A x \in Picked(pk, field, want) :
                 x[1] \notin pk.have /\ x \notin pk.received /\ x[1] \in field
  BY DEF Picked, Offerable, Wanted

\* A torrent has finitely many blocks.
LEMMA BlockFinite == IsFiniteSet(Block)
  <1> DEFINE T == {BlockOf(i) : i \in Piece}
             f == [i \in Piece |-> BlockOf(i)]
  <1>1. f \in Surjection(Piece, T)
    BY DEF Surjection
  <1>2. IsFiniteSet(T)
    <2> HIDE DEF T, f
    <2> QED BY <1>1, PieceFinite, FS_Surjection
  <1>3. \A B \in T : IsFiniteSet(B)
    BY BlockOfFinite
  <1>4. IsFiniteSet(UNION T)
    <2> HIDE DEF T
    <2> QED BY <1>2, <1>3, FS_UNION
  <1> QED BY <1>4 DEF Block

\* pick visits blocks in a strict total order, whatever the mode, the counts
\* and the priorities: candidates that tie in everything differ in their index.
LEMMA VisitingOrder ==
    ASSUME NEW pk \in PickerType, NEW x \in Block, NEW y \in Block, NEW z \in Block
    PROVE  /\ ~BlockBefore(pk, x, x)
           /\ x # y => BlockBefore(pk, x, y) \/ BlockBefore(pk, y, x)
           /\ BlockBefore(pk, x, y) /\ BlockBefore(pk, y, z) => BlockBefore(pk, x, z)
  <1> DEFINE Key == Int \X Int \X Int \X Int
             key(b) == SortKey(pk, b[1])
  <1>1. ASSUME NEW b \in Block
        PROVE  /\ key(b) \in Key /\ key(b)[4] = b[1]
               /\ b[1] \in Int /\ b[2] \in Int /\ b = <<b[1], b[2]>>
    <2>1. b[1] \in Piece /\ b \in BlockOf(b[1])
      BY BlockFacts
    <2>2. b[1] \in Int /\ BlockCount[b[1]] \in Nat
      BY <2>1, PickerAssumption DEF Piece
    <2>3. b[2] \in Int /\ b = <<b[1], b[2]>>
      BY <2>1, <2>2 DEF BlockOf
    <2>4. pk.avail[b[1]] \in Int /\ pk.priority[b[1]] \in Int
      BY <2>1 DEF PickerType
    <2> QED BY <2>2, <2>3, <2>4 DEF SortKey
  <1>2. ASSUME NEW k \in Key, NEW l \in Key
        PROVE  KeyBefore(k, l) <=>
                 \/ k[1] < l[1]
                 \/ k[1] = l[1] /\ k[2] < l[2]
                 \/ k[1] = l[1] /\ k[2] = l[2] /\ k[3] < l[3]
                 \/ k[1] = l[1] /\ k[2] = l[2] /\ k[3] = l[3] /\ k[4] < l[4]
    <2>1. 1 .. 4 = {1, 2, 3, 4} /\ 1 .. 0 = {} /\ 1 .. 1 = {1} /\ 1 .. 2 = {1, 2} /\ 1 .. 3 = {1, 2, 3}
      OBVIOUS
    <2> DEFINE At(n) == k[n] < l[n] /\ \A m \in 1 .. n - 1 : k[m] = l[m]
    <2>2. KeyBefore(k, l) <=> At(1) \/ At(2) \/ At(3) \/ At(4)
      BY <2>1 DEF KeyBefore
    <2>3. /\ 1 - 1 = 0 /\ 2 - 1 = 1 /\ 3 - 1 = 2 /\ 4 - 1 = 3
      OBVIOUS
    <2>4. /\ At(1) <=> k[1] < l[1]
          /\ At(2) <=> k[1] = l[1] /\ k[2] < l[2]
          /\ At(3) <=> k[1] = l[1] /\ k[2] = l[2] /\ k[3] < l[3]
          /\ At(4) <=> k[1] = l[1] /\ k[2] = l[2] /\ k[3] = l[3] /\ k[4] < l[4]
      BY <2>1, <2>3
    <2> HIDE DEF At
    <2> QED BY <2>2, <2>4
  <1>3. ASSUME NEW k \in Key, NEW l \in Key, NEW m \in Key
        PROVE  /\ ~KeyBefore(k, k)
               /\ k[4] # l[4] => KeyBefore(k, l) \/ KeyBefore(l, k)
               /\ KeyBefore(k, l) /\ KeyBefore(l, m) => KeyBefore(k, m)
    BY <1>2
  <1>4. /\ key(x) \in Key /\ key(x)[4] = x[1] /\ x[1] \in Int /\ x[2] \in Int /\ x = <<x[1], x[2]>>
        /\ key(y) \in Key /\ key(y)[4] = y[1] /\ y[1] \in Int /\ y[2] \in Int /\ y = <<y[1], y[2]>>
        /\ key(z) \in Key /\ key(z)[4] = z[1] /\ z[1] \in Int /\ z[2] \in Int
    BY <1>1
  <1>5. \A b, d \in Block : BlockBefore(pk, b, d) <=>
            IF b[1] = d[1] THEN b[2] < d[2] ELSE KeyBefore(key(b), key(d))
    BY DEF BlockBefore
  <1>6. \A b, d \in Block : b[1] = d[1] => key(b) = key(d)
    OBVIOUS
  <1> HIDE DEF key, Key
  <1>7. ~BlockBefore(pk, x, x)
    BY <1>4, <1>5
  <1>8. x # y => BlockBefore(pk, x, y) \/ BlockBefore(pk, y, x)
    <2>1. CASE x[1] = y[1]
      BY <1>4, <1>5, <2>1
    <2>2. CASE x[1] # y[1]
      BY <1>3, <1>4, <1>5, <2>2
    <2> QED BY <2>1, <2>2
  <1>9. ASSUME BlockBefore(pk, x, y), BlockBefore(pk, y, z) PROVE BlockBefore(pk, x, z)
    <2>1. CASE x[1] = y[1] /\ y[1] = z[1]
      BY <1>4, <1>5, <1>9, <2>1
    <2>2. CASE x[1] = y[1] /\ y[1] # z[1]
      BY <1>4, <1>5, <1>6, <1>9, <2>2
    <2>3. CASE x[1] # y[1] /\ y[1] = z[1]
      BY <1>4, <1>5, <1>6, <1>9, <2>3
    <2>4. CASE x[1] # y[1] /\ y[1] # z[1]
      <3>1. KeyBefore(key(x), key(y)) /\ KeyBefore(key(y), key(z))
        BY <1>5, <1>9, <2>4
      <3>2. KeyBefore(key(x), key(z)) /\ ~KeyBefore(key(x), key(x))
        BY <1>3, <1>4, <3>1
      <3>3. key(x) # key(z)
        BY <3>2
      <3> QED BY <1>5, <1>6, <3>2, <3>3
    <2> QED BY <2>1, <2>2, <2>3, <2>4
  <1> QED BY <1>7, <1>8, <1>9

\* In a finite strict total order, given by the elements before[x] that come
\* before each, at most n elements have fewer than n before them.
LEMMA FirstFew ==
    ASSUME NEW S, IsFiniteSet(S), NEW before \in [S -> SUBSET S], NEW n \in Nat,
           \A x \in S : x \notin before[x],
           \A x, y \in S : x # y => x \in before[y] \/ y \in before[x],
           \A x, y, z \in S : x \in before[y] /\ y \in before[z] => x \in before[z]
    PROVE  /\ IsFiniteSet({x \in S : Cardinality(before[x]) < n})
           /\ Cardinality({x \in S : Cardinality(before[x]) < n}) <= n
  <1> DEFINE rank(x) == Cardinality(before[x])
             first == {x \in S : rank(x) < n}
             f == [x \in first |-> rank(x)]
  <1>1. ASSUME NEW x \in S PROVE IsFiniteSet(before[x]) /\ rank(x) \in Nat
    <2>1. before[x] \in SUBSET S
      OBVIOUS
    <2> QED BY <2>1, FS_Subset, FS_CardinalityType
  <1>2. ASSUME NEW x \in S, NEW y \in S, x \in before[y] PROVE rank(x) # rank(y)
    <2>1. before[x] \in SUBSET before[y] /\ before[x] # before[y]
      BY <1>2
    <2> QED BY <1>1, <2>1, FS_Subset
  <1>3. \A x, y \in S : rank(x) = rank(y) => x = y
    BY <1>2
  <1> HIDE DEF rank
  <1>4. \A x \in first : x \in S /\ rank(x) \in 0 .. n - 1
    BY <1>1
  <1>5. f \in Injection(first, 0 .. n - 1)
    BY <1>3, <1>4 DEF Injection, IsInjective
  <1>6. IsFiniteSet(0 .. n - 1) /\ Cardinality(0 .. n - 1) = n
    <2>1. n - 1 \in Int
      OBVIOUS
    <2>2. IsFiniteSet(0 .. n - 1) /\ Cardinality(0 .. n - 1) = IF 0 > n - 1 THEN 0 ELSE (n - 1) - 0 + 1
      BY <2>1, FS_Interval
    <2> QED BY <2>2
  <1>7. IsFiniteSet(first) /\ Cardinality(first) <= n
    <2> HIDE DEF first, f
    <2> QED BY <1>5, <1>6, FS_Injection
  <1> QED BY <1>7 DEF rank

\* pick hands out at most as many blocks as it was asked for.
LEMMA PickedBound ==
    ASSUME NEW pk \in PickerType, NEW field, NEW want \in Nat
    PROVE  /\ IsFiniteSet(Picked(pk, field, want))
           /\ Cardinality(Picked(pk, field, want)) <= want
  <1> DEFINE S == Offerable(pk, field)
             before == [x \in S |-> {y \in S : BlockBefore(pk, y, x)}]
             first == {x \in S : Cardinality(before[x]) < want}
  <1>1. S \in SUBSET Block
    BY DEF Offerable
  <1>2. IsFiniteSet(S)
    BY <1>1, BlockFinite, FS_Subset
  <1>3. Picked(pk, field, want) = first
    BY DEF Picked
  <1>4. \A x, y \in S : x \in before[y] <=> BlockBefore(pk, x, y)
    OBVIOUS
  <1>5. before \in [S -> SUBSET S]
    OBVIOUS
  <1> HIDE DEF S, before
  <1>6. /\ \A x \in S : x \notin before[x]
        /\ \A x, y \in S : x # y => x \in before[y] \/ y \in before[x]
        /\ \A x, y, z \in S : x \in before[y] /\ y \in before[z] => x \in before[z]
    BY <1>1, <1>4, VisitingOrder
  <1>7. IsFiniteSet(first) /\ Cardinality(first) <= want
    BY <1>2, <1>5, <1>6, FirstFew
  <1> QED BY <1>3, <1>7

-----------------------------------------------------------------------------
(* The books *)

OwersIn(ow, x) == {c \in Conn : x \in ow[c]}

\* The books balance: the invariants OwedExact, OwedIsMissing and the picker's
\* half of BooksClosed, for any picker pk and any table of debts ow.
Balanced(pk, ow) ==
    /\ pk \in PickerType
    /\ ow \in [Conn -> SUBSET Block]
    /\ \A x \in Block : pk.inflight[x] = Cardinality(OwersIn(ow, x))
    /\ \A c \in Conn : \A x \in ow[c] :
          /\ x \notin pk.received
          /\ x[1] \notin pk.have
          /\ x[1] \in pk.started
    /\ pk.started \cap pk.have = {}
    /\ \A x \in pk.received : x[1] \in pk.started

\* The connections that owe a block are finitely many.
LEMMA OwersFinite ==
    ASSUME NEW ow, NEW x
    PROVE  IsFiniteSet(OwersIn(ow, x)) /\ Cardinality(OwersIn(ow, x)) \in Nat
  <1>1. OwersIn(ow, x) \in SUBSET Conn
    BY DEF OwersIn
  <1> QED BY <1>1, EngineAssumption, FS_Subset, FS_CardinalityType

\* Availability, priorities and mode are no part of the accounts: changing
\* them (add_bitfield, remove_bitfield, set_piece_priorities) keeps balance.
LEMMA BalancedElsewhere ==
    ASSUME NEW pk, NEW new \in PickerType, NEW ow, Balanced(pk, ow),
           new.inflight = pk.inflight, new.have = pk.have,
           new.started = pk.started, new.received = pk.received
    PROVE  Balanced(new, ow)
  BY DEF Balanced

\* block_failed for requests the connection stops owing keeps balance: a
\* choke, an expiry, a drop, a failed write.
LEMMA BalancedRelease ==
    ASSUME NEW pk, NEW ow, Balanced(pk, ow), NEW c \in Conn, NEW S \in SUBSET ow[c]
    PROVE  Balanced(blocks_failed(pk, S), [ow EXCEPT ![c] = ow[c] \ S])
  <1> DEFINE new == blocks_failed(pk, S)
             owed == [ow EXCEPT ![c] = ow[c] \ S]
  <1>1. new \in PickerType
    BY FailedType DEF Balanced
  <1>2. /\ new.have = pk.have /\ new.started = pk.started
        /\ new.received = pk.received
        /\ \A x \in Block : new.inflight[x] =
              IF x \in S /\ x[1] \in pk.started
              THEN Monus(pk.inflight[x], 1) ELSE pk.inflight[x]
    BY DEF blocks_failed, Balanced, PickerType
  <1>3. owed \in [Conn -> SUBSET Block]
    BY DEF Balanced
  <1>4. ASSUME NEW x \in Block PROVE new.inflight[x] = Cardinality(OwersIn(owed, x))
    <2>1. CASE x \in S
      <3>1. OwersIn(owed, x) = OwersIn(ow, x) \ {c} /\ c \in OwersIn(ow, x)
        BY <2>1 DEF OwersIn, Balanced
      <3>2. /\ Cardinality(OwersIn(owed, x)) = Cardinality(OwersIn(ow, x)) - 1
            /\ Cardinality(OwersIn(owed, x)) \in Nat
        BY <3>1, OwersFinite, FS_RemoveElement
      <3>3. x[1] \in pk.started /\ pk.inflight[x] = Cardinality(OwersIn(ow, x))
        BY <2>1 DEF Balanced
      <3>4. new.inflight[x] = Monus(pk.inflight[x], 1)
        BY <2>1, <3>3, <1>2
      <3> QED BY <3>2, <3>3, <3>4, OwersFinite DEF Monus
    <2>2. CASE x \notin S
      <3>1. OwersIn(owed, x) = OwersIn(ow, x)
        BY <2>2 DEF OwersIn, Balanced
      <3> QED BY <2>2, <3>1, <1>2 DEF Balanced
    <2> QED BY <2>1, <2>2
  <1> HIDE DEF new, owed
  <1>5. \A d \in Conn : \A x \in owed[d] : x \in ow[d]
    BY DEF owed, Balanced
  <1>6. Balanced(new, owed)
    BY <1>1, <1>2, <1>3, <1>4, <1>5 DEF Balanced
  <1> QED BY <1>6 DEF new, owed

\* fill_requests keeps balance: a fresh pick is counted once more and owed
\* once more, and a pick the peer already owed is counted back.
LEMMA BalancedFill ==
    ASSUME NEW pk, NEW ow, Balanced(pk, ow), NEW c \in Conn,
           NEW picks \in SUBSET Block,
           \A x \in picks : x[1] \notin pk.have /\ x \notin pk.received
    PROVE  Balanced(blocks_failed(MarkPicked(pk, picks), picks \cap ow[c]),
                    [ow EXCEPT ![c] = ow[c] \cup picks])
  <1> DEFINE mid == MarkPicked(pk, picks)
             again == picks \cap ow[c]
             new == blocks_failed(mid, again)
             owed == [ow EXCEPT ![c] = ow[c] \cup picks]
  <1>1. mid \in PickerType
    BY PickType DEF Balanced
  <1>2. new \in PickerType
    BY <1>1, FailedType
  <1>3. /\ mid.have = pk.have
        /\ mid.started = pk.started \cup {x[1] : x \in picks}
        /\ mid.received = pk.received
        /\ \A x \in Block : mid.inflight[x] =
              IF x \in picks THEN pk.inflight[x] + 1 ELSE pk.inflight[x]
    BY DEF MarkPicked, Balanced, PickerType
  <1>4. /\ new.have = mid.have /\ new.started = mid.started
        /\ new.received = mid.received
        /\ \A x \in Block : new.inflight[x] =
              IF x \in again /\ x[1] \in mid.started
              THEN Monus(mid.inflight[x], 1) ELSE mid.inflight[x]
    <2> HIDE DEF mid
    <2> QED BY <1>1 DEF blocks_failed, PickerType
  <1>5. owed \in [Conn -> SUBSET Block]
    BY DEF Balanced
  <1> HIDE DEF mid, new
  <1>6. ASSUME NEW x \in Block PROVE new.inflight[x] = Cardinality(OwersIn(owed, x))
    <2>0. pk.inflight[x] = Cardinality(OwersIn(ow, x)) /\ pk.inflight[x] \in Nat
      BY OwersFinite DEF Balanced
    <2>1. CASE x \in again
      <3>1. OwersIn(owed, x) = OwersIn(ow, x)
        BY <2>1 DEF OwersIn, Balanced
      <3>2. x[1] \in mid.started /\ x \in picks
        BY <2>1, <1>3
      <3>3. new.inflight[x] = Monus(pk.inflight[x] + 1, 1)
        BY <2>1, <3>2, <1>3, <1>4
      <3> QED BY <2>0, <3>1, <3>3 DEF Monus
    <2>2. CASE x \in picks \ ow[c]
      <3>1. OwersIn(owed, x) = OwersIn(ow, x) \cup {c} /\ c \notin OwersIn(ow, x)
        BY <2>2 DEF OwersIn, Balanced
      <3>2. Cardinality(OwersIn(owed, x)) = Cardinality(OwersIn(ow, x)) + 1
        BY <3>1, OwersFinite, FS_AddElement
      <3> QED BY <2>0, <2>2, <3>2, <1>3, <1>4
    <2>3. CASE x \notin picks
      <3>1. OwersIn(owed, x) = OwersIn(ow, x)
        BY <2>3 DEF OwersIn, Balanced
      <3> QED BY <2>0, <2>3, <3>1, <1>3, <1>4
    <2> QED BY <2>1, <2>2, <2>3
  <1>7. \A d \in Conn : \A x \in owed[d] : x \in ow[d] \/ x \in picks
    BY DEF owed, Balanced
  <1>8. \A x \in picks : x[1] \in mid.started
    BY <1>3
  <1>9. new.started \cap new.have = {}
    BY <1>3, <1>4 DEF Balanced
  <1>10. \A x \in new.received : x[1] \in new.started
    BY <1>3, <1>4 DEF Balanced
  <1>11. \A d \in Conn : \A x \in owed[d] :
            x \notin new.received /\ x[1] \notin new.have /\ x[1] \in new.started
    BY <1>3, <1>4, <1>7, <1>8 DEF Balanced
  <1> HIDE DEF owed
  <1>12. Balanced(new, owed)
    BY <1>2, <1>5, <1>6, <1>9, <1>10, <1>11 DEF Balanced
  <1> QED BY <1>12 DEF new, owed, mid

\* What fill_requests asks for is missing and not received.
LEMMA FillPicksOfferable ==
    ASSUME NEW pk, NEW field, NEW debts, NEW willing
    PROVE  /\ FillPicks(pk, field, debts, willing) \in SUBSET Block
           /\ \A x \in FillPicks(pk, field, debts, willing) :
                 x[1] \notin pk.have /\ x \notin pk.received
  BY PickedOfferable DEF FillPicks

\* A block is written: the debts of everyone who owed it are cancelled and
\* the count goes to zero with them (cancel_elsewhere, then block_received).
LEMMA BalancedWrite ==
    ASSUME Balanced(picker, owes), NEW c \in Conn, NEW x \in owes[c],
           \A p \in Conn : owes[p] # {} => phase[p] = "seated"
    PROVE  /\ Balanced(PickerAfterWrite(c, x), OwedAfterWrite(c, x))
           /\ PickerAfterWrite(c, x).have = picker.have
           /\ PickerAfterWrite(c, x).started = picker.started
           /\ PickerAfterWrite(c, x).received = picker.received \cup {x}
           /\ \A p \in Conn : OwedAfterWrite(c, x)[p] = owes[p] \ {x}
  <1> DEFINE count == picker.inflight[x]
             rest == Cardinality(Cancelled(c, x))
             low == IF x[1] \in picker.started THEN Monus(count, rest) ELSE count
             table == [picker.inflight EXCEPT ![x] = low]
             mid == [picker EXCEPT !.inflight = table]
             new == PickerAfterWrite(c, x)
             owed == OwedAfterWrite(c, x)
  <1>1. x \in Block /\ x[1] \in picker.started /\ x[1] \notin picker.have
    BY DEF Balanced
  <1>2. Cancelled(c, x) = OwersIn(owes, x) \ {c} /\ c \in OwersIn(owes, x)
    BY DEF Cancelled, OwersIn, Seated
  <1>3. rest = count - 1 /\ count \in Nat /\ rest \in Nat
    <2>1. count = Cardinality(OwersIn(owes, x))
      BY <1>1 DEF Balanced
    <2>2. Cardinality(OwersIn(owes, x) \ {c}) = Cardinality(OwersIn(owes, x)) - 1
      BY <1>2, OwersFinite, FS_RemoveElement
    <2>3. IsFiniteSet(OwersIn(owes, x) \ {c})
      BY OwersFinite, FS_RemoveElement
    <2>4. Cardinality(OwersIn(owes, x) \ {c}) \in Nat
      BY <2>3, FS_CardinalityType
    <2> QED BY <1>2, <2>1, <2>2, <2>4, OwersFinite
  <1>4. low = 1
    BY <1>1, <1>3 DEF Monus
  <1>5. table \in [Block -> Nat] /\ table[x] = 1
        /\ \A y \in Block : y # x => table[y] = picker.inflight[y]
    <2> HIDE DEF low
    <2> QED BY <1>1, <1>4 DEF Balanced, PickerType
  <1>6. /\ mid \in PickerType /\ mid.have = picker.have
        /\ mid.started = picker.started /\ mid.received = picker.received
        /\ mid.inflight = table
    <2> HIDE DEF table
    <2> QED BY <1>5 DEF Balanced, PickerType
  <1>7. new = block_received(mid, x)
    BY DEF PickerAfterWrite
  <1> HIDE DEF mid, table, new
  <1>8. new \in PickerType
    BY <1>1, <1>6, <1>7, ReceivedType
  <1>9. /\ new.have = picker.have /\ new.started = picker.started
        /\ new.received = picker.received \cup {x}
        /\ new.inflight[x] = 0
        /\ \A y \in Block : y # x => new.inflight[y] = picker.inflight[y]
    <2>1. /\ new.have = mid.have
          /\ new.started = mid.started \cup {x[1]}
          /\ new.received = mid.received \cup {x}
          /\ new.inflight = [mid.inflight EXCEPT ![x] = Monus(mid.inflight[x], 1)]
      BY <1>1, <1>6, <1>7 DEF block_received, PickerType
    <2>2. new.inflight[x] = Monus(1, 1)
      BY <1>1, <1>5, <1>6, <2>1
    <2>3. Monus(1, 1) = 0
      BY DEF Monus
    <2> QED BY <1>1, <1>5, <1>6, <2>1, <2>2, <2>3
  <1>10. /\ owed \in [Conn -> SUBSET Block]
         /\ \A p \in Conn : owed[p] = owes[p] \ {x}
    BY DEF OwedAfterWrite, CancelElsewhere, Balanced
  <1> HIDE DEF owed
  <1>11. ASSUME NEW y \in Block PROVE new.inflight[y] = Cardinality(OwersIn(owed, y))
    <2>1. CASE y = x
      <3>1. OwersIn(owed, y) = {}
        BY <2>1, <1>10 DEF OwersIn
      <3> QED BY <2>1, <3>1, <1>9, FS_EmptySet
    <2>2. CASE y # x
      <3>1. OwersIn(owed, y) = OwersIn(owes, y)
        BY <2>2, <1>10 DEF OwersIn
      <3> QED BY <2>2, <3>1, <1>9 DEF Balanced
    <2> QED BY <2>1, <2>2
  <1>12. \A d \in Conn : \A y \in owed[d] : y \in owes[d] /\ y # x
    BY <1>10
  <1>13. \A y \in new.received : y[1] \in new.started
    BY <1>1, <1>9 DEF Balanced
  <1>14. \A d \in Conn : \A y \in owed[d] :
            y \notin new.received /\ y[1] \notin new.have /\ y[1] \in new.started
    BY <1>9, <1>12 DEF Balanced
  <1>15. Balanced(new, owed)
    BY <1>8, <1>9, <1>10, <1>11, <1>13, <1>14 DEF Balanced
  <1> QED BY <1>9, <1>10, <1>15 DEF new, owed

\* The verdict on a full piece (set_have or reset_piece) keeps balance: none
\* of its blocks is owed any more, so dropping the entry loses no count.
LEMMA BalancedVerdict ==
    ASSUME NEW pk, NEW ow, Balanced(pk, ow), NEW i \in Piece,
           BlockOf(i) \subseteq pk.received, NEW new \in PickerType,
           \/ new = set_have(pk, i) \/ new = reset_piece(pk, i)
    PROVE  /\ Balanced(new, ow)
           /\ new.received = pk.received \ BlockOf(i)
           /\ new = set_have(pk, i) => new.have = pk.have \cup {i}
           /\ new = reset_piece(pk, i) => new.have = pk.have \ {i}
  <1> DEFINE drop == DropProgress(pk, i)
  <1>1. /\ drop.started = pk.started \ {i}
        /\ drop.received = pk.received \ BlockOf(i)
        /\ \A x \in Block : drop.inflight[x] =
              IF x[1] = i THEN 0 ELSE pk.inflight[x]
        /\ drop \in PickerType
    BY DEF DropProgress, Balanced, PickerType
  <1> HIDE DEF drop
  <1>2. /\ new.started = drop.started /\ new.received = drop.received
        /\ new.inflight = drop.inflight
        /\ new = set_have(pk, i) => new.have = pk.have \cup {i}
        /\ new = reset_piece(pk, i) => new.have = pk.have \ {i}
    BY <1>1 DEF set_have, reset_piece, PickerType, drop
  <1>3. \A d \in Conn : \A x \in ow[d] : x \in Block /\ x[1] # i
    BY BlockFacts DEF Balanced
  <1>4. ASSUME NEW x \in Block PROVE new.inflight[x] = Cardinality(OwersIn(ow, x))
    <2>1. CASE x[1] = i
      <3>1. OwersIn(ow, x) = {}
        BY <2>1, <1>3 DEF OwersIn
      <3> QED BY <2>1, <3>1, <1>1, <1>2, FS_EmptySet
    <2>2. CASE x[1] # i
      BY <2>2, <1>1, <1>2 DEF Balanced
    <2> QED BY <2>1, <2>2
  <1>5. \A x \in new.received : x[1] \in new.started
    BY <1>1, <1>2, BlockFacts DEF Balanced, PickerType
  <1>6. new.started \cap new.have = {}
    BY <1>1, <1>2 DEF Balanced
  <1>7. \A d \in Conn : \A x \in ow[d] :
            x \notin new.received /\ x[1] \notin new.have /\ x[1] \in new.started
    BY <1>1, <1>2, <1>3 DEF Balanced
  <1>8. Balanced(new, ow)
    BY <1>4, <1>5, <1>6, <1>7 DEF Balanced
  <1> QED BY <1>1, <1>2, <1>8

-----------------------------------------------------------------------------
(* Type correctness *)

\* fill_requests leaves the three variables it writes well typed.
LEMMA FillTyped ==
    ASSUME NEW c \in Conn, NEW pk \in PickerType, NEW ow \in [Conn -> SUBSET Block],
           NEW ages \in [Conn -> [Block -> Nat]], NEW picks \in SUBSET Block,
           Fill(c, pk, ow, ages, picks)
    PROVE  /\ picker' \in PickerType
           /\ owes' \in [Conn -> SUBSET Block]
           /\ age' \in [Conn -> [Block -> Nat]]
  <1>1. picker' \in PickerType
    <2>1. MarkPicked(pk, picks) \in PickerType
      BY PickType
    <2> QED BY <2>1, FailedType DEF Fill
  <1>2. owes' \in [Conn -> SUBSET Block]
    BY DEF Fill
  <1>3. age' \in [Conn -> [Block -> Nat]]
    <2>1. [x \in Block |-> IF x \in picks THEN 0 ELSE ages[c][x]] \in [Block -> Nat]
      OBVIOUS
    <2> QED BY <2>1 DEF Fill
  <1> QED BY <1>1, <1>2, <1>3

\* So do the stamps when requests are forgotten.
LEMMA ForgetTyped ==
    ASSUME NEW ages \in [Conn -> [Block -> Nat]], NEW c \in Conn, NEW S
    PROVE  Forget(ages, c, S) \in [Conn -> [Block -> Nat]]
  <1>1. [x \in Block |-> IF x \in S THEN 0 ELSE ages[c][x]] \in [Block -> Nat]
    OBVIOUS
  <1> QED BY <1>1 DEF Forget

\* What a written block makes of the picker, the debts and the stamps.
LEMMA WriteTyped ==
    ASSUME TypeOK, NEW c \in Conn, NEW x \in Block
    PROVE  /\ PickerAfterWrite(c, x) \in PickerType
           /\ OwedAfterWrite(c, x) \in [Conn -> SUBSET Block]
           /\ AgesAfterWrite(c, x) \in [Conn -> [Block -> Nat]]
  <1>1. PickerAfterWrite(c, x) \in PickerType
    <2> DEFINE count == picker.inflight[x]
               rest == Cardinality(Cancelled(c, x))
               low == IF x[1] \in picker.started THEN Monus(count, rest) ELSE count
               mid == [picker EXCEPT !.inflight = [picker.inflight EXCEPT ![x] = low]]
    <2>1. rest \in Nat
      <3>1. Cancelled(c, x) \in SUBSET Conn
        BY DEF Cancelled, Seated
      <3> QED BY <3>1, EngineAssumption, FS_Subset, FS_CardinalityType
    <2>2. low \in Nat
      BY <2>1 DEF TypeOK, PickerType, Monus
    <2> HIDE DEF low
    <2>3. mid \in PickerType
      BY <2>2 DEF TypeOK, PickerType
    <2>4. PickerAfterWrite(c, x) = block_received(mid, x)
      BY DEF PickerAfterWrite, low
    <2> QED BY <2>3, <2>4, ReceivedType
  <1>2. OwedAfterWrite(c, x) \in [Conn -> SUBSET Block]
    BY DEF OwedAfterWrite, CancelElsewhere, TypeOK
  <1>3. AgesAfterWrite(c, x) \in [Conn -> [Block -> Nat]]
    BY DEF AgesAfterWrite, TypeOK
  <1> QED BY <1>1, <1>2, <1>3

\* A dropped peer (drop_peer) leaves a well-typed state.
LEMMA DropTyped ==
    ASSUME TypeOK, NEW c \in Conn, DropListed(c),
           drops' \in SUBSET Conn, evict' \in [Conn -> SUBSET Conn]
    PROVE  TypeOK'
  <1>1. CASE DropPeer(c)
    <2>1. remove_bitfield(picker, has[c]) \in PickerType
      BY BitfieldType DEF TypeOK
    <2>2. picker' \in PickerType
      BY <1>1, <2>1, FailedType DEF DropPeer
    <2>3. age' \in [Conn -> [Block -> Nat]]
      BY <1>1, ForgetTyped DEF DropPeer, TypeOK
    <2> QED BY <1>1, <2>2, <2>3 DEF DropPeer, TypeOK, blameVars
  <1>2. CASE UNCHANGED <<picker, peerVars, debtVars, disk, blameVars, todo, done>>
    BY <1>2 DEF TypeOK, peerVars, debtVars, blameVars
  <1> QED BY <1>1, <1>2 DEF DropListed

\* The refill that ends most outcomes of on_block.
LEMMA RefillTyped ==
    ASSUME TypeOK, NEW c \in Conn, NEW pk \in PickerType,
           NEW ow \in [Conn -> SUBSET Block], NEW ages \in [Conn -> [Block -> Nat]],
           Refill(c, pk, ow, ages)
    PROVE  /\ picker' \in PickerType
           /\ owes' \in [Conn -> SUBSET Block]
           /\ age' \in [Conn -> [Block -> Nat]]
  BY FillTyped, FillPicksOfferable DEF Refill

\* Every message a peer can send (handle) leaves a well-typed state.
LEMMA MessageTyped ==
    ASSUME TypeOK, NEW c \in Conn,
           \/ OnIgnored(c) \/ OnViolation(c) \/ OnChoke(c) \/ OnUnchoke(c)
           \/ \E field \in SUBSET Piece : OnBitfield(c, field)
           \/ \E i \in Piece : OnHave(c, i)
    PROVE  TypeOK'
  <1>0. CASE OnIgnored(c)
    BY <1>0 DEF OnIgnored, Opens, TypeOK, debtVars, blameVars, tickVars
  <1>1. CASE OnViolation(c)
    BY <1>1 DEF OnViolation, Opens, TypeOK, debtVars, blameVars, tickVars
  <1>2. CASE OnChoke(c)
    <2>1. picker' \in PickerType
      BY <1>2, FailedType DEF OnChoke, TypeOK
    <2>2. age' \in [Conn -> [Block -> Nat]]
      BY <1>2, ForgetTyped DEF OnChoke, TypeOK
    <2> QED BY <1>2, <2>1, <2>2 DEF OnChoke, Opens, TypeOK, blameVars, tickVars
  <1>3. CASE OnUnchoke(c)
    <2> DEFINE picks == FillPicks(picker, has[c], owes[c], interested[c])
    <2>0. picks \in SUBSET Block /\ Fill(c, picker, owes, age, picks)
      BY <1>3, FillPicksOfferable DEF OnUnchoke
    <2> HIDE DEF picks
    <2>1. /\ picker' \in PickerType /\ owes' \in [Conn -> SUBSET Block]
          /\ age' \in [Conn -> [Block -> Nat]]
      BY <2>0, FillTyped DEF TypeOK
    <2> QED BY <1>3, <2>1 DEF OnUnchoke, Opens, TypeOK, blameVars, tickVars
  <1>4. ASSUME NEW pk \in PickerType, NEW field \in SUBSET Piece,
               UpdateInterest(c, pk, field)
        PROVE  /\ picker' \in PickerType /\ owes' \in [Conn -> SUBSET Block]
               /\ age' \in [Conn -> [Block -> Nat]]
               /\ interested' \in [Conn -> BOOLEAN]
    <2> DEFINE want == field \ pk.have # {}
               fresh == want /\ ~interested[c] /\ ~choking[c]
               picks == FillPicks(pk, field, owes[c], fresh)
    <2>1. picks \in SUBSET Block /\ Fill(c, pk, owes, age, picks)
      BY <1>4, FillPicksOfferable DEF UpdateInterest
    <2>2. interested' \in [Conn -> BOOLEAN]
      BY <1>4 DEF UpdateInterest, TypeOK
    <2> HIDE DEF picks
    <2> QED BY <2>1, <2>2, FillTyped DEF TypeOK
  <1>5. ASSUME NEW field \in SUBSET Piece, OnBitfield(c, field) PROVE TypeOK'
    <2>1. remove_bitfield(picker, has[c]) \in PickerType
      BY BitfieldType DEF TypeOK
    <2>2. add_bitfield(remove_bitfield(picker, has[c]), field) \in PickerType
      BY <2>1, BitfieldType
    <2>3. /\ picker' \in PickerType /\ owes' \in [Conn -> SUBSET Block]
          /\ age' \in [Conn -> [Block -> Nat]] /\ interested' \in [Conn -> BOOLEAN]
      BY <1>4, <1>5, <2>2 DEF OnBitfield
    <2> QED BY <1>5, <2>3 DEF OnBitfield, Opens, TypeOK, blameVars, tickVars
  <1>6. ASSUME NEW i \in Piece, OnHave(c, i) PROVE TypeOK'
    <2>1. add_bitfield(picker, {i}) \in PickerType /\ has[c] \cup {i} \in SUBSET Piece
      BY BitfieldType DEF TypeOK
    <2>2. /\ picker' \in PickerType /\ owes' \in [Conn -> SUBSET Block]
          /\ age' \in [Conn -> [Block -> Nat]] /\ interested' \in [Conn -> BOOLEAN]
      BY <1>4, <1>6, <2>1 DEF OnHave
    <2> QED BY <1>6, <2>1, <2>2 DEF OnHave, Opens, TypeOK, blameVars, tickVars
  <1> QED BY <1>0, <1>1, <1>2, <1>3, <1>5, <1>6

\* Every outcome of on_block leaves a well-typed state.
LEMMA DeliverTyped ==
    ASSUME TypeOK, NEW c \in Conn, NEW x \in Block, Deliver(c, x)
    PROVE  TypeOK'
  <1> DEFINE sup == [suppliers EXCEPT ![x] = dest[c]]
             aw == AgesAfterWrite(c, x)
             pw == PickerAfterWrite(c, x)
             ow == OwedAfterWrite(c, x)
             Three == /\ picker' \in PickerType
                      /\ owes' \in [Conn -> SUBSET Block]
                      /\ age' \in [Conn -> [Block -> Nat]]
  <1>1. /\ Owed(c, x) \in [Conn -> SUBSET Block]
        /\ Forget(age, c, {x}) \in [Conn -> [Block -> Nat]]
        /\ blocks_failed(picker, {x}) \in PickerType
        /\ picker \in PickerType
    BY ForgetTyped, FailedType DEF Owed, TypeOK
  <1>2. /\ pw \in PickerType /\ ow \in [Conn -> SUBSET Block]
        /\ aw \in [Conn -> [Block -> Nat]]
        /\ x[1] \in Piece
        /\ sup \in [Block -> Dest \cup {NoDest}]
    BY WriteTyped, BlockFacts DEF TypeOK
  <1>3. set_have(pw, x[1]) \in PickerType /\ reset_piece(pw, x[1]) \in PickerType
    BY <1>2, VerdictType
  <1> HIDE DEF aw, pw, ow, sup
  <1>4. ASSUME Settles(c, x)
        PROVE  strikes' \in [Conn -> Nat] /\ opened' \in [Conn -> BOOLEAN]
    BY <1>4 DEF Settles, Opens, TypeOK
  <1>5. CASE OnSurplusBlock(c, x)
    <2>1. Three
      BY <1>1, <1>5, RefillTyped DEF OnSurplusBlock
    <2> HIDE DEF Three
    <2> QED BY <1>4, <1>5, <2>1 DEF OnSurplusBlock, TypeOK, blameVars, tickVars, Three
  <1>6. CASE OnWriteError(c, x)
    <2>1. Three
      BY <1>1, <1>6, RefillTyped DEF OnWriteError
    <2> HIDE DEF Three
    <2> QED BY <1>4, <1>6, <2>1 DEF OnWriteError, TypeOK, blameVars, tickVars, Three
  <1>7. ASSUME NEW q \in {"good", "bad"}, Writes(c, x, q)
        PROVE  /\ strikes' \in [Conn -> Nat] /\ opened' \in [Conn -> BOOLEAN]
               /\ disk' \in [Block -> {"none", "good", "bad"}]
    BY <1>4, <1>7 DEF Writes, TypeOK
  <1>8. ASSUME NEW q \in {"good", "bad"}, OnBlock(c, x, q) PROVE TypeOK'
    BY <1>2, <1>7, <1>8 DEF OnBlock, TypeOK, tickVars, aw, pw, ow, sup
  <1>9. ASSUME NEW q \in {"good", "bad"}, OnPieceVerified(c, x, q) PROVE TypeOK'
    <2>1. Three
      BY <1>2, <1>3, <1>9, RefillTyped DEF OnPieceVerified, aw, pw, ow
    <2>2. suspicion' \in [Dest -> Nat] /\ suppliers' \in [Block -> Dest \cup {NoDest}]
      <3>1. IsFiniteSet(BlockOf(x[1]))
        BY <1>2, BlockOfFinite
      <3>2. \A d \in Dest : Cardinality({y \in BlockOf(x[1]) : sup[y] = d}) \in Nat
        BY <3>1, FS_Subset, FS_CardinalityType
      <3>3. \A d \in Dest :
              Monus(suspicion[d], Cardinality({y \in BlockOf(x[1]) : sup[y] = d})) \in Nat
        <4>1. \A d \in Dest : suspicion[d] \in Nat
          BY DEF TypeOK
        <4> QED BY <3>2, <4>1, MonusType
      <3>4. CreditSuppliers(x[1], sup)
        BY <1>9 DEF OnPieceVerified, sup
      <3> QED BY <1>2, <3>3, <3>4 DEF CreditSuppliers
    <2>3. told' \in [Conn -> SUBSET Piece]
      BY <1>2, <1>9 DEF OnPieceVerified, TypeOK
    <2>4. Writes(c, x, q)
      BY <1>9 DEF OnPieceVerified
    <2> HIDE DEF Three
    <2> QED BY <1>7, <1>9, <2>1, <2>2, <2>3, <2>4
            DEF OnPieceVerified, TypeOK, tickVars, Three
  <1>10. ASSUME NEW q \in {"good", "bad"}, OnPieceFailed(c, x, q) PROVE TypeOK'
    <2>1. Three
      BY <1>2, <1>3, <1>10, RefillTyped DEF OnPieceFailed, aw, pw, ow
    <2>2. BlameSuppliers(c, x[1], sup) /\ Writes(c, x, q)
      BY <1>10 DEF OnPieceFailed, sup
    <2>3. SuppliersOf(x[1], sup) \in SUBSET Dest
      <3>1. \A y \in BlockOf(x[1]) : sup[y] \in Dest \cup {NoDest}
        BY <1>2, BlockFacts
      <3> QED BY <3>1 DEF SuppliersOf
    <2>4. Culprits(SuppliersOf(x[1], sup)) \in SUBSET Dest
      BY <2>3 DEF Culprits
    <2>5. Suspected(SuppliersOf(x[1], sup)) \in [Dest -> Nat]
      BY DEF Suspected, TypeOK
    <2>6. /\ suspicion' \in [Dest -> Nat] /\ banned' \in SUBSET Dest
          /\ suppliers' \in [Block -> Dest \cup {NoDest}]
          /\ evict' \in [Conn -> SUBSET Conn]
      BY <1>2, <2>2, <2>4, <2>5 DEF BlameSuppliers, TypeOK, Seated
    <2> HIDE DEF Three
    <2> QED BY <1>7, <1>10, <2>1, <2>2, <2>6 DEF OnPieceFailed, TypeOK, tickVars, Three
  <1>11. ASSUME NEW q \in {"good", "bad"}, OnVerifyError(c, x, q) PROVE TypeOK'
    <2>1. Three
      BY <1>2, <1>11, RefillTyped DEF OnVerifyError, aw, pw, ow
    <2>2. Writes(c, x, q)
      BY <1>11 DEF OnVerifyError
    <2> HIDE DEF Three
    <2> QED BY <1>2, <1>7, <1>11, <2>1, <2>2 DEF OnVerifyError, TypeOK, tickVars, Three, sup
  <1> QED BY <1>5, <1>6, <1>8, <1>9, <1>10, <1>11 DEF Deliver

\* One iteration of the maintenance walk leaves a well-typed state.
LEMMA MaintainTyped ==
    ASSUME TypeOK, NEW c \in Conn, MaintainPeer(c)
    PROVE  TypeOK'
  <1> DEFINE late == Expired(c)
             pk == blocks_failed(picker, late)
             ow == [owes EXCEPT ![c] = owes[c] \ late]
             ages == Forget(age, c, late)
             out == late # {} /\ strikes[c] + 1 >= RequestStrikes
             picks == FillPicks(pk, has[c], ow[c], ~out /\ Willing(c))
  <1>1. pk \in PickerType /\ ages \in [Conn -> [Block -> Nat]]
    BY FailedType, ForgetTyped DEF TypeOK
  <1>2. ow \in [Conn -> SUBSET Block]
    BY DEF TypeOK
  <1>3. picks \in SUBSET Block
    BY FillPicksOfferable
  <1>4. Fill(c, pk, ow, ages, picks)
    BY DEF MaintainPeer
  <1> HIDE DEF pk, ow, ages, picks
  <1>5. /\ picker' \in PickerType /\ owes' \in [Conn -> SUBSET Block]
        /\ age' \in [Conn -> [Block -> Nat]]
    BY <1>1, <1>2, <1>3, <1>4, FillTyped
  <1>6. strikes' \in [Conn -> Nat]
    <2>1. strikes \in [Conn -> Nat] /\ strikes[c] + 1 \in Nat
      BY DEF TypeOK
    <2>2. strikes' = [strikes EXCEPT ![c] = IF late # {} THEN strikes[c] + 1 ELSE strikes[c]]
      BY DEF MaintainPeer
    <2> QED BY <2>1, <2>2
  <1>7. drops' \in SUBSET Conn /\ todo' \in SUBSET Conn
    BY DEF MaintainPeer, TypeOK
  <1> QED BY <1>5, <1>6, <1>7 DEF MaintainPeer, TypeOK, peerVars, blameVars

\* No step of the engine leaves the types.
LEMMA NextTyped == ASSUME TypeOK, [Next]_vars PROVE TypeOK'
  <1>1. ASSUME NEW c \in Conn, PeerNext(c) PROVE TypeOK'
    <2>1. ASSUME NEW d \in Dest, QueueBitfield(c, d) PROVE TypeOK'
      BY <2>1 DEF QueueBitfield, TypeOK, PickerType, debtVars, blameVars, tickVars
    <2>2. CASE RegisterPeer(c)
      BY <2>2 DEF RegisterPeer, TypeOK, debtVars, blameVars, tickVars
    <2>3. CASE Disconnect(c)
      BY <2>3, DropTyped DEF Disconnect, DropListed, TypeOK
    <2>4. ASSUME NEW p \in Conn, Evict(c, p) PROVE TypeOK'
      BY <2>4, DropTyped DEF Evict, TypeOK
    <2>5. CASE MaintainDrop(c)
      BY <2>5, DropTyped DEF MaintainDrop, TypeOK
    <2>6. CASE \E x \in Block : Deliver(c, x)
      BY <2>6, DeliverTyped
    <2>7. CASE MaintainPeer(c)
      BY <2>7, MaintainTyped
    <2> QED BY <1>1, <2>1, <2>2, <2>3, <2>4, <2>5, <2>6, <2>7, MessageTyped DEF PeerNext
  <1>2. ASSUME NEW idle \in SUBSET Conn, MaintainBegin(idle) PROVE TypeOK'
    BY <1>2 DEF MaintainBegin, TypeOK, Seated, peerVars, blameVars
  <1>3. ASSUME NEW pr \in PriorityChoices, SetPiecePriorities(pr) PROVE TypeOK'
    <2>1. picker' \in PickerType
      BY <1>3, PrioritiesType, EngineAssumption DEF SetPiecePriorities, TypeOK
    <2> QED BY <1>3, <2>1
            DEF SetPiecePriorities, TypeOK, peerVars, debtVars, blameVars, tickVars
  <1>4. ASSUME NEW m \in ModeChoices, SetMode(m) PROVE TypeOK'
    <2>1. m \in Mode
      BY EngineAssumption
    <2>2. picker' \in PickerType
      BY <1>4, <2>1 DEF SetMode, TypeOK, PickerType
    <2> QED BY <1>4, <2>2 DEF SetMode, TypeOK, peerVars, debtVars, blameVars, tickVars
  <1>5. CASE CheckDone
    BY <1>5 DEF CheckDone, TypeOK, peerVars, debtVars, blameVars, tickVars
  <1>6. CASE UNCHANGED vars
    BY <1>6 DEF vars, TypeOK, peerVars, debtVars, blameVars, tickVars
  <1> QED BY <1>1, <1>2, <1>3, <1>4, <1>5, <1>6 DEF Next

\* Initially the state has its type.
LEMMA InitTyped == ASSUME Init PROVE TypeOK
  <1>1. picker \in PickerType
    BY NewPickerType, EngineAssumption DEF Init
  <1> QED BY <1>1 DEF Init, TypeOK, is_complete

\* The engine's state always has its type, for every torrent, peer set and
\* limit: in particular no saturating counter is ever driven out of Nat.
THEOREM TypeCorrect == Spec => []TypeOK
  <1>1. Init => TypeOK
    BY InitTyped
  <1>2. TypeOK /\ [Next]_vars => TypeOK'
    BY NextTyped
  <1> QED BY <1>1, <1>2, PTL DEF Spec

-----------------------------------------------------------------------------
(* The accounts: requests in flight, debts, and who may have them *)

\* The inductive invariant behind OwedExact, OwedIsMissing and BooksClosed.
\* A maintenance walk only visits seated peers: it would otherwise ask a
\* connection that has left.
Accounts ==
    /\ Balanced(picker, owes)
    /\ \A c \in Conn : phase[c] # "seated" => owes[c] = {} /\ has[c] = {}
    /\ todo \subseteq Seated

\* fill_requests, as every handler calls it, keeps balance and gives debts
\* to the connection it is called for only; what is held and what has been
\* received stay as they were.
LEMMA FillBalanced ==
    ASSUME NEW c \in Conn, NEW pk, NEW ow, NEW ages, NEW field, NEW debts,
           NEW willing, Balanced(pk, ow),
           Fill(c, pk, ow, ages, FillPicks(pk, field, debts, willing))
    PROVE  /\ Balanced(picker', owes')
           /\ \A p \in Conn : p # c => owes'[p] = ow[p]
           /\ picker'.have = pk.have
           /\ picker'.received = pk.received
  <1> DEFINE picks == FillPicks(pk, field, debts, willing)
             mid == MarkPicked(pk, picks)
  <1>1. /\ picks \in SUBSET Block
        /\ \A x \in picks : x[1] \notin pk.have /\ x \notin pk.received
    BY FillPicksOfferable
  <1>2. /\ picker' = blocks_failed(mid, picks \cap ow[c])
        /\ owes' = [ow EXCEPT ![c] = ow[c] \cup picks]
    BY DEF Fill
  <1> HIDE DEF picks
  <1>3. Balanced(picker', owes')
    BY <1>1, <1>2, BalancedFill
  <1>4. mid \in PickerType /\ mid.have = pk.have /\ mid.received = pk.received
    BY <1>1, PickType DEF MarkPicked, Balanced, PickerType
  <1> HIDE DEF mid
  <1>5. picker'.have = mid.have /\ picker'.received = mid.received
    BY <1>2, <1>4 DEF blocks_failed, PickerType
  <1>6. \A p \in Conn : p # c => owes'[p] = ow[p]
    BY <1>2 DEF Balanced
  <1> QED BY <1>3, <1>4, <1>5, <1>6

\* update_interest and the request it may trigger.
LEMMA InterestBalanced ==
    ASSUME NEW c \in Conn, NEW pk, NEW field, Balanced(pk, owes),
           UpdateInterest(c, pk, field)
    PROVE  /\ Balanced(picker', owes')
           /\ \A p \in Conn : p # c => owes'[p] = owes[p]
           /\ picker'.have = pk.have
           /\ picker'.received = pk.received
  <1> DEFINE fresh == (field \ pk.have # {}) /\ ~interested[c] /\ ~choking[c]
  <1>1. Fill(c, pk, owes, age, FillPicks(pk, field, owes[c], fresh))
    BY DEF UpdateInterest
  <1> QED BY <1>1, FillBalanced

\* The availability counts have no part in the accounts.
LEMMA BitfieldBalanced ==
    ASSUME NEW pk, NEW ow, Balanced(pk, ow), NEW field \in SUBSET Piece
    PROVE  /\ Balanced(add_bitfield(pk, field), ow)
           /\ Balanced(remove_bitfield(pk, field), ow)
           /\ add_bitfield(pk, field).have = pk.have
           /\ add_bitfield(pk, field).received = pk.received
           /\ remove_bitfield(pk, field).have = pk.have
           /\ remove_bitfield(pk, field).received = pk.received
  <1> DEFINE A == add_bitfield(pk, field)
             R == remove_bitfield(pk, field)
  <1>1. pk \in PickerType
    BY DEF Balanced
  <1>2. A \in PickerType /\ R \in PickerType
    BY <1>1, BitfieldType
  <1>3. /\ A.inflight = pk.inflight /\ A.have = pk.have
        /\ A.started = pk.started /\ A.received = pk.received
    BY <1>1 DEF add_bitfield, PickerType
  <1>4. /\ R.inflight = pk.inflight /\ R.have = pk.have
        /\ R.started = pk.started /\ R.received = pk.received
    BY <1>1 DEF remove_bitfield, PickerType
  <1> HIDE DEF A, R
  <1>5. Balanced(A, ow) /\ Balanced(R, ow)
    BY <1>2, <1>3, <1>4, BalancedElsewhere
  <1> QED BY <1>3, <1>4, <1>5 DEF A, R

\* block_failed changes neither what is held nor what has been received.
LEMMA FailedKeeps ==
    ASSUME NEW pk \in PickerType, NEW S
    PROVE  blocks_failed(pk, S).have = pk.have /\ blocks_failed(pk, S).received = pk.received
  BY DEF blocks_failed, PickerType

\* drop_peer closes the connection's account.
LEMMA DropAccounts ==
    ASSUME TypeOK, Accounts, Unlocked, NEW c \in Conn, DropListed(c)
    PROVE  /\ Accounts'
           /\ picker'.have = picker.have
           /\ picker'.received = picker.received
  <1>1. CASE DropPeer(c)
    <2> DEFINE pk == remove_bitfield(picker, has[c])
    <2>1. Balanced(pk, owes) /\ pk.have = picker.have /\ pk.received = picker.received
      BY BitfieldBalanced DEF Accounts, TypeOK
    <2>2. picker' = blocks_failed(pk, owes[c]) /\ owes' = [owes EXCEPT ![c] = owes[c] \ owes[c]]
      BY <1>1 DEF DropPeer
    <2> HIDE DEF pk
    <2>3. Balanced(picker', owes')
      BY <2>1, <2>2, BalancedRelease
    <2>4. picker'.have = picker.have /\ picker'.received = picker.received
      BY <2>1, <2>2, FailedKeeps DEF Balanced
    <2>5. \A p \in Conn : phase'[p] # "seated" => owes'[p] = {} /\ has'[p] = {}
      BY <1>1 DEF DropPeer, Accounts, TypeOK
    <2>6. todo' = {}
      BY <1>1 DEF DropPeer, Unlocked
    <2> QED BY <2>3, <2>4, <2>5, <2>6 DEF Accounts
  <1>2. CASE UNCHANGED <<picker, peerVars, debtVars, disk, blameVars, todo, done>>
    BY <1>2 DEF Accounts, Seated, peerVars, debtVars
  <1> QED BY <1>1, <1>2 DEF DropListed

\* A handler for a message of a seated connection keeps the accounts if it
\* keeps balance and gives no debt and no pieces to anybody else.
LEMMA HandlerAccounts ==
    ASSUME TypeOK, Accounts, NEW c \in Conn, Receives(c),
           phase' = phase, todo' = todo, Balanced(picker', owes'),
           \A p \in Conn : p # c => owes'[p] \subseteq owes[p] /\ has'[p] = has[p]
    PROVE  Accounts'
  <1>1. todo' = {} /\ phase[c] = "seated"
    BY DEF Receives, Unlocked
  <1>2. \A p \in Conn : phase'[p] # "seated" => owes'[p] = {} /\ has'[p] = {}
    BY <1>1 DEF Accounts
  <1> QED BY <1>1, <1>2 DEF Accounts

\* Every message a peer can send keeps the accounts, and touches neither the
\* pieces held nor the blocks received.
LEMMA MessageAccounts ==
    ASSUME TypeOK, Accounts, NEW c \in Conn,
           \/ OnIgnored(c) \/ OnViolation(c) \/ OnChoke(c) \/ OnUnchoke(c)
           \/ \E field \in SUBSET Piece : OnBitfield(c, field)
           \/ \E i \in Piece : OnHave(c, i)
    PROVE  /\ Accounts'
           /\ picker'.have = picker.have
           /\ picker'.received = picker.received
  <1>0. Balanced(picker, owes) /\ picker \in PickerType
    BY DEF Accounts, TypeOK
  <1>1. CASE OnIgnored(c) \/ OnViolation(c)
    BY <1>1 DEF OnIgnored, OnViolation, Accounts, Seated, debtVars, tickVars
  <1>2. CASE OnChoke(c)
    <2>1. /\ picker' = blocks_failed(picker, owes[c])
          /\ owes' = [owes EXCEPT ![c] = owes[c] \ owes[c]]
      BY <1>2 DEF OnChoke
    <2>2. Balanced(picker', owes')
      BY <1>0, <2>1, BalancedRelease
    <2>3. \A p \in Conn : p # c => owes'[p] \subseteq owes[p] /\ has'[p] = has[p]
      BY <1>2 DEF OnChoke, TypeOK
    <2>4. Receives(c) /\ phase' = phase /\ todo' = todo
      BY <1>2 DEF OnChoke, tickVars
    <2> QED BY <1>0, <2>1, <2>2, <2>3, <2>4, HandlerAccounts, FailedKeeps
  <1>3. CASE OnUnchoke(c)
    <2>1. /\ Balanced(picker', owes') /\ picker'.have = picker.have
          /\ picker'.received = picker.received
          /\ \A p \in Conn : p # c => owes'[p] = owes[p]
      BY <1>0, <1>3, FillBalanced DEF OnUnchoke
    <2>2. Receives(c) /\ phase' = phase /\ todo' = todo /\ has' = has
      BY <1>3 DEF OnUnchoke, tickVars
    <2> QED BY <2>1, <2>2, HandlerAccounts
  <1>4. ASSUME NEW field \in SUBSET Piece, OnBitfield(c, field)
        PROVE  Accounts' /\ picker'.have = picker.have /\ picker'.received = picker.received
    <2> DEFINE mid == remove_bitfield(picker, has[c])
               pk == add_bitfield(mid, field)
    <2>1. Balanced(mid, owes) /\ mid.have = picker.have /\ mid.received = picker.received
      BY <1>0, BitfieldBalanced DEF TypeOK
    <2> HIDE DEF mid
    <2>2. Balanced(pk, owes) /\ pk.have = picker.have /\ pk.received = picker.received
      BY <2>1, BitfieldBalanced
    <2>3. UpdateInterest(c, pk, field)
      BY <1>4 DEF OnBitfield, mid
    <2> HIDE DEF pk
    <2>4. /\ Balanced(picker', owes') /\ picker'.have = picker.have
          /\ picker'.received = picker.received
          /\ \A p \in Conn : p # c => owes'[p] = owes[p]
      BY <2>2, <2>3, InterestBalanced
    <2>5. /\ Receives(c) /\ phase' = phase /\ todo' = todo
          /\ \A p \in Conn : p # c => has'[p] = has[p]
      BY <1>4 DEF OnBitfield, tickVars, TypeOK
    <2> QED BY <2>4, <2>5, HandlerAccounts
  <1>5. ASSUME NEW i \in Piece, OnHave(c, i)
        PROVE  Accounts' /\ picker'.have = picker.have /\ picker'.received = picker.received
    <2> DEFINE pk == add_bitfield(picker, {i})
    <2>1. Balanced(pk, owes) /\ pk.have = picker.have /\ pk.received = picker.received
      BY <1>0, BitfieldBalanced
    <2>2. UpdateInterest(c, pk, has[c] \cup {i})
      BY <1>5 DEF OnHave
    <2> HIDE DEF pk
    <2>3. /\ Balanced(picker', owes') /\ picker'.have = picker.have
          /\ picker'.received = picker.received
          /\ \A p \in Conn : p # c => owes'[p] = owes[p]
      BY <2>1, <2>2, InterestBalanced
    <2>4. /\ Receives(c) /\ phase' = phase /\ todo' = todo
          /\ \A p \in Conn : p # c => has'[p] = has[p]
      BY <1>5 DEF OnHave, tickVars, TypeOK
    <2> QED BY <2>3, <2>4, HandlerAccounts
  <1> QED BY <1>1, <1>2, <1>3, <1>4, <1>5

\* What on_block does to the accounts, to the pieces held and to the blocks
\* received, outcome by outcome.
LEMMA DeliverAccounts ==
    ASSUME TypeOK, Accounts, NEW c \in Conn, NEW x \in Block, Deliver(c, x)
    PROVE  /\ Accounts'
           /\ \/ /\ OnSurplusBlock(c, x) \/ OnWriteError(c, x)
                 /\ picker'.have = picker.have
                 /\ picker'.received = picker.received
              \/ /\ \E q \in {"good", "bad"} : OnBlock(c, x, q) \/ OnVerifyError(c, x, q)
                 /\ picker'.have = picker.have
                 /\ picker'.received = picker.received \cup {x}
              \/ /\ \E q \in {"good", "bad"} : OnPieceVerified(c, x, q)
                 /\ picker'.have = picker.have \cup {x[1]}
                 /\ picker'.received = (picker.received \cup {x}) \ BlockOf(x[1])
                 /\ BlockOf(x[1]) \subseteq picker.received \cup {x}
              \/ /\ \E q \in {"good", "bad"} : OnPieceFailed(c, x, q)
                 /\ picker'.have = picker.have
                 /\ picker'.received = (picker.received \cup {x}) \ BlockOf(x[1])
                 /\ BlockOf(x[1]) \subseteq picker.received \cup {x}
  <1> DEFINE pw == PickerAfterWrite(c, x)
             ow == OwedAfterWrite(c, x)
             Kept == \A p \in Conn : p # c => owes'[p] \subseteq owes[p] /\ has'[p] = has[p]
  <1>0. Balanced(picker, owes) /\ picker \in PickerType
    BY DEF Accounts, TypeOK
  <1>1. ASSUME NEW pk, NEW owed, NEW ages, Balanced(pk, owed), Refill(c, pk, owed, ages)
        PROVE  /\ Balanced(picker', owes') /\ picker'.have = pk.have
               /\ picker'.received = pk.received
               /\ \A p \in Conn : p # c => owes'[p] = owed[p]
    BY <1>1, FillBalanced DEF Refill
  <1>2. ASSUME Settles(c, x), phase' = phase, todo' = todo, has' = has,
               Balanced(picker', owes'), Kept
        PROVE  Accounts'
    BY <1>2, HandlerAccounts DEF Settles
  <1>3. ASSUME x \in owes[c]
        PROVE  /\ Balanced(pw, ow) /\ pw.have = picker.have
               /\ pw.received = picker.received \cup {x}
               /\ \A p \in Conn : ow[p] = owes[p] \ {x}
               /\ x[1] \notin picker.have
    <2>1. \A p \in Conn : owes[p] # {} => phase[p] = "seated"
      BY DEF Accounts
    <2>2. x[1] \notin picker.have
      BY <1>0, <1>3 DEF Balanced
    <2> QED BY <1>0, <1>3, <2>1, <2>2, BalancedWrite
  <1>4. ASSUME x \in owes[c]
        PROVE  /\ Balanced(blocks_failed(picker, {x}), Owed(c, x))
               /\ blocks_failed(picker, {x}).have = picker.have
               /\ blocks_failed(picker, {x}).received = picker.received
               /\ \A p \in Conn : Owed(c, x)[p] \subseteq owes[p]
    <2>1. Owed(c, x) = [owes EXCEPT ![c] = owes[c] \ {x}]
      BY DEF Owed
    <2> DEFINE S == {x}
    <2>2. S \in SUBSET owes[c]
      BY <1>4
    <2> HIDE DEF S
    <2>4. Balanced(blocks_failed(picker, S), [owes EXCEPT ![c] = owes[c] \ S])
      BY <1>0, <2>2, BalancedRelease
    <2>3. \A p \in Conn : Owed(c, x)[p] \subseteq owes[p]
      BY <2>1 DEF TypeOK
    <2> QED BY <1>0, <2>1, <2>3, <2>4, FailedKeeps DEF S
  <1>5. CASE OnSurplusBlock(c, x)
    <2>1. x \notin owes[c]
      BY <1>0, <1>5 DEF OnSurplusBlock, is_received, Balanced
    <2>2. Owed(c, x) = owes
      BY <2>1 DEF Owed, TypeOK
    <2>3. Refill(c, picker, owes, Forget(age, c, {x}))
      BY <1>5, <2>1, <2>2 DEF OnSurplusBlock
    <2>4. /\ Balanced(picker', owes') /\ picker'.have = picker.have
          /\ picker'.received = picker.received
          /\ \A p \in Conn : p # c => owes'[p] = owes[p]
      BY <1>0, <1>1, <2>3
    <2>5. Settles(c, x) /\ phase' = phase /\ todo' = todo /\ has' = has
      BY <1>5 DEF OnSurplusBlock, tickVars
    <2> QED BY <1>2, <1>5, <2>4, <2>5
  <1>6. CASE OnWriteError(c, x)
    <2>1. x \in owes[c]
      BY <1>6 DEF OnWriteError, Wanting
    <2>2. Refill(c, blocks_failed(picker, {x}), Owed(c, x), Forget(age, c, {x}))
      BY <1>6 DEF OnWriteError
    <2>3. /\ Balanced(picker', owes') /\ picker'.have = picker.have
          /\ picker'.received = picker.received
          /\ \A p \in Conn : p # c => owes'[p] \subseteq owes[p]
      BY <1>1, <1>4, <2>1, <2>2
    <2>4. Settles(c, x) /\ phase' = phase /\ todo' = todo /\ has' = has
      BY <1>6 DEF OnWriteError, tickVars
    <2> QED BY <1>2, <1>6, <2>3, <2>4
  <1>7. ASSUME NEW q \in {"good", "bad"}, OnBlock(c, x, q)
        PROVE  /\ Accounts' /\ picker'.have = picker.have
               /\ picker'.received = picker.received \cup {x}
    <2>1. x \in owes[c] /\ picker' = pw /\ owes' = ow
      BY <1>7 DEF OnBlock, Writes, Wanting
    <2>2. Settles(c, x) /\ phase' = phase /\ todo' = todo /\ has' = has
      BY <1>7 DEF OnBlock, Writes, tickVars
    <2> HIDE DEF pw, ow
    <2> QED BY <1>2, <1>3, <2>1, <2>2
  <1>8. ASSUME NEW q \in {"good", "bad"}, OnVerifyError(c, x, q)
        PROVE  /\ Accounts' /\ picker'.have = picker.have
               /\ picker'.received = picker.received \cup {x}
    <2>1. x \in owes[c] /\ Refill(c, pw, ow, AgesAfterWrite(c, x))
      BY <1>8 DEF OnVerifyError, Writes, Wanting
    <2>2. Settles(c, x) /\ phase' = phase /\ todo' = todo /\ has' = has
      BY <1>8 DEF OnVerifyError, Writes, tickVars
    <2> HIDE DEF pw, ow
    <2>3. /\ Balanced(picker', owes') /\ picker'.have = pw.have
          /\ picker'.received = pw.received
          /\ \A p \in Conn : p # c => owes'[p] = ow[p]
      BY <1>1, <1>3, <2>1
    <2> QED BY <1>2, <1>3, <2>1, <2>2, <2>3
  <1>9. ASSUME x \in owes[c], PieceFull(pw, x[1]), NEW new \in PickerType,
               new = set_have(pw, x[1]) \/ new = reset_piece(pw, x[1]),
               Refill(c, new, ow, AgesAfterWrite(c, x)),
               Settles(c, x), phase' = phase, todo' = todo, has' = has
        PROVE  /\ Accounts'
               /\ picker'.received = (picker.received \cup {x}) \ BlockOf(x[1])
               /\ BlockOf(x[1]) \subseteq picker.received \cup {x}
               /\ new = set_have(pw, x[1]) => picker'.have = picker.have \cup {x[1]}
               /\ new = reset_piece(pw, x[1]) => picker'.have = picker.have
    <2> HIDE DEF pw, ow
    <2>1. x[1] \in Piece /\ BlockOf(x[1]) \subseteq pw.received
      BY <1>9, BlockFacts DEF PieceFull
    <2>2. /\ Balanced(new, ow)
          /\ new.received = pw.received \ BlockOf(x[1])
          /\ new = set_have(pw, x[1]) => new.have = pw.have \cup {x[1]}
          /\ new = reset_piece(pw, x[1]) => new.have = pw.have \ {x[1]}
      BY <1>3, <1>9, <2>1, BalancedVerdict
    <2>3. /\ Balanced(picker', owes') /\ picker'.have = new.have
          /\ picker'.received = new.received
          /\ \A p \in Conn : p # c => owes'[p] = ow[p]
      BY <1>1, <1>9, <2>2
    <2>4. Accounts'
      BY <1>2, <1>3, <1>9, <2>3
    <2>5. pw.received = picker.received \cup {x} /\ pw.have = picker.have /\ x[1] \notin picker.have
      BY <1>3, <1>9
    <2>6. /\ picker'.received = (picker.received \cup {x}) \ BlockOf(x[1])
          /\ BlockOf(x[1]) \subseteq picker.received \cup {x}
      BY <2>1, <2>2, <2>3, <2>5
    <2>7. /\ new = set_have(pw, x[1]) => picker'.have = picker.have \cup {x[1]}
          /\ new = reset_piece(pw, x[1]) => picker'.have = picker.have
      <3>1. picker.have \ {x[1]} = picker.have
        BY <2>5
      <3> QED BY <2>2, <2>3, <2>5, <3>1, Zenon
    <2> QED BY <2>4, <2>6, <2>7, Zenon
  <1>10. ASSUME x \in owes[c]
         PROVE  set_have(pw, x[1]) \in PickerType /\ reset_piece(pw, x[1]) \in PickerType
    BY <1>3, <1>10, BlockFacts, VerdictType DEF Balanced
  <1>11. ASSUME NEW q \in {"good", "bad"}, OnPieceVerified(c, x, q)
         PROVE  /\ Accounts'
                /\ picker'.have = picker.have \cup {x[1]}
                /\ picker'.received = (picker.received \cup {x}) \ BlockOf(x[1])
                /\ BlockOf(x[1]) \subseteq picker.received \cup {x}
    <2> DEFINE new == set_have(pw, x[1])
    <2>1. /\ x \in owes[c] /\ PieceFull(pw, x[1])
          /\ Refill(c, new, ow, AgesAfterWrite(c, x))
      BY <1>11 DEF OnPieceVerified, Writes, Wanting
    <2>2. Settles(c, x) /\ phase' = phase /\ todo' = todo /\ has' = has
      BY <1>11 DEF OnPieceVerified, Writes, tickVars
    <2>3. new \in PickerType
      BY <1>10, <2>1
    <2> QED BY <1>9, <2>1, <2>2, <2>3
  <1>12. ASSUME NEW q \in {"good", "bad"}, OnPieceFailed(c, x, q)
         PROVE  /\ Accounts'
                /\ picker'.have = picker.have
                /\ picker'.received = (picker.received \cup {x}) \ BlockOf(x[1])
                /\ BlockOf(x[1]) \subseteq picker.received \cup {x}
    <2> DEFINE new == reset_piece(pw, x[1])
    <2>1. /\ x \in owes[c] /\ PieceFull(pw, x[1])
          /\ Refill(c, new, ow, AgesAfterWrite(c, x))
      BY <1>12 DEF OnPieceFailed, Writes, Wanting
    <2>2. Settles(c, x) /\ phase' = phase /\ todo' = todo /\ has' = has
      BY <1>12 DEF OnPieceFailed, Writes, tickVars
    <2>3. new \in PickerType
      BY <1>10, <2>1
    <2> QED BY <1>9, <2>1, <2>2, <2>3
  <1> QED BY <1>5, <1>6, <1>7, <1>8, <1>11, <1>12 DEF Deliver

\* One iteration of the maintenance walk: expired requests are released,
\* then the pipeline of a seated peer is topped up.
LEMMA MaintainAccounts ==
    ASSUME TypeOK, Accounts, NEW c \in Conn, MaintainPeer(c)
    PROVE  /\ Accounts'
           /\ picker'.have = picker.have
           /\ picker'.received = picker.received
  <1> DEFINE late == Expired(c)
             pk == blocks_failed(picker, late)
             ow == [owes EXCEPT ![c] = owes[c] \ late]
             out == late # {} /\ strikes[c] + 1 >= RequestStrikes
  <1>1. late \in SUBSET owes[c]
    BY DEF Expired
  <1>2. Fill(c, pk, ow, Forget(age, c, late), FillPicks(pk, has[c], ow[c], ~out /\ Willing(c)))
    BY DEF MaintainPeer
  <1> HIDE DEF late
  <1>3. Balanced(pk, ow) /\ pk.have = picker.have /\ pk.received = picker.received
    <2>1. Balanced(picker, owes) /\ picker \in PickerType
      BY DEF Accounts, TypeOK
    <2>2. Balanced(pk, ow)
      BY <1>1, <2>1, BalancedRelease
    <2> QED BY <2>1, <2>2, FailedKeeps
  <1>4. \A p \in Conn : p # c => ow[p] = owes[p]
    BY DEF TypeOK
  <1> HIDE DEF pk, ow, out
  <1>5. /\ Balanced(picker', owes') /\ picker'.have = picker.have
        /\ picker'.received = picker.received
        /\ \A p \in Conn : p # c => owes'[p] = owes[p]
    BY <1>2, <1>3, <1>4, FillBalanced
  <1>6. c \in todo /\ todo' = todo \ {c} /\ phase' = phase /\ has' = has
    BY DEF MaintainPeer, peerVars
  <1>7. phase[c] = "seated"
    BY <1>6 DEF Accounts, Seated
  <1>8. \A p \in Conn : phase'[p] # "seated" => owes'[p] = {} /\ has'[p] = {}
    BY <1>5, <1>6, <1>7 DEF Accounts
  <1>9. todo' \subseteq Seated'
    BY <1>6 DEF Accounts, Seated
  <1> QED BY <1>5, <1>8, <1>9 DEF Accounts

\* Every step keeps the accounts, and only on_block can change what is held
\* or received.
LEMMA NextAccounts ==
    ASSUME TypeOK, Accounts, [Next]_vars
    PROVE  /\ Accounts'
           /\ \/ \E c \in Conn : \E x \in Block : Deliver(c, x)
              \/ picker'.have = picker.have /\ picker'.received = picker.received
  <1> DEFINE Quiet == picker'.have = picker.have /\ picker'.received = picker.received
  <1>1. ASSUME NEW c \in Conn, PeerNext(c)
        PROVE  Accounts' /\ ((\E x \in Block : Deliver(c, x)) \/ Quiet)
    <2>1. ASSUME NEW d \in Dest, QueueBitfield(c, d) PROVE Accounts' /\ Quiet
      BY <2>1 DEF QueueBitfield, Unlocked, Accounts, Seated, TypeOK, debtVars, tickVars
    <2>2. CASE RegisterPeer(c)
      BY <2>2 DEF RegisterPeer, Unlocked, Accounts, Seated, TypeOK, debtVars, tickVars
    <2>3. CASE Disconnect(c)
      BY <2>3, DropAccounts DEF Disconnect, DropListed
    <2>4. ASSUME NEW p \in Conn, Evict(c, p) PROVE Accounts' /\ Quiet
      BY <2>4, DropAccounts DEF Evict
    <2>5. CASE MaintainDrop(c)
      BY <2>5, DropAccounts DEF MaintainDrop
    <2>6. CASE \E x \in Block : Deliver(c, x)
      BY <2>6, DeliverAccounts
    <2>7. CASE MaintainPeer(c)
      BY <2>7, MaintainAccounts
    <2> QED BY <1>1, <2>1, <2>2, <2>3, <2>4, <2>5, <2>6, <2>7, MessageAccounts DEF PeerNext
  <1>2. ASSUME NEW idle \in SUBSET Conn, MaintainBegin(idle) PROVE Accounts' /\ Quiet
    BY <1>2 DEF MaintainBegin, Accounts, Seated, peerVars
  <1>3. ASSUME picker' \in PickerType, picker'.inflight = picker.inflight, Quiet,
               picker'.started = picker.started,
               UNCHANGED <<peerVars, debtVars, tickVars>>
        PROVE  Accounts'
    <2>1. Balanced(picker', owes')
      BY <1>3, BalancedElsewhere DEF Accounts, debtVars
    <2> QED BY <1>3, <2>1 DEF Accounts, Seated, peerVars, debtVars, tickVars
  <1>4. ASSUME NEW pr \in PriorityChoices, SetPiecePriorities(pr) PROVE Accounts' /\ Quiet
    <2>1. picker' \in PickerType
      BY <1>4, PrioritiesType, EngineAssumption DEF SetPiecePriorities, TypeOK
    <2>2. Quiet /\ picker'.inflight = picker.inflight /\ picker'.started = picker.started
      BY <1>4 DEF SetPiecePriorities, set_piece_priorities, TypeOK, PickerType
    <2> HIDE DEF Quiet
    <2> QED BY <1>3, <1>4, <2>1, <2>2 DEF SetPiecePriorities
  <1>5. ASSUME NEW m \in ModeChoices, SetMode(m) PROVE Accounts' /\ Quiet
    <2>1. picker' \in PickerType
      BY <1>5, EngineAssumption DEF SetMode, TypeOK, PickerType
    <2>2. Quiet /\ picker'.inflight = picker.inflight /\ picker'.started = picker.started
      BY <1>5 DEF SetMode, TypeOK, PickerType
    <2> HIDE DEF Quiet
    <2> QED BY <1>3, <1>5, <2>1, <2>2 DEF SetMode
  <1>6. CASE CheckDone
    BY <1>6 DEF CheckDone, Accounts, Seated, peerVars, debtVars, tickVars
  <1>7. CASE UNCHANGED vars
    BY <1>7 DEF vars, Accounts, Seated, peerVars, debtVars, tickVars
  <1> QED BY <1>1, <1>2, <1>4, <1>5, <1>6, <1>7 DEF Next

\* At the start nothing is in flight and nobody owes anything.
LEMMA InitAccounts == ASSUME Init PROVE Accounts
  <1>1. PICK held \in Resumed, m \in ModeChoices : picker = NewPicker(held, m)
    BY DEF Init
  <1>2. picker \in PickerType
    BY <1>1, NewPickerType, EngineAssumption
  <1>3. /\ picker.started = {} /\ picker.received = {}
        /\ \A x \in Block : picker.inflight[x] = 0
    BY <1>1 DEF NewPicker
  <1>4. \A x \in Block : OwersIn(owes, x) = {}
    BY DEF Init, OwersIn
  <1>5. Balanced(picker, owes)
    BY <1>2, <1>3, <1>4, FS_EmptySet DEF Balanced, Init
  <1> QED BY <1>5 DEF Accounts, Init

\* The accounts hold in every reachable state.
THEOREM AccountsCorrect == Spec => [](TypeOK /\ Accounts)
  <1>1. Init => TypeOK /\ Accounts
    BY InitAccounts, InitTyped
  <1>2. TypeOK /\ Accounts /\ [Next]_vars => (TypeOK /\ Accounts)'
    BY NextTyped, NextAccounts
  <1> QED BY <1>1, <1>2, PTL DEF Spec

\* For every torrent and any number of peers, the picker's in-flight count
\* of a block is the number of connections that owe it (fill_requests,
\* cancel_elsewhere, maintain_requests, drop_peer and the choke handler).
THEOREM RequestsExact == Spec => []OwedExact
  <1>1. TypeOK /\ Accounts => OwedExact
    BY DEF Accounts, Balanced, OwedExact, Owers, OwersIn
  <1> QED BY <1>1, AccountsCorrect, PTL

\* Nobody ever owes a block that has arrived or whose piece is held, so the
\* duplicate branches of on_block never see a requested block.
THEOREM NoStaleDebt == Spec => []OwedIsMissing
  <1>1. TypeOK /\ Accounts => OwedIsMissing
    BY DEF Accounts, Balanced, OwedIsMissing
  <1> QED BY <1>1, AccountsCorrect, PTL

\* A connection that is not in the table owes nothing and counts nowhere, and
\* a held piece has no progress entry left.
THEOREM BooksAlwaysClosed == Spec => []BooksClosed
  <1>1. TypeOK /\ Accounts => BooksClosed
    BY DEF Accounts, Balanced, BooksClosed
  <1> QED BY <1>1, AccountsCorrect, PTL

\* The three together, for every torrent and any number of peers: requests,
\* debts and progress agree through every handler of the download.
THEOREM RequestsBalance == Spec => []RequestsAccounted
  <1>1. OwedExact /\ OwedIsMissing /\ BooksClosed => RequestsAccounted
    BY DEF RequestsAccounted
  <1> QED BY <1>1, RequestsExact, NoStaleDebt, BooksAlwaysClosed, PTL

-----------------------------------------------------------------------------
(* Contents and blame *)

\* The inductive invariant behind HeldIsGood, SuppliersExact, ToldIsHeld,
\* BannedLeaving and HonestNotSolelyBlamed.  A connection in use has a real
\* destination, so a recorded supplier is never mistaken for none; and what
\* an honest destination supplied is good, which is why it cannot be the
\* only supplier of a piece that fails.
Contents ==
    /\ HeldIsGood
    /\ SuppliersExact
    /\ ToldIsHeld
    /\ BannedLeaving
    /\ \A c \in Conn : phase[c] \in {"attaching", "seated"} => dest[c] \in Dest
    /\ \A x \in Block : suppliers[x] \in Honest => disk[x] = "good"

\* Steps that deliver no block change no content, record no supplier and
\* ban nobody.
LEMMA QuietContents ==
    ASSUME TypeOK, Accounts, Contents,
           picker'.have = picker.have, picker'.received = picker.received,
           disk' = disk, suppliers' = suppliers, banned' = banned,
           ToldIsHeld', BannedLeaving',
           \A c \in Conn : phase'[c] \in {"attaching", "seated"} => dest'[c] \in Dest
    PROVE  Contents'
  BY DEF Contents, HeldIsGood, SuppliersExact

\* drop_peer makes the dropped connection leave for good.
LEMMA DropContents ==
    ASSUME TypeOK, Accounts, Contents, NEW c \in Conn, Unlocked, DropListed(c),
           \A p \in Conn \ {c} : \A t \in Conn : p \in evict[t] => p \in evict'[t]
    PROVE  Contents'
  <1>1. picker'.have = picker.have /\ picker'.received = picker.received
    BY DropAccounts
  <1>2. disk' = disk /\ suppliers' = suppliers /\ banned' = banned /\ dest' = dest
    BY DEF DropListed, DropPeer, peerVars, blameVars
  <1>3. /\ \A p \in Conn \ {c} : phase'[p] = phase[p] /\ told'[p] = told[p]
        /\ phase'[c] # "seated"
        /\ phase'[c] = phase[c] \/ phase'[c] = "gone"
        /\ told'[c] \subseteq told[c]
    BY DEF DropListed, DropPeer, peerVars, TypeOK
  <1>4. ToldIsHeld'
    BY <1>1, <1>3 DEF Contents, ToldIsHeld
  <1>5. BannedLeaving'
    BY <1>2, <1>3 DEF Contents, BannedLeaving, Seated
  <1>6. \A p \in Conn : phase'[p] \in {"attaching", "seated"} => dest'[p] \in Dest
    BY <1>2, <1>3 DEF Contents
  <1> QED BY <1>1, <1>2, <1>4, <1>5, <1>6, QuietContents

\* Every step but on_block's keeps the contents.
LEMMA OtherContents ==
    ASSUME TypeOK, Accounts, Contents, [Next]_vars,
           picker'.have = picker.have, picker'.received = picker.received,
           ~ \E c \in Conn : \E x \in Block : Deliver(c, x)
    PROVE  Contents'
  <1>1. ASSUME NEW c \in Conn, Disconnect(c) PROVE Contents'
    BY <1>1, DropContents DEF Disconnect, DropListed
  <1>2. ASSUME NEW t \in Conn, NEW c \in Conn, Evict(t, c) PROVE Contents'
    <2>1. \A p \in Conn \ {c} : \A u \in Conn : p \in evict[u] => p \in evict'[u]
      BY <1>2 DEF Evict, TypeOK
    <2> QED BY <1>2, <2>1, DropContents DEF Evict
  <1>3. ASSUME NEW c \in Conn, MaintainDrop(c) PROVE Contents'
    BY <1>3, DropContents DEF MaintainDrop
  <1>4. ASSUME NEW c \in Conn, NEW d \in Dest, QueueBitfield(c, d) PROVE Contents'
    <2>1. disk' = disk /\ suppliers' = suppliers /\ banned' = banned /\ evict' = evict
      BY <1>4 DEF QueueBitfield, blameVars
    <2>2. ToldIsHeld'
      BY <1>4 DEF QueueBitfield, Contents, ToldIsHeld, TypeOK
    <2>3. BannedLeaving'
      BY <1>4, <2>1 DEF QueueBitfield, Contents, BannedLeaving, Seated, TypeOK
    <2>4. \A p \in Conn : phase'[p] \in {"attaching", "seated"} => dest'[p] \in Dest
      BY <1>4 DEF QueueBitfield, Contents, TypeOK
    <2> QED BY <2>1, <2>2, <2>3, <2>4, QuietContents
  <1>5. ASSUME NEW c \in Conn, RegisterPeer(c) PROVE Contents'
    <2>1. disk' = disk /\ suppliers' = suppliers /\ banned' = banned /\ evict' = evict
      BY <1>5 DEF RegisterPeer, blameVars
    <2>2. ToldIsHeld'
      BY <1>5 DEF RegisterPeer, Contents, ToldIsHeld
    <2>3. BannedLeaving'
      BY <1>5, <2>1 DEF RegisterPeer, Admissible, Contents, BannedLeaving, Seated, TypeOK
    <2>4. \A p \in Conn : phase'[p] \in {"attaching", "seated"} => dest'[p] \in Dest
      BY <1>5 DEF RegisterPeer, Contents, TypeOK
    <2> QED BY <2>1, <2>2, <2>3, <2>4, QuietContents
  <1>6. ASSUME UNCHANGED <<phase, dest, told, disk, blameVars>>,
               \A t \in Conn : evict[t] \subseteq evict'[t]
        PROVE  Contents'
    <2>1. BannedLeaving'
      BY <1>6 DEF Contents, BannedLeaving, Seated, blameVars
    <2>2. ToldIsHeld'
      BY <1>6 DEF Contents, ToldIsHeld
    <2> QED BY <1>6, <2>1, <2>2, QuietContents DEF Contents, blameVars
  <1>7. ASSUME NEW c \in Conn,
               \/ OnIgnored(c) \/ OnChoke(c) \/ OnUnchoke(c) \/ MaintainPeer(c)
               \/ \E field \in SUBSET Piece : OnBitfield(c, field)
               \/ \E i \in Piece : OnHave(c, i)
        PROVE  Contents'
    <2>1. UNCHANGED <<phase, dest, told, disk, blameVars, evict>>
      BY <1>7 DEF OnIgnored, OnChoke, OnUnchoke, MaintainPeer, OnBitfield, OnHave, peerVars
    <2> QED BY <1>6, <2>1
  <1>8. ASSUME NEW c \in Conn, OnViolation(c) PROVE Contents'
    <2>1. \A t \in Conn : evict[t] \subseteq evict'[t]
      BY <1>8 DEF OnViolation, Receives, TypeOK
    <2> QED BY <1>6, <1>8, <2>1 DEF OnViolation
  <1>9. ASSUME \/ \E idle \in SUBSET Conn : MaintainBegin(idle)
               \/ \E pr \in PriorityChoices : SetPiecePriorities(pr)
               \/ \E m \in ModeChoices : SetMode(m)
               \/ CheckDone \/ UNCHANGED vars
        PROVE  Contents'
    <2>1. UNCHANGED <<phase, dest, told, disk, blameVars, evict>>
      BY <1>9 DEF MaintainBegin, SetPiecePriorities, SetMode, CheckDone, vars, peerVars
    <2> QED BY <1>6, <2>1
  <1> QED BY <1>1, <1>2, <1>3, <1>4, <1>5, <1>7, <1>8, <1>9 DEF Next, PeerNext

\* What a successful write_block leaves on disk, and who it is recorded for.
LEMMA WriteFacts ==
    ASSUME TypeOK, Accounts, Contents, NEW c \in Conn, NEW x \in Block,
           NEW q \in {"good", "bad"}, Writes(c, x, q)
    PROVE  /\ x[1] \notin picker.have /\ dest[c] \in Dest /\ evict[c] = {}
           /\ disk'[x] = q /\ \A y \in Block : y # x => disk'[y] = disk[y]
           /\ dest[c] \in Honest => disk'[x] = "good"
           /\ \A y \in Block : y[1] \in picker.have => disk'[y] = "good"
           /\ \A y \in Block : [suppliers EXCEPT ![x] = dest[c]][y] # NoDest
                               <=> y \in picker.received \cup {x}
           /\ \A y \in Block : [suppliers EXCEPT ![x] = dest[c]][y] \in Honest
                               => disk'[y] = "good"
  <1>1. x[1] \notin picker.have /\ phase[c] = "seated" /\ evict[c] = {}
    BY DEF Writes, Wanting, Settles, Receives
  <1>2. dest[c] \in Dest /\ dest[c] # NoDest
    BY <1>1, EngineAssumption DEF Contents
  <1>3. /\ disk'[x] = q /\ \A y \in Block : y # x => disk'[y] = disk[y]
        /\ dest[c] \in Honest => q = "good"
    BY DEF Writes, TypeOK
  <1>4. \A y \in Block : [suppliers EXCEPT ![x] = dest[c]][y]
                            = IF y = x THEN dest[c] ELSE suppliers[y]
    BY DEF TypeOK
  <1>5. \A y \in Block : y[1] \in picker.have => disk'[y] = "good"
    BY <1>1, <1>3 DEF Contents, HeldIsGood
  <1>6. \A y \in Block : suppliers[y] # NoDest <=> y \in picker.received
    BY DEF Contents, SuppliersExact
  <1>7. \A y \in Block : suppliers[y] \in Honest => disk[y] = "good"
    BY DEF Contents
  <1> QED BY <1>1, <1>2, <1>3, <1>4, <1>5, <1>6, <1>7

\* Every outcome of on_block keeps the contents.
LEMMA DeliverContents ==
    ASSUME TypeOK, Accounts, Contents, NEW c \in Conn, NEW x \in Block, Deliver(c, x)
    PROVE  Contents'
  <1> DEFINE sup == [suppliers EXCEPT ![x] = dest[c]]
  <1>0. NoDest \notin Honest /\ x[1] \in Piece
    BY EngineAssumption, BlockFacts
  <1>1. ASSUME UNCHANGED <<phase, dest, told, banned>>,
               \A t \in Conn : evict[t] \subseteq evict'[t],
               picker.have \subseteq picker'.have
        PROVE  /\ ToldIsHeld' /\ BannedLeaving'
               /\ \A p \in Conn : phase'[p] \in {"attaching", "seated"} => dest'[p] \in Dest
    BY <1>1 DEF Contents, ToldIsHeld, BannedLeaving, Seated
  <1>2. CASE /\ OnSurplusBlock(c, x) \/ OnWriteError(c, x)
             /\ picker'.have = picker.have
             /\ picker'.received = picker.received
    <2>1. UNCHANGED <<phase, dest, told, disk, blameVars, evict>>
      BY <1>2 DEF OnSurplusBlock, OnWriteError
    <2> QED BY <1>1, <1>2, <2>1, QuietContents DEF blameVars
  <1>3. ASSUME NEW q \in {"good", "bad"}, OnBlock(c, x, q) \/ OnVerifyError(c, x, q),
               picker'.have = picker.have, picker'.received = picker.received \cup {x}
        PROVE  Contents'
    <2>1. UNCHANGED <<phase, dest, told, banned, evict>> /\ Writes(c, x, q) /\ suppliers' = sup
      BY <1>3 DEF OnBlock, OnVerifyError
    <2>2. HeldIsGood' /\ SuppliersExact'
      BY <1>3, <2>1, WriteFacts DEF HeldIsGood, SuppliersExact
    <2>3. \A y \in Block : suppliers'[y] \in Honest => disk'[y] = "good"
      BY <2>1, WriteFacts
    <2>4. /\ ToldIsHeld' /\ BannedLeaving'
          /\ \A p \in Conn : phase'[p] \in {"attaching", "seated"} => dest'[p] \in Dest
      BY <1>1, <1>3, <2>1
    <2> QED BY <2>2, <2>3, <2>4 DEF Contents
  <1>4. ASSUME NEW q \in {"good", "bad"}, OnPieceVerified(c, x, q),
               picker'.have = picker.have \cup {x[1]},
               picker'.received = (picker.received \cup {x}) \ BlockOf(x[1])
        PROVE  Contents'
    <2>1. /\ UNCHANGED <<phase, dest, banned, evict>> /\ Writes(c, x, q)
          /\ \A y \in BlockOf(x[1]) : disk'[y] = "good"
          /\ suppliers' = [y \in Block |-> IF y[1] = x[1] THEN NoDest ELSE sup[y]]
          /\ \A p \in Conn : told'[p] \subseteq told[p] \cup {x[1]}
      BY <1>4 DEF OnPieceVerified, CreditSuppliers
    <2>2. HeldIsGood'
      BY <1>4, <2>1, WriteFacts, BlockFacts DEF HeldIsGood
    <2>3. SuppliersExact'
      BY <1>0, <1>4, <2>1, WriteFacts, BlockFacts DEF SuppliersExact
    <2>4. \A y \in Block : suppliers'[y] \in Honest => disk'[y] = "good"
      BY <1>0, <2>1, WriteFacts
    <2>5. ToldIsHeld'
      BY <1>4, <2>1 DEF Contents, ToldIsHeld
    <2>6. /\ BannedLeaving'
          /\ \A p \in Conn : phase'[p] \in {"attaching", "seated"} => dest'[p] \in Dest
      BY <2>1 DEF Contents, BannedLeaving, Seated
    <2> QED BY <2>2, <2>3, <2>4, <2>5, <2>6 DEF Contents
  <1>5. ASSUME NEW q \in {"good", "bad"}, OnPieceFailed(c, x, q),
               picker'.have = picker.have,
               picker'.received = (picker.received \cup {x}) \ BlockOf(x[1])
        PROVE  Contents'
    <2> DEFINE guilty == Culprits(SuppliersOf(x[1], sup))
    <2>1. UNCHANGED <<phase, dest, told>> /\ Writes(c, x, q) /\ BlameSuppliers(c, x[1], sup)
      BY <1>5 DEF OnPieceFailed
    <2>2. /\ suppliers' = [y \in Block |-> IF y[1] = x[1] THEN NoDest ELSE sup[y]]
          /\ banned' = banned \cup guilty
          /\ evict' = [evict EXCEPT ![c] = {p \in Seated : dest[p] \in guilty}]
      BY <2>1 DEF BlameSuppliers
    <2> HIDE DEF guilty
    <2>3. HeldIsGood'
      BY <1>5, <2>1, WriteFacts DEF HeldIsGood
    <2>4. SuppliersExact'
      BY <1>0, <1>5, <2>1, <2>2, WriteFacts, BlockFacts DEF SuppliersExact
    <2>5. \A y \in Block : suppliers'[y] \in Honest => disk'[y] = "good"
      BY <1>0, <2>1, <2>2, WriteFacts
    <2>6. BannedLeaving'
      <3>1. evict[c] = {}
        BY <2>1, WriteFacts
      <3>2. \A t \in Conn : evict[t] \subseteq evict'[t]
        BY <2>2, <3>1 DEF TypeOK
      <3>3. \A p \in Seated : dest[p] \in guilty => p \in evict'[c]
        BY <2>2 DEF TypeOK
      <3>4. Seated' = Seated /\ dest' = dest
        BY <2>1 DEF Seated
      <3> QED BY <2>2, <3>2, <3>3, <3>4 DEF Contents, BannedLeaving
    <2>7. /\ ToldIsHeld'
          /\ \A p \in Conn : phase'[p] \in {"attaching", "seated"} => dest'[p] \in Dest
      BY <1>5, <2>1 DEF Contents, ToldIsHeld
    <2> QED BY <2>3, <2>4, <2>5, <2>6, <2>7 DEF Contents
  <1> QED BY <1>2, <1>3, <1>4, <1>5, DeliverAccounts

\* Nothing is held at the start that is not good on disk (the engine starts
\* from the pieces resume has verified), and nobody has supplied anything.
LEMMA InitContents == ASSUME Init PROVE Contents
  <1>1. PICK held \in Resumed :
            /\ \E m \in ModeChoices : picker = NewPicker(held, m)
            /\ disk = [x \in Block |-> IF x[1] \in held THEN "good" ELSE "none"]
    BY DEF Init
  <1>2. picker.have = held /\ picker.received = {}
    BY <1>1 DEF NewPicker
  <1>3. HeldIsGood /\ SuppliersExact
    BY <1>1, <1>2 DEF HeldIsGood, SuppliersExact, Init
  <1>4. ToldIsHeld /\ BannedLeaving
    BY DEF Init, ToldIsHeld, BannedLeaving, Seated
  <1> QED BY <1>3, <1>4, EngineAssumption DEF Contents, Init

\* The contents hold in every reachable state, beside the accounts.
THEOREM ContentsCorrect == Spec => [](TypeOK /\ Accounts /\ Contents)
  <1>1. Init => TypeOK /\ Accounts /\ Contents
    BY InitAccounts, InitTyped, InitContents
  <1>2. TypeOK /\ Accounts /\ Contents /\ [Next]_vars => (TypeOK /\ Accounts /\ Contents)'
    <2> SUFFICES ASSUME TypeOK, Accounts, Contents, [Next]_vars
                 PROVE  TypeOK' /\ Accounts' /\ Contents'
      OBVIOUS
    <2>1. CASE \E c \in Conn : \E x \in Block : Deliver(c, x)
      BY <2>1, NextTyped, NextAccounts, DeliverContents
    <2>2. CASE ~ \E c \in Conn : \E x \in Block : Deliver(c, x)
      BY <2>2, NextTyped, NextAccounts, OtherContents
    <2> QED BY <2>1, <2>2
  <1> QED BY <1>1, <1>2, PTL DEF Spec

\* Verified bytes are never overwritten: every block of a held piece is good
\* on disk, whatever peers send and however late (on_block).
THEOREM VerifiedStaysGood == Spec => []HeldIsGood
  <1>1. TypeOK /\ Accounts /\ Contents => HeldIsGood
    BY DEF Contents
  <1> QED BY <1>1, ContentsCorrect, PTL

\* The suppliers on record are those of the received blocks whose piece has
\* no verdict yet, so blame_suppliers and credit_suppliers see them all.
THEOREM SuppliersRecorded == Spec => []SuppliersExact
  <1>1. TypeOK /\ Accounts /\ Contents => SuppliersExact
    BY DEF Contents
  <1> QED BY <1>1, ContentsCorrect, PTL

\* A seated connection of a banned destination is always on some reader
\* thread's list of drops: a ban can be outrun neither by register_peer nor
\* by a second ban.
THEOREM BannedAlwaysLeaving == Spec => []BannedLeaving
  <1>1. TypeOK /\ Accounts /\ Contents => BannedLeaving
    BY DEF Contents
  <1> QED BY <1>1, ContentsCorrect, PTL

\* No peer is told of a piece that is not held: a held piece is never given
\* up again, since reset_piece only meets pieces under test.
THEOREM AnnouncedIsHeld == Spec => []ToldIsHeld
  <1>1. TypeOK /\ Accounts /\ Contents => ToldIsHeld
    BY DEF Contents
  <1> QED BY <1>1, ContentsCorrect, PTL

\* No peer is promised bytes that are not verified on disk: what we announce is
\* held and what is held is good, whatever peers send (on_block, finish_attach).
THEOREM PromisesKept == Spec => []PromisesGood
  <1>1. HeldIsGood /\ ToldIsHeld => PromisesGood
    BY DEF PromisesGood
  <1> QED BY <1>1, VerifiedStaysGood, AnnouncedIsHeld, PTL

\* blame_suppliers cannot ban a destination that only sends good bytes as
\* the sole supplier of a failed piece: it takes SUSPICION_LIMIT failures in
\* company.
THEOREM HonestSpared == Spec => HonestNotSolelyBlamed
  <1>1. TypeOK /\ Accounts /\ Contents /\ [Next]_vars
        => [\A d \in Honest : d \in banned' \ banned => suspicion[d] + 1 >= SuspicionLimit]_vars
    <2> SUFFICES ASSUME TypeOK, Accounts, Contents, [Next]_vars,
                        NEW d \in Honest, d \in banned', d \notin banned
                 PROVE  suspicion[d] + 1 >= SuspicionLimit
      OBVIOUS
    <2>1. PICK c \in Conn, x \in Block, q \in {"good", "bad"} : OnPieceFailed(c, x, q)
      <3>1. CASE \E c \in Conn : \E x \in Block : Deliver(c, x)
        BY <3>1 DEF Deliver, OnSurplusBlock, OnWriteError, OnBlock, OnVerifyError,
                    OnPieceVerified, blameVars
      <3>2. CASE ~ \E c \in Conn : \E x \in Block : Deliver(c, x)
        <4>1. banned' = banned
          <5>1. ASSUME NEW c \in Conn, PeerNext(c) PROVE banned' = banned
            <6>1. CASE \/ \E e \in Dest : QueueBitfield(c, e)
                       \/ RegisterPeer(c) \/ Disconnect(c)
                       \/ \E p \in Conn : Evict(c, p)
                       \/ MaintainDrop(c) \/ MaintainPeer(c)
              BY <6>1 DEF QueueBitfield, RegisterPeer, Disconnect, Evict, MaintainDrop, DropListed,
                          DropPeer, MaintainPeer, blameVars
            <6>2. CASE \/ OnIgnored(c) \/ OnViolation(c) \/ OnChoke(c) \/ OnUnchoke(c)
                       \/ \E field \in SUBSET Piece : OnBitfield(c, field)
                       \/ \E i \in Piece : OnHave(c, i)
              BY <6>2 DEF OnIgnored, OnViolation, OnBitfield, OnHave, OnChoke, OnUnchoke, DropPeer,
                          blameVars
            <6> QED BY <3>2, <5>1, <6>1, <6>2, Zenon DEF PeerNext
          <5> QED BY <5>1 DEF Next, vars, MaintainBegin, SetPiecePriorities, SetMode, CheckDone,
                      blameVars
        <4> QED BY <4>1
      <3> QED BY <3>1, <3>2
    <2> DEFINE sup == [suppliers EXCEPT ![x] = dest[c]]
               blamed == SuppliersOf(x[1], sup)
    <2>2. /\ Writes(c, x, q) /\ \E y \in BlockOf(x[1]) : disk'[y] # "good"
          /\ banned' = banned \cup Culprits(blamed)
      BY <2>1 DEF OnPieceFailed, BlameSuppliers
    <2>3. d \in Culprits(blamed) /\ d \in Dest /\ x[1] \in Piece
      BY <2>2, EngineAssumption, BlockFacts
    <2>4. CASE Cardinality(blamed) = 1
      <3>1. PICK y \in BlockOf(x[1]) : disk'[y] # "good"
        BY <2>2
      <3>2. y \in Block
        BY <2>3, <3>1, BlockFacts
      <3>3. y \in picker.received \cup {x}
        <4>1. PieceFull(PickerAfterWrite(c, x), x[1]) /\ x \in owes[c]
          BY <2>1 DEF OnPieceFailed, Writes, Wanting
        <4>2. PickerAfterWrite(c, x).received = picker.received \cup {x}
          BY <4>1, BalancedWrite DEF Accounts
        <4> QED BY <3>1, <4>1, <4>2 DEF PieceFull
      <3>4. sup[y] # NoDest /\ sup[y] \notin Honest
        BY <2>2, <3>1, <3>2, <3>3, WriteFacts
      <3>5. sup[y] \in blamed /\ d \in blamed
        BY <2>3, <2>4, <3>1, <3>4 DEF SuppliersOf, Culprits
      <3>6. blamed = {d}
        <4>1. IsFiniteSet(BlockOf(x[1]))
          BY <2>3, BlockOfFinite
        <4>2. IsFiniteSet({sup[z] : z \in BlockOf(x[1])})
          <5> DEFINE f == [z \in BlockOf(x[1]) |-> sup[z]]
                     T == {sup[z] : z \in BlockOf(x[1])}
          <5>1. f \in Surjection(BlockOf(x[1]), T)
            BY DEF Surjection
          <5> QED BY <4>1, <5>1, FS_Surjection
        <4>3. IsFiniteSet(blamed)
          BY <4>2, FS_Difference DEF SuppliersOf
        <4> QED BY <2>4, <3>5, <4>3, FS_Singleton
      <3> QED BY <3>4, <3>5, <3>6
    <2>5. CASE Cardinality(blamed) # 1
      <3>1. d \in blamed /\ Suspected(blamed)[d] >= SuspicionLimit
        BY <2>3, <2>5 DEF Culprits
      <3> QED BY <2>3, <3>1 DEF Suspected
    <2> QED BY <2>4, <2>5
  <1> QED BY <1>1, ContentsCorrect, PTL DEF Spec, HonestNotSolelyBlamed

-----------------------------------------------------------------------------
(* Counts kept by hand *)

\* What rarest-first and completion look at stays as it is.
Kept(pk, new) ==
    new.have = pk.have /\ new.avail = pk.avail /\ new.priority = pk.priority /\ new.missing = pk.missing

DepthKept(ow) == \A c \in Conn : Cardinality(ow[c]) <= PipelineDepth

\* Requests come and go without touching either.
LEMMA RequestsKeep ==
    ASSUME NEW pk \in PickerType, NEW S
    PROVE  Kept(pk, blocks_failed(pk, S)) /\ Kept(pk, MarkPicked(pk, S))
  BY DEF Kept, blocks_failed, MarkPicked, PickerType

LEMMA WriteKeeps ==
    ASSUME TypeOK, NEW c \in Conn, NEW x \in Block
    PROVE  Kept(picker, PickerAfterWrite(c, x))
  <1> DEFINE low == IF x[1] \in picker.started
                    THEN Monus(picker.inflight[x], Cardinality(Cancelled(c, x))) ELSE picker.inflight[x]
             mid == [picker EXCEPT !.inflight = [picker.inflight EXCEPT ![x] = low]]
  <1> HIDE DEF low
  <1>1. Kept(picker, mid) /\ mid.have = picker.have
    BY DEF TypeOK, PickerType, Kept
  <1>2. mid \in [have : SUBSET Piece, started : SUBSET Piece, received : SUBSET Block,
                 inflight : {mid.inflight}, avail : [Piece -> Nat], priority : [Piece -> 0 .. 2],
                 missing : Nat, mode : Mode]
    BY DEF TypeOK, PickerType
  <1>3. PickerAfterWrite(c, x) = block_received(mid, x)
    BY DEF PickerAfterWrite, low
  <1> HIDE DEF mid
  <1>4. Kept(mid, block_received(mid, x))
    BY <1>2 DEF Kept, block_received
  <1> QED BY <1>1, <1>3, <1>4 DEF Kept

\* Owing less keeps a pipeline within its depth.
LEMMA LessOwed ==
    ASSUME NEW S \in SUBSET Block, NEW T \in SUBSET S
    PROVE  IsFiniteSet(S) /\ Cardinality(S) \in Nat /\ Cardinality(T) <= Cardinality(S)
                /\ Cardinality(T) \in Nat
  BY BlockFinite, FS_Subset, FS_CardinalityType

LEMMA DepthShrinks ==
    ASSUME NEW ow \in [Conn -> SUBSET Block], NEW less \in [Conn -> SUBSET Block], DepthKept(ow),
           \A c \in Conn : less[c] \subseteq ow[c]
    PROVE  DepthKept(less)
  <1> SUFFICES ASSUME NEW c \in Conn PROVE Cardinality(less[c]) <= PipelineDepth
    BY DEF DepthKept
  <1>1. ow[c] \in SUBSET Block /\ less[c] \in SUBSET ow[c] /\ Cardinality(ow[c]) <= PipelineDepth
    BY DEF DepthKept
  <1> QED BY <1>1, LessOwed, EngineAssumption

\* fill_requests tops a pipeline up to its depth and no further.
LEMMA FillKeeps ==
    ASSUME NEW c \in Conn, NEW pk \in PickerType, NEW ow \in [Conn -> SUBSET Block], DepthKept(ow),
           NEW ages, NEW field, NEW willing,
           Fill(c, pk, ow, ages, FillPicks(pk, field, ow[c], willing))
    PROVE  Kept(pk, picker') /\ DepthKept(owes')
  <1> DEFINE picks == FillPicks(pk, field, ow[c], willing)
             n == Cardinality(ow[c])
  <1>1. picks \in SUBSET Block
    BY FillPicksOfferable
  <1>2. IsFiniteSet(ow[c]) /\ n \in Nat /\ n <= PipelineDepth
    BY LessOwed DEF DepthKept
  <1>3. IsFiniteSet(picks) /\ Cardinality(picks) \in Nat /\ Cardinality(picks) <= PipelineDepth - n
    <2>1. CASE willing /\ n < PipelineDepth
      <3>1. picks = Picked(pk, field, PipelineDepth - n)
        BY <2>1 DEF FillPicks
      <3>2. PipelineDepth - n \in Nat
        BY <1>2, <2>1, EngineAssumption
      <3> HIDE DEF picks, n
      <3> QED BY <3>1, <3>2, PickedBound, FS_CardinalityType
    <2>2. CASE ~(willing /\ n < PipelineDepth)
      <3>1. picks = {}
        BY <2>2 DEF FillPicks
      <3>2. IsFiniteSet(picks) /\ Cardinality(picks) = 0
        BY <3>1, FS_EmptySet
      <3> HIDE DEF picks, n
      <3> QED BY <1>2, <3>2, EngineAssumption
    <2> QED BY <2>1, <2>2
  <1>4. Fill(c, pk, ow, ages, picks)
    OBVIOUS
  <1> HIDE DEF picks, n
  <1>5. Kept(pk, picker')
    <2>1. MarkPicked(pk, picks) \in PickerType
      BY <1>1, PickType
    <2> QED BY <1>4, <2>1, RequestsKeep DEF Fill, Kept
  <1>6. owes' = [ow EXCEPT ![c] = ow[c] \cup picks]
    BY <1>4 DEF Fill
  <1>7. Cardinality(ow[c] \cup picks) <= PipelineDepth
    <2>1. Cardinality(ow[c] \cup picks) = n + Cardinality(picks) - Cardinality(ow[c] \cap picks)
      BY <1>2, <1>3, FS_Union DEF n
    <2>2. Cardinality(ow[c] \cap picks) \in Nat
      <3>1. IsFiniteSet(ow[c] \cap picks)
        BY <1>2, FS_Intersection
      <3> QED BY <3>1, FS_CardinalityType
    <2> QED BY <1>2, <1>3, <2>1, <2>2, EngineAssumption
  <1>8. DepthKept(owes')
    BY <1>6, <1>7 DEF DepthKept
  <1> QED BY <1>5, <1>8

LEMMA RefillKeeps ==
    ASSUME NEW c \in Conn, NEW pk \in PickerType, NEW ow \in [Conn -> SUBSET Block], DepthKept(ow),
           NEW ages, Refill(c, pk, ow, ages)
    PROVE  Kept(pk, picker') /\ DepthKept(owes')
  BY FillKeeps DEF Refill

LEMMA InterestKeeps ==
    ASSUME NEW c \in Conn, NEW pk \in PickerType, NEW field, TypeOK, DepthKept(owes),
           UpdateInterest(c, pk, field)
    PROVE  Kept(pk, picker') /\ DepthKept(owes')
  BY FillKeeps DEF UpdateInterest, TypeOK

\* How many have a piece when one connection's piece set changes.
LEMMA HoldersCount ==
    ASSUME NEW h \in [Conn -> SUBSET Piece], NEW c \in Conn, NEW field \in SUBSET Piece, NEW i \in Piece
    PROVE  LET old == Cardinality({p \in Conn : i \in h[p]})
               new == Cardinality({p \in Conn : i \in [h EXCEPT ![c] = field][p]})
           IN  /\ old \in Nat /\ new \in Nat /\ (i \in h[c] => old > 0)
               /\ new = (IF i \in h[c] THEN Monus(old, 1) ELSE old) + (IF i \in field THEN 1 ELSE 0)
  <1> DEFINE S == {p \in Conn : i \in h[p]}
             rest == S \ {c}
             T == {p \in Conn : i \in [h EXCEPT ![c] = field][p]}
             old == Cardinality(S)
             new == Cardinality(T)
  <1> SUFFICES /\ old \in Nat /\ new \in Nat /\ (i \in h[c] => old > 0)
               /\ new = (IF i \in h[c] THEN Monus(old, 1) ELSE old) + (IF i \in field THEN 1 ELSE 0)
    OBVIOUS
  <1>1. IsFiniteSet(S)
    BY EngineAssumption, FS_Subset
  <1>2. c \in S <=> i \in h[c]
    OBVIOUS
  <1>3. T = IF i \in field THEN rest \cup {c} ELSE rest
    OBVIOUS
  <1>4. c \notin rest
    OBVIOUS
  <1> HIDE DEF S, T
  <1>5. old \in Nat /\ (c \in S => old # 0)
    BY <1>1, FS_CardinalityType, FS_EmptySet
  <1>6. IsFiniteSet(rest) /\ Cardinality(rest) = IF c \in S THEN old - 1 ELSE old
    BY <1>1, FS_RemoveElement
  <1> HIDE DEF rest
  <1>7. new = IF i \in field THEN Cardinality(rest) + 1 ELSE Cardinality(rest)
    BY <1>3, <1>4, <1>6, FS_AddElement
  <1> HIDE DEF old, new
  <1> QED BY <1>2, <1>5, <1>6, <1>7 DEF Monus

\* Steps that change no piece set and no count.
LEMMA QuietCounts ==
    ASSUME TypeOK, CountsExact, Kept(picker, picker'), has' = has, DepthKept(owes')
    PROVE  CountsExact'
  <1>1. Wanted(picker') = Wanted(picker)
    BY DEF Kept, Wanted, wants
  <1> QED BY <1>1 DEF CountsExact, MissingExact, AvailabilityExact, PipelineBound, Kept, DepthKept

\* A piece set changes: the counts follow it, down and up.
LEMMA FieldCounts ==
    ASSUME TypeOK, CountsExact, NEW c \in Conn, NEW field \in SUBSET Piece,
           has' = [has EXCEPT ![c] = field], DepthKept(owes'),
           picker'.have = picker.have, picker'.priority = picker.priority, picker'.missing = picker.missing,
           \A i \in Piece : picker'.avail[i] =
               (IF i \in has[c] THEN Monus(picker.avail[i], 1) ELSE picker.avail[i])
                   + (IF i \in field THEN 1 ELSE 0)
    PROVE  CountsExact'
  <1>1. MissingExact'
    <2>1. Wanted(picker') = Wanted(picker)
      BY DEF Wanted, wants
    <2> QED BY <2>1 DEF CountsExact, MissingExact
  <1>2. AvailabilityExact'
    <2> SUFFICES ASSUME NEW i \in Piece
                 PROVE  picker'.avail[i] = Cardinality({p \in Conn : i \in has'[p]})
      BY DEF AvailabilityExact
    <2>1. has \in [Conn -> SUBSET Piece]
      BY DEF TypeOK
    <2>2. picker.avail[i] = Cardinality({p \in Conn : i \in has[p]})
      BY DEF CountsExact, AvailabilityExact
    <2> QED BY <2>1, <2>2, HoldersCount
  <1> QED BY <1>1, <1>2 DEF CountsExact, PipelineBound, DepthKept

LEMMA DropCounts ==
    ASSUME TypeOK, CountsExact, NEW c \in Conn, DropListed(c)
    PROVE  CountsExact'
  <1>1. CASE DropPeer(c)
    <2> DEFINE mid == remove_bitfield(picker, has[c])
    <2>1. mid \in PickerType
      BY BitfieldType DEF TypeOK
    <2>2. /\ mid.have = picker.have /\ mid.priority = picker.priority /\ mid.missing = picker.missing
          /\ \A i \in Piece : mid.avail[i] = IF i \in has[c] THEN Monus(picker.avail[i], 1) ELSE picker.avail[i]
      BY DEF remove_bitfield, TypeOK, PickerType
    <2>3. Kept(mid, picker')
      BY <1>1, <2>1, RequestsKeep DEF DropPeer
    <2> HIDE DEF mid
    <2>4. \A i \in Piece : mid.avail[i] \in Nat
      BY <2>1 DEF PickerType
    <2>5. has' = [has EXCEPT ![c] = {}] /\ {} \in SUBSET Piece
      BY <1>1 DEF DropPeer
    <2>6. DepthKept(owes')
      <3>1. owes \in [Conn -> SUBSET Block] /\ owes' = [owes EXCEPT ![c] = {}] /\ DepthKept(owes)
        BY <1>1 DEF DropPeer, TypeOK, CountsExact, PipelineBound, DepthKept
      <3> QED BY <3>1, DepthShrinks
    <2>7. \A i \in Piece : picker'.avail[i] =
               (IF i \in has[c] THEN Monus(picker.avail[i], 1) ELSE picker.avail[i])
                   + (IF i \in {} THEN 1 ELSE 0)
      BY <2>2, <2>3, <2>4 DEF Kept
    <2>8. picker'.have = picker.have /\ picker'.priority = picker.priority /\ picker'.missing = picker.missing
      BY <2>2, <2>3 DEF Kept
    <2> DEFINE field == {}
    <2>9. field \in SUBSET Piece /\ has' = [has EXCEPT ![c] = field]
          /\ \A i \in Piece : picker'.avail[i] =
               (IF i \in has[c] THEN Monus(picker.avail[i], 1) ELSE picker.avail[i])
                   + (IF i \in field THEN 1 ELSE 0)
      BY <2>5, <2>7
    <2> HIDE DEF field
    <2> QED BY <2>6, <2>8, <2>9, FieldCounts
  <1>2. CASE UNCHANGED <<picker, peerVars, debtVars, disk, blameVars, todo, done>>
    BY <1>2, QuietCounts DEF peerVars, debtVars, Kept, CountsExact, PipelineBound, DepthKept
  <1> QED BY <1>1, <1>2 DEF DropListed

\* Bitfields and haves, the only messages that change a piece set.
LEMMA FieldMessageCounts ==
    ASSUME TypeOK, CountsExact, NEW c \in Conn,
           (\E field \in SUBSET Piece : OnBitfield(c, field)) \/ (\E i \in Piece : OnHave(c, i))
    PROVE  CountsExact'
  <1>0. DepthKept(owes) /\ picker \in PickerType /\ has[c] \in SUBSET Piece
        /\ \A i \in Piece : picker.avail[i] \in Nat
    BY DEF TypeOK, CountsExact, PipelineBound, DepthKept, PickerType
  <1>1. ASSUME NEW field \in SUBSET Piece, OnBitfield(c, field) PROVE CountsExact'
    <2> DEFINE mid == remove_bitfield(picker, has[c])
               new == add_bitfield(mid, field)
    <2>1. mid \in PickerType
      BY <1>0, BitfieldType
    <2>2. new \in PickerType
      BY <2>1, BitfieldType
    <2>3. /\ mid.have = picker.have /\ mid.priority = picker.priority /\ mid.missing = picker.missing
          /\ \A i \in Piece : mid.avail[i] = IF i \in has[c] THEN Monus(picker.avail[i], 1) ELSE picker.avail[i]
      BY <1>0 DEF remove_bitfield, PickerType
    <2> HIDE DEF mid
    <2>4. /\ new.have = mid.have /\ new.priority = mid.priority /\ new.missing = mid.missing
          /\ \A i \in Piece : new.avail[i] = mid.avail[i] + (IF i \in field THEN 1 ELSE 0)
      BY <2>1 DEF add_bitfield, PickerType
    <2>5. UpdateInterest(c, new, field) /\ has' = [has EXCEPT ![c] = field]
      BY <1>1 DEF OnBitfield, mid
    <2> HIDE DEF new
    <2>6. Kept(new, picker') /\ DepthKept(owes')
      BY <1>0, <2>2, <2>5, InterestKeeps
    <2>7. picker'.have = picker.have /\ picker'.priority = picker.priority /\ picker'.missing = picker.missing
      BY <2>3, <2>4, <2>6 DEF Kept
    <2>8. \A i \in Piece : picker'.avail[i] =
               (IF i \in has[c] THEN Monus(picker.avail[i], 1) ELSE picker.avail[i])
                   + (IF i \in field THEN 1 ELSE 0)
      BY <2>3, <2>4, <2>6 DEF Kept
    <2> QED BY <2>5, <2>6, <2>7, <2>8, FieldCounts
  <1>2. ASSUME NEW i \in Piece, OnHave(c, i) PROVE CountsExact'
    <2> DEFINE new == add_bitfield(picker, {i})
               field == has[c] \cup {i}
    <2>1. new \in PickerType /\ field \in SUBSET Piece
      BY <1>0, BitfieldType
    <2>2. /\ new.have = picker.have /\ new.priority = picker.priority /\ new.missing = picker.missing
          /\ \A j \in Piece : new.avail[j] = IF j = i THEN picker.avail[j] + 1 ELSE picker.avail[j]
      BY <1>0 DEF add_bitfield, PickerType
    <2>3. UpdateInterest(c, new, field) /\ has' = [has EXCEPT ![c] = field] /\ i \notin has[c]
      BY <1>2 DEF OnHave
    <2> HIDE DEF new
    <2>4. Kept(new, picker') /\ DepthKept(owes')
      BY <1>0, <2>1, <2>3, InterestKeeps
    <2>5. \A j \in Piece : j \in has[c] => picker.avail[j] > 0
      <3>1. has \in [Conn -> SUBSET Piece] /\ \A j \in Piece : picker.avail[j] = Cardinality({p \in Conn : j \in has[p]})
        BY DEF TypeOK, CountsExact, AvailabilityExact
      <3> SUFFICES ASSUME NEW j \in Piece, j \in has[c] PROVE picker.avail[j] > 0
        OBVIOUS
      <3> DEFINE S == {p \in Conn : j \in has[p]}
      <3>2. S \in SUBSET Conn /\ c \in S /\ picker.avail[j] = Cardinality(S)
        BY <3>1
      <3> HIDE DEF S
      <3>3. IsFiniteSet(S)
        BY <3>2, EngineAssumption, FS_Subset
      <3>4. Cardinality(S) \in Nat /\ Cardinality(S) # 0
        BY <3>2, <3>3, FS_CardinalityType, FS_EmptySet
      <3> QED BY <3>2, <3>4
    <2>6. \A j \in Piece : picker'.avail[j] =
               (IF j \in has[c] THEN Monus(picker.avail[j], 1) ELSE picker.avail[j])
                   + (IF j \in field THEN 1 ELSE 0)
      BY <1>0, <2>2, <2>3, <2>4, <2>5 DEF Kept, Monus
    <2> HIDE DEF field
    <2>7. picker'.have = picker.have /\ picker'.priority = picker.priority /\ picker'.missing = picker.missing
      BY <2>2, <2>4 DEF Kept
    <2> QED BY <2>1, <2>3, <2>4, <2>6, <2>7, FieldCounts
  <1> QED BY <1>1, <1>2

\* A verdict on a piece that is not held: a verified one is no longer wanted,
\* a failed one counts as before.
LEMMA VerdictCounts ==
    ASSUME NEW pk \in PickerType, NEW i \in Piece, i \notin pk.have, pk.missing = Cardinality(Wanted(pk))
    PROVE  /\ set_have(pk, i).missing = Cardinality(Wanted(set_have(pk, i)))
           /\ set_have(pk, i).avail = pk.avail
           /\ Kept(pk, reset_piece(pk, i))
  <1> DEFINE new == set_have(pk, i)
             W == Wanted(pk)
             V == Wanted(new)
  <1>1. /\ new.have = pk.have \cup {i} /\ new.avail = pk.avail /\ new.priority = pk.priority
        /\ new.missing = IF wants(pk, i) THEN Monus(pk.missing, 1) ELSE pk.missing
    BY DEF set_have, DropProgress, PickerType
  <1>2. Kept(pk, reset_piece(pk, i))
    BY DEF reset_piece, DropProgress, PickerType, Kept
  <1> HIDE DEF new
  <1>3. V = W \ {i} /\ (i \in W <=> wants(pk, i))
    BY <1>1 DEF Wanted, wants
  <1>4. IsFiniteSet(W) /\ Cardinality(W) \in Nat
    BY WantedFinite
  <1> HIDE DEF W, V
  <1>5. Cardinality(V) = IF i \in W THEN Cardinality(W) - 1 ELSE Cardinality(W)
    BY <1>3, <1>4, FS_RemoveElement
  <1>6. i \in W => Cardinality(W) # 0
    BY <1>4, FS_EmptySet
  <1>7. pk.missing = Cardinality(W)
    BY DEF W
  <1>8. new.missing = Cardinality(V)
    BY <1>1, <1>3, <1>4, <1>5, <1>6, <1>7 DEF Monus
  <1> QED BY <1>1, <1>2, <1>8 DEF new, V

LEMMA DeliverCounts ==
    ASSUME TypeOK, CountsExact, NEW c \in Conn, NEW x \in Block, Deliver(c, x)
    PROVE  CountsExact'
  <1> DEFINE pw == PickerAfterWrite(c, x)
             ow == OwedAfterWrite(c, x)
  <1>1. /\ DepthKept(owes) /\ picker \in PickerType /\ owes \in [Conn -> SUBSET Block] /\ x[1] \in Piece
        /\ MissingExact
    BY BlockFacts DEF TypeOK, CountsExact, PipelineBound, DepthKept
  <1>2. Owed(c, x) \in [Conn -> SUBSET Block] /\ DepthKept(Owed(c, x))
    <2>1. Owed(c, x) \in [Conn -> SUBSET Block] /\ \A p \in Conn : Owed(c, x)[p] \subseteq owes[p]
      BY <1>1 DEF Owed
    <2> QED BY <1>1, <2>1, DepthShrinks
  <1>3. ow \in [Conn -> SUBSET Block] /\ DepthKept(ow)
    <2>1. ow \in [Conn -> SUBSET Block] /\ \A p \in Conn : ow[p] \subseteq owes[p]
      BY <1>1 DEF OwedAfterWrite, CancelElsewhere
    <2> HIDE DEF ow
    <2> QED BY <1>1, <2>1, DepthShrinks
  <1>4. pw \in PickerType /\ Kept(picker, pw)
    BY WriteTyped, WriteKeeps
  <1>5. pw.missing = Cardinality(Wanted(pw))
    <2>1. Wanted(pw) = Wanted(picker)
      BY <1>4 DEF Kept, Wanted, wants
    <2> QED BY <1>1, <1>4, <2>1 DEF Kept, MissingExact
  <1>6. ASSUME OnSurplusBlock(c, x) \/ OnWriteError(c, x) PROVE CountsExact'
    <2>1. PICK pk \in {picker, blocks_failed(picker, {x})} : Refill(c, pk, Owed(c, x), Forget(age, c, {x}))
      BY <1>6 DEF OnSurplusBlock, OnWriteError
    <2>2. pk \in PickerType /\ Kept(picker, pk)
      BY <1>1, FailedType, RequestsKeep DEF Kept
    <2>3. Kept(pk, picker') /\ DepthKept(owes')
      BY <1>2, <2>1, <2>2, RefillKeeps
    <2>4. has' = has
      BY <1>6 DEF OnSurplusBlock, OnWriteError
    <2>5. Kept(picker, picker')
      BY <2>2, <2>3 DEF Kept
    <2> QED BY <2>3, <2>4, <2>5, QuietCounts
  <1> HIDE DEF pw, ow
  <1>7. ASSUME NEW q \in {"good", "bad"}, OnBlock(c, x, q) PROVE CountsExact'
    BY <1>3, <1>4, <1>7, QuietCounts DEF OnBlock, pw, ow
  <1>8. ASSUME NEW q \in {"good", "bad"}, OnVerifyError(c, x, q) PROVE CountsExact'
    <2>1. Refill(c, pw, ow, AgesAfterWrite(c, x)) /\ has' = has
      BY <1>8 DEF OnVerifyError, pw, ow
    <2>2. Kept(pw, picker') /\ DepthKept(owes')
      BY <1>3, <1>4, <2>1, RefillKeeps
    <2>3. Kept(picker, picker')
      BY <1>4, <2>2 DEF Kept
    <2> QED BY <2>1, <2>2, <2>3, QuietCounts
  <1>9. ASSUME NEW q \in {"good", "bad"}, OnPieceFailed(c, x, q) PROVE CountsExact'
    <2> DEFINE new == reset_piece(pw, x[1])
    <2>1. Refill(c, new, ow, AgesAfterWrite(c, x)) /\ has' = has /\ x[1] \notin pw.have
      BY <1>9 DEF OnPieceFailed, PieceFull, pw, ow
    <2>2. new \in PickerType /\ Kept(pw, new)
      BY <1>1, <1>4, <1>5, <2>1, VerdictType, VerdictCounts
    <2> HIDE DEF new
    <2>3. Kept(new, picker') /\ DepthKept(owes')
      BY <1>3, <2>1, <2>2, RefillKeeps
    <2>4. Kept(picker, picker')
      BY <1>4, <2>2, <2>3 DEF Kept
    <2> QED BY <2>1, <2>3, <2>4, QuietCounts
  <1>10. ASSUME NEW q \in {"good", "bad"}, OnPieceVerified(c, x, q) PROVE CountsExact'
    <2> DEFINE new == set_have(pw, x[1])
    <2>1. Refill(c, new, ow, AgesAfterWrite(c, x)) /\ has' = has /\ x[1] \notin pw.have
      BY <1>10 DEF OnPieceVerified, PieceFull, pw, ow
    <2>2. new \in PickerType /\ new.missing = Cardinality(Wanted(new)) /\ new.avail = pw.avail
      BY <1>1, <1>4, <1>5, <2>1, VerdictType, VerdictCounts
    <2> HIDE DEF new
    <2>3. Kept(new, picker') /\ DepthKept(owes')
      BY <1>3, <2>1, <2>2, RefillKeeps
    <2>4. Wanted(picker') = Wanted(new)
      BY <2>3 DEF Kept, Wanted, wants
    <2>5. MissingExact'
      BY <2>2, <2>3, <2>4 DEF Kept, MissingExact
    <2>6. AvailabilityExact'
      BY <1>4, <2>1, <2>2, <2>3 DEF Kept, CountsExact, AvailabilityExact
    <2> QED BY <2>3, <2>5, <2>6 DEF CountsExact, PipelineBound, DepthKept
  <1> QED BY <1>6, <1>7, <1>8, <1>9, <1>10 DEF Deliver

\* Every other step.
LEMMA NextCounts == ASSUME TypeOK, CountsExact, [Next]_vars PROVE CountsExact'
  <1>0. /\ DepthKept(owes) /\ picker \in PickerType /\ owes \in [Conn -> SUBSET Block]
        /\ Kept(picker, picker)
    BY DEF TypeOK, CountsExact, PipelineBound, DepthKept, Kept
  <1>1. ASSUME UNCHANGED <<picker, has, owes>> PROVE CountsExact'
    BY <1>0, <1>1, QuietCounts
  <1>2. ASSUME NEW c \in Conn, OnChoke(c) PROVE CountsExact'
    <2>1. Kept(picker, picker') /\ has' = has /\ owes' = [owes EXCEPT ![c] = {}]
      BY <1>0, <1>2, RequestsKeep DEF OnChoke
    <2>2. DepthKept(owes')
      BY <1>0, <2>1, DepthShrinks
    <2> QED BY <2>1, <2>2, QuietCounts
  <1>3. ASSUME NEW c \in Conn, OnUnchoke(c) PROVE CountsExact'
    <2>1. Kept(picker, picker') /\ DepthKept(owes') /\ has' = has
      BY <1>0, <1>3, FillKeeps DEF OnUnchoke
    <2> QED BY <2>1, QuietCounts
  <1>4. ASSUME NEW c \in Conn, MaintainPeer(c) PROVE CountsExact'
    <2> DEFINE late == Expired(c)
               pk == blocks_failed(picker, late)
               ow == [owes EXCEPT ![c] = owes[c] \ late]
               out == late # {} /\ strikes[c] + 1 >= RequestStrikes
    <2>1. pk \in PickerType /\ Kept(picker, pk)
      BY <1>0, FailedType, RequestsKeep
    <2>2. ow \in [Conn -> SUBSET Block] /\ \A p \in Conn : ow[p] \subseteq owes[p]
      BY <1>0
    <2>3. Fill(c, pk, ow, Forget(age, c, late), FillPicks(pk, has[c], ow[c], ~out /\ Willing(c))) /\ has' = has
      BY <1>4 DEF MaintainPeer, peerVars
    <2> HIDE DEF pk, ow, out, late
    <2>4. DepthKept(ow)
      BY <1>0, <2>2, DepthShrinks
    <2>5. Kept(pk, picker') /\ DepthKept(owes')
      BY <2>1, <2>2, <2>3, <2>4, FillKeeps
    <2>6. Kept(picker, picker')
      BY <2>1, <2>5 DEF Kept
    <2> QED BY <2>3, <2>5, <2>6, QuietCounts
  <1>5. ASSUME NEW pr \in PriorityChoices, SetPiecePriorities(pr) PROVE CountsExact'
    <2> DEFINE new == [picker EXCEPT !.priority = pr]
    <2>1. picker' = [new EXCEPT !.missing = Cardinality(Wanted(new))] /\ has' = has /\ owes' = owes
      BY <1>5 DEF SetPiecePriorities, set_piece_priorities, peerVars, debtVars
    <2>2. /\ picker'.missing = Cardinality(Wanted(new)) /\ picker'.have = new.have
          /\ picker'.priority = new.priority /\ picker'.avail = picker.avail
      BY <1>0, <2>1 DEF PickerType
    <2> HIDE DEF new
    <2>3. Wanted(picker') = Wanted(new)
      BY <2>2 DEF Wanted, wants
    <2> QED BY <2>1, <2>2, <2>3 DEF CountsExact, MissingExact, AvailabilityExact, PipelineBound
  <1>6. ASSUME NEW m \in ModeChoices, SetMode(m) PROVE CountsExact'
    <2>1. Kept(picker, picker') /\ has' = has /\ owes' = owes
      BY <1>0, <1>6 DEF SetMode, Kept, PickerType, peerVars, debtVars
    <2> QED BY <1>0, <2>1, QuietCounts
  <1>7. ASSUME NEW c \in Conn, Disconnect(c) \/ MaintainDrop(c) \/ \E t \in Conn : Evict(t, c)
        PROVE  CountsExact'
    BY <1>7, DropCounts DEF Disconnect, MaintainDrop, Evict, DropListed
  <1>8. ASSUME NEW c \in Conn,
               \/ \E d \in Dest : QueueBitfield(c, d)
               \/ RegisterPeer(c) \/ OnIgnored(c) \/ OnViolation(c)
        PROVE  CountsExact'
    BY <1>1, <1>8 DEF QueueBitfield, RegisterPeer, OnIgnored, OnViolation, debtVars
  <1>9. CASE (\E idle \in SUBSET Conn : MaintainBegin(idle)) \/ CheckDone \/ UNCHANGED vars
    BY <1>1, <1>9 DEF MaintainBegin, CheckDone, vars, peerVars, debtVars
  <1> QED BY <1>2, <1>3, <1>4, <1>5, <1>6, <1>7, <1>8, <1>9, DeliverCounts, FieldMessageCounts
          DEF Next, PeerNext

\* What the code counts by hand is what a recount gives, for every torrent and
\* any number of peers: the wanted-and-missing count completion rests on, the
\* availability rarest-first steers by, and no pipeline over PIPELINE_DEPTH
\* (set_have, add_bitfield, remove_bitfield, fill_requests).
THEOREM CountsAlwaysExact == Spec => []CountsExact
  <1>1. Init => CountsExact
    <2> SUFFICES ASSUME Init PROVE CountsExact
      OBVIOUS
    <2>1. PICK held \in Resumed, m \in ModeChoices : picker = NewPicker(held, m)
      BY DEF Init
    <2>2. Wanted(picker) = Piece \ held
      BY <2>1 DEF NewPicker, Wanted, wants
    <2>3. MissingExact
      BY <2>1, <2>2 DEF NewPicker, MissingExact
    <2>4. AvailabilityExact
      <3>1. \A i \in Piece : {c \in Conn : i \in has[c]} = {} /\ picker.avail[i] = 0
        BY <2>1 DEF NewPicker, Init
      <3> QED BY <3>1, FS_EmptySet DEF AvailabilityExact
    <2>5. PipelineBound
      <3>1. \A c \in Conn : owes[c] = {}
        BY DEF Init
      <3>2. \A c \in Conn : Cardinality(owes[c]) = 0
        BY <3>1, FS_EmptySet
      <3>3. PipelineDepth \in Nat
        BY EngineAssumption
      <3> QED BY <3>2, <3>3 DEF PipelineBound
    <2> QED BY <2>3, <2>4, <2>5 DEF CountsExact
  <1>2. TypeOK /\ CountsExact /\ [Next]_vars => CountsExact'
    BY NextCounts
  <1> QED BY <1>1, <1>2, TypeCorrect, PTL DEF Spec

=============================================================================
