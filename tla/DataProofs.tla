----------------------------- MODULE DataProofs -----------------------------
(***************************************************************************)
(* Proofs about what is read, written and named: the walk below the        *)
(* download root (Beneath), the command line client (Commands), and the    *)
(* bytes of a torrent in its files (Layout).                               *)
(***************************************************************************)
EXTENDS Ordering, Beneath, Commands, Layout

-----------------------------------------------------------------------------
(* The walk below the download root *)

WalkTyped ==
    /\ entry \in [Level -> Kind] /\ purpose \in {"none", "open", "remove"}
    /\ level \in 0 .. Depth
    /\ where \in {"none", "inside", "outside"} /\ made \subseteq Level
    /\ outcome \in {"none", "opened", "removed", "nothing", "failed", "escaped"}

WalkFlags == rootThere \in BOOLEAN /\ safe \in BOOLEAN /\ asked \in BOOLEAN

\* A directory is open from the first level on, and only a walk that passed
\* check_component, over a root that is there, gets so far.
Entered ==
    /\ level = 0 <=> where = "none"
    /\ level > 0 => safe /\ rootThere
    /\ purpose = "none" => level = 0 /\ made = {} /\ outcome = "none"
    /\ Walking => safe

WalkInv == WalkTyped /\ WalkFlags /\ Entered /\ Contained /\ DeleteCreatesNothing

LEMMA WalkInvInit == BeneathInit => WalkInv
  <1> SUFFICES ASSUME BeneathInit PROVE WalkInv
    OBVIOUS
  <1> USE BeneathAssumption DEF BeneathInit
  <1>1. WalkTyped
    BY DEF WalkTyped
  <1>2. WalkFlags
    BY DEF WalkFlags
  <1>3. Entered /\ Contained /\ DeleteCreatesNothing
    BY DEF Entered, Contained, DeleteCreatesNothing, Walking
  <1> QED BY <1>1, <1>2, <1>3 DEF WalkInv

LEMMA EndsKeeps ==
    ASSUME WalkInv, Walking, NEW how \in {"nothing", "failed", "removed"}, Ends(how),
           UNCHANGED <<rootThere, entry>>
    PROVE  WalkInv'
  <1> USE DEF WalkInv, Ends
  <1>1. WalkTyped'
    BY DEF WalkTyped
  <1>2. WalkFlags'
    BY DEF WalkFlags
  <1>3. Entered'
    BY DEF Entered, Walking
  <1>4. Contained' /\ DeleteCreatesNothing'
    BY DEF Contained, DeleteCreatesNothing
  <1> QED BY <1>1, <1>2, <1>3, <1>4

LEMMA WalkInvStep == WalkInv /\ [BeneathNext]_beneathVars => WalkInv'
  <1> SUFFICES ASSUME WalkInv, [BeneathNext]_beneathVars PROVE WalkInv'
    OBVIOUS
  <1> USE BeneathAssumption DEF WalkInv
  <1>1. ASSUME NEW how \in {"open", "remove"}, NEW ok \in BOOLEAN, Begin(how, ok) PROVE WalkInv'
    BY <1>1 DEF Begin, WalkTyped, WalkFlags, Entered, Contained, DeleteCreatesNothing, Walking
  <1>2. CASE OpenRoot
    <2>1. CASE rootThere' = TRUE
      <3>1. /\ level = 0 /\ level' = 1 /\ where' = "inside" /\ purpose # "none" /\ outcome = "none" /\ safe
            /\ made' = made /\ purpose' = purpose /\ safe' = safe /\ outcome' = outcome
            /\ entry' = entry /\ asked' = asked
        BY <1>2, <2>1 DEF OpenRoot, Ends, Entered, Walking
      <3>2. WalkTyped'
        BY <3>1 DEF WalkTyped
      <3>3. WalkFlags'
        BY <2>1, <3>1 DEF WalkFlags
      <3>4. Entered' /\ Contained'
        BY <2>1, <3>1 DEF Entered, Contained, Walking
      <3>5. DeleteCreatesNothing'
        BY <2>1, <3>1 DEF DeleteCreatesNothing
      <3> QED BY <3>2, <3>3, <3>4, <3>5
    <2>2. CASE Ends(Missing) /\ UNCHANGED <<rootThere, entry>>
      <3>1. Walking /\ Missing \in {"nothing", "failed"}
        BY <1>2 DEF OpenRoot, Missing
      <3> QED BY <2>2, <3>1, EndsKeeps
    <2> QED BY <1>2, <2>1, <2>2 DEF OpenRoot
  <1>3. CASE MakeDir
    BY <1>3 DEF MakeDir, MayCreate, Level, Kind, WalkTyped, WalkFlags, Entered, Contained,
                DeleteCreatesNothing, Walking
  <1>4. CASE OpenDir
    <2>1. Walking /\ level \in 1 .. Depth - 1 /\ UNCHANGED <<rootThere, entry>>
      BY <1>4 DEF OpenDir
    <2>2. CASE level' = level + 1 /\ asked' = FALSE /\ UNCHANGED <<purpose, safe, where, made, outcome>>
      <3>1. WalkTyped'
        BY <2>1, <2>2 DEF WalkTyped
      <3>2. WalkFlags'
        BY <2>1, <2>2 DEF WalkFlags
      <3>3. Entered'
        <4>1. level' # 0 /\ level' > 0 /\ level # 0 /\ level > 0
          BY <2>1, <2>2
        <4> QED BY <2>1, <2>2, <4>1 DEF Entered, Walking
      <3>4. Contained' /\ DeleteCreatesNothing'
        BY <2>1, <2>2 DEF Contained, DeleteCreatesNothing
      <3> QED BY <3>1, <3>2, <3>3, <3>4
    <2>3. CASE Ends(Missing) \/ Ends("failed")
      <3>1. PICK how \in {"nothing", "failed"} : Ends(how)
        BY <2>3 DEF Missing
      <3> QED BY <2>1, <3>1, EndsKeeps
    <2> QED BY <1>4, <2>2, <2>3 DEF OpenDir, Descend
  <1>5. CASE OpenFile
    <2>1. Walking /\ level = Depth /\ purpose = "open" /\ UNCHANGED rootThere
      BY <1>5 DEF OpenFile
    <2>2. CASE entry[Depth] \in {"link", "dir"}
      BY <1>5, <2>1, <2>2, EndsKeeps DEF OpenFile
    <2>3. CASE entry[Depth] \notin {"link", "dir"}
      <3>1. /\ outcome' = "opened" /\ entry' = [entry EXCEPT ![Depth] = "file"]
            /\ made' = IF entry[Depth] = "absent" THEN made \cup {Depth} ELSE made
            /\ UNCHANGED <<purpose, safe, level, asked, where>>
        BY <1>5, <2>3 DEF OpenFile, Contained
      <3>2. Depth \in Level /\ "file" \in Kind
        BY DEF Level, Kind
      <3>3. WalkTyped'
        BY <3>1, <3>2 DEF WalkTyped
      <3>4. WalkFlags'
        BY <2>1, <3>1 DEF WalkFlags
      <3>5. Entered'
        BY <2>1, <3>1 DEF Entered, Walking
      <3>6. Contained' /\ DeleteCreatesNothing'
        BY <2>1, <3>1 DEF Contained, DeleteCreatesNothing
      <3> QED BY <3>3, <3>4, <3>5, <3>6
    <2> QED BY <2>2, <2>3
  <1>6. CASE Unlink
    <2>1. entry' \in [Level -> Kind]
      BY <1>6 DEF Unlink, Ends, WalkTyped, Level, Kind
    <2>2. outcome' \in {"nothing", "failed", "removed"} /\ UNCHANGED <<rootThere, purpose, safe, level, asked, where, made>>
      BY <1>6 DEF Unlink, Ends, Contained
    <2> QED BY <2>1, <2>2, <1>6 DEF Unlink, WalkTyped, WalkFlags, Entered, Contained, DeleteCreatesNothing, Walking
  <1>7. CASE SystemError
    BY <1>7 DEF SystemError, Ends, WalkTyped, WalkFlags, Entered, Contained, DeleteCreatesNothing, Walking
  <1>8. ASSUME NEW k \in Level, NEW kind \in Kind, Meddles(k, kind) PROVE WalkInv'
    BY <1>8 DEF Meddles, walkVars, WalkTyped, WalkFlags, Entered, Contained, DeleteCreatesNothing, Walking
  <1>9. CASE UNCHANGED beneathVars
    BY <1>9 DEF beneathVars, walkVars, WalkTyped, WalkFlags, Entered, Contained, DeleteCreatesNothing, Walking
  <1> QED BY <1>1, <1>2, <1>3, <1>4, <1>5, <1>6, <1>7, <1>8, <1>9 DEF BeneathNext

\* However deep the path and whatever is linked, renamed or removed between two
\* system calls, the walk opens and deletes nothing that is not beneath the
\* root, and deleting creates nothing (walk_beneath, remove_beneath).
THEOREM WalkAlwaysSafe == BeneathSpec => []WalkSafe
  <1>1. WalkInv => WalkSafe
    BY DEF WalkInv, WalkTyped, WalkFlags, WalkSafe, BeneathTypeOK
  <1> QED BY WalkInvInit, WalkInvStep, <1>1, PTL DEF BeneathSpec

-----------------------------------------------------------------------------
(* The listing *)

\* Comparing hashes digit by digit is a strict total order.
LEMMA LowerTotal ==
    ASSUME NEW g \in Hash, NEW h \in Hash
    PROVE  g = h \/ Lower(g, h) \/ Lower(h, g)
  <1> SUFFICES ASSUME g # h PROVE Lower(g, h) \/ Lower(h, g)
    OBVIOUS
  <1> DEFINE T == {k \in 1 .. HashLen : g[k] # h[k]}
  <1>1. g \in [1 .. HashLen -> 0 .. 15] /\ h \in [1 .. HashLen -> 0 .. 15] /\ HashLen \in Nat
    BY CommandsAssumption
  <1>2. T \in SUBSET Nat /\ T # {}
    BY <1>1
  <1>3. PICK k \in T : \A j \in T : k <= j
    BY <1>2, LeastElement
  <1>4. k \in 1 .. HashLen /\ g[k] # h[k] /\ \A j \in 1 .. k - 1 : g[j] = h[j]
    <2>1. k \in 1 .. HashLen /\ g[k] # h[k]
      OBVIOUS
    <2>2. ASSUME NEW j \in 1 .. k - 1 PROVE g[j] = h[j]
      BY <1>1, <1>3, <2>1
    <2> QED BY <2>1, <2>2
  <1>5. g[k] < h[k] \/ h[k] < g[k]
    <2>1. g[k] \in 0 .. 15 /\ h[k] \in 0 .. 15
      BY <1>1, <1>4
    <2> QED BY <1>4, <2>1
  <1> QED BY <1>4, <1>5 DEF Lower

LEMMA LowerStrict ==
    ASSUME NEW f \in Hash, NEW g \in Hash, NEW h \in Hash
    PROVE  /\ ~(Lower(g, h) /\ Lower(h, g))
           /\ Lower(f, g) /\ Lower(g, h) => Lower(f, h)
  <1>1. HashLen \in Nat /\ \A i \in 1 .. HashLen : f[i] \in Nat /\ g[i] \in Nat /\ h[i] \in Nat
    <2>1. /\ f \in [1 .. HashLen -> 0 .. 15] /\ g \in [1 .. HashLen -> 0 .. 15]
          /\ h \in [1 .. HashLen -> 0 .. 15] /\ HashLen \in Nat
      BY CommandsAssumption
    <2>2. ASSUME NEW i \in 1 .. HashLen PROVE f[i] \in Nat /\ g[i] \in Nat /\ h[i] \in Nat
      <3>1. f[i] \in 0 .. 15 /\ g[i] \in 0 .. 15 /\ h[i] \in 0 .. 15
        BY <2>1
      <3> QED BY <3>1
    <2> QED BY <2>1, <2>2
  <1>2. ASSUME Lower(g, h), Lower(h, g) PROVE FALSE
    <2>1. PICK k \in 1 .. HashLen : g[k] < h[k] /\ \A i \in 1 .. k - 1 : g[i] = h[i]
      BY <1>2 DEF Lower
    <2>2. PICK j \in 1 .. HashLen : h[j] < g[j] /\ \A i \in 1 .. j - 1 : h[i] = g[i]
      BY <1>2 DEF Lower
    <2>3. g[k] \in Nat /\ h[k] \in Nat /\ g[j] \in Nat /\ h[j] \in Nat
      BY <1>1
    <2>4. ~(k < j) /\ ~(j < k)
      BY <1>1, <2>1, <2>2, <2>3
    <2> QED BY <1>1, <2>1, <2>2, <2>3, <2>4
  <1>3. ASSUME Lower(f, g), Lower(g, h) PROVE Lower(f, h)
    <2>1. PICK k \in 1 .. HashLen : f[k] < g[k] /\ \A i \in 1 .. k - 1 : f[i] = g[i]
      BY <1>3 DEF Lower
    <2>2. PICK j \in 1 .. HashLen : g[j] < h[j] /\ \A i \in 1 .. j - 1 : g[i] = h[i]
      BY <1>3 DEF Lower
    <2>3. CASE k <= j
      <3>1. g[k] <= h[k]
        BY <1>1, <2>2, <2>3
      <3>2. \A i \in 1 .. k - 1 : f[i] = h[i]
        BY <1>1, <2>1, <2>2, <2>3
      <3>3. f[k] < h[k]
        BY <1>1, <2>1, <3>1
      <3> QED BY <3>2, <3>3 DEF Lower
    <2>4. CASE j < k
      <3>1. f[j] < h[j] /\ \A i \in 1 .. j - 1 : f[i] = h[i]
        BY <1>1, <2>1, <2>2, <2>4
      <3> QED BY <3>1 DEF Lower
    <2> QED BY <2>3, <2>4
  <1> QED BY <1>2, <1>3

\* Every row of a listing is there, whatever the keys (sort_by_key).
LEMMA RowsAreThere ==
    ASSUME NEW S \in SUBSET Hash, NEW key \in [Hash -> Nat]
    PROVE  Rows(S, key) \in Seq(S)
  <1> DEFINE up == [h \in S |-> {g \in S : g = h \/ Earlier(key, g, h)}]
             n == Cardinality(S)
  <1>1. IsFiniteSet(S) /\ n \in Nat
    BY FS_Subset, FS_CardinalityType, CommandsAssumption
  <1>2. up \in [S -> SUBSET S] /\ \A x \in S : x \in up[x]
    OBVIOUS
  <1>3. ASSUME NEW x \in S, NEW y \in S PROVE x \in up[y] \/ y \in up[x]
    <2>1. x = y \/ Lower(x, y) \/ Lower(y, x)
      BY LowerTotal
    <2>2. key[x] \in Nat /\ key[y] \in Nat
      OBVIOUS
    <2> QED BY <2>1, <2>2 DEF Earlier
  <1>4. ASSUME NEW x \in S, NEW y \in S, x \in up[y], y \in up[x] PROVE x = y
    <2>1. ~(Lower(x, y) /\ Lower(y, x))
      BY LowerStrict
    <2>2. key[x] \in Nat /\ key[y] \in Nat
      OBVIOUS
    <2> QED BY <1>4, <2>1, <2>2 DEF Earlier
  <1>5. ASSUME NEW x \in S, NEW y \in S, NEW z \in S, x \in up[y], y \in up[z] PROVE x \in up[z]
    <2>1. Lower(x, y) /\ Lower(y, z) => Lower(x, z)
      BY LowerStrict
    <2>2. key[x] \in Nat /\ key[y] \in Nat /\ key[z] \in Nat
      OBVIOUS
    <2> QED BY <1>5, <2>1, <2>2 DEF Earlier
  <1>6. \A k \in 1 .. n : \E h \in S : Cardinality(up[h]) = k
    <2> HIDE DEF up
    <2> QED BY <1>1, <1>2, <1>3, <1>4, <1>5, Ranks
  <1>7. \A k \in 1 .. n : \E h \in S : Cardinality({g \in S : g = h \/ Earlier(key, g, h)}) = k
    BY <1>6
  <1> DEFINE row(k) == CHOOSE h \in S : Cardinality({g \in S : g = h \/ Earlier(key, g, h)}) = k
  <1>8. \A k \in 1 .. n : row(k) \in S
    BY <1>7
  <1>9. Rows(S, key) = [k \in 1 .. n |-> row(k)]
    BY DEF Rows
  <1> HIDE DEF row, n
  <1> QED BY <1>1, <1>8, <1>9

-----------------------------------------------------------------------------
(* The command line client *)

TableTyped ==
    /\ added \in [Hash -> 0 .. MaxClock] /\ magnets \in SUBSET Hash
    /\ changes \in 0 .. MaxChanges /\ gone \in [Hash -> Nat]

LineTyped ==
    /\ verb \in {"none", "remove", "other"} /\ all \in BOOLEAN
    /\ refs \in Seq(Reference) /\ Len(refs) <= MaxRefs

ListsTyped ==
    /\ shown \in Seq(Hash) /\ targets \in Seq(Hash \cup Reference)
    /\ meant \in [DOMAIN targets -> SUBSET (Hash \cup Reference)]
    /\ acted \in [DOMAIN targets -> SUBSET Hash]

Before == stage \in {"typing", "locating", "expanding"}
During == stage \in {"requesting", "resolved", "checked"}

\* What the stage says about the walk over the targets.
Progress ==
    /\ Before \/ During \/ stage = "over"
    /\ Before => shown = <<>> /\ targets = <<>> /\ next = 1 /\ failed = 0
    /\ During => next \in 1 .. Len(targets) /\ failed \in 0 .. next - 1
    /\ stage = "over" => next \in 1 .. Len(targets) + 1 /\ failed \in 0 .. Len(targets)
    /\ stage # "over" => exit = "none"
    /\ exit \in {"none", "ok", "failed", "usage", "unreachable"}

\* What the daemon resolved is what the target named.
Resolved ==
    IF stage \in {"resolved", "checked"} THEN hash = meant[next] /\ \E h : hash = {h} ELSE hash = {}

\* What has been done, to which target.
Deeds ==
    \A i \in DOMAIN targets :
        /\ acted[i] # {} => acted[i] = meant[i] /\ \E h \in Hash : acted[i] = {h}
        /\ During /\ next <= i => acted[i] = {}
        /\ During /\ i < next /\ failed = 0 => acted[i] # {}
        /\ exit = "ok" => acted[i] # {}

\* What a target may be: the full hash or a prefix of what it names.
Aimed ==
    \A i \in DOMAIN targets : \A h \in meant[i] : IsPrefix(targets[i], h) /\ Len(h) = HashLen

\* Where the targets come from.
Chosen ==
    /\ ~all => \A i \in DOMAIN targets :
          /\ i \in DOMAIN refs
          /\ IsIndex(refs[i]) => Position(refs[i]) \in DOMAIN shown /\ targets[i] = shown[Position(refs[i])]
          /\ ~IsIndex(refs[i]) => targets[i] = refs[i]
    /\ all /\ verb = "remove" => targets = shown

\* Every removal of the command is a removal.
Removals ==
    verb = "remove" => \A h \in Hash : Cardinality({i \in DOMAIN targets : acted[i] = {h}}) <= gone[h]

CommandInv ==
    /\ TableTyped /\ LineTyped /\ ListsTyped /\ Progress
    /\ Resolved /\ Deeds /\ Aimed /\ Chosen /\ Removals

\* The targets a removal has been done for are finitely many.
LEMMA DoneFinite ==
    ASSUME ListsTyped, NEW h
    PROVE  /\ IsFiniteSet({i \in DOMAIN targets : acted[i] = {h}})
           /\ Cardinality({i \in DOMAIN targets : acted[i] = {h}}) \in Nat
  <1> DEFINE n == Len(targets)
             T == {i \in DOMAIN targets : acted[i] = {h}}
  <1>1. n \in Nat /\ DOMAIN targets = 1 .. n
    BY DEF ListsTyped
  <1> HIDE DEF n
  <1>2. IsFiniteSet(1 .. n)
    BY <1>1, FS_Interval
  <1>3. T \in SUBSET (1 .. n)
    BY <1>1
  <1> HIDE DEF T
  <1>4. IsFiniteSet(T) /\ Cardinality(T) \in Nat
    BY <1>2, <1>3, FS_Subset, FS_CardinalityType
  <1> QED BY <1>4 DEF T

\* What a step that leaves the command alone keeps.
LEMMA AloneKeeps ==
    ASSUME CommandInv, UNCHANGED <<lineVars, stage, shown, targets, next, hash, meant, acted, failed, exit>>
    PROVE  /\ LineTyped' /\ ListsTyped' /\ Progress' /\ Resolved' /\ Deeds' /\ Aimed' /\ Chosen'
           /\ (\A h \in Hash : gone'[h] \in Nat /\ gone[h] \in Nat /\ gone[h] <= gone'[h]) => Removals'
  <1> USE DEF lineVars
  <1>1. LineTyped'
    BY DEF CommandInv, LineTyped
  <1>2. ListsTyped'
    BY DEF CommandInv, ListsTyped
  <1>3. Progress' /\ Resolved'
    BY DEF CommandInv, Progress, Resolved, Before, During
  <1>4. Deeds'
    BY DEF CommandInv, Deeds, During
  <1>5. Aimed' /\ Chosen'
    BY DEF CommandInv, Aimed, Chosen
  <1>6. ASSUME \A h \in Hash : gone'[h] \in Nat /\ gone[h] \in Nat /\ gone[h] <= gone'[h] PROVE Removals'
    <2> SUFFICES ASSUME verb = "remove", NEW h \in Hash
                 PROVE  Cardinality({i \in DOMAIN targets : acted[i] = {h}}) <= gone'[h]
      BY DEF Removals
    <2> DEFINE n == Cardinality({i \in DOMAIN targets : acted[i] = {h}})
    <2>1. n <= gone[h]
      BY DEF CommandInv, Removals
    <2>2. n \in Nat
      BY DoneFinite DEF CommandInv
    <2> HIDE DEF n
    <2>3. n <= gone'[h]
      BY <1>6, <2>1, <2>2
    <2> QED BY <2>3 DEF n
  <1> QED BY <1>1, <1>2, <1>3, <1>4, <1>5, <1>6

\* for_each counts: with one target more behind it, the same can be said.
LEMMA ReportedKeeps ==
    ASSUME ListsTyped, Progress, Deeds, During, NEW ok \in BOOLEAN, Reported(ok), UNCHANGED targets,
           \A i \in DOMAIN targets : i # next => acted'[i] = acted[i] /\ meant'[i] = meant[i],
           acted'[next] # {} => acted'[next] = meant'[next] /\ \E h \in Hash : acted'[next] = {h},
           ok => acted'[next] # {}
    PROVE  Progress' /\ Resolved' /\ Deeds'
  <1>1. /\ next \in 1 .. Len(targets) /\ failed \in 0 .. next - 1 /\ exit = "none"
        /\ stage # "over" /\ Len(targets) \in Nat /\ DOMAIN targets = 1 .. Len(targets)
    BY DEF Progress, During, ListsTyped
  <1>2. failed' = IF ok THEN failed ELSE failed + 1
    BY DEF Reported
  <1>3. \/ /\ next = Len(targets) /\ stage' = "over" /\ next' = next
           /\ exit' = IF failed' = 0 THEN "ok" ELSE "failed"
        \/ next # Len(targets) /\ next' = next + 1 /\ stage' = "requesting" /\ exit' = exit
    BY DEF Reported, Exits
  <1> DEFINE n == Len(targets)
  <1>4. next \in 1 .. n /\ failed \in 0 .. next - 1 /\ n \in Nat /\ n = Len(targets')
    BY <1>1
  <1> HIDE DEF n
  <1>5. next \in Nat /\ (During' => stage' = "requesting" /\ next' = next + 1)
    BY <1>4, <1>3 DEF During
  <1>6. Progress'
    <2>1. failed' \in 0 .. next
      BY <1>4, <1>2
    <2>2. CASE stage' = "over"
      <3>1. next' = next /\ exit' \in {"ok", "failed"}
        BY <1>3, <2>2
      <3>2. next' \in 1 .. n + 1 /\ failed' \in 0 .. n
        BY <1>4, <2>1, <3>1
      <3> QED BY <1>4, <2>2, <3>1, <3>2 DEF Progress, Before, During
    <2>3. CASE stage' = "requesting"
      <3>1. next # n /\ next' = next + 1 /\ exit' = "none"
        BY <1>1, <1>3, <2>3 DEF n
      <3>2. next' \in 1 .. n /\ failed' \in 0 .. next' - 1
        BY <1>4, <2>1, <3>1
      <3> QED BY <1>4, <2>3, <3>1, <3>2 DEF Progress, Before, During
    <2> QED BY <1>3, <2>2, <2>3
  <1>7. Resolved'
    BY <1>3 DEF Reported, Resolved
  <1>8. ASSUME NEW i \in DOMAIN targets
        PROVE  /\ acted'[i] # {} => acted'[i] = meant'[i] /\ \E h \in Hash : acted'[i] = {h}
               /\ During' /\ next' <= i => acted'[i] = {}
               /\ During' /\ i < next' /\ failed' = 0 => acted'[i] # {}
               /\ exit' = "ok" => acted'[i] # {}
    <2>1. acted'[i] # {} => acted'[i] = meant'[i] /\ \E h \in Hash : acted'[i] = {h}
      <3>1. CASE i = next
        BY <3>1
      <3>2. CASE i # next
        BY <3>2 DEF Deeds
      <3> QED BY <3>1, <3>2
    <2>2. next <= i => acted[i] = {}
      BY DEF Deeds
    <2>3. i < next /\ failed = 0 => acted[i] # {}
      BY DEF Deeds
    <2>4. i \in Nat /\ i <= Len(targets) /\ i \in 1 .. Len(targets)
      BY <1>1
    <2>5. ASSUME During', next' <= i PROVE acted'[i] = {}
      <3>1. next < i
        BY <1>5, <2>4, <2>5
      <3> QED BY <1>1, <2>2, <2>4, <3>1
    <2>6. ASSUME i <= next, failed' = 0 PROVE acted'[i] # {}
      <3>1. ok /\ failed = 0
        BY <1>1, <1>2, <2>6
      <3>2. CASE i = next
        BY <3>1, <3>2
      <3>3. CASE i # next
        <4>1. i < next
          BY <1>1, <2>4, <2>6, <3>3
        <4> QED BY <2>3, <3>1, <3>3, <4>1
      <3> QED BY <3>2, <3>3
    <2>7. ASSUME During', i < next', failed' = 0 PROVE acted'[i] # {}
      <3>1. i <= next
        BY <1>5, <2>4, <2>7
      <3> QED BY <2>6, <2>7, <3>1
    <2>8. ASSUME exit' = "ok" PROVE acted'[i] # {}
      <3>1. i <= next /\ failed' = 0
        BY <1>1, <1>3, <2>4, <2>8
      <3> QED BY <2>6, <3>1
    <2> QED BY <2>1, <2>5, <2>7, <2>8
  <1>9. Deeds'
    BY <1>8 DEF Deeds
  <1> QED BY <1>6, <1>7, <1>9

\* What others do, and what a removal does, keeps the table a table.
LEMMA RemovesTyped ==
    ASSUME TableTyped, NEW h \in Hash, Removes(h)
    PROVE  /\ added' \in [Hash -> 0 .. MaxClock] /\ magnets' \in SUBSET Hash /\ gone' \in [Hash -> Nat]
           /\ gone'[h] = gone[h] + 1 /\ \A g \in Hash : g # h => gone'[g] = gone[g]
  <1>1. 0 \in 0 .. MaxClock
    BY CommandsAssumption
  <1>2. added' \in [Hash -> 0 .. MaxClock] /\ magnets' \in SUBSET Hash
    BY <1>1 DEF TableTyped, Removes
  <1>3. gone[h] + 1 \in Nat /\ gone' = [gone EXCEPT ![h] = gone[h] + 1]
    BY DEF TableTyped, Removes
  <1> QED BY <1>2, <1>3 DEF TableTyped

LEMMA OthersKeep ==
    ASSUME CommandInv, NEW h \in Hash, SomebodyAdds(h) \/ SomebodyRemoves(h) \/ MetadataArrives(h)
    PROVE  CommandInv'
  <1>1. /\ Others
        /\ UNCHANGED <<lineVars, stage, shown, targets, next, hash, meant, acted, failed, exit>>
    BY DEF SomebodyAdds, SomebodyRemoves, MetadataArrives
  <1>2. changes' \in 0 .. MaxChanges
    BY <1>1, CommandsAssumption DEF CommandInv, TableTyped, Others
  <1>3. ASSUME Hosts(h) PROVE added' \in [Hash -> 0 .. MaxClock]
    <2>1. PICK time \in 1 .. MaxClock : added' = [added EXCEPT ![h] = time]
      BY <1>3 DEF Hosts
    <2>2. time \in 0 .. MaxClock
      BY CommandsAssumption
    <2> QED BY <2>1, <2>2 DEF CommandInv, TableTyped
  <1>4. CASE SomebodyRemoves(h)
    <2>1. Removes(h)
      BY <1>4 DEF SomebodyRemoves
    <2>2. TableTyped' /\ gone'[h] = gone[h] + 1 /\ \A g \in Hash : g # h => gone'[g] = gone[g]
      BY <1>2, <2>1, RemovesTyped DEF CommandInv, TableTyped
    <2>3. gone \in [Hash -> Nat] /\ gone' \in [Hash -> Nat]
      BY <2>2 DEF CommandInv, TableTyped
    <2>4. ASSUME NEW g \in Hash PROVE gone'[g] \in Nat /\ gone[g] \in Nat /\ gone[g] <= gone'[g]
      <3>1. gone'[g] \in Nat /\ gone[g] \in Nat /\ gone[h] \in Nat
        BY <2>3
      <3>2. gone'[g] = gone[g] \/ gone'[g] = gone[g] + 1
        BY <2>2
      <3> QED BY <3>1, <3>2
    <2> QED BY <1>1, <2>2, <2>4, AloneKeeps DEF CommandInv
  <1>5. CASE SomebodyAdds(h) \/ MetadataArrives(h)
    <2>1. UNCHANGED gone
      BY <1>5 DEF SomebodyAdds, MetadataArrives
    <2>2. magnets' \in SUBSET Hash
      BY <1>5 DEF SomebodyAdds, MetadataArrives, CommandInv, TableTyped
    <2>3. added' \in [Hash -> 0 .. MaxClock]
      BY <1>3, <1>5 DEF SomebodyAdds, MetadataArrives, CommandInv, TableTyped
    <2>4. TableTyped'
      BY <1>2, <2>1, <2>2, <2>3 DEF CommandInv, TableTyped
    <2>5. \A g \in Hash : gone'[g] \in Nat /\ gone[g] \in Nat /\ gone[g] <= gone'[g]
      BY <2>1 DEF CommandInv, TableTyped
    <2> QED BY <1>1, <2>4, <2>5, AloneKeeps DEF CommandInv
  <1> QED BY <1>4, <1>5

\* Before the first request there are no targets to speak of.
LEMMA TypingKeeps ==
    ASSUME CommandInv, NEW v \in {"remove", "other"}, NEW every \in BOOLEAN,
           NEW r \in SeqOf(Reference, MaxRefs), TypeCommand(v, every, r)
    PROVE  CommandInv'
  <1>1. /\ Before /\ stage = "typing" /\ stage' = "locating"
        /\ verb' = v /\ all' = every /\ refs' = r
        /\ UNCHANGED <<added, magnets, changes, shown, targets, next, hash, meant, acted, failed, exit, gone>>
    BY DEF TypeCommand, Before, tableVars
  <1>2. shown = <<>> /\ targets = <<>> /\ DOMAIN targets = {}
    BY <1>1 DEF CommandInv, Progress
  <1>3. LineTyped'
    <2>1. PICK m \in 0 .. MaxRefs : r \in [1 .. m -> Reference]
      BY DEF SeqOf
    <2>2. r \in Seq(Reference) /\ Len(r) = m
      BY <2>1, CommandsAssumption
    <2>3. m <= MaxRefs
      BY <2>1, CommandsAssumption
    <2> QED BY <1>1, <2>2, <2>3 DEF LineTyped
  <1>4. TableTyped' /\ ListsTyped'
    BY <1>1 DEF CommandInv, TableTyped, ListsTyped
  <1>5. Progress' /\ Resolved'
    BY <1>1 DEF CommandInv, Progress, Resolved, Before, During
  <1>6. Deeds' /\ Aimed' /\ Chosen'
    BY <1>1, <1>2 DEF Deeds, Aimed, Chosen
  <1>7. Removals'
    <2>1. ASSUME NEW h \in Hash PROVE Cardinality({i \in DOMAIN targets : acted[i] = {h}}) <= gone[h]
      <3>1. {i \in DOMAIN targets : acted[i] = {h}} = {} /\ gone[h] \in Nat
        BY <1>2 DEF CommandInv, TableTyped
      <3>2. Cardinality({i \in DOMAIN targets : acted[i] = {h}}) = 0
        BY <3>1, FS_EmptySet, Zenon
      <3> QED BY <3>1, <3>2
    <2> QED BY <1>1, <2>1 DEF Removals
  <1> QED BY <1>3, <1>4, <1>5, <1>6, <1>7 DEF CommandInv

\* A command that ends without another request has done what it had done.
LEMMA LeavingKeeps ==
    ASSUME CommandInv, Before \/ During, NEW how \in {"usage", "failed", "unreachable"}, Exits(how), hash = {},
           UNCHANGED <<tableVars, lineVars, shown, targets, next, hash, meant, acted, failed, gone>>
    PROVE  CommandInv'
  <1> USE DEF tableVars, lineVars
  <1>1. exit' = how /\ stage' = "over" /\ how # "ok"
    BY DEF Exits
  <1>2. TableTyped' /\ LineTyped' /\ ListsTyped'
    BY DEF CommandInv, TableTyped, LineTyped, ListsTyped
  <1>3. Progress'
    <2>1. Len(targets) \in Nat /\ (targets = <<>> => Len(targets) = 0)
      BY DEF CommandInv, ListsTyped
    <2>2. next \in 1 .. Len(targets) + 1 /\ failed \in 0 .. Len(targets)
      <3>1. CASE Before
        BY <2>1, <3>1 DEF CommandInv, Progress
      <3>2. CASE During
        BY <2>1, <3>2 DEF CommandInv, Progress
      <3> QED BY <3>1, <3>2
    <2> QED BY <1>1, <2>2 DEF Progress, Before, During
  <1>4. Resolved' /\ Aimed' /\ Chosen'
    BY <1>1 DEF CommandInv, Resolved, Aimed, Chosen
  <1>5. Deeds'
    BY <1>1 DEF CommandInv, Deeds, During
  <1>6. Removals'
    BY DEF CommandInv, Removals
  <1> QED BY <1>2, <1>3, <1>4, <1>5, <1>6 DEF CommandInv

LEMMA LocateKeeps == ASSUME CommandInv, Locate PROVE CommandInv'
  <1>1. Before /\ ~During /\ stage = "locating" /\ hash = {}
    BY DEF Locate, Before, During, CommandInv, Resolved
  <1>2. CASE stage' = "expanding" /\ UNCHANGED exit
    <2>1. UNCHANGED <<added, magnets, changes, verb, all, refs, shown, targets, next, hash, meant, acted, failed, exit, gone>>
      BY <1>2 DEF Locate, tableVars, lineVars
    <2>2. TableTyped' /\ LineTyped' /\ ListsTyped'
      BY <2>1 DEF CommandInv, TableTyped, LineTyped, ListsTyped
    <2>3. Progress' /\ Resolved'
      BY <1>1, <1>2, <2>1 DEF CommandInv, Progress, Resolved, Before, During
    <2>4. Deeds'
      BY <1>1, <1>2, <2>1 DEF CommandInv, Deeds, During
    <2>5. Aimed' /\ Chosen' /\ Removals'
      BY <2>1 DEF CommandInv, Aimed, Chosen, Removals
    <2> QED BY <2>2, <2>3, <2>4, <2>5 DEF CommandInv
  <1>3. CASE \E how \in {"usage", "failed"} : Exits(how)
    <2>1. PICK how \in {"usage", "failed", "unreachable"} : Exits(how)
      BY <1>3
    <2>2. UNCHANGED <<tableVars, lineVars, shown, targets, next, hash, meant, acted, failed, gone>>
      BY DEF Locate
    <2> QED BY <1>1, <2>1, <2>2, LeavingKeeps
  <1> QED BY <1>2, <1>3 DEF Locate

LEMMA UnreachableKeeps == ASSUME CommandInv, Unreachable PROVE CommandInv'
  <1>1. (Before \/ During) /\ hash = {}
    BY DEF Unreachable, Asking, Before, During, CommandInv, Resolved
  <1> QED BY <1>1, LeavingKeeps DEF Unreachable

\* The target a request is about has not been touched.
LEMMA NextFresh ==
    ASSUME ListsTyped, Progress, Deeds, During
    PROVE  next \in DOMAIN targets /\ acted[next] = {}
  <1>1. next \in 1 .. Len(targets) /\ Len(targets) \in Nat /\ DOMAIN targets = 1 .. Len(targets)
    BY DEF Progress, ListsTyped
  <1>2. next \in DOMAIN targets /\ next <= next
    BY <1>1
  <1> QED BY <1>2 DEF Deeds

\* The requests begin with nothing done.
LEMMA SettledKeeps ==
    ASSUME CommandInv, stage = "expanding", NEW listing \in Seq(Hash), NEW list \in Seq(Hash \cup Reference),
           Settled(listing, list), UNCHANGED <<tableVars, lineVars, next, hash, failed>>, Chosen'
    PROVE  CommandInv'
  <1> USE DEF tableVars, lineVars
  <1>1. /\ shown' = listing /\ targets' = list /\ gone' = [h \in Hash |-> 0]
        /\ meant' = [i \in DOMAIN list |-> {}] /\ acted' = [i \in DOMAIN list |-> {}]
        /\ IF list = <<>> THEN exit' = "ok" /\ stage' = "over" ELSE stage' = "requesting" /\ exit' = exit
    BY DEF Settled, Exits
  <1>2. next = 1 /\ failed = 0 /\ exit = "none" /\ hash = {}
    BY DEF CommandInv, Progress, Resolved, Before
  <1>3. TableTyped' /\ LineTyped'
    BY <1>1 DEF CommandInv, TableTyped, LineTyped
  <1>4. ListsTyped'
    BY <1>1 DEF ListsTyped
  <1>5. Progress'
    <2>1. Len(list) \in Nat /\ (list # <<>> => Len(list) > 0)
      OBVIOUS
    <2>2. CASE list = <<>>
      BY <1>1, <1>2, <2>1, <2>2 DEF Progress, Before, During
    <2>3. CASE list # <<>>
      <3>1. 1 \in 1 .. Len(list) /\ 0 \in 0 .. 1 - 1
        BY <2>1, <2>3
      <3> QED BY <1>1, <1>2, <2>3, <3>1 DEF Progress, Before, During
    <2> QED BY <2>2, <2>3
  <1>6. Resolved'
    BY <1>1, <1>2 DEF Resolved
  <1>7. Deeds'
    <2> SUFFICES ASSUME NEW i \in DOMAIN list
                 PROVE  acted'[i] = {} /\ ~(i < next') /\ exit' # "ok"
      BY <1>1 DEF Deeds
    <2>1. list # <<>> /\ i \in Nat /\ i >= 1
      OBVIOUS
    <2> QED BY <1>1, <1>2, <2>1
  <1>8. Aimed'
    BY <1>1 DEF Aimed
  <1>9. Removals'
    <2> SUFFICES ASSUME NEW h \in Hash
                 PROVE  Cardinality({i \in DOMAIN list : acted'[i] = {h}}) <= gone'[h]
      BY <1>1 DEF Removals
    <2>1. {i \in DOMAIN list : acted'[i] = {h}} = {} /\ gone'[h] = 0
      BY <1>1
    <2>2. Cardinality({i \in DOMAIN list : acted'[i] = {h}}) = 0
      BY <2>1, FS_EmptySet, Zenon
    <2> QED BY <2>1, <2>2
  <1> QED BY <1>3, <1>4, <1>5, <1>6, <1>7, <1>8, <1>9 DEF CommandInv

\* The listing is made of what is hosted and pending.
LEMMA ListingTyped ==
    ASSUME TableTyped
    PROVE  TorrentRows \in Seq(Hash) /\ Listing \in Seq(Hash)
  <1>1. Hosted \in SUBSET Hash /\ magnets \in SUBSET Hash
    BY DEF TableTyped, Hosted
  <1>2. added \in [Hash -> Nat] /\ [h \in Hash |-> 0] \in [Hash -> Nat]
    BY CommandsAssumption DEF TableTyped
  <1>3. TorrentRows \in Seq(Hosted) /\ Rows(magnets, [h \in Hash |-> 0]) \in Seq(magnets)
    BY <1>1, <1>2, RowsAreThere DEF TorrentRows
  <1>4. TorrentRows \in Seq(Hash) /\ Rows(magnets, [h \in Hash |-> 0]) \in Seq(Hash)
    BY <1>1, <1>3
  <1> QED BY <1>4 DEF Listing

LEMMA ExpandKeeps == ASSUME CommandInv, Expand PROVE CommandInv'
  <1> DEFINE missing == \E i \in DOMAIN refs : IsIndex(refs[i]) /\ AtPosition(Listing, refs[i]) = {}
             lookedUp(r) == IF IsIndex(r) THEN CHOOSE h \in AtPosition(Listing, r) : TRUE ELSE r
             list == [i \in DOMAIN refs |-> lookedUp(refs[i])]
  <1>1. /\ stage = "expanding" /\ Before /\ hash = {}
        /\ UNCHANGED <<tableVars, lineVars, next, hash, failed>>
    BY DEF Expand, Before, CommandInv, Resolved
  <1>2. TorrentRows \in Seq(Hash) /\ Listing \in Seq(Hash)
    BY ListingTyped DEF CommandInv
  <1>3. ASSUME NEW how \in {"usage", "failed", "unreachable"}, Exits(how),
               UNCHANGED <<shown, targets, meant, acted, gone>>
        PROVE  CommandInv'
    BY <1>1, <1>3, LeavingKeeps
  <1>4. ASSUME all, Settled(Listing, AllTargets) PROVE CommandInv'
    <2>1. AllTargets \in Seq(Hash) /\ (verb = "remove" => AllTargets = Listing)
      BY <1>2 DEF AllTargets, ListedTargets
    <2>2. AllTargets \in Seq(Hash \cup Reference)
      BY <2>1
    <2>3. Chosen'
      BY <1>1, <1>4, <2>1 DEF Settled, Chosen, lineVars
    <2> QED BY <1>1, <1>2, <1>4, <2>2, <2>3, SettledKeeps
  <1>5. ASSUME ~all, ~missing, Settled(Listing, list) PROVE CommandInv'
    <2>1. ASSUME NEW i \in DOMAIN refs, IsIndex(refs[i])
          PROVE  Position(refs[i]) \in DOMAIN Listing /\ list[i] = Listing[Position(refs[i])]
      <3>1. AtPosition(Listing, refs[i]) # {}
        BY <1>5, <2>1
      <3>2. /\ Position(refs[i]) \in DOMAIN Listing
            /\ AtPosition(Listing, refs[i]) = {Listing[Position(refs[i])]}
        BY <3>1 DEF AtPosition
      <3>3. list[i] = CHOOSE h \in {Listing[Position(refs[i])]} : TRUE
        BY <2>1, <3>2
      <3> QED BY <3>2, <3>3
    <2>2. ASSUME NEW i \in DOMAIN refs, ~IsIndex(refs[i]) PROVE list[i] = refs[i]
      BY <2>2
    <2>3. refs \in Seq(Reference)
      BY DEF CommandInv, LineTyped
    <2>4. DOMAIN list = DOMAIN refs
      OBVIOUS
    <2> HIDE DEF list
    <2>5. ASSUME NEW i \in DOMAIN refs PROVE list[i] \in Hash \cup Reference
      <3>1. CASE IsIndex(refs[i])
        BY <1>2, <2>1, <3>1
      <3>2. CASE ~IsIndex(refs[i])
        BY <2>2, <2>3, <3>2
      <3> QED BY <3>1, <3>2
    <2>6. list \in Seq(Hash \cup Reference)
      <3>1. list = [i \in 1 .. Len(refs) |-> list[i]] /\ Len(refs) \in Nat /\ DOMAIN refs = 1 .. Len(refs)
        BY <2>3 DEF list
      <3> QED BY <2>5, <3>1
    <2>7. Chosen'
      BY <1>1, <1>5, <2>1, <2>2, <2>4 DEF Settled, Chosen, lineVars
    <2> QED BY <1>1, <1>2, <1>5, <2>6, <2>7, SettledKeeps
  <1>6. \/ /\ Exits("usage") \/ Exits("failed")
           /\ UNCHANGED <<shown, targets, meant, acted, gone>>
        \/ all /\ Settled(Listing, AllTargets)
        \/ ~all /\ ~missing /\ Settled(Listing, list)
    BY DEF Expand
  <1> QED BY <1>3, <1>4, <1>5, <1>6

LEMMA RequestFailsKeeps == ASSUME CommandInv, RequestFails PROVE CommandInv'
  <1>1. UNCHANGED <<tableVars, lineVars, shown, targets, meant, acted, gone>>
    BY DEF RequestFails
  <1>2. CASE stage = "requesting"
    <2>1. Reported(FALSE) /\ During
      BY <1>2 DEF RequestFails, During
    <2>2. TableTyped' /\ LineTyped' /\ ListsTyped'
      BY <1>1 DEF CommandInv, TableTyped, LineTyped, ListsTyped, tableVars, lineVars
    <2>3. acted[next] = {}
      BY <2>1, NextFresh DEF CommandInv
    <2>4. Progress' /\ Resolved' /\ Deeds'
      BY <1>1, <2>1, <2>3, ReportedKeeps DEF CommandInv
    <2>5. Aimed' /\ Chosen' /\ Removals'
      BY <1>1 DEF CommandInv, Aimed, Chosen, Removals, lineVars
    <2> QED BY <2>2, <2>4, <2>5 DEF CommandInv
  <1>3. CASE stage # "requesting"
    <2>1. stage = "expanding" /\ Exits("failed") /\ UNCHANGED <<next, hash, failed>>
      BY <1>3 DEF RequestFails, Asking
    <2>2. Before /\ hash = {}
      BY <2>1 DEF CommandInv, Resolved, Before
    <2> QED BY <1>1, <2>1, <2>2, LeavingKeeps
  <1> QED BY <1>2, <1>3

\* A full hash is a prefix of itself alone.
LEMMA WholePrefix ==
    ASSUME NEW s \in Seq(Nat), NEW t \in Seq(Nat), Len(s) = Len(t)
    PROVE  IsPrefix(s, t) <=> s = t
  <1>1. SubSeq(s, 1, Len(s)) = s /\ SubSeq(t, 1, Len(t)) = t
    OBVIOUS
  <1> QED BY <1>1 DEF IsPrefix

LEMMA HashSeq == ASSUME NEW h \in Hash PROVE h \in Seq(Nat) /\ Len(h) = HashLen
  <1>1. h \in [1 .. HashLen -> 0 .. 15] /\ HashLen \in Nat
    BY CommandsAssumption
  <1>2. h \in [1 .. HashLen -> Nat]
    BY <1>1
  <1> QED BY <1>1, <1>2

\* What the daemon resolves a reference to is all that it named.
LEMMA ResolvesAll ==
    ASSUME TableTyped, NEW r \in Hash \cup Reference, Resolve(r) # {}
    PROVE  /\ Resolve(r) = {h \in Hosted \cup magnets \cup {r} : IsPrefix(r, h) /\ Len(h) = HashLen}
           /\ \E h : Resolve(r) = {h}
  <1> DEFINE named == {h \in Hosted \cup magnets \cup {r} : IsPrefix(r, h) /\ Len(h) = HashLen}
             found(S) == {h \in S : IsPrefix(r, h)}
  <1>1. Hosted \in SUBSET Hash /\ magnets \in SUBSET Hash
    BY DEF TableTyped, Hosted
  <1>2. r \in Seq(Nat) /\ \A h \in Hash : h \in Seq(Nat) /\ Len(h) = HashLen
    BY HashSeq, CommandsAssumption
  <1>3. CASE Len(r) = HashLen
    <2>1. Resolve(r) = {r}
      BY <1>3 DEF Resolve
    <2>2. ASSUME NEW h \in Hosted \cup magnets \cup {r} PROVE IsPrefix(r, h) /\ Len(h) = HashLen <=> h = r
      <3>1. h \in Seq(Nat) /\ Len(h) = Len(r)
        BY <1>1, <1>2, <1>3
      <3>2. IsPrefix(r, h) <=> r = h
        BY <1>2, <3>1, WholePrefix
      <3> QED BY <1>3, <3>1, <3>2
    <2>3. named = {r}
      BY <2>2
    <2> QED BY <2>1, <2>3
  <1>4. CASE Len(r) # HashLen
    <2> DEFINE A == found(Hosted)
               B == found(magnets)
    <2>1. Resolve(r) = IF Cardinality(A) + Cardinality(B) = 1 THEN A \cup B ELSE {}
      BY <1>4 DEF Resolve
    <2>2. IsFiniteSet(A) /\ IsFiniteSet(B)
      <3>1. A \in SUBSET Hash /\ B \in SUBSET Hash /\ IsFiniteSet(Hash)
        BY <1>1, CommandsAssumption
      <3> QED BY <3>1, FS_Subset
    <2>3. named = A \cup B
      BY <1>1, <1>2, <1>4
    <2> HIDE DEF A, B, named
    <2>4. /\ Cardinality(A) \in Nat /\ Cardinality(B) \in Nat
          /\ Cardinality(A) + Cardinality(B) = 1 /\ Resolve(r) = A \cup B
      BY <2>1, <2>2, FS_CardinalityType
    <2>5. \/ Cardinality(A) = 0 /\ Cardinality(B) = 1
          \/ Cardinality(A) = 1 /\ Cardinality(B) = 0
      BY <2>4
    <2>6. CASE Cardinality(A) = 0 /\ Cardinality(B) = 1
      <3>1. A = {}
        BY <2>2, <2>6, FS_EmptySet
      <3>2. \E h : B = {h}
        BY <2>2, <2>6, FS_Singleton
      <3> QED BY <2>3, <2>4, <3>1, <3>2 DEF named
    <2>7. CASE Cardinality(A) = 1 /\ Cardinality(B) = 0
      <3>1. B = {}
        BY <2>2, <2>7, FS_EmptySet
      <3>2. \E h : A = {h}
        BY <2>2, <2>7, FS_Singleton
      <3> QED BY <2>3, <2>4, <3>1, <3>2 DEF named
    <2> QED BY <2>5, <2>6, <2>7
  <1> QED BY <1>3, <1>4

LEMMA ResolveKeeps == ASSUME CommandInv, ResolveTarget PROVE CommandInv'
  <1> DEFINE named == {h \in Hosted \cup magnets \cup {targets[next]} : IsPrefix(targets[next], h) /\ Len(h) = HashLen}
             found == Resolve(targets[next])
  <1>1. /\ stage = "requesting" /\ During /\ meant' = [meant EXCEPT ![next] = named]
        /\ UNCHANGED <<tableVars, lineVars, shown, targets, acted, gone>>
    BY DEF ResolveTarget, During
  <1>2. next \in DOMAIN targets /\ acted[next] = {}
    BY <1>1, NextFresh DEF CommandInv
  <1>3. targets[next] \in Hash \cup Reference /\ named \in SUBSET (Hash \cup Reference)
    <2>1. targets \in Seq(Hash \cup Reference) /\ magnets \in SUBSET Hash
      BY DEF CommandInv, ListsTyped, TableTyped
    <2>2. targets[next] \in Hash \cup Reference
      BY <1>2, <2>1
    <2> QED BY <2>1, <2>2 DEF Hosted
  <1>4. \A h \in named : IsPrefix(targets[next], h) /\ Len(h) = HashLen
    OBVIOUS
  <1>5. found # {} => found = named /\ \E h : found = {h}
    BY <1>3, ResolvesAll DEF CommandInv
  <1>6. IF found = {} THEN Reported(FALSE)
        ELSE hash' = found /\ stage' = "resolved" /\ UNCHANGED <<next, failed, exit>>
    BY DEF ResolveTarget
  <1> HIDE DEF named, found
  <1>7. meant \in [DOMAIN targets -> SUBSET (Hash \cup Reference)]
    BY DEF CommandInv, ListsTyped
  <1>8. meant'[next] = named /\ \A i \in DOMAIN targets : i # next => meant'[i] = meant[i]
    BY <1>1, <1>2, <1>7
  <1>9. TableTyped' /\ LineTyped' /\ ListsTyped'
    <2>1. TableTyped' /\ LineTyped'
      BY <1>1 DEF CommandInv, TableTyped, LineTyped, tableVars, lineVars
    <2>2. meant' \in [DOMAIN targets -> SUBSET (Hash \cup Reference)]
      BY <1>1, <1>2, <1>3, <1>7
    <2> QED BY <1>1, <2>1, <2>2 DEF CommandInv, ListsTyped
  <1>10. Aimed' /\ Chosen' /\ Removals'
    <2>1. ASSUME NEW i \in DOMAIN targets, NEW h \in meant'[i] PROVE IsPrefix(targets[i], h) /\ Len(h) = HashLen
      <3>1. CASE i = next
        BY <1>4, <1>8, <2>1, <3>1
      <3>2. CASE i # next
        BY <1>8, <2>1, <3>2 DEF CommandInv, Aimed
      <3> QED BY <3>1, <3>2
    <2>2. Aimed'
      BY <1>1, <2>1 DEF Aimed
    <2> QED BY <1>1, <2>2 DEF CommandInv, Chosen, Removals, lineVars
  <1>11. CASE found = {}
    <2>1. Reported(FALSE)
      BY <1>6, <1>11
    <2>2. Progress' /\ Resolved' /\ Deeds'
      BY <1>1, <1>2, <1>8, <2>1, ReportedKeeps DEF CommandInv
    <2> QED BY <1>9, <1>10, <2>2 DEF CommandInv
  <1>12. CASE found # {}
    <2>1. hash' = named /\ (\E h : named = {h}) /\ stage' = "resolved" /\ UNCHANGED <<next, failed, exit>>
      BY <1>5, <1>6, <1>12
    <2>2. Progress' /\ Resolved'
      BY <1>1, <1>8, <2>1 DEF CommandInv, Progress, Resolved, Before, During
    <2>3. Deeds'
      <3>1. During'
        BY <2>1 DEF During
      <3>2. ASSUME NEW i \in DOMAIN targets, acted[i] # {} PROVE acted[i] = meant'[i]
        BY <1>2, <1>8, <3>2 DEF CommandInv, Deeds
      <3> QED BY <1>1, <2>1, <3>2 DEF CommandInv, Deeds, During
    <2> QED BY <1>9, <1>10, <2>2, <2>3 DEF CommandInv
  <1> QED BY <1>11, <1>12

LEMMA CheckKeeps == ASSUME CommandInv, CheckPending PROVE CommandInv'
  <1>1. /\ stage = "resolved" /\ During
        /\ UNCHANGED <<tableVars, lineVars, shown, targets, meant, acted, gone>>
    BY DEF CheckPending, During
  <1>2. next \in DOMAIN targets /\ acted[next] = {}
    BY <1>1, NextFresh DEF CommandInv
  <1>3. TableTyped' /\ LineTyped' /\ ListsTyped'
    BY <1>1 DEF CommandInv, TableTyped, LineTyped, ListsTyped, tableVars, lineVars
  <1>4. Aimed' /\ Chosen' /\ Removals'
    BY <1>1 DEF CommandInv, Aimed, Chosen, Removals, lineVars
  <1>5. CASE Reported(FALSE)
    <2>1. Progress' /\ Resolved' /\ Deeds'
      BY <1>1, <1>2, <1>5, ReportedKeeps DEF CommandInv
    <2> QED BY <1>3, <1>4, <2>1 DEF CommandInv
  <1>6. CASE stage' = "checked" /\ UNCHANGED <<next, hash, failed, exit>>
    <2>1. Progress' /\ Resolved'
      BY <1>1, <1>6 DEF CommandInv, Progress, Resolved, Before, During
    <2>2. Deeds'
      BY <1>1, <1>6 DEF CommandInv, Deeds, During
    <2> QED BY <1>3, <1>4, <2>1, <2>2 DEF CommandInv
  <1> QED BY <1>5, <1>6 DEF CheckPending

\* What is acted on is what was resolved, and a removal is counted.
LEMMA PerformKeeps == ASSUME CommandInv, NEW answer \in BOOLEAN, Perform(answer) PROVE CommandInv'
  <1>1. stage = "checked" /\ During /\ UNCHANGED <<changes, lineVars, shown, targets, meant>>
    BY DEF Perform, During
  <1>2. next \in DOMAIN targets /\ acted[next] = {}
    BY <1>1, NextFresh DEF CommandInv
  <1>3. hash = meant[next] /\ \E h : hash = {h}
    BY <1>1 DEF CommandInv, Resolved
  <1>4. LineTyped' /\ Aimed' /\ Chosen'
    BY <1>1 DEF CommandInv, LineTyped, Aimed, Chosen, lineVars
  <1>5. CASE Reported(FALSE) /\ UNCHANGED <<added, magnets, gone, acted>>
    <2>1. TableTyped' /\ ListsTyped' /\ Removals'
      BY <1>1, <1>5 DEF CommandInv, TableTyped, ListsTyped, Removals, lineVars
    <2>2. Progress' /\ Resolved' /\ Deeds'
      BY <1>1, <1>2, <1>5, ReportedKeeps DEF CommandInv
    <2> QED BY <1>4, <2>1, <2>2 DEF CommandInv
  <1>6. CASE /\ hash \subseteq Hosted \/ (verb = "remove" /\ hash \subseteq magnets)
             /\ acted' = [acted EXCEPT ![next] = hash]
             /\ IF verb = "remove" THEN \E h \in hash : Removes(h) ELSE UNCHANGED <<added, magnets, gone>>
             /\ Reported(answer)
    <2>1. PICK h \in Hash : hash = {h}
      BY <1>3, <1>6 DEF CommandInv, TableTyped, Hosted
    <2>2. acted \in [DOMAIN targets -> SUBSET Hash]
      BY DEF CommandInv, ListsTyped
    <2>3. /\ acted' \in [DOMAIN targets -> SUBSET Hash] /\ acted'[next] = {h}
          /\ \A i \in DOMAIN targets : i # next => acted'[i] = acted[i]
      BY <1>2, <1>6, <2>1, <2>2
    <2>4. ListsTyped'
      BY <1>1, <2>3 DEF CommandInv, ListsTyped
    <2>5. Progress' /\ Resolved' /\ Deeds'
      <3>1. acted'[next] = meant'[next] /\ acted'[next] # {}
        BY <1>1, <1>3, <2>1, <2>3
      <3> QED BY <1>1, <1>6, <2>3, <3>1, ReportedKeeps DEF CommandInv
    <2>6. CASE verb = "remove"
      <3>1. Removes(h)
        BY <1>6, <2>1, <2>6
      <3>2. TableTyped'
        BY <1>1, <3>1, RemovesTyped DEF CommandInv, TableTyped
      <3>3. gone'[h] = gone[h] + 1 /\ \A g \in Hash : g # h => gone'[g] = gone[g]
        BY <3>1, RemovesTyped DEF CommandInv
      <3>4. ASSUME NEW g \in Hash PROVE Cardinality({i \in DOMAIN targets : acted'[i] = {g}}) <= gone'[g]
        <4> DEFINE T == {i \in DOMAIN targets : acted[i] = {g}}
                   U == {i \in DOMAIN targets : acted'[i] = {g}}
        <4>1. IsFiniteSet(T) /\ Cardinality(T) \in Nat
          BY DoneFinite DEF CommandInv
        <4>2. Cardinality(T) <= gone[g] /\ gone[g] \in Nat
          BY <2>6 DEF CommandInv, Removals, TableTyped
        <4>3. CASE g = h
          <5>1. U = T \cup {next} /\ next \notin T
            BY <1>2, <2>3, <4>3
          <5> HIDE DEF T, U
          <5>2. Cardinality(U) = Cardinality(T) + 1
            BY <4>1, <5>1, FS_AddElement
          <5>3. Cardinality(U) <= gone'[g]
            BY <3>3, <4>1, <4>2, <4>3, <5>2
          <5> QED BY <5>3 DEF U
        <4>4. CASE g # h
          <5>1. U = T
            BY <1>2, <2>3, <4>4
          <5>2. gone'[g] = gone[g]
            BY <3>3, <4>4
          <5> HIDE DEF T, U
          <5>3. Cardinality(U) <= gone'[g]
            BY <4>2, <5>1, <5>2
          <5> QED BY <5>3 DEF U
        <4> QED BY <4>3, <4>4
      <3>5. Removals'
        BY <1>1, <3>4 DEF Removals
      <3> QED BY <1>4, <2>4, <2>5, <3>2, <3>5 DEF CommandInv
    <2>7. CASE verb # "remove"
      <3>1. UNCHANGED <<added, magnets, gone>>
        BY <1>6, <2>7
      <3>2. TableTyped' /\ Removals'
        BY <1>1, <2>7, <3>1 DEF CommandInv, TableTyped, Removals, lineVars
      <3> QED BY <1>4, <2>4, <2>5, <3>2 DEF CommandInv
    <2> QED BY <2>6, <2>7
  <1> QED BY <1>5, <1>6 DEF Perform

LEMMA CommandInvInit == CommandsInit => CommandInv
  <1> SUFFICES ASSUME CommandsInit PROVE CommandInv
    OBVIOUS
  <1> USE DEF CommandsInit
  <1>1. TableTyped
    BY CommandsAssumption DEF TableTyped
  <1>2. LineTyped /\ ListsTyped
    <2>1. refs \in Seq(Reference) /\ Len(refs) = 0 /\ shown \in Seq(Hash) /\ targets \in Seq(Hash \cup Reference)
      OBVIOUS
    <2>2. DOMAIN targets = {} /\ meant \in [{} -> SUBSET (Hash \cup Reference)] /\ acted \in [{} -> SUBSET Hash]
      OBVIOUS
    <2>3. LineTyped
      <3>1. Len(refs) <= MaxRefs
        BY <2>1, CommandsAssumption
      <3> QED BY <2>1, <3>1 DEF LineTyped
    <2>4. ListsTyped
      BY <2>1, <2>2, Zenon DEF ListsTyped
    <2> QED BY <2>3, <2>4
  <1>3. Progress /\ Resolved
    BY DEF Progress, Resolved, Before, During
  <1>4. Deeds /\ Aimed /\ Chosen
    BY DEF Deeds, Aimed, Chosen
  <1>5. Removals
    BY DEF Removals
  <1> QED BY <1>1, <1>2, <1>3, <1>4, <1>5 DEF CommandInv

LEMMA CommandInvStep == CommandInv /\ [CommandsNext]_commandVars => CommandInv'
  <1> SUFFICES ASSUME CommandInv, [CommandsNext]_commandVars PROVE CommandInv'
    OBVIOUS
  <1>1. CASE UNCHANGED commandVars
    <2>1. /\ UNCHANGED <<lineVars, stage, shown, targets, next, hash, meant, acted, failed, exit>>
          /\ UNCHANGED <<added, magnets, changes, gone>>
      BY <1>1 DEF commandVars, tableVars
    <2>2. TableTyped'
      BY <2>1 DEF CommandInv, TableTyped
    <2>3. \A h \in Hash : gone'[h] \in Nat /\ gone[h] \in Nat /\ gone[h] <= gone'[h]
      BY <2>1 DEF CommandInv, TableTyped
    <2> QED BY <2>1, <2>2, <2>3, AloneKeeps DEF CommandInv
  <1>2. CASE CommandsNext
    BY <1>2, TypingKeeps, LocateKeeps, ExpandKeeps, UnreachableKeeps, RequestFailsKeeps, ResolveKeeps,
       CheckKeeps, PerformKeeps, OthersKeep
       DEF CommandsNext
  <1> QED BY <1>1, <1>2

\* However many torrents there are and whatever others do to the table between
\* two requests of a command, it touches only what it was given names for, an
\* exit code of 0 means that every target was acted on, and remove --all that
\* succeeds has removed all that was listed (expand, for_each, resolve).
THEOREM CommandsAlwaysHonest == CommandsSpec => []CommandHonest
  <1>1. ASSUME CommandInv PROVE CommandHonest
    <2>1. Len(targets) \in Nat /\ DOMAIN targets = 1 .. Len(targets) /\ DOMAIN shown = 1 .. Len(shown)
      BY <1>1 DEF CommandInv, ListsTyped
    <2>2. ASSUME NEW i \in DOMAIN targets, acted[i] # {}, targets[i] \in Hash PROVE acted[i] = {targets[i]}
      <3>1. PICK h \in Hash : acted[i] = {h}
        BY <1>1, <2>2 DEF CommandInv, Deeds
      <3>2. IsPrefix(targets[i], h)
        BY <1>1, <2>2, <3>1 DEF CommandInv, Deeds, Aimed
      <3>3. targets[i] = h
        BY <2>2, <3>2, HashSeq, WholePrefix
      <3> QED BY <3>1, <3>3
    <2>3. CommandsTypeOK
      <3>1. next \in 1 .. Len(targets) + 1 /\ failed \in 0 .. Len(targets)
        <4>1. CASE Before
          BY <1>1, <2>1, <4>1 DEF CommandInv, Progress
        <4>2. CASE During
          BY <1>1, <2>1, <4>2 DEF CommandInv, Progress
        <4>3. CASE stage = "over"
          BY <1>1, <4>3 DEF CommandInv, Progress
        <4> QED BY <1>1, <4>1, <4>2, <4>3 DEF CommandInv, Progress
      <3>2. stage \in {"typing", "locating", "expanding", "requesting", "resolved", "checked", "over"}
        BY <1>1 DEF CommandInv, Progress, Before, During
      <3>3. Cardinality(hash) <= 1
        <4>1. hash = {} \/ \E h : hash = {h}
          BY <1>1 DEF CommandInv, Resolved
        <4>2. Cardinality(hash) \in {0, 1}
          BY <4>1, FS_EmptySet, FS_Singleton
        <4> QED BY <4>2
      <3>4. Range(shown) \subseteq Hash /\ Range(targets) \subseteq Hash \cup Reference
        BY <1>1 DEF CommandInv, ListsTyped, Range
      <3>5. DOMAIN meant = DOMAIN targets /\ DOMAIN acted = DOMAIN targets
        BY <1>1 DEF CommandInv, ListsTyped
      <3>6. exit \in {"none", "ok", "failed", "usage", "unreachable"}
        BY <1>1 DEF CommandInv, Progress
      <3> QED BY <1>1, <3>1, <3>2, <3>3, <3>4, <3>5, <3>6 DEF CommandInv, TableTyped, LineTyped, CommandsTypeOK
    <2>4. TouchesOnlyNamed
      <3> SUFFICES ASSUME NEW i \in DOMAIN targets, acted[i] # {}
                   PROVE  /\ meant[i] = acted[i]
                          /\ ~all /\ IsIndex(refs[i]) => acted[i] = {shown[Position(refs[i])]}
                          /\ ~all /\ ~IsIndex(refs[i]) => \A h \in acted[i] : IsPrefix(refs[i], h)
        BY DEF TouchesOnlyNamed
      <3>1. meant[i] = acted[i]
        BY <1>1 DEF CommandInv, Deeds
      <3>2. ASSUME ~all, IsIndex(refs[i]) PROVE acted[i] = {shown[Position(refs[i])]}
        <4>1. Position(refs[i]) \in DOMAIN shown /\ targets[i] = shown[Position(refs[i])]
          BY <1>1, <3>2 DEF CommandInv, Chosen
        <4>2. targets[i] \in Hash
          BY <1>1, <4>1 DEF CommandInv, ListsTyped
        <4> QED BY <2>2, <4>1, <4>2
      <3>3. ASSUME ~all, ~IsIndex(refs[i]), NEW h \in acted[i] PROVE IsPrefix(refs[i], h)
        <4>1. targets[i] = refs[i]
          BY <1>1, <3>3 DEF CommandInv, Chosen
        <4> QED BY <1>1, <3>1, <3>3, <4>1 DEF CommandInv, Aimed
      <3> QED BY <3>1, <3>2, <3>3
    <2>5. ExitHonest
      BY <1>1 DEF CommandInv, Deeds, ExitHonest
    <2>6. AllMeansAll
      <3> SUFFICES ASSUME exit = "ok", all, verb = "remove", NEW h \in Hash
                   PROVE  Cardinality({i \in DOMAIN shown : shown[i] = h}) <= gone[h]
        BY DEF AllMeansAll
      <3>1. targets = shown /\ shown \in Seq(Hash)
        BY <1>1 DEF CommandInv, Chosen, ListsTyped
      <3>2. ASSUME NEW i \in DOMAIN targets PROVE acted[i] = {targets[i]}
        <4>1. acted[i] # {} /\ targets[i] \in Hash
          BY <1>1, <3>1 DEF CommandInv, Deeds
        <4> QED BY <2>2, <4>1
      <3>3. {i \in DOMAIN shown : shown[i] = h} = {i \in DOMAIN targets : acted[i] = {h}}
        BY <3>1, <3>2
      <3> QED BY <1>1, <3>3 DEF CommandInv, Removals
    <2> QED BY <2>3, <2>4, <2>5, <2>6 DEF CommandHonest
  <1>2. CommandInv => CommandHonest
    BY <1>1
  <1> QED BY CommandInvInit, CommandInvStep, <1>2, PTL DEF CommandsSpec

-----------------------------------------------------------------------------
(* The paths of a file list *)

LEMMA SameSeq ==
    ASSUME NEW p \in Seq(Nat), NEW q \in Seq(Nat), Len(p) = Len(q),
           \A k \in 1 .. Len(p) : p[k] = q[k]
    PROVE  p = q
  OBVIOUS

\* IsPrefix, place by place.
LEMMA PrefixMeans ==
    ASSUME NEW p \in Seq(Nat), NEW q \in Seq(Nat)
    PROVE  IsPrefix(p, q) <=> Len(p) <= Len(q) /\ \A k \in 1 .. Len(p) : p[k] = q[k]
  <1>1. Len(p) \in Nat /\ Len(q) \in Nat
    OBVIOUS
  <1>2. SubSeq(p, 1, Len(p)) = p
    OBVIOUS
  <1>3. ASSUME Len(p) <= Len(q)
        PROVE  /\ SubSeq(q, 1, Len(p)) \in Seq(Nat) /\ Len(SubSeq(q, 1, Len(p))) = Len(p)
               /\ \A k \in 1 .. Len(p) : SubSeq(q, 1, Len(p))[k] = q[k]
    BY <1>1, <1>3
  <1>4. ASSUME Len(p) <= Len(q)
        PROVE  p = SubSeq(q, 1, Len(p)) <=> \A k \in 1 .. Len(p) : p[k] = q[k]
    <2> DEFINE r == SubSeq(q, 1, Len(p))
    <2>1. r \in Seq(Nat) /\ Len(r) = Len(p) /\ \A k \in 1 .. Len(p) : r[k] = q[k]
      BY <1>3, <1>4
    <2> HIDE DEF r
    <2>2. ASSUME \A k \in 1 .. Len(p) : p[k] = r[k] PROVE p = r
      BY <2>1, <2>2, SameSeq
    <2>3. p = r <=> \A k \in 1 .. Len(p) : p[k] = q[k]
      BY <2>1, <2>2
    <2> QED BY <2>3 DEF r
  <1> QED BY <1>2, <1>4 DEF IsPrefix

\* A path as a sequence without end: 0 stands for every place after the last.
Digits(p) == [k \in Nat |-> IF k + 1 \in DOMAIN p THEN p[k + 1] + 1 ELSE 0]

LEMMA DigitsTyped ==
    ASSUME NEW p \in Seq(Nat)
    PROVE  /\ Digits(p) \in [Nat -> Nat]
           /\ \A k \in 1 .. Len(p) : Digits(p)[k - 1] = p[k] + 1 /\ p[k] \in Nat
           /\ \A k \in Nat : k >= Len(p) => Digits(p)[k] = 0
  <1>1. \A k \in 1 .. Len(p) : p[k] \in Nat
    OBVIOUS
  <1>2. DOMAIN p = 1 .. Len(p) /\ Len(p) \in Nat
    OBVIOUS
  <1> QED BY <1>1, <1>2 DEF Digits

LEMMA DigitsDiffer ==
    ASSUME NEW p \in Seq(Nat), NEW q \in Seq(Nat), Digits(p) = Digits(q)
    PROVE  p = q
  <1>1. Len(p) \in Nat /\ Len(q) \in Nat
    OBVIOUS
  <1>2. ~(Len(p) < Len(q))
    <2> SUFFICES ASSUME Len(p) < Len(q) PROVE FALSE
      OBVIOUS
    <2>1. Len(q) \in 1 .. Len(q) /\ Len(q) - 1 \in Nat /\ Len(q) - 1 >= Len(p)
      BY <1>1
    <2>2. Digits(q)[Len(q) - 1] = q[Len(q)] + 1 /\ q[Len(q)] \in Nat
      BY <2>1, DigitsTyped
    <2>3. Digits(p)[Len(q) - 1] = 0
      BY <2>1, DigitsTyped
    <2> QED BY <2>2, <2>3
  <1>3. ~(Len(q) < Len(p))
    <2> SUFFICES ASSUME Len(q) < Len(p) PROVE FALSE
      OBVIOUS
    <2>1. Len(p) \in 1 .. Len(p) /\ Len(p) - 1 \in Nat /\ Len(p) - 1 >= Len(q)
      BY <1>1
    <2>2. Digits(p)[Len(p) - 1] = p[Len(p)] + 1 /\ p[Len(p)] \in Nat
      BY <2>1, DigitsTyped
    <2>3. Digits(q)[Len(p) - 1] = 0
      BY <2>1, DigitsTyped
    <2> QED BY <2>2, <2>3
  <1>4. Len(p) = Len(q)
    BY <1>1, <1>2, <1>3
  <1>5. ASSUME NEW k \in 1 .. Len(p) PROVE p[k] = q[k]
    <2>1. Digits(p)[k - 1] = p[k] + 1 /\ p[k] \in Nat
      BY DigitsTyped
    <2>2. Digits(q)[k - 1] = q[k] + 1 /\ q[k] \in Nat
      BY <1>4, DigitsTyped
    <2>3. p[k] + 1 = q[k] + 1 /\ p[k] \in Nat /\ q[k] \in Nat
      BY <2>1, <2>2
    <2> QED BY <2>3
  <1> QED BY <1>4, <1>5, SameSeq

\* The order of Vec<String> is that of the sequences without end.
LEMMA BeforeIsLex ==
    ASSUME NEW p \in Seq(Nat), NEW q \in Seq(Nat)
    PROVE  PathBefore(p, q) <=> Lex(Digits(p), Digits(q))
  <1> DEFINE f == Digits(p)  g == Digits(q)
  <1>1. Len(p) \in Nat /\ Len(q) \in Nat /\ DOMAIN p = 1 .. Len(p) /\ DOMAIN q = 1 .. Len(q)
    OBVIOUS
  <1>2. /\ \A k \in 1 .. Len(p) : f[k - 1] = p[k] + 1 /\ p[k] \in Nat
        /\ \A k \in Nat : k >= Len(p) => f[k] = 0
    BY DigitsTyped
  <1>3. /\ \A k \in 1 .. Len(q) : g[k - 1] = q[k] + 1 /\ q[k] \in Nat
        /\ \A k \in Nat : k >= Len(q) => g[k] = 0
    BY DigitsTyped
  <1> HIDE DEF f, g
  <1>4. ASSUME IsStrictPrefix(p, q) PROVE Lex(f, g)
    <2>1. Len(p) <= Len(q) /\ (\A k \in 1 .. Len(p) : p[k] = q[k]) /\ p # q
      BY <1>4, PrefixMeans DEF IsStrictPrefix
    <2>2. ~(Len(q) <= Len(p))
      <3> SUFFICES ASSUME Len(q) <= Len(p) PROVE FALSE
        OBVIOUS
      <3>1. Len(p) \in Nat /\ Len(q) \in Nat /\ Len(p) <= Len(q)
        BY <1>1, <2>1
      <3>2. Len(p) = Len(q)
        BY <3>1
      <3> QED BY <2>1, <3>2, SameSeq
    <2>3. Len(p) \in Nat /\ Len(p) + 1 \in 1 .. Len(q) /\ (Len(p) + 1) - 1 = Len(p)
      <3>1. Len(p) \in Nat /\ Len(q) \in Nat /\ Len(p) < Len(q)
        BY <1>1, <2>2
      <3> QED BY <3>1
    <2>4. f[Len(p)] = 0
      BY <1>2, <2>3
    <2>5. g[(Len(p) + 1) - 1] = q[Len(p) + 1] + 1 /\ q[Len(p) + 1] \in Nat
      BY <1>3, <2>3
    <2>6. f[Len(p)] < g[Len(p)]
      BY <2>3, <2>4, <2>5
    <2>7. ASSUME NEW j \in 0 .. Len(p) - 1 PROVE f[j] = g[j]
      <3>1. j + 1 \in 1 .. Len(p) /\ j + 1 \in 1 .. Len(q) /\ (j + 1) - 1 = j
        BY <1>1, <2>1
      <3>2. f[(j + 1) - 1] = p[j + 1] + 1 /\ g[(j + 1) - 1] = q[j + 1] + 1
        BY <1>2, <1>3, <3>1
      <3> QED BY <2>1, <3>1, <3>2
    <2> QED BY <1>1, <2>6, <2>7 DEF Lex
  <1>5. ASSUME NEW k \in DOMAIN p \cap DOMAIN q, p[k] < q[k], \A j \in 1 .. k - 1 : p[j] = q[j]
        PROVE  Lex(f, g)
    <2>1. k \in 1 .. Len(p) /\ k \in 1 .. Len(q) /\ k - 1 \in Nat
      BY <1>1, <1>5
    <2>2. f[k - 1] < g[k - 1]
      <3>1. f[k - 1] = p[k] + 1 /\ g[k - 1] = q[k] + 1 /\ p[k] \in Nat /\ q[k] \in Nat
        BY <1>2, <1>3, <2>1
      <3> QED BY <1>5, <3>1
    <2>3. ASSUME NEW j \in 0 .. (k - 1) - 1 PROVE f[j] = g[j]
      <3>1. j + 1 \in 1 .. Len(p) /\ j + 1 \in 1 .. Len(q) /\ j + 1 \in 1 .. k - 1 /\ (j + 1) - 1 = j
        <4>1. k \in Nat /\ Len(p) \in Nat /\ Len(q) \in Nat /\ k <= Len(p) /\ k <= Len(q)
          BY <1>1, <2>1
        <4> QED BY <4>1
      <3>2. f[(j + 1) - 1] = p[j + 1] + 1 /\ g[(j + 1) - 1] = q[j + 1] + 1
        BY <1>2, <1>3, <3>1
      <3> QED BY <1>5, <3>1, <3>2
    <2> QED BY <2>1, <2>2, <2>3 DEF Lex
  <1>6. ASSUME Lex(f, g) PROVE PathBefore(p, q)
    <2>1. PICK k \in Nat : f[k] < g[k] /\ \A j \in 0 .. k - 1 : f[j] = g[j]
      BY <1>6 DEF Lex
    <2>2. k < Len(q)
      <3> SUFFICES ASSUME k >= Len(q) PROVE FALSE
        BY <1>1
      <3>1. g[k] = 0
        BY <1>3
      <3>2. f[k] = 0 \/ (k + 1 \in 1 .. Len(p) /\ (k + 1) - 1 = k)
        BY <1>1, <1>2
      <3>3. f[k] \in Nat
        BY <1>2, <3>2
      <3> QED BY <2>1, <3>1, <3>3
    <2>3. ASSUME NEW j \in 1 .. Len(p), j <= k PROVE j <= Len(q) /\ p[j] = q[j]
      <3>1. j - 1 \in 0 .. k - 1 /\ j \in 1 .. Len(q)
        BY <1>1, <2>2, <2>3
      <3>2. f[j - 1] = g[j - 1]
        BY <2>1, <3>1
      <3>3. f[j - 1] = p[j] + 1 /\ p[j] \in Nat /\ g[j - 1] = q[j] + 1 /\ q[j] \in Nat
        BY <1>2, <1>3, <3>1
      <3>4. p[j] + 1 = q[j] + 1 /\ p[j] \in Nat /\ q[j] \in Nat
        BY <3>2, <3>3
      <3>5. p[j] = q[j]
        BY <3>4
      <3> QED BY <1>1, <3>1, <3>5
    <2>4. CASE k < Len(p)
      <3>1. k + 1 \in 1 .. Len(p) /\ k + 1 \in 1 .. Len(q) /\ (k + 1) - 1 = k
        BY <1>1, <2>2, <2>4
      <3>2. f[k] = p[k + 1] + 1 /\ p[k + 1] \in Nat /\ g[k] = q[k + 1] + 1 /\ q[k + 1] \in Nat
        BY <1>2, <1>3, <3>1
      <3>3. p[k + 1] < q[k + 1]
        BY <2>1, <3>2
      <3>4. \A j \in 1 .. (k + 1) - 1 : p[j] = q[j]
        BY <1>1, <2>3, <2>4
      <3>5. k + 1 \in DOMAIN p \cap DOMAIN q
        BY <1>1, <3>1
      <3> QED BY <3>3, <3>4, <3>5 DEF PathBefore
    <2>5. CASE k >= Len(p)
      <3>1. \A j \in 1 .. Len(p) : p[j] = q[j]
        BY <1>1, <2>3, <2>5
      <3>2. Len(p) <= Len(q) /\ p # q
        BY <1>1, <2>2, <2>5
      <3>3. IsPrefix(p, q)
        BY <3>1, <3>2, PrefixMeans
      <3> QED BY <3>2, <3>3 DEF PathBefore, IsStrictPrefix
    <2> QED BY <1>1, <2>4, <2>5
  <1>7. Lex(f, g) <=> PathBefore(p, q)
    BY <1>4, <1>5, <1>6 DEF PathBefore
  <1> QED BY <1>7 DEF f, g

\* What lies between a path and one that leads through it leads through it too.
LEMMA Between ==
    ASSUME NEW p \in Seq(Nat), NEW x \in Seq(Nat), NEW q \in Seq(Nat),
           IsPrefix(p, q), p = x \/ PathBefore(p, x), x = q \/ PathBefore(x, q)
    PROVE  IsPrefix(p, x)
  <1>1. /\ Len(p) \in Nat /\ Len(x) \in Nat /\ Len(q) \in Nat
        /\ DOMAIN p = 1 .. Len(p) /\ DOMAIN x = 1 .. Len(x) /\ DOMAIN q = 1 .. Len(q)
    OBVIOUS
  <1>2. \A k \in 1 .. Len(p) : p[k] = q[k] /\ k \in 1 .. Len(q) /\ p[k] \in Nat
    <2>1. Len(p) <= Len(q) /\ \A k \in 1 .. Len(p) : p[k] = q[k]
      BY PrefixMeans
    <2> QED BY <1>1, <2>1
  <1>3. \A k \in 1 .. Len(x) : x[k] \in Nat
    OBVIOUS
  <1>4. CASE p = x
    BY <1>4, PrefixMeans
  <1>5. CASE IsStrictPrefix(p, x) \/ x = q
    BY <1>5 DEF IsStrictPrefix
  <1>6. ASSUME NEW k \in DOMAIN p \cap DOMAIN x, p[k] < x[k], \A j \in 1 .. k - 1 : p[j] = x[j],
               PathBefore(x, q)
        PROVE  FALSE
    <2>1. k \in 1 .. Len(p) /\ k \in 1 .. Len(x) /\ p[k] \in Nat /\ x[k] \in Nat /\ q[k] = p[k]
      BY <1>1, <1>2, <1>3
    <2>2. ASSUME IsStrictPrefix(x, q) PROVE FALSE
      <3>1. x[k] = q[k]
        BY <2>1, <2>2, PrefixMeans DEF IsStrictPrefix
      <3> QED BY <1>6, <2>1, <3>1
    <2>3. ASSUME NEW m \in DOMAIN x \cap DOMAIN q, x[m] < q[m], \A j \in 1 .. m - 1 : x[j] = q[j]
          PROVE  FALSE
      <3>1. m \in 1 .. Len(x) /\ x[m] \in Nat
        BY <1>1, <1>3
      <3>2. CASE m < k
        <4>1. m \in 1 .. k - 1 /\ m \in 1 .. Len(p)
          <5> DEFINE L == Len(p)  M == Len(x)
          <5>1. L \in Nat /\ M \in Nat /\ k \in 1 .. L /\ m \in 1 .. M
            BY <1>1, <2>1, <3>1, Zenon
          <5> HIDE DEF L, M
          <5>2. m \in 1 .. k - 1 /\ m \in 1 .. L
            BY <3>2, <5>1
          <5> QED BY <5>2 DEF L
        <4>2. p[m] = x[m] /\ p[m] = q[m]
          BY <1>2, <1>6, <4>1
        <4> QED BY <2>3, <3>1, <4>2
      <3>3. CASE m = k
        BY <1>6, <2>1, <2>3, <3>3
      <3>4. CASE k < m
        <4>1. k \in 1 .. m - 1
          BY <2>1, <3>1, <3>4
        <4>2. x[k] = q[k]
          BY <2>3, <4>1
        <4> QED BY <1>6, <2>1, <4>2
      <3>5. m < k \/ m = k \/ k < m
        <4> DEFINE M == Len(x)
        <4>1. M \in Nat /\ k \in 1 .. M /\ m \in 1 .. M
          BY <1>1, <2>1, <3>1, Zenon
        <4> HIDE DEF M
        <4> QED BY <4>1
      <3> QED BY <3>2, <3>3, <3>4, <3>5
    <2> QED BY <1>6, <2>2, <2>3 DEF PathBefore
  <1> QED BY <1>4, <1>5, <1>6 DEF PathBefore

FilesTyped == files \in Seq([path : Path, length : Length \cap Nat])

LEMMA FilesShape ==
    ASSUME FilesTyped
    PROVE  /\ Len(files) \in Nat /\ DOMAIN files = 1 .. Len(files)
           /\ \A i \in DOMAIN files : files[i].length \in Nat /\ files[i].path \in Path
  <1> DEFINE S == [path : Path, length : Length \cap Nat]
  <1>1. files \in Seq(S)
    BY DEF FilesTyped
  <1>2. Len(files) \in Nat /\ DOMAIN files = 1 .. Len(files) /\ \A i \in DOMAIN files : files[i] \in S
    <2> HIDE DEF S
    <2> QED BY <1>1
  <1> QED BY <1>2

LEMMA FoldTyped ==
    ASSUME NEW p \in Path
    PROVE  Fold(p) \in Seq(Nat)
  <1>1. p \in Seq(Nat) /\ Upper \in Nat
    BY LayoutAssumption
  <1>2. Len(p) \in Nat /\ DOMAIN p = 1 .. Len(p) /\ \A k \in 1 .. Len(p) : p[k] \in Nat
    BY <1>1
  <1>3. \A k \in 1 .. Len(p) : p[k] > Upper => p[k] - Upper \in Nat
    BY <1>1, <1>2
  <1>4. Fold(p) \in [1 .. Len(p) -> Nat]
    BY <1>2, <1>3 DEF Fold
  <1> QED BY <1>2, <1>4

LEMMA FoldedTyped ==
    ASSUME FilesTyped
    PROVE  /\ DOMAIN Folded = DOMAIN files
           /\ \A i \in DOMAIN files : Folded[i] \in Seq(Nat) /\ Folded[i] \in {Fold(p) : p \in Path}
  BY FilesShape, FoldTyped DEF Folded

\* The order the list is sorted by: paths, then places in the list.
AtOrBefore(j, i) == PathBefore(Folded[j], Folded[i]) \/ (Folded[j] = Folded[i] /\ j <= i)

LEMMA ListOrder ==
    ASSUME FilesTyped, NEW x \in DOMAIN files, NEW y \in DOMAIN files, NEW z \in DOMAIN files
    PROVE  /\ AtOrBefore(x, x)
           /\ AtOrBefore(x, y) \/ AtOrBefore(y, x)
           /\ AtOrBefore(x, y) /\ AtOrBefore(y, x) => x = y
           /\ AtOrBefore(x, y) /\ AtOrBefore(y, z) => AtOrBefore(x, z)
  <1> DEFINE d(i) == Digits(Folded[i])
  <1>1. \A i \in DOMAIN files : Folded[i] \in Seq(Nat) /\ i \in Nat
    BY FilesShape, FoldedTyped
  <1>2. \A i \in DOMAIN files : d(i) \in [Nat -> Nat]
    BY <1>1, DigitsTyped
  <1>3. \A i, j \in DOMAIN files : PathBefore(Folded[i], Folded[j]) <=> Lex(d(i), d(j))
    BY <1>1, BeforeIsLex
  <1>4. \A i, j \in DOMAIN files : Folded[i] = Folded[j] <=> d(i) = d(j)
    BY <1>1, DigitsDiffer
  <1> HIDE DEF d
  <1>5. \A i, j \in DOMAIN files : AtOrBefore(i, j) <=> Lex(d(i), d(j)) \/ (d(i) = d(j) /\ i <= j)
    BY <1>3, <1>4 DEF AtOrBefore
  <1>6. x \in Nat /\ y \in Nat /\ z \in Nat
    BY <1>1
  <1>7. d(x) \in [Nat -> Nat] /\ d(y) \in [Nat -> Nat] /\ d(z) \in [Nat -> Nat]
    BY <1>2
  <1>8. AtOrBefore(x, x)
    BY <1>5, <1>6
  <1>9. AtOrBefore(x, y) \/ AtOrBefore(y, x)
    <2>1. CASE d(x) = d(y)
      BY <1>5, <1>6, <2>1
    <2>2. CASE d(x) # d(y)
      BY <1>5, <1>7, <2>2, LexTotal
    <2> QED BY <2>1, <2>2
  <1>10. ASSUME AtOrBefore(x, y), AtOrBefore(y, x) PROVE x = y
    <2>1. ~(Lex(d(x), d(y)) /\ Lex(d(y), d(x))) /\ ~Lex(d(x), d(x)) /\ ~Lex(d(y), d(y))
      BY <1>7, LexStrict
    <2>2. x <= y /\ y <= x
      BY <1>5, <1>10, <2>1
    <2> QED BY <1>6, <2>2
  <1>11. ASSUME AtOrBefore(x, y), AtOrBefore(y, z) PROVE AtOrBefore(x, z)
    <2>1. Lex(d(x), d(y)) /\ Lex(d(y), d(z)) => Lex(d(x), d(z))
      BY <1>7, LexStrict
    <2>2. x <= y /\ y <= z => x <= z
      BY <1>6
    <2> QED BY <1>5, <1>11, <2>1, <2>2
  <1> QED BY <1>8, <1>9, <1>10, <1>11

\* The neighbours of the sorted list tell what all pairs would.
LEMMA Neighbours ==
    ASSUME FilesTyped, DistinctPaths,
           NEW i \in DOMAIN files, NEW j \in DOMAIN files, i # j
    PROVE  ~IsPrefix(Folded[i], Folded[j])
  <1> DEFINE T == DOMAIN files
             n == Len(files)
             up == [x \in T |-> {y \in T : AtOrBefore(y, x)}]
  <1>1. n \in Nat /\ T = 1 .. n
    BY FilesShape
  <1>2. IsFiniteSet(T) /\ Cardinality(T) = n
    <2>1. IsFiniteSet(1 .. n) /\ Cardinality(1 .. n) = n
      <3> HIDE DEF n
      <3> QED BY <1>1, FS_Interval
    <2> QED BY <1>1, <2>1
  <1>3. \A x \in T : Folded[x] \in Seq(Nat)
    BY FoldedTyped
  <1>4. \A x \in T : PathPlace(x) = Cardinality(up[x])
    BY DEF PathPlace, AtOrBefore
  <1>5. /\ up \in [T -> SUBSET T]
        /\ \A x, y \in T : x \in up[y] <=> AtOrBefore(x, y)
    OBVIOUS
  <1> HIDE DEF T, n, up
  <1>6. /\ \A x \in T : x \in up[x]
        /\ \A x, y \in T : x \in up[y] \/ y \in up[x]
        /\ \A x, y \in T : x \in up[y] /\ y \in up[x] => x = y
        /\ \A x, y, z \in T : x \in up[y] /\ y \in up[z] => x \in up[z]
    BY <1>5, ListOrder DEF T
  <1>7. /\ \A x \in T : PathPlace(x) \in 1 .. n
        /\ \A x, y \in T : AtOrBefore(x, y) /\ x # y => PathPlace(x) < PathPlace(y)
        /\ \A k \in 1 .. n : \E x \in T : PathPlace(x) = k
    <2>1. /\ \A x \in T : Cardinality(up[x]) \in 1 .. Cardinality(T)
          /\ \A x, y \in T : x \in up[y] /\ x # y => Cardinality(up[x]) < Cardinality(up[y])
          /\ \A k \in 1 .. Cardinality(T) : \E x \in T : Cardinality(up[x]) = k
      BY <1>2, <1>5, <1>6, Ranks
    <2> QED BY <1>2, <1>4, <1>5, <2>1
  <1>8. ASSUME NEW x \in T, NEW y \in T, PathPlace(x) <= PathPlace(y) PROVE AtOrBefore(x, y)
    <2>1. ~(PathPlace(y) < PathPlace(x))
      BY <1>1, <1>7, <1>8
    <2>2. AtOrBefore(x, y) \/ (AtOrBefore(y, x) /\ (x = y \/ PathPlace(y) < PathPlace(x)))
      BY <1>7, ListOrder DEF T
    <2> QED BY <2>1, <2>2
  <1>9. ASSUME NEW x \in T PROVE SortedPaths[PathPlace(x)] = Folded[x]
    <2>1. PathPlace(x) \in T
      BY <1>1, <1>7
    <2>2. ASSUME NEW y \in T, PathPlace(y) = PathPlace(x) PROVE y = x
      <3>1. PathPlace(x) <= PathPlace(y) /\ PathPlace(y) <= PathPlace(x)
        BY <1>1, <1>7, <2>2
      <3>2. AtOrBefore(x, y) /\ AtOrBefore(y, x)
        BY <1>8, <3>1
      <3> QED BY <3>2, ListOrder DEF T
    <2>3. (CHOOSE y \in T : PathPlace(y) = PathPlace(x)) = x
      BY <2>2
    <2> QED BY <2>1, <2>3 DEF SortedPaths, T
  <1>10. ASSUME NEW a \in T, NEW b \in T, a # b, AtOrBefore(a, b), IsPrefix(Folded[a], Folded[b])
         PROVE  FALSE
    <2>1. PathPlace(a) \in 1 .. n /\ PathPlace(b) \in 1 .. n /\ PathPlace(a) < PathPlace(b)
      BY <1>7, <1>10
    <2>2. PathPlace(a) \in 1 .. n - 1 /\ PathPlace(a) + 1 \in 1 .. n
      BY <1>1, <2>1
    <2>3. PICK c \in T : PathPlace(c) = PathPlace(a) + 1
      BY <1>7, <2>2
    <2>4. AtOrBefore(a, c) /\ AtOrBefore(c, b)
      BY <1>1, <1>8, <2>1, <2>3
    <2>5. IsPrefix(Folded[a], Folded[c])
      BY <1>3, <1>10, <2>4, Between DEF AtOrBefore
    <2>6. ~IsPrefix(SortedPaths[PathPlace(a)], SortedPaths[PathPlace(a) + 1])
      BY <2>2 DEF DistinctPaths, n
    <2>7. SortedPaths[PathPlace(a)] = Folded[a] /\ SortedPaths[PathPlace(a) + 1] = Folded[c]
      BY <1>9, <2>3
    <2> QED BY <2>5, <2>6, <2>7
  <1>11. SUFFICES ASSUME IsPrefix(Folded[i], Folded[j]) PROVE FALSE
    OBVIOUS
  <1>12. i \in T /\ j \in T /\ Folded[i] \in Seq(Nat) /\ Folded[j] \in Seq(Nat)
    BY <1>3 DEF T
  <1>13. CASE AtOrBefore(i, j)
    BY <1>10, <1>11, <1>12, <1>13
  <1>14. CASE AtOrBefore(j, i)
    <2>1. CASE Folded[j] = Folded[i]
      BY <1>10, <1>11, <1>12, <1>14, <2>1
    <2>2. CASE Folded[j] # Folded[i]
      <3>1. PathBefore(Folded[i], Folded[j])
        BY <1>11, <2>2 DEF PathBefore, IsStrictPrefix
      <3>2. AtOrBefore(i, j)
        BY <3>1 DEF AtOrBefore
      <3> QED BY <1>10, <1>11, <1>12, <3>2
    <2> QED BY <2>1, <2>2
  <1> QED BY <1>12, <1>13, <1>14, ListOrder DEF T

-----------------------------------------------------------------------------
(* Where each file begins *)

LEMMA StartSteps ==
    ASSUME FilesTyped
    PROVE  /\ GlobalStart \in [1 .. Len(files) + 1 -> Nat]
           /\ GlobalStart[1] = 0
           /\ \A i \in DOMAIN files : GlobalStart[i + 1] = GlobalStart[i] + files[i].length
  <1> DEFINE n == Len(files)
             Grows(s) == s = [i \in 1 .. n + 1 |-> IF i = 1 THEN 0 ELSE s[i - 1] + files[i - 1].length]
             a == [i \in 1 .. n |-> files[i].length]
  <1>1. n \in Nat /\ DOMAIN files = 1 .. n /\ \A i \in 1 .. n : files[i].length \in Nat
    BY FilesShape
  <1>2. a \in [1 .. n -> Nat] /\ \A i \in 1 .. n : a[i] = files[i].length
    BY <1>1
  <1> HIDE DEF n, a
  <1>3. PICK f \in [0 .. n -> Nat] : f[0] = 0 /\ \A i \in 1 .. n : f[i] = f[i - 1] + a[i]
    BY <1>1, <1>2, Sums
  <1>4. ASSUME NEW i \in 1 .. n PROVE f[i - 1] \in Nat /\ f[i] = f[i - 1] + files[i].length
    <2>1. i - 1 \in 0 .. n
      BY <1>1
    <2>2. f[i - 1] \in Nat
      BY <1>3, <2>1
    <2> QED BY <1>2, <1>3, <2>2
  <1> DEFINE g == [i \in 1 .. n + 1 |-> f[i - 1]]
  <1>5. ASSUME NEW i \in 1 .. n + 1
        PROVE  g[i] \in Nat /\ g[i] = IF i = 1 THEN 0 ELSE g[i - 1] + files[i - 1].length
    <2>1. i - 1 \in 0 .. n /\ g[i] = f[i - 1]
      BY <1>1
    <2>2. f[i - 1] \in Nat
      BY <1>3, <2>1
    <2>3. CASE i = 1
      BY <1>3, <2>1, <2>2, <2>3
    <2>4. CASE i # 1
      <3>1. i - 1 \in 1 .. n /\ i - 1 \in 1 .. n + 1
        BY <1>1, <2>4
      <3>2. f[i - 1] = f[(i - 1) - 1] + files[i - 1].length /\ g[i - 1] = f[(i - 1) - 1]
        BY <1>4, <3>1
      <3> QED BY <2>1, <2>2, <2>4, <3>2
    <2> QED BY <2>3, <2>4
  <1>6. Grows(g)
    <2>1. g = [i \in 1 .. n + 1 |-> g[i]]
      OBVIOUS
    <2> HIDE DEF g
    <2> QED BY <1>5, <2>1
  <1>7. GlobalStart = CHOOSE s : Grows(s)
    BY DEF GlobalStart, n
  <1> HIDE DEF Grows, g
  <1>8. Grows(GlobalStart)
    BY <1>6, <1>7
  <1>9. ASSUME NEW s, Grows(s) PROVE \A i \in 1 .. n + 1 : s[i] = g[i]
    <2> DEFINE T == {i \in 1 .. n + 1 : s[i] # g[i]}
    <2> SUFFICES ASSUME T # {} PROVE FALSE
      OBVIOUS
    <2>1. T \in SUBSET Nat
      BY <1>1
    <2>2. PICK m \in T : \A k \in T : m <= k
      BY <2>1, LeastElement
    <2>3. m \in 1 .. n + 1 /\ s[m] # g[m]
      BY <2>2
    <2>4. s[m] = IF m = 1 THEN 0 ELSE s[m - 1] + files[m - 1].length
      BY <1>9, <2>3 DEF Grows
    <2>5. m # 1
      BY <1>5, <2>3, <2>4
    <2>6. m - 1 \in 1 .. n + 1 /\ ~(m <= m - 1)
      BY <1>1, <2>3, <2>5
    <2>7. s[m - 1] = g[m - 1]
      BY <2>2, <2>6
    <2> QED BY <1>5, <2>3, <2>4, <2>5, <2>7
  <1>10. \A i \in 1 .. n + 1 : GlobalStart[i] = g[i] /\ g[i] \in Nat
    BY <1>5, <1>8, <1>9
  <1>11. GlobalStart \in [1 .. n + 1 -> Nat]
    <2>1. GlobalStart = [i \in 1 .. n + 1 |-> IF i = 1 THEN 0 ELSE GlobalStart[i - 1] + files[i - 1].length]
      BY <1>8 DEF Grows
    <2>2. GlobalStart = [i \in 1 .. n + 1 |-> GlobalStart[i]]
      BY <2>1
    <2> QED BY <1>10, <2>2
  <1>12. GlobalStart[1] = 0
    <2>1. 1 \in 1 .. n + 1
      BY <1>1
    <2> QED BY <1>5, <1>10, <2>1
  <1>13. ASSUME NEW i \in 1 .. n PROVE GlobalStart[i + 1] = GlobalStart[i] + files[i].length
    <2>1. i + 1 \in 1 .. n + 1 /\ i \in 1 .. n + 1 /\ (i + 1) - 1 = i /\ i + 1 # 1
      BY <1>1
    <2>2. g[i + 1] = g[(i + 1) - 1] + files[(i + 1) - 1].length
      BY <1>5, <2>1
    <2> QED BY <1>10, <2>1, <2>2
  <1> QED BY <1>1, <1>11, <1>12, <1>13 DEF n

LEMMA StartGrows ==
    ASSUME FilesTyped, NEW i \in 1 .. Len(files) + 1, NEW j \in 1 .. Len(files) + 1, i <= j
    PROVE  GlobalStart[i] <= GlobalStart[j]
  <1> DEFINE T == {k \in i .. Len(files) + 1 : ~(GlobalStart[i] <= GlobalStart[k])}
  <1>1. /\ Len(files) \in Nat /\ \A k \in 1 .. Len(files) + 1 : GlobalStart[k] \in Nat
        /\ \A k \in 1 .. Len(files) :
              GlobalStart[k + 1] = GlobalStart[k] + files[k].length /\ files[k].length \in Nat
    BY FilesShape, StartSteps
  <1>2. T \in SUBSET Nat
    BY <1>1
  <1>3. SUFFICES ASSUME T # {} PROVE FALSE
    BY <1>1
  <1>4. PICK m \in T : \A k \in T : m <= k
    BY <1>2, <1>3, LeastElement
  <1>5. m \in i .. Len(files) + 1 /\ ~(GlobalStart[i] <= GlobalStart[m])
    BY <1>4
  <1>6. m # i
    BY <1>1, <1>5
  <1>7. /\ m - 1 \in i .. Len(files) + 1 /\ ~(m <= m - 1) /\ m - 1 \in 1 .. Len(files)
        /\ (m - 1) + 1 = m
    BY <1>1, <1>5, <1>6
  <1>8. GlobalStart[i] <= GlobalStart[m - 1]
    BY <1>4, <1>7
  <1>9. /\ GlobalStart[m] = GlobalStart[m - 1] + files[m - 1].length /\ files[m - 1].length \in Nat
        /\ GlobalStart[m - 1] \in Nat /\ GlobalStart[i] \in Nat
    <2>1. m - 1 \in 1 .. Len(files) + 1
      BY <1>1, <1>7
    <2> QED BY <1>1, <1>7, <2>1
  <1> QED BY <1>5, <1>8, <1>9

\* What the rest uses of the starts.
LEMMA StartFacts ==
    ASSUME FilesTyped, NEW i \in DOMAIN files
    PROVE  /\ i \in Nat /\ GlobalStart[i] \in Nat /\ GlobalStart[i + 1] \in Nat /\ files[i].length \in Nat
           /\ GlobalStart[i + 1] = GlobalStart[i] + files[i].length
           /\ Total \in Nat /\ GlobalStart[i + 1] <= Total
  <1>1. Len(files) \in Nat /\ i \in 1 .. Len(files) /\ files[i].length \in Nat
    BY FilesShape
  <1>2. i \in 1 .. Len(files) + 1 /\ i + 1 \in 1 .. Len(files) + 1 /\ Len(files) + 1 \in 1 .. Len(files) + 1
        /\ i + 1 <= Len(files) + 1
    BY <1>1
  <1>3. GlobalStart[i] \in Nat /\ GlobalStart[i + 1] \in Nat /\ Total \in Nat
    BY <1>2, StartSteps DEF Total
  <1>4. GlobalStart[i + 1] <= Total
    BY <1>2, StartGrows DEF Total
  <1> QED BY <1>1, <1>3, <1>4, StartSteps

LEMMA TotalIsNat ==
    ASSUME FilesTyped
    PROVE  Total \in Nat
  <1>1. Len(files) + 1 \in 1 .. Len(files) + 1
    BY FilesShape
  <1> QED BY <1>1, StartSteps DEF Total

\* Each byte of the torrent is in exactly one file.
LEMMA OneOwner ==
    ASSUME FilesTyped, NEW g \in 0 .. Total - 1
    PROVE  /\ \E i \in DOMAIN files : GlobalStart[i] <= g /\ g < GlobalStart[i + 1]
           /\ \A i, j \in DOMAIN files :
                 /\ GlobalStart[i] <= g /\ g < GlobalStart[i + 1]
                 /\ GlobalStart[j] <= g /\ g < GlobalStart[j + 1]
                 => i = j
  <1> DEFINE n == Len(files)
             T == {k \in 1 .. n + 1 : g < GlobalStart[k]}
  <1>1. n \in Nat /\ DOMAIN files = 1 .. n /\ (\A k \in 1 .. n + 1 : GlobalStart[k] \in Nat) /\ GlobalStart[1] = 0
    BY FilesShape, StartSteps
  <1>2. Total \in Nat /\ Total = GlobalStart[n + 1] /\ g \in Nat /\ g < Total
    BY TotalIsNat DEF Total
  <1>3. n + 1 \in T /\ T \in SUBSET Nat
    BY <1>1, <1>2
  <1>4. PICK m \in T : \A k \in T : m <= k
    BY <1>3, LeastElement
  <1>5. m \in 1 .. n + 1 /\ g < GlobalStart[m] /\ m # 1
    BY <1>1, <1>2, <1>4
  <1>6. m - 1 \in 1 .. n /\ (m - 1) + 1 = m /\ m - 1 \in 1 .. n + 1 /\ ~(m <= m - 1)
    BY <1>1, <1>5
  <1>7. m - 1 \notin T
    BY <1>4, <1>6
  <1>8. GlobalStart[m - 1] <= g
    BY <1>1, <1>2, <1>6, <1>7
  <1>9. \E i \in DOMAIN files : GlobalStart[i] <= g /\ g < GlobalStart[i + 1]
    BY <1>1, <1>5, <1>6, <1>8
  <1>10. ASSUME NEW i \in DOMAIN files, NEW j \in DOMAIN files, i < j,
                g < GlobalStart[i + 1], GlobalStart[j] <= g
         PROVE  FALSE
    <2>1. i + 1 \in 1 .. Len(files) + 1 /\ j \in 1 .. Len(files) + 1 /\ i + 1 <= j
      BY <1>1, <1>10
    <2>2. GlobalStart[i + 1] <= GlobalStart[j]
      BY <2>1, StartGrows
    <2>3. GlobalStart[i + 1] \in Nat /\ GlobalStart[j] \in Nat
      BY <1>1, <2>1
    <2> QED BY <1>2, <1>10, <2>2, <2>3
  <1>11. \A i, j \in DOMAIN files : i < j \/ j < i \/ i = j
    BY <1>1
  <1> QED BY <1>9, <1>10, <1>11

-----------------------------------------------------------------------------
(* The parts of a block *)

LEMMA MaxTwo ==
    ASSUME NEW a \in Int, NEW b \in Int
    PROVE  Max({a, b}) = IF a >= b THEN a ELSE b
  <1>1. \E x \in {a, b} : \A y \in {a, b} : x >= y
    OBVIOUS
  <1>2. Max({a, b}) \in {a, b} /\ \A y \in {a, b} : Max({a, b}) >= y
    BY <1>1 DEF Max
  <1> QED BY <1>2

LEMMA MinTwo ==
    ASSUME NEW a \in Int, NEW b \in Int
    PROVE  Min({a, b}) = IF a <= b THEN a ELSE b
  <1>1. \E x \in {a, b} : \A y \in {a, b} : x <= y
    OBVIOUS
  <1>2. Min({a, b}) \in {a, b} /\ \A y \in {a, b} : Min({a, b}) <= y
    BY <1>1 DEF Min
  <1> QED BY <1>2

Touches(i, start, len) == Max({GlobalStart[i], start}) < Min({GlobalStart[i + 1], start + len})

Part(i, start, len) ==
    [file |-> i, off |-> Max({GlobalStart[i], start}) - GlobalStart[i],
     lo |-> Max({GlobalStart[i], start}) - start,
     hi |-> Min({GlobalStart[i + 1], start + len}) - start]

LEMMA PartsAre ==
    ASSUME NEW start, NEW len
    PROVE  Segments(start, len) = {Part(i, start, len) : i \in {j \in DOMAIN files : Touches(j, start, len)}}
  BY DEF Segments, Part, Touches

\* A part is the bytes that the file and the block share, at the place of the
\* file's own bytes.
LEMMA PartFacts ==
    ASSUME FilesTyped, NEW i \in DOMAIN files, NEW start \in Nat, NEW len \in Nat
    PROVE  LET s == Part(i, start, len)
           IN  /\ s.file = i /\ s.off \in Nat /\ s.lo \in Nat /\ s.hi \in Int
               /\ GlobalStart[i] + s.off = start + s.lo
               /\ Touches(i, start, len) <=> s.lo < s.hi
               /\ \A g \in Int : s.lo <= g - start /\ g - start < s.hi
                                 <=> /\ GlobalStart[i] <= g /\ g < GlobalStart[i + 1]
                                     /\ start <= g /\ g < start + len
  <1> DEFINE b == GlobalStart[i]
             e == GlobalStart[i + 1]
             top == Max({GlobalStart[i], start})
             end == Min({GlobalStart[i + 1], start + len})
  <1>1. b \in Nat /\ e \in Nat
    BY StartFacts
  <1>2. top = IF b >= start THEN b ELSE start
    BY <1>1, MaxTwo
  <1>3. end = IF e <= start + len THEN e ELSE start + len
    <2>1. start + len \in Int /\ e \in Int
      BY <1>1
    <2> QED BY <2>1, MinTwo
  <1>4. LET s == Part(i, start, len)
        IN  s.file = i /\ s.off = top - b /\ s.lo = top - start /\ s.hi = end - start
    BY DEF Part
  <1>5. Touches(i, start, len) <=> top < end
    BY DEF Touches
  <1> HIDE DEF b, e, top, end
  <1>6. /\ top - b \in Nat /\ top - start \in Nat /\ end - start \in Int
        /\ b + (top - b) = start + (top - start)
        /\ top < end <=> top - start < end - start
    BY <1>1, <1>2, <1>3
  <1>7. \A g \in Int : top - start <= g - start /\ g - start < end - start
                       <=> b <= g /\ g < e /\ start <= g /\ g < start + len
    BY <1>1, <1>2, <1>3
  <1> QED BY <1>4, <1>5, <1>6, <1>7 DEF b, e

-----------------------------------------------------------------------------
(* The inductive invariant: what a file holds is what was written there *)

Byte == {0, 1, 2}

\* The byte of a file at an offset; past the end and in a hole there is nothing.
ByteAt(d, o) == IF o < Len(d) THEN d[o + 1] ELSE 0

Apart == \A i, j \in DOMAIN files : i # j => ~IsPrefix(Folded[i], Folded[j])

DiskTyped == DOMAIN disk = Range(Folded) /\ \A p \in DOMAIN disk : disk[p] \in Seq(Byte)

Placed ==
    \A i \in DOMAIN files : \A o \in 0 .. files[i].length - 1 :
        wrote[GlobalStart[i] + o] = ByteAt(disk[Folded[i]], o)

LayoutInv ==
    /\ FilesTyped /\ Len(files) <= MaxFiles
    /\ stored \in {"parsing", "refused", "open"}
    /\ stored # "open" => disk = <<>> /\ wrote = <<>>
    /\ stored = "open" => Apart /\ DiskTyped /\ wrote \in [0 .. Total - 1 -> Byte] /\ Placed

LEMMA FoldedInRange ==
    ASSUME FilesTyped, NEW i \in DOMAIN files
    PROVE  Folded[i] \in Range(Folded)
  BY FoldedTyped DEF Range

LEMMA LayoutInvInit == LayoutInit => LayoutInv
  <1> SUFFICES ASSUME LayoutInit PROVE LayoutInv
    OBVIOUS
  <1>1. files = <<>> /\ stored = "parsing" /\ disk = <<>> /\ wrote = <<>>
    BY DEF LayoutInit
  <1>2. FilesTyped /\ Len(files) <= MaxFiles
    BY <1>1, LayoutAssumption DEF FilesTyped
  <1> QED BY <1>1, <1>2 DEF LayoutInv

LEMMA RefuseKeeps ==
    ASSUME LayoutInv, stored = "parsing", Refuse
    PROVE  LayoutInv'
  <1>1. files' = <<>> /\ stored' = "refused" /\ disk' = <<>> /\ wrote' = <<>>
    BY DEF LayoutInv, Refuse
  <1>2. FilesTyped' /\ Len(files') <= MaxFiles
    BY <1>1, LayoutAssumption DEF FilesTyped
  <1> QED BY <1>1, <1>2 DEF LayoutInv

LEMMA ParseFileKeeps ==
    ASSUME LayoutInv, NEW p \in Path, NEW n \in Length, ParseFile(p, n)
    PROVE  LayoutInv'
  <1>1. stored = "parsing"
    BY DEF ParseFile
  <1>2. CASE Refuse
    BY <1>1, <1>2, RefuseKeeps
  <1>3. CASE /\ ~(n < 0) /\ Len(files) # MaxFiles
             /\ files' = Append(files, [path |-> p, length |-> n])
             /\ UNCHANGED <<stored, disk, wrote>>
    <2>1. [path |-> p, length |-> n] \in [path : Path, length : Length \cap Nat]
      <3>1. n \in Int
        BY LayoutAssumption
      <3> QED BY <1>3, <3>1
    <2>2. FilesTyped'
      <3> DEFINE S == [path : Path, length : Length \cap Nat]  r == [path |-> p, length |-> n]
      <3>1. r \in S /\ files \in Seq(S)
        BY <2>1 DEF LayoutInv, FilesTyped
      <3> HIDE DEF S, r
      <3>2. Append(files, r) \in Seq(S)
        BY <3>1
      <3> QED BY <1>3, <3>2 DEF FilesTyped, S, r
    <2>3. Len(files') <= MaxFiles
      <3>1. Len(files) \in Nat /\ Len(files) <= MaxFiles /\ MaxFiles \in Nat
        BY FilesShape, LayoutAssumption DEF LayoutInv
      <3>2. Len(files') = Len(files) + 1
        BY <1>3 DEF LayoutInv, FilesTyped
      <3> QED BY <1>3, <3>1, <3>2
    <2> QED BY <1>1, <1>3, <2>2, <2>3 DEF LayoutInv
  <1> QED BY <1>2, <1>3 DEF ParseFile

LEMMA SameFiles ==
    ASSUME files' = files
    PROVE  GlobalStart' = GlobalStart /\ Total' = Total /\ Folded' = Folded
  BY DEF GlobalStart, Total, Folded

LEMMA CreateKeeps ==
    ASSUME LayoutInv, NEW h \in Nat, NEW pre \in BOOLEAN, Create(h, pre)
    PROVE  LayoutInv'
  <1>1. stored = "parsing" /\ FilesTyped /\ Len(files) <= MaxFiles
    BY DEF Create, LayoutInv
  <1>2. CASE Refuse
    BY <1>1, <1>2, RefuseKeeps
  <1> DEFINE claimed(p) == IF ~pre THEN <<>>
                           ELSE LET i == CHOOSE i \in DOMAIN files : Folded[i] = p
                                IN  ClaimBlocks(files[i].length)
  <1>3. CASE /\ DistinctPaths /\ stored' = "open" /\ files' = files
             /\ disk' = [p \in Range(Folded) |-> claimed(p)]
             /\ wrote' = [g \in 0 .. Total - 1 |-> 0]
    <2>1. GlobalStart' = GlobalStart /\ Total' = Total /\ Folded' = Folded
      BY <1>3, SameFiles
    <2>2. Apart'
      <3>1. Apart
        BY <1>1, <1>3, Neighbours DEF Apart
      <3> QED BY <1>3, <2>1, <3>1 DEF Apart
    <2>3. ASSUME NEW p \in Range(Folded)
          PROVE  claimed(p) \in Seq(Byte) /\ \A o \in Nat : ByteAt(claimed(p), o) = 0
      <3>1. CASE ~pre
        BY <3>1 DEF ByteAt
      <3>2. CASE pre
        <4> DEFINE c == CHOOSE i \in DOMAIN files : Folded[i] = p
                   m == files[c].length
        <4>1. \E i \in DOMAIN files : Folded[i] = p
          BY <1>1, FoldedTyped DEF Range
        <4>2. c \in DOMAIN files
          BY <4>1
        <4> HIDE DEF c
        <4>3. m \in Nat
          BY <1>1, <4>2, FilesShape
        <4>4. claimed(p) = ClaimBlocks(m)
          BY <3>2 DEF c
        <4> HIDE DEF m, claimed
        <4>5. ClaimBlocks(m) \in Seq(Byte) /\ Len(ClaimBlocks(m)) = m
          BY <4>3 DEF ClaimBlocks, Byte
        <4>6. \A o \in Nat : o < m => ClaimBlocks(m)[o + 1] = 0
          BY <4>3 DEF ClaimBlocks
        <4> QED BY <4>4, <4>5, <4>6 DEF ByteAt
      <3> QED BY <3>1, <3>2
    <2> HIDE DEF claimed
    <2>4. DiskTyped'
      BY <1>3, <2>1, <2>3 DEF DiskTyped
    <2>5. wrote' \in [0 .. Total - 1 -> Byte]
      BY <1>3 DEF Byte
    <2>6. Placed'
      <3>1. ASSUME NEW i \in DOMAIN files, NEW o \in 0 .. files[i].length - 1
            PROVE  wrote'[GlobalStart[i] + o] = ByteAt(disk'[Folded[i]], o)
        <4>1. GlobalStart[i] + o \in 0 .. Total - 1 /\ o \in Nat
          <5>1. /\ GlobalStart[i] \in Nat /\ files[i].length \in Nat /\ Total \in Nat
                /\ GlobalStart[i] + files[i].length <= Total
            BY <1>1, StartFacts
          <5> QED BY <5>1
        <4>2. wrote'[GlobalStart[i] + o] = 0
          BY <1>3, <4>1
        <4>3. disk'[Folded[i]] = claimed(Folded[i]) /\ Folded[i] \in Range(Folded)
          BY <1>1, <1>3, FoldedInRange
        <4> QED BY <2>3, <4>1, <4>2, <4>3
      <3> QED BY <1>3, <2>1, <3>1 DEF Placed
    <2>7. FilesTyped' /\ Len(files') <= MaxFiles
      BY <1>1, <1>3 DEF FilesTyped
    <2> QED BY <1>3, <2>1, <2>2, <2>4, <2>5, <2>6, <2>7 DEF LayoutInv
  <1> QED BY <1>2, <1>3 DEF Create

\* pwrite, byte by byte.
LEMMA OverlayFacts ==
    ASSUME NEW d \in Seq(Byte), NEW off \in Nat, NEW part \in Seq(Byte)
    PROVE  /\ Overlay(d, off, part) \in Seq(Byte)
           /\ \A o \in Nat : ByteAt(Overlay(d, off, part), o) =
                                IF off <= o /\ o < off + Len(part) THEN part[o - off + 1] ELSE ByteAt(d, o)
  <1> DEFINE L == Len(d)
             m == Len(part)
             n == IF L >= off + m THEN L ELSE off + m
             new == [k \in 1 .. n |-> IF k > off /\ k <= off + m THEN part[k - off]
                                      ELSE IF k <= L THEN d[k] ELSE 0]
  <1>1. L \in Nat /\ \A k \in 1 .. L : d[k] \in Byte
    OBVIOUS
  <1>2. Overlay(d, off, part) = new
    <2>1. off + m \in Int /\ Len(d) \in Int
      BY <1>1
    <2>2. Max({Len(d), off + m}) = n
      BY <2>1, MaxTwo
    <2> QED BY <2>2 DEF Overlay
  <1>3. \A o \in Nat : ByteAt(d, o) = IF o < L THEN d[o + 1] ELSE 0
    BY DEF ByteAt
  <1>4. L \in Nat /\ m \in Nat /\ \A k \in 1 .. m : part[k] \in Byte
    BY <1>1
  <1> HIDE DEF L, m
  <1>5. n \in Nat /\ n >= L /\ n >= off + m /\ (n = L \/ n = off + m)
    BY <1>4
  <1> HIDE DEF n
  <1>6. 0 \in Byte
    BY DEF Byte
  <1>7. new \in [1 .. n -> Byte]
    <2>1. \A k \in 1 .. n : k <= L => k \in 1 .. L
      BY <1>4
    <2>2. \A k \in 1 .. n : k > off /\ k <= off + m => k - off \in 1 .. m
      BY <1>4, <1>5
    <2>3. \A k \in 1 .. m : part[k] \in Byte
      BY <1>4
    <2> QED BY <1>1, <1>6, <2>1, <2>2, <2>3
  <1>8. new \in Seq(Byte) /\ Len(new) = n
    BY <1>5, <1>7
  <1>9. ASSUME NEW o \in Nat
        PROVE  ByteAt(new, o) = IF off <= o /\ o < off + m THEN part[o - off + 1] ELSE ByteAt(d, o)
    <2>1. CASE o < n
      <3>1. o + 1 \in 1 .. n /\ (o + 1 > off <=> off <= o) /\ (o + 1 <= off + m <=> o < off + m)
            /\ (o + 1 <= L <=> o < L) /\ o + 1 - off = o - off + 1
        BY <1>4, <1>5, <2>1
      <3>2. new[o + 1] = IF off <= o /\ o < off + m THEN part[o - off + 1] ELSE IF o < L THEN d[o + 1] ELSE 0
        BY <3>1
      <3> HIDE DEF new
      <3> QED BY <1>3, <1>8, <2>1, <3>2 DEF ByteAt
    <2>2. CASE ~(o < n)
      <3>1. ~(o < L) /\ ~(o < off + m)
        BY <1>4, <1>5, <2>2
      <3> HIDE DEF new
      <3>2. ByteAt(new, o) = 0 /\ ByteAt(d, o) = 0
        BY <1>3, <1>8, <2>2, <3>1 DEF ByteAt
      <3> QED BY <3>1, <3>2
    <2> QED BY <2>1, <2>2
  <1> HIDE DEF new
  <1> QED BY <1>2, <1>8, <1>9 DEF m

\* Files apart from one another have different names.
LEMMA OwnName ==
    ASSUME FilesTyped, Apart, NEW i \in DOMAIN files, NEW j \in DOMAIN files, Folded[i] = Folded[j]
    PROVE  i = j
  <1>1. Folded[i] \in Seq(Nat) /\ Folded[j] \in Seq(Nat)
    BY FoldedTyped
  <1>2. IsPrefix(Folded[i], Folded[j])
    BY <1>1, PrefixMeans
  <1> QED BY <1>2 DEF Apart

\* What of a block goes to one file.
LEMMA PartOf ==
    ASSUME NEW q \in Seq(Byte), NEW a \in Nat, NEW b \in Nat, a < b, b <= Len(q)
    PROVE  /\ SubSeq(q, a + 1, b) \in Seq(Byte) /\ Len(SubSeq(q, a + 1, b)) = b - a
           /\ \A k \in 1 .. b - a : SubSeq(q, a + 1, b)[k] = q[a + k]
  <1> DEFINE L == Len(q)
             new == [k \in 1 .. b - a |-> q[a + k]]
  <1>1. L \in Nat /\ \A k \in 1 .. L : q[k] \in Byte
    OBVIOUS
  <1>2. DOMAIN SubSeq(q, a + 1, b) = 1 .. b - a
    OBVIOUS
  <1>3. \A k \in 1 .. b - a : SubSeq(q, a + 1, b)[k] = q[a + k]
    OBVIOUS
  <1>4. SubSeq(q, a + 1, b) = new
    OBVIOUS
  <1>5. \A k \in 1 .. b - a : a + k \in 1 .. L
    BY <1>1 DEF L
  <1>6. new \in [1 .. b - a -> Byte] /\ b - a \in Nat
    BY <1>1, <1>5
  <1>7. new \in Seq(Byte) /\ Len(new) = b - a
    BY <1>6
  <1> QED BY <1>4, <1>7

LEMMA WriteBlockKeeps ==
    ASSUME LayoutInv, NEW start \in Nat, NEW buf \in Seq({1, 2}), WriteBlock(start, buf)
    PROVE  LayoutInv'
  <1> DEFINE len == Len(buf)
             at(g) == buf[g - start + 1]
  <1>0. len \in Nat /\ buf \in Seq(Byte)
    BY DEF Byte
  <1>1. /\ stored = "open" /\ FilesTyped /\ Apart /\ DiskTyped /\ Placed
        /\ wrote \in [0 .. Total - 1 -> Byte] /\ Len(files) <= MaxFiles
    BY DEF WriteBlock, LayoutInv
  <1>2. files' = files /\ stored' = "open"
    BY <1>1 DEF WriteBlock
  <1>3. GlobalStart' = GlobalStart /\ Total' = Total /\ Folded' = Folded
    BY <1>2, SameFiles
  <1>4. Total \in Nat
    BY <1>1, TotalIsNat
  <1> DEFINE here(p) == {s \in Segments(start, len) : Folded[s.file] = p}
             after(p) == IF here(p) = {} THEN disk[p]
                         ELSE LET s == CHOOSE s \in here(p) : TRUE
                              IN  Overlay(disk[p], s.off, SubSeq(buf, s.lo + 1, s.hi))
             inBlock(g) == start <= g /\ g < start + len
  <1>5. disk' = [p \in DOMAIN disk |-> after(p)] /\ DOMAIN disk = Range(Folded)
    BY <1>1 DEF WriteBlock, DiskTyped
  <1>12. wrote' = [g \in 0 .. Total - 1 |-> IF g \in start .. start + len - 1 THEN at(g) ELSE wrote[g]]
    BY <1>1 DEF WriteBlock
  <1>13. \A g \in Int : start <= g /\ g < start + len => at(g) \in Byte
    <2>1. ASSUME NEW g \in Int, start <= g, g < start + len PROVE g - start + 1 \in 1 .. len
      BY <1>0, <2>1
    <2> QED BY <1>0, <2>1
  <1> HIDE DEF len
  <1>6. ASSUME NEW i \in DOMAIN files
        PROVE  /\ after(Folded[i]) \in Seq(Byte)
               /\ \A o \in 0 .. files[i].length - 1 :
                     ByteAt(after(Folded[i]), o) =
                        IF inBlock(GlobalStart[i] + o) THEN at(GlobalStart[i] + o) ELSE ByteAt(disk[Folded[i]], o)
    <2> DEFINE s == Part(i, start, len)
               d == disk[Folded[i]]
    <2>1. d \in Seq(Byte)
      BY <1>1, FoldedInRange DEF DiskTyped
    <2>2. here(Folded[i]) = IF Touches(i, start, len) THEN {s} ELSE {}
      <3>1. ASSUME NEW t \in here(Folded[i]) PROVE Touches(i, start, len) /\ t = s
        <4>1. PICK j \in DOMAIN files : Touches(j, start, len) /\ t = Part(j, start, len)
          BY PartsAre
        <4>2. t.file = j /\ Folded[j] = Folded[i]
          BY <1>0, <1>1, <4>1, PartFacts
        <4>3. j = i
          BY <1>1, <4>2, OwnName
        <4> QED BY <4>1, <4>3
      <3>2. ASSUME Touches(i, start, len) PROVE s \in here(Folded[i])
        <4>1. s \in Segments(start, len)
          BY <3>2, PartsAre
        <4>2. s.file = i
          BY <1>0, <1>1, PartFacts
        <4> HIDE DEF s
        <4> QED BY <4>1, <4>2
      <3> HIDE DEF s, here
      <3> QED BY <3>1, <3>2
    <2>3. /\ s.off \in Nat /\ s.lo \in Nat /\ s.hi \in Int /\ GlobalStart[i] + s.off = start + s.lo
          /\ Touches(i, start, len) <=> s.lo < s.hi
          /\ \A g \in Int : s.lo <= g - start /\ g - start < s.hi
                            <=> GlobalStart[i] <= g /\ g < GlobalStart[i + 1] /\ inBlock(g)
      BY <1>0, <1>1, PartFacts
    <2>4. /\ GlobalStart[i] \in Nat /\ files[i].length \in Nat
          /\ GlobalStart[i + 1] = GlobalStart[i] + files[i].length
      BY <1>1, StartFacts
    <2>5. ASSUME NEW o \in 0 .. files[i].length - 1
          PROVE  /\ inBlock(GlobalStart[i] + o) <=> s.off <= o /\ o < s.off + (s.hi - s.lo)
                 /\ ~Touches(i, start, len) => ~inBlock(GlobalStart[i] + o)
      <3> DEFINE g == GlobalStart[i] + o
      <3>1. g \in Int /\ GlobalStart[i] <= g /\ g < GlobalStart[i + 1]
        BY <2>4
      <3>2. inBlock(g) <=> s.lo <= g - start /\ g - start < s.hi
        BY <2>3, <3>1
      <3> HIDE DEF s, inBlock
      <3>3. /\ s.lo <= g - start <=> s.off <= o
            /\ g - start < s.hi <=> o < s.off + (s.hi - s.lo)
        <4>1. s.off \in Nat /\ s.lo \in Nat /\ s.hi \in Int /\ GlobalStart[i] + s.off = start + s.lo
          BY <2>3
        <4>2. GlobalStart[i] \in Nat /\ o \in Int
          BY <2>4
        <4> HIDE DEF g
        <4>3. g = GlobalStart[i] + o
          BY DEF g
        <4>4. /\ s.lo <= (GlobalStart[i] + o) - start <=> s.off <= o
              /\ (GlobalStart[i] + o) - start < s.hi <=> o < s.off + (s.hi - s.lo)
          <5>1. PICK first \in Nat : first = GlobalStart[i]
            BY <4>2
          <5>2. PICK off \in Nat : off = s.off
            BY <4>1
          <5>3. PICK lo \in Nat : lo = s.lo
            BY <4>1
          <5>4. PICK hi \in Int : hi = s.hi
            BY <4>1
          <5>5. first + off = start + lo
            BY <4>1, <5>1, <5>2, <5>3
          <5>6. /\ lo <= (first + o) - start <=> off <= o
                /\ (first + o) - start < hi <=> o < off + (hi - lo)
            BY <4>2, <5>5
          <5> QED BY <5>1, <5>2, <5>3, <5>4, <5>6
        <4> QED BY <4>3, <4>4
      <3>4. s.lo <= g - start /\ g - start < s.hi => s.lo < s.hi
        BY <2>3, <3>1
      <3> HIDE DEF g
      <3>5. /\ inBlock(g) <=> s.off <= o /\ o < s.off + (s.hi - s.lo)
            /\ ~Touches(i, start, len) => ~inBlock(g)
        BY <2>3, <3>2, <3>3, <3>4
      <3> QED BY <3>5 DEF g
    <2> HIDE DEF d, inBlock
    <2>6. CASE Touches(i, start, len)
      <3> DEFINE off == s.off
                 m == s.hi - s.lo
                 part == SubSeq(buf, s.lo + 1, s.hi)
      <3>1. after(Folded[i]) = Overlay(d, off, part)
        <4>1. (CHOOSE t \in here(Folded[i]) : TRUE) = s /\ here(Folded[i]) # {}
          <5> HIDE DEF here, s
          <5> QED BY <2>2, <2>6
        <4> HIDE DEF here, s
        <4> QED BY <4>1 DEF d
      <3> HIDE DEF s, after, at
      <3>2. s.lo < s.hi /\ s.hi <= len /\ s.lo \in Nat /\ s.hi \in Nat
        <4>1. s.lo < s.hi /\ s.lo \in Nat /\ s.hi \in Nat
          BY <2>3, <2>6
        <4>2. inBlock(start + s.hi - 1)
          <5>1. start + s.hi - 1 \in Int /\ s.lo <= (start + s.hi - 1) - start /\ (start + s.hi - 1) - start < s.hi
            BY <4>1
          <5> QED BY <2>3, <5>1
        <4> QED BY <1>0, <4>1, <4>2 DEF inBlock
      <3>3. /\ part \in Seq(Byte) /\ Len(part) = m /\ m \in Nat
            /\ \A k \in 1 .. m : part[k] = buf[s.lo + k]
        <4>1. m \in Nat
          BY <3>2
        <4>2. s.hi <= Len(buf)
          BY <3>2 DEF len
        <4>3. /\ SubSeq(buf, s.lo + 1, s.hi) \in Seq(Byte) /\ Len(SubSeq(buf, s.lo + 1, s.hi)) = s.hi - s.lo
              /\ \A k \in 1 .. s.hi - s.lo : SubSeq(buf, s.lo + 1, s.hi)[k] = buf[s.lo + k]
          BY <1>0, <3>2, <4>2, PartOf
        <4> QED BY <4>1, <4>3
      <3> HIDE DEF part
      <3>4. off \in Nat
        BY <2>3
      <3>5. /\ after(Folded[i]) \in Seq(Byte)
            /\ \A o \in Nat : ByteAt(after(Folded[i]), o) =
                                 IF off <= o /\ o < off + m THEN part[o - off + 1] ELSE ByteAt(d, o)
        <4> HIDE DEF off, m
        <4>1. /\ Overlay(d, off, part) \in Seq(Byte)
              /\ \A o \in Nat : ByteAt(Overlay(d, off, part), o) =
                                   IF off <= o /\ o < off + m THEN part[o - off + 1] ELSE ByteAt(d, o)
          <5>1. m \in Nat /\ part \in Seq(Byte) /\ Len(part) = m
            BY <3>3
          <5>2. /\ Overlay(d, off, part) \in Seq(Byte)
                /\ \A o \in Nat : ByteAt(Overlay(d, off, part), o) =
                                     IF off <= o /\ o < off + Len(part) THEN part[o - off + 1] ELSE ByteAt(d, o)
            BY <2>1, <3>4, <5>1, OverlayFacts
          <5> QED BY <5>1, <5>2
        <4> QED BY <3>1, <4>1
      <3>6. ASSUME NEW o \in 0 .. files[i].length - 1, off <= o, o < off + m
            PROVE  part[o - off + 1] = at(GlobalStart[i] + o)
        <4>1. o - off + 1 \in 1 .. m
          BY <2>4, <3>3, <3>4, <3>6
        <4>2. s.lo + (o - off + 1) = ((GlobalStart[i] + o) - start) + 1
          <5>1. s.off \in Nat /\ s.lo \in Nat /\ GlobalStart[i] + s.off = start + s.lo
            BY <2>3
          <5>2. GlobalStart[i] \in Nat /\ o \in Int
            BY <2>4
          <5>3. PICK first \in Nat : first = GlobalStart[i]
            BY <5>2
          <5>4. PICK lo \in Nat : lo = s.lo
            BY <5>1
          <5>5. off \in Nat /\ first + off = start + lo
            BY <5>1, <5>3, <5>4
          <5> HIDE DEF off
          <5>6. lo + (o - off + 1) = ((first + o) - start) + 1
            BY <5>2, <5>5
          <5> QED BY <5>3, <5>4, <5>6
        <4>3. part[o - off + 1] = buf[s.lo + (o - off + 1)]
          <5> HIDE DEF off, m
          <5> QED BY <3>3, <4>1
        <4>4. at(GlobalStart[i] + o) = buf[((GlobalStart[i] + o) - start) + 1]
          BY DEF at
        <4> QED BY <4>2, <4>3, <4>4
      <3>7. \A o \in 0 .. files[i].length - 1 : o \in Nat
        BY <2>4
      <3> QED BY <2>5, <3>5, <3>6, <3>7 DEF d
    <2>7. CASE ~Touches(i, start, len)
      <3>1. after(Folded[i]) = d
        <4>1. here(Folded[i]) = {}
          BY <2>2, <2>7
        <4> HIDE DEF here
        <4> QED BY <4>1 DEF d
      <3> HIDE DEF after
      <3> QED BY <2>1, <2>5, <2>7, <3>1 DEF d
    <2> QED BY <2>6, <2>7
  <1> HIDE DEF after
  <1>7. DiskTyped'
    <2>1. \A p \in Range(Folded) : \E i \in DOMAIN files : p = Folded[i]
      BY <1>1, FoldedTyped DEF Range
    <2> QED BY <1>3, <1>5, <1>6, <2>1 DEF DiskTyped
  <1>8. wrote' = [g \in 0 .. Total - 1 |-> IF inBlock(g) THEN at(g) ELSE wrote[g]]
    <2>2. \A g \in 0 .. Total - 1 : g \in start .. start + len - 1 <=> inBlock(g)
      BY <1>0, <1>4
    <2> HIDE DEF inBlock, at
    <2> QED BY <1>12, <2>2
  <1>14. \A g \in 0 .. Total - 1 : inBlock(g) => at(g) \in Byte
    <2>1. \A g \in 0 .. Total - 1 : g \in Int
      BY <1>4
    <2> HIDE DEF at
    <2> QED BY <1>13, <2>1
  <1> HIDE DEF at
  <1> HIDE DEF inBlock
  <1>9. wrote' \in [0 .. Total - 1 -> Byte]
    BY <1>1, <1>4, <1>8, <1>14
  <1>10. Placed'
    <2>1. ASSUME NEW i \in DOMAIN files, NEW o \in 0 .. files[i].length - 1
          PROVE  wrote'[GlobalStart[i] + o] = ByteAt(disk'[Folded[i]], o)
      <3>1. GlobalStart[i] + o \in 0 .. Total - 1
        <4>1. /\ GlobalStart[i] \in Nat /\ files[i].length \in Nat /\ Total \in Nat
              /\ GlobalStart[i] + files[i].length <= Total
          BY <1>1, StartFacts
        <4> QED BY <4>1
      <3>2. wrote'[GlobalStart[i] + o] =
               IF inBlock(GlobalStart[i] + o) THEN at(GlobalStart[i] + o) ELSE wrote[GlobalStart[i] + o]
        BY <1>8, <3>1
      <3>3. wrote[GlobalStart[i] + o] = ByteAt(disk[Folded[i]], o)
        BY <1>1 DEF Placed
      <3>4. disk'[Folded[i]] = after(Folded[i])
        BY <1>1, <1>5, FoldedInRange
      <3> QED BY <1>6, <3>2, <3>3, <3>4
    <2> QED BY <1>2, <1>3, <2>1 DEF Placed
  <1>11. Apart' /\ FilesTyped' /\ Len(files') <= MaxFiles
    BY <1>1, <1>2, <1>3 DEF Apart, FilesTyped
  <1> QED BY <1>2, <1>3, <1>7, <1>9, <1>10, <1>11 DEF LayoutInv

LEMMA LayoutInvStep == LayoutInv /\ [LayoutNext]_layoutVars => LayoutInv'
  <1> SUFFICES ASSUME LayoutInv, [LayoutNext]_layoutVars PROVE LayoutInv'
    OBVIOUS
  <1>1. ASSUME NEW p \in Path, NEW n \in Length, ParseFile(p, n) PROVE LayoutInv'
    BY <1>1, ParseFileKeeps
  <1>2. ASSUME NEW h \in 0 .. MaxPieces + 1, NEW pre \in BOOLEAN, Create(h, pre) PROVE LayoutInv'
    <2>1. h \in Nat
      BY LayoutAssumption
    <2> QED BY <1>2, <2>1, CreateKeeps
  <1>3. ASSUME NEW start \in 0 .. MaxTotal, NEW len \in 1 .. PieceLength, NEW buf \in [1 .. len -> {1, 2}],
               WriteBlock(start, buf)
        PROVE  LayoutInv'
    <2>1. start \in Nat /\ buf \in Seq({1, 2})
      BY LayoutAssumption
    <2> QED BY <1>3, <2>1, WriteBlockKeeps
  <1>4. CASE UNCHANGED layoutVars
    <2>1. files' = files /\ stored' = stored /\ disk' = disk /\ wrote' = wrote
      BY <1>4 DEF layoutVars
    <2>2. GlobalStart' = GlobalStart /\ Total' = Total /\ Folded' = Folded
      BY <2>1, SameFiles
    <2> QED BY <2>1, <2>2 DEF LayoutInv, FilesTyped, Apart, DiskTyped, Placed
  <1> QED BY <1>1, <1>2, <1>3, <1>4 DEF LayoutNext

-----------------------------------------------------------------------------
(* What the invariant gives *)

\* A range that is all there reads as what was written; one that reads short
\* has a byte nothing was written to.
LEMMA ReadFacts ==
    ASSUME LayoutInv, stored = "open", NEW start \in Nat, NEW len \in Nat \ {0}, start + len <= Total
    PROVE  /\ ReadBlock(start, len) = <<>> => \E g \in start .. start + len - 1 : wrote[g] = 0
           /\ ReadBlock(start, len) # <<>> =>
                 /\ DOMAIN ReadBlock(start, len) = 1 .. len
                 /\ \A k \in 1 .. len : ReadBlock(start, len)[k] = wrote[start + k - 1]
  <1>1. FilesTyped /\ Apart /\ DiskTyped /\ Placed /\ wrote \in [0 .. Total - 1 -> Byte]
    BY DEF LayoutInv
  <1>2. Total \in Nat
    BY <1>1, TotalIsNat
  <1> DEFINE segs == Segments(start, len)
             part(i) == Part(i, start, len)
             short == \E s \in segs : s.off + s.hi - s.lo > Len(disk[Folded[s.file]])
             whole == [k \in 1 .. len |->
                         LET s == CHOOSE s \in segs : s.lo < k /\ k <= s.hi
                         IN  disk[Folded[s.file]][s.off + k - s.lo]]
  <1>3. ReadBlock(start, len) = IF short THEN <<>> ELSE whole
    BY DEF ReadBlock, InRange
  <1>4. ASSUME NEW s \in segs
        PROVE  \E i \in DOMAIN files : s = part(i) /\ s.lo < s.hi
    <2>1. PICK i \in DOMAIN files : Touches(i, start, len) /\ s = part(i)
      BY PartsAre
    <2> QED BY <1>1, <2>1, PartFacts
  <1>5. ASSUME NEW i \in DOMAIN files, part(i).lo < part(i).hi PROVE part(i) \in segs
    <2>1. Touches(i, start, len)
      BY <1>1, <1>5, PartFacts
    <2> QED BY <2>1, PartsAre
  <1>6. ASSUME NEW i \in DOMAIN files
        PROVE  /\ part(i).file = i /\ part(i).off \in Nat /\ part(i).lo \in Nat /\ part(i).hi \in Int
               /\ GlobalStart[i] + part(i).off = start + part(i).lo
               /\ \A g \in Int : part(i).lo <= g - start /\ g - start < part(i).hi
                                 <=> /\ GlobalStart[i] <= g /\ g < GlobalStart[i + 1]
                                     /\ start <= g /\ g < start + len
    BY <1>1, PartFacts
  <1>7. ASSUME NEW i \in DOMAIN files
        PROVE  /\ GlobalStart[i] \in Nat /\ files[i].length \in Nat
               /\ GlobalStart[i + 1] = GlobalStart[i] + files[i].length
               /\ disk[Folded[i]] \in Seq(Byte)
    BY <1>1, StartFacts, FoldedInRange DEF DiskTyped
  <1> HIDE DEF segs, part
  <1>8. ASSUME short PROVE \E g \in start .. start + len - 1 : wrote[g] = 0
    <2>1. PICK s \in segs : s.off + s.hi - s.lo > Len(disk[Folded[s.file]])
      BY <1>8
    <2>2. PICK i \in DOMAIN files : s = part(i) /\ s.lo < s.hi
      BY <1>4
    <2> DEFINE d == disk[Folded[i]]
               o == s.off + (s.hi - s.lo) - 1
               g == GlobalStart[i] + o
    <2>3. s.file = i /\ s.off \in Nat /\ s.lo \in Nat /\ s.hi \in Int /\ GlobalStart[i] + s.off = start + s.lo
      BY <1>6, <2>2
    <2>4. d \in Seq(Byte) /\ Len(d) \in Nat /\ GlobalStart[i] \in Nat /\ files[i].length \in Nat
      BY <1>7
    <2>5. s.off + s.hi - s.lo > Len(d)
      BY <2>1, <2>3
    <2> HIDE DEF d
    <2>6. o \in Nat /\ g \in Int /\ s.lo <= g - start /\ g - start < s.hi /\ ~(o < Len(d))
      <3> DEFINE b == GlobalStart[i]  L == Len(d)  off == s.off  lo == s.lo  hi == s.hi
      <3>1. /\ b \in Nat /\ L \in Nat /\ off \in Nat /\ lo \in Nat /\ hi \in Int
            /\ b + off = start + lo /\ lo < hi /\ off + hi - lo > L
        BY <2>2, <2>3, <2>4, <2>5
      <3>2. o = off + (hi - lo) - 1 /\ g = b + o
        OBVIOUS
      <3> HIDE DEF b, L, off, lo, hi, o, g
      <3>3. o \in Nat /\ g \in Int /\ lo <= g - start /\ g - start < hi /\ ~(o < L)
        BY <3>1, <3>2
      <3> QED BY <3>3 DEF L, lo, hi
    <2> HIDE DEF o
    <2>7. GlobalStart[i] <= g /\ g < GlobalStart[i + 1] /\ start <= g /\ g < start + len
      <3> HIDE DEF g
      <3> QED BY <1>6, <2>2, <2>6
    <2>8. o \in 0 .. files[i].length - 1 /\ g \in start .. start + len - 1
      <3> DEFINE b == GlobalStart[i]  n == files[i].length
      <3>1. /\ b \in Nat /\ n \in Nat /\ o \in Nat /\ b + o < b + n
            /\ g \in Int /\ start <= g /\ g < start + len
        BY <1>7, <2>4, <2>6, <2>7
      <3> HIDE DEF b, n, g
      <3>2. o \in 0 .. n - 1 /\ g \in start .. start + len - 1
        BY <3>1
      <3> QED BY <3>2 DEF n
    <2>9. wrote[g] = ByteAt(disk[Folded[i]], o)
      BY <1>1, <2>8 DEF Placed
    <2>10. wrote[g] = 0
      BY <2>6, <2>9 DEF ByteAt, d
    <2> HIDE DEF g
    <2> QED BY <2>8, <2>10
  <1>9. ASSUME ~short, NEW k \in 1 .. len PROVE whole[k] = wrote[start + k - 1]
    <2> DEFINE s == CHOOSE s \in segs : s.lo < k /\ k <= s.hi
               g == start + k - 1
    <2>1. g \in Int /\ g \in 0 .. Total - 1 /\ start <= g /\ g < start + len /\ g - start = k - 1
      BY <1>2
    <2> HIDE DEF g
    <2>2. PICK j \in DOMAIN files : GlobalStart[j] <= g /\ g < GlobalStart[j + 1]
      BY <1>1, <2>1, OneOwner
    <2>3. part(j).lo <= g - start /\ g - start < part(j).hi
      BY <1>6, <2>1, <2>2
    <2>4. part(j).lo < k /\ k <= part(j).hi /\ part(j).lo < part(j).hi
      BY <1>6, <2>1, <2>3
    <2>5. s \in segs /\ s.lo < k /\ k <= s.hi
      <3>1. part(j) \in segs
        BY <1>5, <2>4
      <3> QED BY <2>4, <3>1
    <2>6. whole[k] = disk[Folded[s.file]][s.off + k - s.lo]
      OBVIOUS
    <2> HIDE DEF s, whole
    <2>7. PICK i \in DOMAIN files : s = part(i) /\ s.lo < s.hi
      BY <1>4, <2>5
    <2> DEFINE d == disk[Folded[i]]
               o == s.off + (k - 1) - s.lo
    <2>8. s.file = i /\ s.off \in Nat /\ s.lo \in Nat /\ s.hi \in Int /\ GlobalStart[i] + s.off = start + s.lo
      BY <1>6, <2>7
    <2>9. ~(s.off + s.hi - s.lo > Len(d)) /\ whole[k] = d[s.off + k - s.lo]
      BY <1>9, <2>5, <2>6, <2>8
    <2>10. d \in Seq(Byte) /\ Len(d) \in Nat /\ GlobalStart[i] \in Nat /\ files[i].length \in Nat
      BY <1>7
    <2> HIDE DEF d
    <2>11. s.lo <= g - start /\ g - start < s.hi
      BY <2>1, <2>5, <2>8
    <2>12. GlobalStart[i] <= g /\ g < GlobalStart[i + 1]
      BY <1>6, <2>1, <2>7, <2>11
    <2>13. GlobalStart[i] + o = g /\ o \in Nat /\ o + 1 = s.off + k - s.lo /\ o < Len(d)
      <3> DEFINE b == GlobalStart[i]  L == Len(d)  off == s.off  lo == s.lo  hi == s.hi
      <3>1. /\ b \in Nat /\ L \in Nat /\ off \in Nat /\ lo \in Nat /\ hi \in Int
            /\ b + off = start + lo /\ lo < k /\ k <= hi /\ ~(off + hi - lo > L)
        BY <2>5, <2>8, <2>9, <2>10
      <3>2. o = off + (k - 1) - lo /\ g - start = k - 1 /\ g \in Int
        BY <2>1
      <3> HIDE DEF b, L, off, lo, hi, o
      <3>3. b + o = g /\ o \in Nat /\ o + 1 = off + k - lo /\ o < L
        BY <3>1, <3>2
      <3> QED BY <3>3 DEF b, L, off, lo
    <2> HIDE DEF o
    <2>14. o \in 0 .. files[i].length - 1
      BY <1>7, <2>1, <2>10, <2>12, <2>13
    <2>15. wrote[GlobalStart[i] + o] = ByteAt(disk[Folded[i]], o)
      BY <1>1, <2>14 DEF Placed
    <2>16. wrote[g] = d[o + 1]
      BY <2>13, <2>15 DEF ByteAt, d
    <2> QED BY <2>9, <2>13, <2>16 DEF g
  <1>10. DOMAIN whole = 1 .. len /\ whole # <<>>
    <2>1. DOMAIN whole = 1 .. len
      OBVIOUS
    <2>2. 1 \in 1 .. len /\ 1 \notin DOMAIN <<>>
      OBVIOUS
    <2> HIDE DEF whole
    <2> QED BY <2>1, <2>2
  <1> HIDE DEF short, whole
  <1> QED BY <1>3, <1>8, <1>9, <1>10

LEMMA ReadsBackHolds == LayoutInv => ReadsBack
  <1> SUFFICES ASSUME LayoutInv, stored = "open", NEW start \in 0 .. Total - 1, NEW len \in 1 .. Total - start
               PROVE  LET got == ReadBlock(start, len)
                      IN  IF got = <<>> THEN \E g \in start .. start + len - 1 : wrote[g] = 0
                          ELSE \A k \in 1 .. len : got[k] = wrote[start + k - 1]
    BY DEF ReadsBack
  <1>1. Total \in Nat
    BY TotalIsNat DEF LayoutInv
  <1>2. start \in Nat /\ len \in Nat \ {0} /\ start + len <= Total
    BY <1>1
  <1> QED BY <1>2, ReadFacts

LEMMA NoAliasingHolds == LayoutInv => NoAliasing
  BY DEF LayoutInv, Apart, NoAliasing

LEMMA LayoutTyped == LayoutInv => LayoutTypeOK
  <1> SUFFICES ASSUME LayoutInv PROVE LayoutTypeOK
    OBVIOUS
  <1>1. FilesTyped /\ Len(files) <= MaxFiles /\ stored \in {"parsing", "refused", "open"}
    BY DEF LayoutInv
  <1>2. /\ DOMAIN disk \subseteq {Fold(p) : p \in Path}
        /\ \A p \in DOMAIN disk : disk[p] \in Seq({0, 1, 2})
    <2>1. CASE stored = "open"
      <3>1. \A p \in Range(Folded) : \E i \in DOMAIN files : p = Folded[i]
        BY <1>1, FoldedTyped DEF Range
      <3>2. Range(Folded) \subseteq {Fold(p) : p \in Path}
        BY <1>1, <3>1, FoldedTyped
      <3> QED BY <2>1, <3>2 DEF LayoutInv, DiskTyped, Byte
    <2>2. CASE stored # "open"
      <3>1. DOMAIN disk = {}
        BY <2>2 DEF LayoutInv
      <3> QED BY <3>1
    <2> QED BY <2>1, <2>2
  <1>3. DOMAIN wrote = IF stored = "open" THEN 0 .. Total - 1 ELSE {}
    BY DEF LayoutInv
  <1> QED BY <1>1, <1>2, <1>3 DEF LayoutTypeOK, FilesTyped

-----------------------------------------------------------------------------
(* Pieces *)

\* The bytes of a piece.
LEMMA PieceFacts ==
    ASSUME FilesTyped, NEW i \in Nat
    PROVE  /\ NumPieces \in Nat /\ i * PieceLength \in Nat
           /\ i < NumPieces <=> i * PieceLength < Total
           /\ \A g \in Nat : g \div PieceLength = i
                             <=> i * PieceLength <= g /\ g < i * PieceLength + PieceLength
  <1> DEFINE P == PieceLength  T == Total + P - 1
  <1>1. P \in Nat \ {0} /\ Total \in Nat
    BY LayoutAssumption, TotalIsNat
  <1>2. T \in Nat
    BY <1>1
  <1>3. NumPieces = T \div P
    BY DEF NumPieces
  <1> HIDE DEF P, T
  <1>4. i + 1 \in Nat /\ (i + 1) * P = i * P + P
    BY <1>1
  <1>5. T \div P \in Nat /\ (T \div P < i + 1 <=> T < (i + 1) * P)
    BY <1>1, <1>2, <1>4, Quotient
  <1>6. i * P \in Nat /\ \A g \in Nat : g \div P = i <=> i * P <= g /\ g < i * P + P
    BY <1>1, Quotient
  <1>7. i < T \div P <=> ~(T \div P < i + 1)
    BY <1>5
  <1>8. T < i * P + P <=> ~(i * P < Total)
    BY <1>1, <1>6 DEF T
  <1>9. i < NumPieces <=> i * P < Total
    BY <1>3, <1>4, <1>5, <1>7, <1>8
  <1> QED BY <1>3, <1>5, <1>6, <1>9 DEF P

LEMMA VerifyExactHolds == LayoutInv => VerifyExact
  <1> SUFFICES ASSUME LayoutInv, stored = "open", NEW i \in 0 .. NumPieces
               PROVE  VerifyPiece(i) <=> i < NumPieces /\ \A g \in DOMAIN wrote :
                                                           g \div PieceLength = i => wrote[g] = 1
    BY DEF VerifyExact
  <1> DEFINE P == PieceLength  C == VerifyChunk  b == i * PieceLength  len == PieceLen(i)
             chunk(at) == ReadBlock(b + at, Min({len - at, C}))
             ats == {k \in 0 .. len - 1 : k % C = 0}
  <1>1. FilesTyped /\ DOMAIN wrote = 0 .. Total - 1
    BY DEF LayoutInv
  <1>2. P \in Nat \ {0} /\ C \in Nat \ {0} /\ Total \in Nat /\ NumPieces \in Nat
    <2>1. 0 \in Nat
      OBVIOUS
    <2> QED BY <1>1, <2>1, LayoutAssumption, TotalIsNat, PieceFacts
  <1>3. i \in Nat
    BY <1>2
  <1>4. /\ b \in Nat /\ (i < NumPieces <=> b < Total)
        /\ \A g \in Nat : g \div P = i <=> b <= g /\ g < b + P
    BY <1>1, <1>3, PieceFacts
  <1>5. len = IF b >= Total THEN 0 ELSE Min({Total - b, P})
    BY DEF PieceLen
  <1>6. VerifyPiece(i) <=> /\ len > 0
                           /\ \A at \in ats : chunk(at) # <<>> /\ \A k \in DOMAIN chunk(at) : chunk(at)[k] = 1
    BY DEF VerifyPiece
  <1>7. CASE b >= Total
    <2> HIDE DEF b, len, chunk, ats
    <2> QED BY <1>2, <1>4, <1>5, <1>6, <1>7
  <1>8. CASE b < Total
    <2>1. len = IF Total - b <= P THEN Total - b ELSE P
      <3>1. Total - b \in Int /\ P \in Int /\ ~(b >= Total)
        BY <1>2, <1>4, <1>8
      <3> HIDE DEF len, b, P
      <3> QED BY <1>5, <3>1, MinTwo
    <2> HIDE DEF b, len, P, C
    <2>2. len \in Nat /\ len > 0 /\ b + len <= Total
      BY <1>2, <1>4, <1>8, <2>1
    <2>3. \A g \in 0 .. Total - 1 : g \div P = i <=> b <= g /\ g < b + len
      BY <1>2, <1>4, <1>8, <2>1
    <2>4. ASSUME NEW at \in 0 .. len - 1
          PROVE  \E m \in Nat \ {0} :
                    /\ m <= len - at /\ m <= C /\ (m = len - at \/ m = C)
                    /\ chunk(at) = ReadBlock(b + at, m)
                    /\ chunk(at) = <<>> => \E g \in b + at .. b + at + m - 1 : wrote[g] = 0
                    /\ chunk(at) # <<>> =>
                          /\ DOMAIN chunk(at) = 1 .. m
                          /\ \A k \in 1 .. m : chunk(at)[k] = wrote[b + at + k - 1]
      <3> DEFINE m == IF len - at <= C THEN len - at ELSE C
      <3>1. Min({len - at, C}) = m
        <4>1. len - at \in Int /\ C \in Int
          BY <1>2, <2>2
        <4> QED BY <4>1, MinTwo
      <3>2. m \in Nat \ {0} /\ m <= len - at /\ m <= C /\ (m = len - at \/ m = C)
        BY <1>2, <2>2
      <3> HIDE DEF m
      <3>3. b + at \in Nat /\ (b + at) + m <= Total
        BY <1>2, <1>4, <2>2, <3>2
      <3>4. chunk(at) = ReadBlock(b + at, m)
        BY <3>1
      <3> HIDE DEF chunk
      <3>5. /\ ReadBlock(b + at, m) = <<>> => \E g \in b + at .. b + at + m - 1 : wrote[g] = 0
            /\ ReadBlock(b + at, m) # <<>> =>
                 /\ DOMAIN ReadBlock(b + at, m) = 1 .. m
                 /\ \A k \in 1 .. m : ReadBlock(b + at, m)[k] = wrote[b + at + k - 1]
        <4> DEFINE st == b + at
        <4>1. st \in Nat /\ st + m <= Total
          BY <3>3
        <4> HIDE DEF st
        <4>2. /\ ReadBlock(st, m) = <<>> => \E g \in st .. st + m - 1 : wrote[g] = 0
              /\ ReadBlock(st, m) # <<>> =>
                   /\ DOMAIN ReadBlock(st, m) = 1 .. m
                   /\ \A k \in 1 .. m : ReadBlock(st, m)[k] = wrote[st + k - 1]
          BY <3>2, <4>1, ReadFacts
        <4> QED BY <4>2 DEF st
      <3> QED BY <3>2, <3>4, <3>5
    <2> HIDE DEF chunk
    <2>5. ASSUME \A at \in ats : chunk(at) # <<>> /\ \A k \in DOMAIN chunk(at) : chunk(at)[k] = 1,
                 NEW g \in 0 .. Total - 1, b <= g, g < b + len
          PROVE  wrote[g] = 1
      <3> DEFINE o == g - b
                 at == o - (o % C)
      <3>1. o \in Nat /\ o < len /\ g = b + o
        BY <1>4, <2>2, <2>5
      <3> HIDE DEF o
      <3>2. o % C \in Nat /\ o % C < C /\ o % C <= o /\ at % C = 0
        BY <1>2, <3>1, Remainder
      <3>3. at \in 0 .. len - 1 /\ at <= o /\ o < at + C
        BY <1>2, <2>2, <3>1, <3>2
      <3> HIDE DEF at
      <3>4. chunk(at) # <<>> /\ \A k \in DOMAIN chunk(at) : chunk(at)[k] = 1
        BY <2>5, <3>2, <3>3
      <3>5. PICK m \in Nat \ {0} :
               /\ m = len - at \/ m = C
               /\ DOMAIN chunk(at) = 1 .. m /\ \A k \in 1 .. m : chunk(at)[k] = wrote[b + at + k - 1]
        BY <2>4, <3>3, <3>4
      <3> DEFINE k == (o - at) + 1
      <3>6. k \in 1 .. m /\ b + at + k - 1 = g
        <4>1. m \in Nat /\ (m = len - at \/ m = C) /\ b \in Nat /\ len \in Nat /\ C \in Nat
          BY <1>2, <1>4, <2>2, <3>5
        <4>2. o - at < m
          BY <3>1, <3>3, <4>1
        <4> QED BY <3>1, <3>3, <4>1, <4>2
      <3> HIDE DEF k
      <3> QED BY <3>4, <3>5, <3>6
    <2>6. ASSUME \A g \in 0 .. Total - 1 : b <= g /\ g < b + len => wrote[g] = 1, NEW at \in ats
          PROVE  chunk(at) # <<>> /\ \A k \in DOMAIN chunk(at) : chunk(at)[k] = 1
      <3>1. at \in 0 .. len - 1
        OBVIOUS
      <3>2. PICK m \in Nat \ {0} :
               /\ m <= len - at
               /\ chunk(at) = <<>> => \E g \in b + at .. b + at + m - 1 : wrote[g] = 0
               /\ chunk(at) # <<>> => /\ DOMAIN chunk(at) = 1 .. m
                                      /\ \A k \in 1 .. m : chunk(at)[k] = wrote[b + at + k - 1]
        BY <2>4, <3>1
      <3>3. ASSUME NEW g \in b + at .. b + at + m - 1 PROVE wrote[g] = 1
        <4>1. g \in 0 .. Total - 1 /\ b <= g /\ g < b + len
          BY <1>2, <1>4, <2>2, <3>1, <3>2
        <4> QED BY <2>6, <4>1
      <3>4. chunk(at) # <<>>
        BY <3>2, <3>3
      <3>5. ASSUME NEW k \in 1 .. m PROVE chunk(at)[k] = 1
        <4>1. b + at + k - 1 \in b + at .. b + at + m - 1
          BY <1>4, <3>1, <3>2
        <4> QED BY <3>2, <3>3, <3>4, <4>1
      <3> QED BY <3>2, <3>4, <3>5
    <2> HIDE DEF ats
    <2>7. VerifyPiece(i) <=> \A g \in 0 .. Total - 1 : b <= g /\ g < b + len => wrote[g] = 1
      BY <1>6, <2>2, <2>5, <2>6
    <2> QED BY <1>1, <1>4, <1>8, <2>3, <2>7 DEF P
  <1> QED BY <1>2, <1>4, <1>7, <1>8

LEMMA MaxWithZero ==
    ASSUME NEW S \in SUBSET {0, 1, 2}, S # {}
    PROVE  Max({0} \cup S) = Max(S)
  <1>1. \E x \in S : \A y \in S : x >= y
    <2>1. \A y \in S : y = 0 \/ y = 1 \/ y = 2
      OBVIOUS
    <2>2. CASE 2 \in S
      BY <2>1, <2>2
    <2>3. CASE 2 \notin S /\ 1 \in S
      BY <2>1, <2>3
    <2>4. CASE 2 \notin S /\ 1 \notin S
      <3>1. 0 \in S /\ \A y \in S : y = 0
        BY <2>1, <2>4
      <3> QED BY <3>1
    <2> QED BY <2>2, <2>3, <2>4
  <1>2. Max(S) \in S /\ \A y \in S : Max(S) >= y
    BY <1>1 DEF Max
  <1>3. \E x \in {0} \cup S : \A y \in {0} \cup S : x >= y
    BY <1>1
  <1>4. Max({0} \cup S) \in {0} \cup S /\ \A y \in {0} \cup S : Max({0} \cup S) >= y
    BY <1>3 DEF Max
  <1> DEFINE a == Max(S)  b == Max({0} \cup S)
  <1>5. a \in S /\ b \in {0} \cup S /\ a \in {0, 1, 2} /\ b \in {0, 1, 2}
    BY <1>2, <1>4
  <1>6. b >= a /\ b >= 0
    BY <1>2, <1>4
  <1>7. b \in S => a >= b
    BY <1>2
  <1> HIDE DEF a, b
  <1>8. a = b
    BY <1>5, <1>6, <1>7
  <1> QED BY <1>8 DEF a, b

LEMMA PrioritiesExactHolds == LayoutInv => PrioritiesExact
  <1> SUFFICES ASSUME LayoutInv, stored = "open",
                      NEW perFile \in SeqOf({0, 1, 2}, MaxFiles), NEW k \in 0 .. NumPieces - 1
               PROVE  LET owner(g) == CHOOSE i \in DOMAIN files : GlobalStart[i] <= g /\ g < GlobalStart[i + 1]
                          priority(i) == IF i \in DOMAIN perFile THEN perFile[i] ELSE 1
                      IN  PiecePriorities(perFile)[k] =
                              Max({priority(owner(g)) : g \in {b \in DOMAIN wrote : b \div PieceLength = k}})
    BY DEF PrioritiesExact
  <1> DEFINE P == PieceLength
             owner(g) == CHOOSE i \in DOMAIN files : GlobalStart[i] <= g /\ g < GlobalStart[i + 1]
             priority(i) == IF i \in DOMAIN perFile THEN perFile[i] ELSE 1
             covering == {i \in DOMAIN files :
                            files[i].length > 0 /\ GlobalStart[i] \div PieceLength <= k /\ k <= LastPiece(i)}
             bytes == {b \in DOMAIN wrote : b \div PieceLength = k}
             given == {priority(i) : i \in covering}
             wanted == {priority(owner(g)) : g \in bytes}
  <1>1. FilesTyped /\ DOMAIN wrote = 0 .. Total - 1
    BY DEF LayoutInv
  <1>2. P \in Nat \ {0} /\ Total \in Nat /\ NumPieces \in Nat
    <2>1. 0 \in Nat
      OBVIOUS
    <2> QED BY <1>1, <2>1, LayoutAssumption, TotalIsNat, PieceFacts
  <1>3. k \in Nat /\ k < NumPieces
    BY <1>2
  <1>4. /\ k * P \in Nat /\ k * P < Total
        /\ \A g \in Nat : g \div P = k <=> k * P <= g /\ g < k * P + P
    BY <1>1, <1>3, PieceFacts
  <1>5. PiecePriorities(perFile)[k] = Max({0} \cup given)
    BY DEF PiecePriorities
  <1>6. \A i : priority(i) \in {0, 1, 2}
    <2>1. PICK m \in 0 .. MaxFiles : perFile \in [1 .. m -> {0, 1, 2}]
      BY DEF SeqOf
    <2> QED BY <2>1
  <1>7. ASSUME NEW g \in 0 .. Total - 1
        PROVE  /\ owner(g) \in DOMAIN files
               /\ GlobalStart[owner(g)] <= g /\ g < GlobalStart[owner(g) + 1]
               /\ \A i \in DOMAIN files : GlobalStart[i] <= g /\ g < GlobalStart[i + 1] => owner(g) = i
    <2>1. owner(g) \in DOMAIN files /\ GlobalStart[owner(g)] <= g /\ g < GlobalStart[owner(g) + 1]
      BY <1>1, OneOwner
    <2> HIDE DEF owner
    <2> QED BY <1>1, <2>1, OneOwner
  <1>8. ASSUME NEW i \in DOMAIN files
        PROVE  i \in covering <=> \E g \in bytes : GlobalStart[i] <= g /\ g < GlobalStart[i + 1]
    <2> DEFINE b == GlobalStart[i]  e == GlobalStart[i + 1]  s == k * P
    <2>1. b \in Nat /\ e \in Nat /\ files[i].length \in Nat /\ e = b + files[i].length /\ e <= Total
      BY <1>1, StartFacts
    <2>2. i \in covering <=> files[i].length > 0 /\ b \div P <= k /\ k <= (e - 1) \div P
      BY DEF LastPiece
    <2>3. files[i].length > 0 <=> b < e
      <3> HIDE DEF b, e
      <3> QED BY <2>1
    <2>4. k + 1 \in Nat /\ (k + 1) * P = s + P /\ s \in Nat
      BY <1>2, <1>3, <1>4
    <2>5. b \div P <= k <=> b < s + P
      <3>1. b \div P \in Nat /\ (b \div P < k + 1 <=> b < (k + 1) * P)
        <4> HIDE DEF b
        <4> QED BY <1>2, <2>1, <2>4, Quotient
      <3> HIDE DEF b, s
      <3>2. b \div P <= k <=> b \div P < k + 1
        BY <1>3, <3>1
      <3> QED BY <2>4, <3>1, <3>2
    <2>6. b < e => (k <= (e - 1) \div P <=> s <= e - 1)
      <3> SUFFICES ASSUME b < e PROVE k <= (e - 1) \div P <=> s <= e - 1
        OBVIOUS
      <3> DEFINE l == e - 1
      <3>1. l \in Nat
        BY <2>1
      <3> HIDE DEF l
      <3>2. l \div P \in Nat /\ (l \div P < k <=> l < k * P)
        BY <1>2, <1>3, <3>1, Quotient
      <3>3. k <= l \div P <=> ~(l \div P < k)
        BY <1>3, <3>2
      <3>4. s <= l <=> ~(l < s)
        <4> HIDE DEF s
        <4> QED BY <2>4, <3>1
      <3> QED BY <3>2, <3>3, <3>4 DEF l
    <2>7. \A g \in 0 .. Total - 1 : g \in bytes <=> s <= g /\ g < s + P
      BY <1>1, <1>4
    <2> HIDE DEF b, e, s, covering
    <2>8. ASSUME i \in covering PROVE \E g \in bytes : b <= g /\ g < e
      <3>1. b < e /\ b < s + P /\ s <= e - 1
        BY <1>8, <2>2, <2>3, <2>5, <2>6, <2>8
      <3> DEFINE g == IF b >= s THEN b ELSE s
      <3>2. g \in 0 .. Total - 1 /\ s <= g /\ g < s + P /\ b <= g /\ g < e
        BY <1>2, <2>1, <2>4, <3>1
      <3> HIDE DEF g
      <3> QED BY <2>7, <3>2
    <2>9. ASSUME NEW g \in bytes, b <= g, g < e PROVE i \in covering
      <3>1. g \in 0 .. Total - 1
        BY <1>1
      <3>2. s <= g /\ g < s + P
        BY <2>7, <3>1
      <3>3. b < e /\ b < s + P /\ s <= e - 1
        <4>1. g \in Nat /\ b \in Nat /\ e \in Nat /\ s \in Nat /\ P \in Nat
          BY <1>2, <2>1, <2>4, <3>1
        <4> QED BY <2>9, <3>2, <4>1
      <3> QED BY <2>2, <2>3, <2>5, <2>6, <3>3
    <2> QED BY <2>8, <2>9 DEF b, e
  <1>9. \A g \in bytes : g \in 0 .. Total - 1
    BY <1>1
  <1>10. k * P \in bytes
    <2>1. k * P \in 0 .. Total - 1 /\ k * P <= k * P /\ k * P < k * P + P
      BY <1>2, <1>4
    <2> QED BY <1>1, <1>4, <2>1
  <1> HIDE DEF owner, priority, covering, bytes
  <1>11. given = wanted
    <2>1. ASSUME NEW i \in covering PROVE priority(i) \in wanted
      <3>0. i \in DOMAIN files
        BY DEF covering
      <3>1. PICK g \in bytes : GlobalStart[i] <= g /\ g < GlobalStart[i + 1]
        BY <1>8, <3>0
      <3>2. owner(g) = i
        BY <1>7, <1>9, <3>0, <3>1
      <3> QED BY <3>2
    <2>2. ASSUME NEW g \in bytes PROVE priority(owner(g)) \in given
      <3>1. owner(g) \in covering
        BY <1>7, <1>8, <1>9
      <3> QED BY <3>1
    <2> QED BY <2>1, <2>2
  <1>12. wanted \in SUBSET {0, 1, 2} /\ wanted # {}
    BY <1>6, <1>10
  <1>13. Max({0} \cup wanted) = Max(wanted)
    <2> HIDE DEF wanted
    <2> QED BY <1>12, MaxWithZero
  <1> QED BY <1>5, <1>11, <1>13 DEF owner, priority, bytes

\* The torrent's bytes and the files' bytes are the same: no two files of an
\* accepted torrent share a byte or lead through one another, each block is
\* read back from where it was written, across file boundaries, empty files
\* and holes, each piece is verified whole, and each piece is wanted for
\* exactly the files that have a byte in it (metainfo.rs, storage.rs), for
\* every list of files, piece length and chunk.
THEOREM BytesAlwaysInPlace == LayoutSpec => []BytesInPlace
  <1>1. LayoutInv => BytesInPlace
    BY LayoutTyped, NoAliasingHolds, ReadsBackHolds, VerifyExactHolds, PrioritiesExactHolds
       DEF BytesInPlace
  <1>2. LayoutSpec => []LayoutInv
    BY LayoutInvInit, LayoutInvStep, PTL DEF LayoutSpec
  <1> QED BY <1>1, <1>2, PTL

=============================================================================
