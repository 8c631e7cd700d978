------------------------------- MODULE Layout -------------------------------
(***************************************************************************)
(* A torrent's bytes and the files they live in: which file lists a        *)
(* .torrent may carry (clove-core/src/metainfo.rs), and how a block is     *)
(* split over the files, read back and verified (storage.rs).              *)
(*                                                                         *)
(* A path component is a number, plus Upper if it is written in capitals;  *)
(* 0 stands for one check_component refuses.  The volume does not tell the *)
(* cases apart.  A byte is 1 when it is the torrent's and 2 when it is     *)
(* not; a hole reads 0.  `wrote` remembers, by position in the torrent,    *)
(* what was last written there.                                            *)
(***************************************************************************)
EXTENDS Integers, Sequences, FiniteSets, FiniteSetsExt, SequencesExt

CONSTANTS Path,           \* raw paths a file list may name
          Length,         \* file lengths it may name
          Upper,          \* what capitals add to a component
          PieceLength,
          MaxFiles,       \* MAX_FILES
          MaxTotal,       \* the largest total a u64 holds
          MaxPieces,      \* MAX_PIECES
          VerifyChunk     \* VERIFY_CHUNK

ASSUME LayoutAssumption ==
    /\ \A p \in Path : p \in Seq(Nat)
    /\ Length \subseteq Int /\ Upper \in Nat
    /\ {PieceLength, VerifyChunk} \subseteq Nat \ {0}
    /\ {MaxFiles, MaxTotal, MaxPieces} \subseteq Nat

VARIABLES
    files,      \* the entries parsed so far: path and length
    stored,     \* "parsing", "refused" or "open"
    disk,       \* the bytes of each (case-folded) path
    wrote       \* the last byte written at each position, 0 for none

layoutVars == <<files, stored, disk, wrote>>

Fold(path) == [k \in DOMAIN path |-> IF path[k] > Upper THEN path[k] - Upper ELSE path[k]]

\* Region.global_start of each file; one past the last is the total length.
GlobalStart ==
    LET start[i \in 1 .. Len(files) + 1] ==
            IF i = 1 THEN 0 ELSE start[i - 1] + files[i - 1].length
    IN  start

Total == GlobalStart[Len(files) + 1]
NumPieces == (Total + PieceLength - 1) \div PieceLength

LayoutTypeOK ==
    /\ files \in Seq([path : Path, length : Length \cap Nat]) /\ Len(files) <= MaxFiles
    /\ stored \in {"parsing", "refused", "open"}
    /\ DOMAIN disk \subseteq {Fold(p) : p \in Path}
    /\ \A p \in DOMAIN disk : disk[p] \in Seq({0, 1, 2})
    /\ DOMAIN wrote = (IF stored = "open" THEN 0 .. Total - 1 ELSE {})

LayoutInit ==
    files = <<>> /\ stored = "parsing" /\ disk = <<>> /\ wrote = <<>>

-----------------------------------------------------------------------------
(* parse_files *)

Refuse == stored' = "refused" /\ files' = <<>> /\ UNCHANGED <<disk, wrote>>

\* check_component on every part of a path.
SafePath(p) == p # <<>> /\ \A k \in DOMAIN p : p[k] # 0

\* One entry of the list: refused for its length, its path, the total or the
\* count, else kept.
ParseFile(p, n) ==
    /\ stored = "parsing"
    /\ IF n < 0 \/ ~SafePath(p) \/ Total + n > MaxTotal \/ Len(files) = MaxFiles
       THEN Refuse
       ELSE /\ files' = Append(files, [path |-> p, length |-> n])
            /\ UNCHANGED <<stored, disk, wrote>>

\* Vec<String> ordering.
PathBefore(p, q) ==
    \/ IsStrictPrefix(p, q)
    \/ \E k \in DOMAIN p \cap DOMAIN q :
          p[k] < q[k] /\ \A j \in 1 .. k - 1 : p[j] = q[j]

Folded == [i \in DOMAIN files |-> Fold(files[i].path)]

\* The sorted list: the place of a file is how many are not after it.
PathPlace(i) ==
    Cardinality({j \in DOMAIN files :
                    PathBefore(Folded[j], Folded[i]) \/ (Folded[j] = Folded[i] /\ j <= i)})

SortedPaths == [k \in DOMAIN files |-> Folded[CHOOSE i \in DOMAIN files : PathPlace(i) = k]]

\* check_distinct_paths: no path repeats or leads through another, found by
\* comparing neighbours of the sorted list only.
DistinctPaths ==
    \A k \in 1 .. Len(files) - 1 : ~IsPrefix(SortedPaths[k], SortedPaths[k + 1])

\* preallocate's claim_blocks: the file has its length, and reads as nothing.
ClaimBlocks(n) == [k \in 1 .. n |-> 0]

\* The end of the list and the checks of parse on what it adds up to; then
\* Storage::create.  A disk that has no room for the preallocation refuses.
Create(hashes, preallocate) ==
    /\ stored = "parsing"
    /\ IF Total = 0 \/ ~DistinctPaths \/ NumPieces > MaxPieces \/ NumPieces # hashes
       THEN Refuse
       ELSE \/ /\ stored' = "open"
               /\ disk' = [p \in Range(Folded) |->
                             IF ~preallocate THEN <<>>
                             ELSE LET i == CHOOSE i \in DOMAIN files : Folded[i] = p
                                  IN  ClaimBlocks(files[i].length)]
               /\ wrote' = [g \in 0 .. Total - 1 |-> 0]
               /\ UNCHANGED files
            \/ preallocate /\ Refuse

-----------------------------------------------------------------------------
(* Blocks *)

\* Mutant: the offset is counted from the block, not from the file.
Segments_OfBlock(start, len) ==
    {[file |-> i, off |-> Max({GlobalStart[i], start}) - start,
      lo |-> Max({GlobalStart[i], start}) - start,
      hi |-> Min({GlobalStart[i + 1], start + len}) - start] :
        i \in {j \in DOMAIN files : Max({GlobalStart[j], start}) < Min({GlobalStart[j + 1], start + len})}}

\* for_each_segment: the part of the range each file has, with its offset in
\* the file and its place in the buffer.  A file of no bytes has no part.
Segments(start, len) ==
    {[file |-> i, off |-> Max({GlobalStart[i], start}) - GlobalStart[i],
      lo |-> Max({GlobalStart[i], start}) - start,
      hi |-> Min({GlobalStart[i + 1], start + len}) - start] :
        i \in {j \in DOMAIN files : Max({GlobalStart[j], start}) < Min({GlobalStart[j + 1], start + len})}}

InRange(start, len) == start + len <= Total

\* pwrite: a write past the end leaves a hole.
Overlay(old, off, new) ==
    [k \in 1 .. Max({Len(old), off + Len(new)}) |->
        IF k > off /\ k <= off + Len(new) THEN new[k - off] ELSE IF k <= Len(old) THEN old[k] ELSE 0]

\* write_block.  One that fails after some of its segments has written a
\* shorter block, which is a step of its own here.
WriteBlock(start, buf) ==
    /\ stored = "open" /\ InRange(start, Len(buf))
    /\ disk' = [p \in DOMAIN disk |->
                 LET here == {s \in Segments(start, Len(buf)) : Folded[s.file] = p}
                 IN  IF here = {} THEN disk[p]
                     ELSE LET s == CHOOSE s \in here : TRUE
                          IN  Overlay(disk[p], s.off, SubSeq(buf, s.lo + 1, s.hi))]
    /\ wrote' = [g \in DOMAIN wrote |->
                   IF g \in start .. start + Len(buf) - 1 THEN buf[g - start + 1] ELSE wrote[g]]
    /\ UNCHANGED <<files, stored>>

\* read_block: the bytes, or <<>> for a range that is not all there
\* (UnexpectedEof) or not the torrent's (InvalidInput).
ReadBlock(start, len) ==
    LET segs == Segments(start, len) IN
    IF ~InRange(start, len) \/ \E s \in segs : s.off + s.hi - s.lo > Len(disk[Folded[s.file]])
    THEN <<>>
    ELSE [k \in 1 .. len |->
            LET s == CHOOSE s \in segs : s.lo < k /\ k <= s.hi
            IN  disk[Folded[s.file]][s.off + k - s.lo]]

\* piece_len, counting pieces from 0.
PieceLen(i) ==
    IF i * PieceLength >= Total THEN 0 ELSE Min({Total - i * PieceLength, PieceLength})

\* verify_piece_into: chunk by chunk, false as soon as one reads short.
VerifyPiece(i) ==
    LET len == PieceLen(i)
        chunk(at) == ReadBlock(i * PieceLength + at, Min({len - at, VerifyChunk}))
    IN  /\ len > 0
        /\ \A at \in {k \in 0 .. len - 1 : k % VerifyChunk = 0} :
              chunk(at) # <<>> /\ \A k \in DOMAIN chunk(at) : chunk(at)[k] = 1

LastPiece(i) == (GlobalStart[i + 1] - 1) \div PieceLength

\* MetaInfo::piece_priorities, for a list of any length.
PiecePriorities(perFile) ==
    LET priority(i) == IF i \in DOMAIN perFile THEN perFile[i] ELSE 1
        covering(k) == {i \in DOMAIN files :
                          files[i].length > 0 /\ GlobalStart[i] \div PieceLength <= k /\ k <= LastPiece(i)}
    IN  [k \in 0 .. NumPieces - 1 |-> Max({0} \cup {priority(i) : i \in covering(k)})]

LayoutNext ==
    \/ \E p \in Path, n \in Length : ParseFile(p, n)
    \/ \E h \in 0 .. MaxPieces + 1, pre \in BOOLEAN : Create(h, pre)
    \/ \E start \in 0 .. MaxTotal, len \in 1 .. PieceLength : \E buf \in [1 .. len -> {1, 2}] :
          WriteBlock(start, buf)

LayoutSpec == LayoutInit /\ [][LayoutNext]_layoutVars

-----------------------------------------------------------------------------
(* Properties *)

\* No two files of an accepted torrent share bytes on disk, and none is a
\* directory of another, on a volume that folds case: comparing neighbours of
\* the sorted list (check_distinct_paths) finds what comparing all pairs does.
NoAliasing ==
    stored = "open" =>
        \A i, j \in DOMAIN files : i # j => ~IsPrefix(Folded[i], Folded[j])

\* What was written at a position of the torrent is read back from it, across
\* file boundaries, empty files and holes, and a range is short only if some
\* of it was never written (for_each_segment, read_block_into).
ReadsBack ==
    stored = "open" =>
        \A start \in 0 .. Total - 1 : \A len \in 1 .. Total - start :
            LET got == ReadBlock(start, len)
            IN  IF got = <<>> THEN \E g \in start .. start + len - 1 : wrote[g] = 0
                ELSE \A k \in 1 .. len : got[k] = wrote[start + k - 1]

\* A piece verifies exactly when every one of its bytes was written last with
\* the torrent's, the short last piece included (verify_piece_into).
VerifyExact ==
    stored = "open" =>
        \A i \in 0 .. NumPieces :
            VerifyPiece(i) <=> i < NumPieces /\ \A g \in DOMAIN wrote :
                                                   g \div PieceLength = i => wrote[g] = 1

\* A piece has the highest priority among the files that have a byte in it:
\* a wanted file can always be completed, and nothing is fetched that no
\* wanted file needs (piece_priorities against the bytes themselves).
PrioritiesExact ==
    stored = "open" /\ (\A g \in DOMAIN wrote : wrote[g] = 0) =>
        \A perFile \in SeqOf({0, 1, 2}, MaxFiles) : \A k \in 0 .. NumPieces - 1 :
            LET owner(g) == CHOOSE i \in DOMAIN files : GlobalStart[i] <= g /\ g < GlobalStart[i + 1]
                priority(i) == IF i \in DOMAIN perFile THEN perFile[i] ELSE 1
            IN  PiecePriorities(perFile)[k] =
                    Max({priority(owner(g)) : g \in {b \in DOMAIN wrote : b \div PieceLength = k}})

\* The torrent's bytes and the files' bytes are the same: no two files share one,
\* each block is read back where it was written, each piece is verified whole
\* and wanted for the files it is part of (file_list, segments, verify_piece).
BytesInPlace == LayoutTypeOK /\ NoAliasing /\ ReadsBack /\ VerifyExact /\ PrioritiesExact
=============================================================================
