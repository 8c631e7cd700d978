---------------------------- MODULE MCRegistry ----------------------------
(***************************************************************************)
(* Small instances of Registry for TLC.  Every step treats the pieces one  *)
(* by one, but for the tests that all needed ones are held and that the    *)
(* record's two sets are the same: one piece, there or not there in each   *)
(* set, meets every case of trust; the second is for a record whose sets   *)
(* overlap in part.                                                        *)
(***************************************************************************)
EXTENDS Registry, TLC

CONSTANTS p1, p2, f1, f2

OnePiece == {p1}
TwoPieces == {p1, p2}
NoPieces == {}

NothingThere == {{}}
SomethingThere == {{}, {p1}}

NoFetchers == {}
TwoFetchers == {f1, f2}

NoFaults == {}
AllFaults == {"sync", "write", "unlink", "scan", "start"}
ScanAndSync == {"sync", "scan"}

FetcherSymmetry == Permutations(Fetcher)
=============================================================================
