------------------------------ MODULE MCEngine ------------------------------
(***************************************************************************)
(* Small instances of Engine for TLC: two or three connection attempts,    *)
(* one honest destination and one that may lie, one or two pieces.         *)
(***************************************************************************)
EXTENDS Engine, TLC

CONSTANTS c1, c2, c3, honest, liar, none

TwoConns == {c1, c2}
ThreeConns == {c1, c2, c3}
BothDests == {honest, liar}
OnlyHonest == {honest}

\* A piece of two blocks and one of a single block, or just one piece.
TwoOne == [i \in {0, 1} |-> IF i = 0 THEN 2 ELSE 1]
JustTwo == [i \in {0} |-> 2]
JustOne == [i \in {0} |-> 1]

FreshStart == {{}}

AllNormal == {[i \in Piece |-> 1]}
SkipOrHurry == AllNormal \cup {[i \in Piece |-> IF i = 0 THEN 0 ELSE 2]}

RarestOnly == {"rarest-first"}

\* Connections are interchangeable; no ordering on them is used anywhere.
ConnSymmetry == Permutations(Conn)
=============================================================================
