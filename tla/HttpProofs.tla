----------------------------- MODULE HttpProofs -----------------------------
(***************************************************************************)
(* Proofs about reading one HTTP message (Http).                           *)
(*                                                                         *)
(* A chunked message is described by its marks: the places in the stream   *)
(* where a size line begins, each with the length of the body before it    *)
(* (Marked).  From one mark the next follows, so wherever the reader is in *)
(* the stream, the mark behind it or ahead of it says what it has and what *)
(* is to come (OnTrack).  Whatever the sender, what has been buffered is   *)
(* within the caps (Held) and the declared lengths agree with what is      *)
(* being read (OneStory).                                                  *)
(***************************************************************************)
EXTENDS Ordering, Http

-----------------------------------------------------------------------------
(* Numerals *)

\* The value of a numeral, place by place, exists.
LEMMA Places ==
    ASSUME NEW N \in Nat, NEW a \in [1 .. N -> Nat]
    PROVE  \E f \in [0 .. N -> Nat] : f[0] = 0 /\ \A i \in 1 .. N : f[i] = 16 * f[i - 1] + a[i]
  <1> DEFINE step == [i \in 1 .. N |-> [x \in Nat |-> 16 * x + a[i]]]
  <1>1. step \in [1 .. N -> [Nat -> Nat]] /\ \A i \in 1 .. N : \A x \in Nat : step[i][x] = 16 * x + a[i]
    OBVIOUS
  <1> HIDE DEF step
  <1>2. PICK f \in [0 .. N -> Nat] : f[0] = 0 /\ \A i \in 1 .. N : f[i] = step[i][f[i - 1]]
    BY <1>1, Recursion
  <1>3. ASSUME NEW i \in 1 .. N PROVE f[i] = 16 * f[i - 1] + a[i]
    <2>1. f[i - 1] \in Nat
      BY <1>2
    <2> QED BY <1>1, <1>2, <2>1
  <1> QED BY <1>2, <1>3

LEMMA ValueTyped == ASSUME NEW l \in Seq(Nat) PROVE Value(l) \in Nat
  <1> DEFINE N == Len(l)
             V == CHOOSE v : v = [i \in 0 .. Len(l) |-> IF i = 0 THEN 0 ELSE 16 * v[i - 1] + l[i]]
  <1>1. N \in Nat /\ l \in [1 .. N -> Nat]
    OBVIOUS
  <1>2. PICK f \in [0 .. N -> Nat] : f[0] = 0 /\ \A i \in 1 .. N : f[i] = 16 * f[i - 1] + l[i]
    <2> HIDE DEF N
    <2> QED BY <1>1, Places
  <1>3. f = [i \in 0 .. N |-> IF i = 0 THEN 0 ELSE 16 * f[i - 1] + l[i]]
    <2>1. \A i \in 0 .. N : f[i] = IF i = 0 THEN 0 ELSE 16 * f[i - 1] + l[i]
      BY <1>1, <1>2
    <2> QED BY <1>2, <2>1
  <1>4. V = [i \in 0 .. N |-> IF i = 0 THEN 0 ELSE 16 * V[i - 1] + l[i]]
    BY <1>3
  <1>5. Value(l) = V[N]
    BY DEF Value
  <1> HIDE DEF V
  <1>6. ASSUME NEW i \in 0 .. N PROVE V[i] = f[i]
    <2> DEFINE T == {k \in 0 .. N : V[k] # f[k]}
    <2>1. SUFFICES ASSUME T # {} PROVE FALSE
      OBVIOUS
    <2>2. T \in SUBSET Nat
      BY <1>1
    <2>3. PICK k \in T : \A j \in T : k <= j
      BY <2>1, <2>2, LeastElement
    <2>4. k \in 0 .. N /\ V[k] # f[k]
      BY <2>3
    <2>5. V[0] = 0 /\ f[0] = 0
      BY <1>1, <1>2, <1>4
    <2>6. k # 0 /\ k - 1 \in 0 .. N /\ ~(k <= k - 1)
      BY <1>1, <2>4, <2>5
    <2>7. V[k - 1] = f[k - 1]
      BY <2>3, <2>6
    <2>8. V[k] = 16 * V[k - 1] + l[k] /\ f[k] = 16 * f[k - 1] + l[k]
      <3> HIDE DEF N
      <3> QED BY <1>3, <1>4, <2>4, <2>6
    <2> QED BY <2>4, <2>7, <2>8
  <1>7. V[N] = f[N] /\ f[N] \in Nat
    BY <1>1, <1>2, <1>6
  <1> QED BY <1>5, <1>7

\* Where the first semicolon is.
LEMMA SemiPlace ==
    ASSUME NEW l \in Seq(Nat)
    PROVE  /\ (\A i \in 1 .. Len(l) : l[i] # Semi) => FirstSemi(l) = 0
           /\ \A k \in 1 .. Len(l) :
                l[k] = Semi /\ (\A i \in 1 .. k - 1 : l[i] # Semi) => FirstSemi(l) = k
           /\ FirstSemi(l) \in 0 .. Len(l)
  <1> DEFINE I == {i \in 1 .. Len(l) : l[i] = Semi}
  <1>1. FirstSemi(l) = IF I # {} THEN Min(I) ELSE 0
    BY DEF FirstSemi, SelectInSeq
  <1>2. Len(l) \in Nat
    OBVIOUS
  <1>3. I \in SUBSET Nat
    OBVIOUS
  <1>4. I # {} => Min(I) \in I /\ \A y \in I : Min(I) <= y
    <2>1. I # {} => \E x \in I : \A y \in I : x <= y
      BY <1>3, LeastElement
    <2> QED BY <2>1 DEF Min
  <1>5. (\A i \in 1 .. Len(l) : l[i] # Semi) => FirstSemi(l) = 0
    BY <1>1
  <1>6. ASSUME NEW k \in 1 .. Len(l), l[k] = Semi, \A i \in 1 .. k - 1 : l[i] # Semi
        PROVE  FirstSemi(l) = k
    <2>1. k \in I
      BY <1>6
    <2> DEFINE m == Min(I)
    <2>2. m \in I /\ m <= k
      BY <1>4, <2>1
    <2>3. m \in 1 .. Len(l) /\ l[m] = Semi
      BY <2>2
    <2> HIDE DEF m
    <2>4. ~(m < k)
      BY <1>2, <1>6, <2>3
    <2>5. m = k
      BY <1>2, <2>2, <2>3, <2>4
    <2> QED BY <1>1, <2>1, <2>5 DEF m
  <1>7. FirstSemi(l) \in 0 .. Len(l)
    BY <1>1, <1>2, <1>4
  <1> QED BY <1>5, <1>6, <1>7

LEMMA BeforeTyped ==
    ASSUME NEW l \in Seq(Nat)
    PROVE  BeforeSemi(l) \in Seq(Nat) /\ SizeOf(l) \in Nat
  <1> DEFINE k == FirstSemi(l)
  <1>1. k \in 0 .. Len(l) /\ Len(l) \in Nat
    BY SemiPlace
  <1>2. BeforeSemi(l) = IF k = 0 THEN l ELSE SubSeq(l, 1, k - 1)
    BY DEF BeforeSemi
  <1> HIDE DEF k
  <1>3. k # 0 => SubSeq(l, 1, k - 1) \in Seq(Nat)
    BY <1>1
  <1>4. BeforeSemi(l) \in Seq(Nat)
    BY <1>2, <1>3
  <1> QED BY <1>4, ValueTyped DEF SizeOf

\* A size line says its size, and read_line takes all of it.
LEMMA SizeLineFacts ==
    ASSUME NEW n, NEW l \in SizeLines(n)
    PROVE  /\ l \in Seq(Nat) /\ Len(l) <= MaxLine /\ Len(l) > 0
           /\ \A i \in 1 .. Len(l) : l[i] # Crlf
           /\ ~BadSize(l) /\ SizeOf(l) = n
  <1>1. PICK m \in Numerals, x \in {<<>>, <<Semi>>} :
            l = m \o x /\ Value(m) = n /\ Len(m) + Len(x) <= MaxLine
    BY DEF SizeLines
  <1>2. m \in Seq(Digits) /\ m # <<>> /\ Digits \subseteq 0 .. 15
    BY <1>1, HttpAssumption
  <1>3. /\ Semi \in Nat /\ Crlf \in Nat /\ Semi \notin Digits /\ Crlf \notin Digits /\ Semi # Crlf
        /\ MaxLine \in Nat
    BY <1>2, HttpAssumption
  <1>4. m \in Seq(Nat) /\ Len(m) \in Nat /\ Len(m) > 0 /\ \A i \in 1 .. Len(m) : m[i] \in Digits
    <2>1. Len(m) \in Nat /\ Len(m) > 0 /\ DOMAIN m = 1 .. Len(m) /\ m = [i \in 1 .. Len(m) |-> m[i]]
      BY <1>2
    <2>2. ASSUME NEW i \in 1 .. Len(m) PROVE m[i] \in Digits /\ m[i] \in Nat
      <3>1. m[i] \in Digits
        BY <1>2
      <3>2. m[i] \in 0 .. 15
        BY <1>2, <3>1
      <3> QED BY <3>1, <3>2
    <2>3. m \in Seq(Nat)
      BY <2>1, <2>2
    <2> QED BY <2>1, <2>2, <2>3
  <1>5. CASE x = <<>>
    <2>1. l = m /\ Len(x) = 0
      BY <1>1, <1>4, <1>5
    <2>2. FirstSemi(l) = 0
      BY <1>3, <1>4, <2>1, SemiPlace
    <2>3. BeforeSemi(l) = m
      BY <2>1, <2>2 DEF BeforeSemi
    <2>4. ~BadSize(l) /\ SizeOf(l) = n
      BY <1>1, <1>2, <1>4, <2>3 DEF BadSize, SizeOf
    <2> QED BY <1>1, <1>3, <1>4, <2>1, <2>4
  <1>6. CASE x = <<Semi>>
    <2> DEFINE k == Len(m) + 1
    <2>1. l \in Seq(Nat) /\ Len(l) = k /\ Len(x) = 1 /\ l[k] = Semi /\ \A i \in 1 .. Len(m) : l[i] = m[i]
      BY <1>1, <1>3, <1>4, <1>6
    <2>2. k \in Nat /\ k - 1 = Len(m) /\ k \in 1 .. Len(l)
      BY <1>4, <2>1
    <2>3. \A i \in 1 .. k - 1 : l[i] # Semi
      BY <1>3, <1>4, <2>1, <2>2
    <2>4. FirstSemi(l) = k
      BY <2>1, <2>2, <2>3, SemiPlace
    <2>5. SubSeq(l, 1, Len(m)) = m
      BY <1>4, <2>1, <2>2
    <2>6. BeforeSemi(l) = m
      BY <1>4, <2>2, <2>4, <2>5 DEF BeforeSemi
    <2>7. ~BadSize(l) /\ SizeOf(l) = n
      BY <1>1, <1>2, <1>4, <2>6 DEF BadSize, SizeOf
    <2>8. \A i \in 1 .. Len(l) : l[i] # Crlf
      BY <1>3, <1>4, <2>1, <2>2
    <2> QED BY <1>1, <1>3, <1>4, <2>1, <2>2, <2>7, <2>8
  <1> QED BY <1>1, <1>5, <1>6

-----------------------------------------------------------------------------
(* The marks of a chunked message *)

\* Two sequences put together, place by place.
LEMMA Joined ==
    ASSUME NEW s \in Seq(Nat), NEW t \in Seq(Nat)
    PROVE  /\ s \o t \in Seq(Nat) /\ Len(s) \in Nat /\ Len(t) \in Nat /\ Len(s \o t) = Len(s) + Len(t)
           /\ \A i \in 1 .. Len(s) : (s \o t)[i] = s[i]
           /\ \A i \in 1 .. Len(t) : (s \o t)[Len(s) + i] = t[i]
  <1>1. s \o t \in Seq(Nat) /\ Len(s) \in Nat /\ Len(t) \in Nat /\ Len(s \o t) = Len(s) + Len(t)
    OBVIOUS
  <1>2. ASSUME NEW i \in 1 .. Len(s) PROVE (s \o t)[i] = s[i]
    BY <1>1
  <1>3. ASSUME NEW i \in 1 .. Len(t) PROVE (s \o t)[Len(s) + i] = t[i]
    BY <1>1
  <1> QED BY <1>1, <1>2, <1>3

LEMMA SameSeq ==
    ASSUME NEW s \in Seq(Nat), NEW t \in Seq(Nat), Len(s) = Len(t), \A i \in 1 .. Len(s) : s[i] = t[i]
    PROVE  s = t
  OBVIOUS

LEMMA OneSymbol ==
    ASSUME NEW c \in Nat
    PROVE  <<c>> \in Seq(Nat) /\ Len(<<c>>) = 1 /\ <<c>>[1] = c
  OBVIOUS

\* At q begins a chunk of m bytes, the size line l before them; n bytes of b
\* have gone before.
ChunkAt(w, b, q, n, l, m) ==
    /\ m \in Nat \ {0} /\ l \in SizeLines(m)
    /\ n + m <= Len(b) /\ q + Len(l) + m + 2 <= Len(w)
    /\ \A i \in 1 .. Len(l) : w[q + i] = l[i]
    /\ w[q + Len(l) + 1] = Crlf
    /\ \A i \in 1 .. m : w[q + Len(l) + 1 + i] = b[n + i]
    /\ w[q + Len(l) + m + 2] = Crlf

\* After p come the trailer, if there is one, and the blank line.
EndAt(w, p) ==
    \/ Len(w) = p + 1 /\ w[p + 1] = Crlf
    \/ Len(w) = p + 3 /\ w[p + 1] = 1 /\ w[p + 2] = Crlf /\ w[p + 3] = Crlf

\* At q begins the end of the message.
TailAt(w, q) ==
    \E l \in SizeLines(0) :
        /\ \A i \in 1 .. Len(l) : w[q + i] = l[i]
        /\ w[q + Len(l) + 1] = Crlf
        /\ EndAt(w, q + Len(l) + 1)

\* Every mark but the open one begins a chunk, and the next mark is there.
Linked(w, b, M, open) ==
    /\ M \in SUBSET (Nat \X Nat) /\ <<0, 0>> \in M
    /\ \A k \in M \ open :
          \E l, m : ChunkAt(w, b, k[1], k[2], l, m) /\ <<k[1] + Len(l) + m + 2, k[2] + m>> \in M

Marked(w, b, M) ==
    \E q \in Nat : Linked(w, b, M, {<<q, Len(b)>>}) /\ <<q, Len(b)>> \in M /\ TailAt(w, q)

LEMMA LineLength == ASSUME NEW n, NEW l \in SizeLines(n) PROVE Len(l) \in Nat
  BY SizeLineFacts

\* More on the stream leaves a chunk where it is.
LEMMA ChunkStays ==
    ASSUME NEW w \in Seq(Nat), NEW x \in Seq(Nat)
    PROVE  \A b : \A q, n \in Nat : \A l, m : ChunkAt(w, b, q, n, l, m) => ChunkAt(w \o x, b, q, n, l, m)
  <1> TAKE b
  <1> TAKE q, n \in Nat
  <1> TAKE l, m
  <1> HAVE ChunkAt(w, b, q, n, l, m)
  <1> DEFINE L == Len(l)
             y == w \o x
  <1>1. m \in Nat \ {0} /\ l \in SizeLines(m) /\ q + L + m + 2 <= Len(w) /\ n + m <= Len(b)
    BY DEF ChunkAt
  <1>2. L \in Nat
    BY <1>1, LineLength
  <1>3. y \in Seq(Nat) /\ Len(y) = Len(w) + Len(x) /\ Len(w) \in Nat /\ Len(x) \in Nat
    OBVIOUS
  <1>4. \A i \in 1 .. Len(w) : y[i] = w[i]
    OBVIOUS
  <1>5. /\ \A i \in 1 .. L : w[q + i] = l[i]
        /\ w[q + L + 1] = Crlf
        /\ \A i \in 1 .. m : w[q + L + 1 + i] = b[n + i]
        /\ w[q + L + m + 2] = Crlf
    BY DEF ChunkAt
  <1> HIDE DEF L, y
  <1>6. q + L + m + 2 <= Len(y)
    BY <1>1, <1>2, <1>3
  <1>7. ASSUME NEW i \in 1 .. L PROVE y[q + i] = l[i]
    <2>1. q + i \in 1 .. Len(w)
      BY <1>1, <1>2, <1>3
    <2> QED BY <1>4, <1>5, <2>1
  <1>8. y[q + L + 1] = Crlf /\ y[q + L + m + 2] = Crlf
    <2>1. q + L + 1 \in 1 .. Len(w) /\ q + L + m + 2 \in 1 .. Len(w)
      BY <1>1, <1>2, <1>3
    <2> QED BY <1>4, <1>5, <2>1
  <1>9. ASSUME NEW i \in 1 .. m PROVE y[q + L + 1 + i] = b[n + i]
    <2>1. q + L + 1 + i \in 1 .. Len(w)
      BY <1>1, <1>2, <1>3
    <2> QED BY <1>4, <1>5, <2>1
  <1> QED BY <1>1, <1>6, <1>7, <1>8, <1>9 DEF ChunkAt, L, y

\* A chunk put at the end of a stream is there.
LEMMA ChunkPut ==
    ASSUME NEW w \in Seq(Nat), NEW b \in Seq(Nat), NEW n \in Nat
    PROVE  \A m \in 1 .. Len(b) - n : \A l \in SizeLines(m) :
              LET y == w \o Chunk(l, SubSeq(b, n + 1, n + m))
              IN  /\ y \in Seq(Nat) /\ Len(y) = Len(w) + Len(l) + m + 2
                  /\ ChunkAt(y, b, Len(w), n, l, m)
  <1> TAKE m \in 1 .. Len(b) - n
  <1> TAKE l \in SizeLines(m)
  <1> DEFINE c == SubSeq(b, n + 1, n + m)
             L == Len(l)
             W == Len(w)
             d == Chunk(l, c)
             y == w \o d
  <1>1. m \in Nat \ {0} /\ n + m <= Len(b) /\ Len(b) \in Nat /\ W \in Nat
    OBVIOUS
  <1>2. l \in Seq(Nat) /\ L \in Nat
    BY SizeLineFacts
  <1>3. c \in Seq(Nat) /\ Len(c) = m /\ \A i \in 1 .. m : c[i] = b[n + i]
    BY <1>1
  <1>4. Crlf \in Nat
    BY HttpAssumption
  <1> HIDE DEF c
  <1>5. /\ d \in Seq(Nat) /\ Len(d) = L + m + 2
        /\ \A i \in 1 .. L : d[i] = l[i]
        /\ d[L + 1] = Crlf
        /\ \A i \in 1 .. m : d[L + 1 + i] = c[i]
        /\ d[L + m + 2] = Crlf
    <2> DEFINE e == <<Crlf>>
               d1 == l \o e
               d2 == d1 \o c
    <2>1. d = d2 \o e
      BY DEF Chunk
    <2>2. e \in Seq(Nat) /\ Len(e) = 1 /\ e[1] = Crlf
      BY <1>4, OneSymbol
    <2> HIDE DEF e, d
    <2>3. d1 \in Seq(Nat) /\ Len(d1) = L + 1 /\ (\A i \in 1 .. L : d1[i] = l[i]) /\ d1[L + 1] = Crlf
      <3>1. /\ d1 \in Seq(Nat) /\ Len(d1) = L + Len(e) /\ \A i \in 1 .. L : d1[i] = l[i]
            /\ \A i \in 1 .. Len(e) : d1[L + i] = e[i]
        BY <1>2, <2>2, Joined
      <3>2. 1 \in 1 .. Len(e)
        BY <2>2
      <3> QED BY <2>2, <3>1, <3>2
    <2> HIDE DEF d1
    <2>4. /\ d2 \in Seq(Nat) /\ Len(d2) = Len(d1) + m
          /\ \A i \in 1 .. Len(d1) : d2[i] = d1[i]
          /\ \A i \in 1 .. m : d2[Len(d1) + i] = c[i]
      BY <1>3, <2>3, Joined
    <2> HIDE DEF d2
    <2>5. /\ d \in Seq(Nat) /\ Len(d) = Len(d2) + 1
          /\ \A i \in 1 .. Len(d2) : d[i] = d2[i]
          /\ d[Len(d2) + 1] = Crlf
      <3>1. /\ d \in Seq(Nat) /\ Len(d) = Len(d2) + Len(e) /\ \A i \in 1 .. Len(d2) : d[i] = d2[i]
            /\ \A i \in 1 .. Len(e) : d[Len(d2) + i] = e[i]
        <4>1. d2 \in Seq(Nat) /\ e \in Seq(Nat)
          BY <2>2, <2>4
        <4> QED BY <2>1, <4>1, Joined
      <3>2. 1 \in 1 .. Len(e)
        BY <2>2
      <3> QED BY <2>2, <3>1, <3>2
    <2> HIDE DEF L
    <2>6. Len(d1) = L + 1 /\ Len(d2) = L + 1 + m /\ Len(d) = L + m + 2 /\ Len(d2) + 1 = L + m + 2
      <3>1. L \in Nat /\ m \in Nat /\ Len(d1) = L + 1 /\ Len(d2) = Len(d1) + m /\ Len(d) = Len(d2) + 1
        BY <1>1, <1>2, <2>3, <2>4, <2>5
      <3>2. (L + 1) + m = L + 1 + m /\ (L + 1 + m) + 1 = L + m + 2
        BY <3>1
      <3> QED BY <3>1, <3>2
    <2>7. ASSUME NEW i \in 1 .. L PROVE d[i] = l[i]
      <3>1. i \in 1 .. Len(d1) /\ i \in 1 .. Len(d2)
        BY <1>1, <1>2, <2>6
      <3> QED BY <2>3, <2>4, <2>5, <3>1
    <2>8. d[L + 1] = Crlf
      <3>1. L + 1 \in 1 .. Len(d1) /\ L + 1 \in 1 .. Len(d2)
        BY <1>1, <1>2, <2>6
      <3> QED BY <2>3, <2>4, <2>5, <3>1
    <2>9. ASSUME NEW i \in 1 .. m PROVE d[L + 1 + i] = c[i]
      <3>1. L + 1 + i \in 1 .. Len(d2)
        BY <1>1, <1>2, <2>6
      <3> QED BY <2>4, <2>5, <2>6, <3>1
    <2> QED BY <2>5, <2>6, <2>7, <2>8, <2>9
  <1> HIDE DEF d
  <1>6. y \in Seq(Nat) /\ Len(y) = W + Len(d) /\ \A i \in 1 .. Len(d) : y[W + i] = d[i]
    BY <1>5, Joined
  <1> HIDE DEF y, W, L
  <1>7. Len(y) = W + L + m + 2
    <2>1. W \in Nat /\ L \in Nat /\ m \in Nat /\ Len(y) = W + Len(d) /\ Len(d) = L + m + 2
      BY <1>1, <1>2, <1>5, <1>6
    <2>2. W + (L + m + 2) = W + L + m + 2
      BY <2>1
    <2> QED BY <2>1, <2>2
  <1>8. \A i \in 1 .. L : y[W + i] = l[i]
    BY <1>1, <1>2, <1>5, <1>6
  <1>9. y[W + L + 1] = Crlf /\ y[W + L + m + 2] = Crlf
    <2>1. y[W + (L + 1)] = Crlf /\ y[W + (L + m + 2)] = Crlf
      BY <1>1, <1>2, <1>5, <1>6
    <2>2. W + (L + 1) = W + L + 1 /\ W + (L + m + 2) = W + L + m + 2
      BY <1>1, <1>2
    <2> QED BY <2>1, <2>2
  <1>10. ASSUME NEW i \in 1 .. m PROVE y[W + L + 1 + i] = b[n + i]
    <2>1. L + 1 + i \in 1 .. Len(d) /\ W + (L + 1 + i) = W + L + 1 + i
      BY <1>1, <1>2, <1>5
    <2>2. y[W + (L + 1 + i)] = d[L + 1 + i]
      BY <1>6, <2>1
    <2> QED BY <1>3, <1>5, <2>1, <2>2
  <1>11. W + L + m + 2 <= Len(y)
    BY <1>1, <1>2, <1>7
  <1>12. ChunkAt(y, b, W, n, l, m)
    BY <1>1, <1>8, <1>9, <1>10, <1>11 DEF ChunkAt, L
  <1> QED BY <1>6, <1>7, <1>12 DEF y, d, c, W, L

\* The marks of what has been sent: all but the last begin a chunk of it.
Part(b, s) ==
    /\ s.wire \in Seq(Nat) /\ s.held \in 0 .. Len(b)
    /\ \E M : Linked(s.wire, b, M, {<<Len(s.wire), s.held>>}) /\ <<Len(s.wire), s.held>> \in M

LEMMA PartGrows ==
    ASSUME NEW b \in Seq(Nat), NEW s, Part(b, s)
    PROVE  \A t \in OneMore(b, s) : Part(b, t)
  <1> TAKE t \in OneMore(b, s)
  <1> DEFINE w == s.wire
             n == s.held
             W == Len(w)
  <1>1. w \in Seq(Nat) /\ n \in 0 .. Len(b) /\ Len(b) \in Nat /\ W \in Nat
    BY DEF Part
  <1>2. PICK m \in 1 .. Len(b) - n : \E l \in SizeLines(m) :
            t = [wire |-> w \o Chunk(l, SubSeq(b, n + 1, n + m)), held |-> n + m]
    BY DEF OneMore
  <1>3. PICK l \in SizeLines(m) : t = [wire |-> w \o Chunk(l, SubSeq(b, n + 1, n + m)), held |-> n + m]
    BY <1>2
  <1> DEFINE x == Chunk(l, SubSeq(b, n + 1, n + m))
             y == w \o x
             e == n + m
             L == Len(l)
  <1>4. t.wire = y /\ t.held = e
    BY <1>3
  <1>5. y \in Seq(Nat) /\ Len(y) = W + L + m + 2 /\ ChunkAt(y, b, W, n, l, m)
    <2>1. n \in Nat
      BY <1>1
    <2> HIDE DEF n, w
    <2> QED BY <1>1, <1>2, <1>3, <2>1, ChunkPut
  <1>6. x \in Seq(Nat)
    <2> DEFINE c == SubSeq(b, n + 1, n + m)
    <2>1. l \in Seq(Nat)
      BY <1>3, SizeLineFacts
    <2>2. <<Crlf>> \in Seq(Nat)
      BY HttpAssumption, OneSymbol
    <2>3. c \in Seq(Nat)
      <3> HIDE DEF n
      <3> QED BY <1>1, <1>2
    <2> HIDE DEF c
    <2>4. Chunk(l, c) \in Seq(Nat)
      BY <2>1, <2>2, <2>3 DEF Chunk
    <2> QED BY <2>4 DEF c
  <1>7. L \in Nat
    BY <1>3, LineLength
  <1> HIDE DEF x, y, w, n, W, L, e
  <1>8. PICK M : Linked(w, b, M, {<<W, n>>}) /\ <<W, n>> \in M
    BY DEF Part, w, n, W
  <1> DEFINE new == <<Len(y), e>>
             K == M \cup {new}
  <1>9. Len(y) \in Nat /\ e \in Nat /\ e \in 0 .. Len(b) /\ n \in Nat
    BY <1>1, <1>2, <1>5 DEF e
  <1>10. K \in SUBSET (Nat \X Nat) /\ <<0, 0>> \in K
    BY <1>8, <1>9 DEF Linked
  <1>11. ASSUME NEW k \in K \ {new}
         PROVE  \E h, j : ChunkAt(y, b, k[1], k[2], h, j) /\ <<k[1] + Len(h) + j + 2, k[2] + j>> \in K
    <2>1. k \in M
      BY <1>11
    <2>2. CASE k = <<W, n>>
      <3>1. k[1] = W /\ k[2] = n
        BY <2>2
      <3>2. <<W + L + m + 2, n + m>> = new
        BY <1>5 DEF e
      <3>3. ChunkAt(y, b, k[1], k[2], l, m) /\ <<k[1] + Len(l) + m + 2, k[2] + m>> \in K
        BY <1>5, <3>1, <3>2 DEF L
      <3> QED BY <3>3
    <2>3. CASE k # <<W, n>>
      <3>1. k \in M \ {<<W, n>>} /\ k[1] \in Nat /\ k[2] \in Nat
        BY <1>8, <2>1, <2>3 DEF Linked
      <3>2. PICK h, j : ChunkAt(w, b, k[1], k[2], h, j) /\ <<k[1] + Len(h) + j + 2, k[2] + j>> \in M
        BY <1>8, <3>1 DEF Linked
      <3>3. ChunkAt(y, b, k[1], k[2], h, j)
        BY <1>1, <1>6, <3>1, <3>2, ChunkStays DEF y
      <3> QED BY <3>2, <3>3
    <2> QED BY <2>2, <2>3
  <1>12. Linked(y, b, K, {new}) /\ new \in K
    BY <1>10, <1>11 DEF Linked
  <1> HIDE DEF K
  <1>13. t.wire \in Seq(Nat) /\ t.held \in 0 .. Len(b)
    BY <1>4, <1>5, <1>9
  <1>14. Linked(t.wire, b, K, {<<Len(t.wire), t.held>>}) /\ <<Len(t.wire), t.held>> \in K
    BY <1>4, <1>12
  <1> QED BY <1>13, <1>14 DEF Part

\* What is sent, chunk after chunk, exists.
Sending(b, N, f) ==
    f = [j \in 0 .. N |-> IF j = 0 THEN {[wire |-> <<>>, held |-> 0]}
                          ELSE f[j - 1] \cup UNION {OneMore(b, s) : s \in f[j - 1]}]

LEMMA SendingExists == ASSUME NEW b, NEW N \in Nat PROVE \E f : Sending(b, N, f)
  <1> DEFINE More(S) == S \cup UNION {OneMore(b, s) : s \in S}
             First == {[wire |-> <<>>, held |-> 0]}
             Good(m) == \E f : f = [j \in 0 .. m |-> IF j = 0 THEN First ELSE More(f[j - 1])]
             T == {m \in Nat : ~Good(m)}
  <1> HIDE DEF More, First
  <1>1. SUFFICES T = {}
    <2>1. Good(N)
      BY <1>1
    <2> QED BY <2>1 DEF More, First, Sending
  <1>2. SUFFICES ASSUME T # {} PROVE FALSE
    OBVIOUS
  <1>3. PICK m \in T : \A k \in T : m <= k
    <2>1. T \in SUBSET Nat
      OBVIOUS
    <2> QED BY <1>2, <2>1, LeastElement
  <1>4. m \in Nat /\ ~Good(m)
    BY <1>3
  <1>5. CASE m = 0
    <2> DEFINE f == [j \in 0 .. 0 |-> First]
    <2>1. f = [j \in 0 .. 0 |-> IF j = 0 THEN First ELSE More(f[j - 1])]
      OBVIOUS
    <2> HIDE DEF f
    <2>2. Good(0)
      BY <2>1
    <2> QED BY <1>4, <1>5, <2>2
  <1>6. CASE m # 0
    <2>1. m - 1 \in Nat /\ ~(m <= m - 1)
      BY <1>4, <1>6
    <2>2. Good(m - 1)
      BY <1>3, <2>1
    <2>3. PICK f : f = [j \in 0 .. m - 1 |-> IF j = 0 THEN First ELSE More(f[j - 1])]
      BY <2>2
    <2> DEFINE g == [j \in 0 .. m |-> IF j = m THEN More(f[m - 1]) ELSE f[j]]
    <2>4. ASSUME NEW j \in 0 .. m PROVE g[j] = IF j = 0 THEN First ELSE More(g[j - 1])
      <3>1. CASE j = 0
        <4>1. 0 \in 0 .. m - 1 /\ j # m
          BY <1>4, <1>6, <3>1
        <4>2. f[0] = First
          BY <2>3, <4>1
        <4> QED BY <3>1, <4>1, <4>2
      <3>2. CASE j # 0 /\ j # m
        <4>1. j \in 0 .. m - 1 /\ j - 1 \in 0 .. m /\ j - 1 # m
          BY <1>4, <3>2
        <4>2. f[j] = More(f[j - 1])
          BY <2>3, <3>2, <4>1
        <4>3. g[j] = f[j] /\ g[j - 1] = f[j - 1]
          BY <3>2, <4>1
        <4> QED BY <3>2, <4>2, <4>3
      <3>3. CASE j # 0 /\ j = m
        <4>1. m - 1 \in 0 .. m /\ m - 1 # m
          BY <1>4, <1>6
        <4>2. g[m] = More(f[m - 1]) /\ g[m - 1] = f[m - 1]
          BY <3>3, <4>1
        <4> QED BY <3>3, <4>2
      <3> QED BY <3>1, <3>2, <3>3
    <2>5. g = [j \in 0 .. m |-> g[j]]
      OBVIOUS
    <2> HIDE DEF g
    <2>6. g = [j \in 0 .. m |-> IF j = 0 THEN First ELSE More(g[j - 1])]
      BY <2>4, <2>5
    <2>7. Good(m)
      BY <2>6
    <2> QED BY <1>4, <2>7
  <1> QED BY <1>5, <1>6

LEMMA SentMarked ==
    ASSUME NEW b \in Seq(Nat)
    PROVE  \A s \in SentChunks(b) : Part(b, s)
  <1> DEFINE N == MaxChunks
             First == {[wire |-> <<>>, held |-> 0]}
             V == CHOOSE f : Sending(b, N, f)
  <1>1. N \in Nat
    BY HttpAssumption
  <1>2. SentChunks(b) = V[N]
    BY DEF SentChunks, Sending
  <1>3. V = [j \in 0 .. N |-> IF j = 0 THEN First ELSE V[j - 1] \cup UNION {OneMore(b, s) : s \in V[j - 1]}]
    <2>1. Sending(b, N, V)
      <3> HIDE DEF N
      <3> QED BY <1>1, SendingExists
    <2> HIDE DEF V
    <2> QED BY <2>1 DEF Sending
  <1> HIDE DEF V
  <1>4. ASSUME NEW s \in First PROVE Part(b, s)
    <2>1. s.wire = <<>> /\ s.held = 0
      OBVIOUS
    <2>2. <<>> \in Seq(Nat) /\ Len(<<>>) = 0 /\ 0 \in 0 .. Len(b)
      OBVIOUS
    <2> DEFINE M == {<<0, 0>>}
    <2>3. Linked(<<>>, b, M, {<<0, 0>>}) /\ <<0, 0>> \in M
      BY DEF Linked
    <2> QED BY <2>1, <2>2, <2>3 DEF Part
  <1> DEFINE T == {j \in 0 .. N : ~(\A s \in V[j] : Part(b, s))}
  <1>5. T = {}
    <2>1. SUFFICES ASSUME T # {} PROVE FALSE
      OBVIOUS
    <2>2. PICK j \in T : \A k \in T : j <= k
      <3>1. T \in SUBSET Nat
        BY <1>1
      <3> QED BY <2>1, <3>1, LeastElement
    <2>3. j \in 0 .. N /\ ~(\A s \in V[j] : Part(b, s))
      BY <2>2
    <2>4. CASE j = 0
      <3>1. V[0] = First
        BY <1>3, <2>3, <2>4
      <3> QED BY <1>4, <2>3, <2>4, <3>1
    <2>5. CASE j # 0
      <3>1. j - 1 \in 0 .. N /\ ~(j <= j - 1)
        BY <1>1, <2>3, <2>5
      <3>2. \A s \in V[j - 1] : Part(b, s)
        BY <2>2, <3>1
      <3>3. V[j] = V[j - 1] \cup UNION {OneMore(b, s) : s \in V[j - 1]}
        BY <1>3, <2>3, <2>5
      <3>4. ASSUME NEW t \in V[j] PROVE Part(b, t)
        <4>1. CASE t \in V[j - 1]
          BY <3>2, <4>1
        <4>2. CASE \E s \in V[j - 1] : t \in OneMore(b, s)
          BY <3>2, <4>2, PartGrows
        <4> QED BY <3>3, <3>4, <4>1, <4>2
      <3> QED BY <2>3, <3>4
    <2> QED BY <2>4, <2>5
  <1>6. N \in 0 .. N
    BY <1>1
  <1>7. \A s \in V[N] : Part(b, s)
    BY <1>5, <1>6
  <1> QED BY <1>2, <1>7

\* What ends a message, place by place.
LEMMA EndingFacts ==
    ASSUME NEW r \in Endings
    PROVE  r \in Seq(Nat) /\ TailAt(r, 0)
  <1>1. PICK z \in SizeLines(0), y \in {<<Crlf, Crlf>>, <<Crlf, 1, Crlf, Crlf>>} : r = z \o y
    BY DEF Endings
  <1> DEFINE L == Len(z)
  <1>2. z \in Seq(Nat) /\ L \in Nat
    BY <1>1, SizeLineFacts
  <1>3. /\ y \in Seq(Nat)
        /\ \/ Len(y) = 2 /\ y[1] = Crlf /\ y[2] = Crlf
           \/ Len(y) = 4 /\ y[1] = Crlf /\ y[2] = 1 /\ y[3] = Crlf /\ y[4] = Crlf
    <2>1. Crlf \in Nat
      BY HttpAssumption
    <2>2. <<Crlf, Crlf>> \in Seq(Nat) /\ <<Crlf, 1, Crlf, Crlf>> \in Seq(Nat)
      BY <2>1
    <2>3. CASE y = <<Crlf, Crlf>>
      BY <2>2, <2>3
    <2>4. CASE y = <<Crlf, 1, Crlf, Crlf>>
      BY <2>2, <2>4
    <2> QED BY <1>1, <2>3, <2>4
  <1>4. /\ r \in Seq(Nat) /\ Len(r) = L + Len(y)
        /\ \A i \in 1 .. L : r[i] = z[i]
        /\ \A i \in 1 .. Len(y) : r[L + i] = y[i]
    BY <1>1, <1>2, <1>3, Joined
  <1> HIDE DEF L
  <1> DEFINE p == L + 1
  <1>5. p \in Nat /\ \A i \in Nat : p + i = L + (i + 1)
    BY <1>2
  <1> HIDE DEF p
  <1>6. EndAt(r, p) /\ r[p] = Crlf
    <2>1. CASE Len(y) = 2 /\ y[1] = Crlf /\ y[2] = Crlf
      <3>1. r[L + 1] = Crlf /\ r[L + 2] = Crlf
        BY <1>4, <2>1
      <3>2. Len(r) = p + 1 /\ p + 1 = L + 2
        BY <1>2, <1>4, <2>1 DEF p
      <3> QED BY <3>1, <3>2 DEF EndAt, p
    <2>2. CASE Len(y) = 4 /\ y[1] = Crlf /\ y[2] = 1 /\ y[3] = Crlf /\ y[4] = Crlf
      <3>1. r[L + 1] = Crlf /\ r[L + 2] = 1 /\ r[L + 3] = Crlf /\ r[L + 4] = Crlf
        BY <1>4, <2>2
      <3>2. Len(r) = p + 3 /\ p + 1 = L + 2 /\ p + 2 = L + 3 /\ p + 3 = L + 4
        BY <1>2, <1>4, <2>2 DEF p
      <3> QED BY <3>1, <3>2 DEF EndAt, p
    <2> QED BY <1>3, <2>1, <2>2
  <1>7. /\ \A i \in 1 .. Len(z) : r[0 + i] = z[i]
        /\ r[0 + Len(z) + 1] = Crlf /\ EndAt(r, 0 + Len(z) + 1)
    <2>1. 0 + Len(z) + 1 = p /\ \A i \in 1 .. L : 0 + i = i
      BY <1>2 DEF p, L
    <2> QED BY <1>4, <1>6, <2>1 DEF L
  <1> QED BY <1>1, <1>4, <1>7 DEF TailAt

LEMMA TailMoves ==
    ASSUME NEW v \in Seq(Nat), NEW r \in Seq(Nat), TailAt(r, 0)
    PROVE  TailAt(v \o r, Len(v))
  <1> DEFINE w == v \o r
             q == Len(v)
  <1>1. PICK z \in SizeLines(0) :
            /\ \A i \in 1 .. Len(z) : r[0 + i] = z[i]
            /\ r[0 + Len(z) + 1] = Crlf
            /\ EndAt(r, 0 + Len(z) + 1)
    BY DEF TailAt
  <1> DEFINE L == Len(z)
             p == L + 1
  <1>2. L \in Nat /\ q \in Nat /\ Len(r) \in Nat
    BY <1>1, LineLength
  <1>3. Len(w) = q + Len(r) /\ \A i \in 1 .. Len(r) : w[q + i] = r[i]
    BY Joined
  <1>4. (\A i \in 1 .. L : r[i] = z[i]) /\ r[p] = Crlf /\ EndAt(r, p)
    <2>1. 0 + Len(z) + 1 = p /\ \A i \in 1 .. L : 0 + i = i
      BY <1>2
    <2> QED BY <1>1, <2>1
  <1> HIDE DEF w, q, L
  <1>5. p + 1 <= Len(r)
    BY <1>2, <1>4 DEF EndAt
  <1>6. ASSUME NEW i \in 1 .. L PROVE w[q + i] = z[i]
    <2>1. i \in 1 .. Len(r)
      BY <1>2, <1>5
    <2> QED BY <1>3, <1>4, <2>1
  <1>7. w[q + L + 1] = Crlf
    <2>1. p \in 1 .. Len(r) /\ q + p = q + L + 1
      BY <1>2, <1>5
    <2> QED BY <1>3, <1>4, <2>1
  <1>8. EndAt(w, q + L + 1)
    <2> DEFINE e == q + L + 1
    <2>1. \A i \in Nat : q + (p + i) = e + i
      BY <1>2
    <2>2. e \in Nat /\ p \in Nat
      BY <1>2
    <2> HIDE DEF e, p
    <2>3. CASE Len(r) = p + 1 /\ r[p + 1] = Crlf
      <3>1. p + 1 \in 1 .. Len(r) /\ Len(w) = q + (p + 1)
        BY <1>2, <1>3, <2>2, <2>3
      <3>2. w[q + (p + 1)] = Crlf
        BY <1>3, <2>3, <3>1
      <3> QED BY <2>1, <3>1, <3>2 DEF EndAt, e
    <2>4. CASE Len(r) = p + 3 /\ r[p + 1] = 1 /\ r[p + 2] = Crlf /\ r[p + 3] = Crlf
      <3>1. p + 1 \in 1 .. Len(r) /\ p + 2 \in 1 .. Len(r) /\ p + 3 \in 1 .. Len(r) /\ Len(w) = q + (p + 3)
        BY <1>2, <1>3, <2>2, <2>4
      <3>2. w[q + (p + 1)] = 1 /\ w[q + (p + 2)] = Crlf /\ w[q + (p + 3)] = Crlf
        BY <1>3, <2>4, <3>1
      <3> QED BY <2>1, <3>1, <3>2 DEF EndAt, e
    <2> QED BY <1>4, <2>3, <2>4 DEF EndAt, p
  <1> QED BY <1>1, <1>6, <1>7, <1>8 DEF TailAt, w, q, L

\* Every form a chunked message may take is marked.
LEMMA FormsMarked ==
    ASSUME NEW b \in Seq(Nat), NEW w \in ChunkedForms(b)
    PROVE  w \in Seq(Nat) /\ \E M : Marked(w, b, M)
  <1>1. PICK s \in SentChunks(b), r \in Endings : s.held = Len(b) /\ w = s.wire \o r
    BY DEF ChunkedForms
  <1> DEFINE v == s.wire
             q == Len(v)
  <1>2. Part(b, s)
    BY <1>1, SentMarked
  <1>3. v \in Seq(Nat) /\ q \in Nat
    BY <1>2 DEF Part
  <1>4. r \in Seq(Nat) /\ TailAt(r, 0)
    BY <1>1, EndingFacts
  <1>5. w \in Seq(Nat) /\ w = v \o r
    BY <1>1, <1>3, <1>4, Joined
  <1>6. TailAt(w, q)
    BY <1>3, <1>4, <1>5, TailMoves
  <1>7. PICK M : Linked(v, b, M, {<<q, Len(b)>>}) /\ <<q, Len(b)>> \in M
    BY <1>1, <1>2 DEF Part
  <1> HIDE DEF v, q
  <1>8. Linked(w, b, M, {<<q, Len(b)>>})
    <2>1. ASSUME NEW k \in M \ {<<q, Len(b)>>}
          PROVE  \E h, j : ChunkAt(w, b, k[1], k[2], h, j) /\ <<k[1] + Len(h) + j + 2, k[2] + j>> \in M
      <3>1. PICK h, j : ChunkAt(v, b, k[1], k[2], h, j) /\ <<k[1] + Len(h) + j + 2, k[2] + j>> \in M
        BY <1>7, <2>1 DEF Linked
      <3>2. k[1] \in Nat /\ k[2] \in Nat
        BY <1>7, <2>1 DEF Linked
      <3>3. ChunkAt(w, b, k[1], k[2], h, j)
        BY <1>3, <1>4, <1>5, <3>1, <3>2, ChunkStays
      <3> QED BY <3>1, <3>3
    <2> QED BY <1>7, <2>1 DEF Linked
  <1>9. Marked(w, b, M)
    BY <1>3, <1>6, <1>7, <1>8 DEF Marked
  <1> QED BY <1>5, <1>9

-----------------------------------------------------------------------------
(* Where the reader is in a chunked message *)

Marks(w, b) == CHOOSE M : Marked(w, b, M)

\* In the size line that began at a mark, l of it read.
AtSize(w, b, p, l, n) ==
    /\ p - Len(l) \in Nat /\ <<p - Len(l), n>> \in Marks(w, b)
    /\ \A i \in 1 .. Len(l) : l[i] = w[p - Len(l) + i] /\ l[i] # Crlf

\* m bytes before the end of a chunk.
AtChunk(w, b, p, m, n) ==
    /\ m \in Nat \ {0} /\ p + m + 1 <= Len(w) /\ n + m <= Len(b)
    /\ <<p + m + 1, n + m>> \in Marks(w, b)
    /\ \A i \in 1 .. m : w[p + i] = b[n + i]
    /\ w[p + m + 1] = Crlf

\* At the line end of a chunk.
AtChunkEnd(w, b, p, n) == p + 1 <= Len(w) /\ w[p + 1] = Crlf /\ <<p + 1, n>> \in Marks(w, b)

\* In the trailer section, l of a line read and t of the lines before.
AtTrailer(w, p, l, t) ==
    \/ l = <<>> /\ Len(w) = p + 1 /\ w[p + 1] = Crlf
    \/ l = <<>> /\ t = 0 /\ Len(w) = p + 3 /\ w[p + 1] = 1 /\ w[p + 2] = Crlf /\ w[p + 3] = Crlf
    \/ l = <<1>> /\ t = 0 /\ Len(w) = p + 2 /\ w[p + 1] = Crlf /\ w[p + 2] = Crlf

\* What a mark says of what follows it.
Follows(w, b, q, n, m, l) ==
    /\ m \in Nat /\ l \in SizeLines(m) /\ q + Len(l) + 2 <= Len(w)
    /\ \A i \in 1 .. Len(l) : w[q + i] = l[i]
    /\ w[q + Len(l) + 1] = Crlf
    /\ m = 0 => n = Len(b) /\ EndAt(w, q + Len(l) + 1)
    /\ m # 0 => AtChunk(w, b, q + Len(l) + 1, m, n)

LEMMA MarkFacts ==
    ASSUME NEW w \in Seq(Nat), NEW b \in Seq(Nat), \E M : Marked(w, b, M)
    PROVE  \A q, n : <<q, n>> \in Marks(w, b) => q \in Nat /\ n \in Nat /\ \E m, l : Follows(w, b, q, n, m, l)
  <1> TAKE q, n
  <1> HAVE <<q, n>> \in Marks(w, b)
  <1> DEFINE M == Marks(w, b)
  <1>1. Marked(w, b, M)
    BY DEF Marks
  <1> HIDE DEF M
  <1>2. PICK e \in Nat : Linked(w, b, M, {<<e, Len(b)>>}) /\ TailAt(w, e)
    BY <1>1 DEF Marked
  <1>3. <<q, n>> \in M
    BY DEF M
  <1>4. q \in Nat /\ n \in Nat /\ Len(w) \in Nat
    BY <1>2, <1>3 DEF Linked
  <1>5. CASE <<q, n>> = <<e, Len(b)>>
    <2>1. q = e /\ n = Len(b)
      BY <1>5
    <2>2. PICK l \in SizeLines(0) :
            /\ \A i \in 1 .. Len(l) : w[q + i] = l[i]
            /\ w[q + Len(l) + 1] = Crlf
            /\ EndAt(w, q + Len(l) + 1)
      BY <1>2, <2>1 DEF TailAt
    <2>3. Len(l) \in Nat
      BY <2>2, LineLength
    <2>4. q + Len(l) + 2 <= Len(w)
      BY <1>4, <2>2, <2>3 DEF EndAt
    <2>5. Follows(w, b, q, n, 0, l)
      BY <2>1, <2>2, <2>4 DEF Follows
    <2> QED BY <1>4, <2>5
  <1>6. CASE <<q, n>> # <<e, Len(b)>>
    <2>1. PICK l, m : ChunkAt(w, b, q, n, l, m) /\ <<q + Len(l) + m + 2, n + m>> \in M
      <3>1. \A k \in M \ {<<e, Len(b)>>} :
              \E l, m : ChunkAt(w, b, k[1], k[2], l, m) /\ <<k[1] + Len(l) + m + 2, k[2] + m>> \in M
        BY <1>2 DEF Linked
      <3>2. <<q, n>> \in M \ {<<e, Len(b)>>} /\ <<q, n>>[1] = q /\ <<q, n>>[2] = n
        BY <1>3, <1>6
      <3> QED BY <3>1, <3>2
    <2> DEFINE L == Len(l)
               p == q + L + 1
    <2>2. /\ m \in Nat \ {0} /\ l \in SizeLines(m)
          /\ n + m <= Len(b) /\ q + L + m + 2 <= Len(w)
          /\ \A i \in 1 .. L : w[q + i] = l[i]
          /\ w[q + L + 1] = Crlf
          /\ \A i \in 1 .. m : w[q + L + 1 + i] = b[n + i]
          /\ w[q + L + m + 2] = Crlf
      BY <2>1 DEF ChunkAt
    <2>3. L \in Nat
      BY <2>2, LineLength
    <2>4. p + m + 1 = q + L + m + 2 /\ q + L + 2 <= Len(w)
      <3> HIDE DEF L
      <3> QED BY <1>4, <2>2, <2>3
    <2>5. AtChunk(w, b, p, m, n)
      <3>1. p + m + 1 <= Len(w) /\ <<p + m + 1, n + m>> \in Marks(w, b) /\ w[p + m + 1] = Crlf
        BY <2>1, <2>2, <2>4 DEF M
      <3> HIDE DEF M
      <3> QED BY <2>2, <3>1 DEF AtChunk
    <2>6. Follows(w, b, q, n, m, l)
      BY <2>2, <2>4, <2>5 DEF Follows
    <2> QED BY <1>4, <2>6
  <1> QED BY <1>5, <1>6

\* One more symbol of a size line.
LEMMA SizeStep ==
    ASSUME NEW w \in Seq(Nat), NEW b \in Seq(Nat), \E M : Marked(w, b, M)
    PROVE  \A p \in Nat : \A l \in Seq(Nat) : \A n : AtSize(w, b, p, l, n) =>
              /\ p + 1 <= Len(w) /\ Len(l) <= MaxLine
              /\ w[p + 1] # Crlf => AtSize(w, b, p + 1, Append(l, w[p + 1]), n)
              /\ w[p + 1] = Crlf =>
                    /\ ~BadSize(l)
                    /\ SizeOf(l) = 0 => n = Len(b) /\ EndAt(w, p + 1)
                    /\ SizeOf(l) # 0 => AtChunk(w, b, p + 1, SizeOf(l), n)
  <1> TAKE p \in Nat
  <1> TAKE l \in Seq(Nat)
  <1> TAKE n
  <1> HAVE AtSize(w, b, p, l, n)
  <1> DEFINE j == Len(l)
             q == p - j
  <1>1. q \in Nat /\ <<q, n>> \in Marks(w, b) /\ \A i \in 1 .. j : l[i] = w[q + i] /\ l[i] # Crlf
    BY DEF AtSize
  <1>2. PICK m, h : Follows(w, b, q, n, m, h)
    <2> HIDE DEF q
    <2> QED BY <1>1, MarkFacts
  <1> DEFINE L == Len(h)
  <1>3. h \in SizeLines(m)
    BY <1>2 DEF Follows
  <1>4. /\ h \in Seq(Nat) /\ L \in Nat /\ L <= MaxLine /\ (\A i \in 1 .. L : h[i] # Crlf)
        /\ ~BadSize(h) /\ SizeOf(h) = m
    BY <1>3, SizeLineFacts
  <1>5. /\ m \in Nat /\ q + L + 2 <= Len(w) /\ (\A i \in 1 .. L : w[q + i] = h[i]) /\ w[q + L + 1] = Crlf
        /\ m = 0 => n = Len(b) /\ EndAt(w, q + L + 1)
        /\ m # 0 => AtChunk(w, b, q + L + 1, m, n)
    BY <1>2 DEF Follows
  <1>6. j \in Nat /\ p = q + j /\ Len(w) \in Nat /\ MaxLine \in Nat
    BY HttpAssumption
  <1>60. q \in Nat /\ <<q, n>> \in Marks(w, b)
    BY <1>1
  <1>61. q \in Nat
    BY <1>1
  <1> HIDE DEF L, q, j
  <1>7. j <= L
    <2>1. SUFFICES ASSUME j > L PROVE FALSE
      BY <1>4, <1>6
    <2>2. L + 1 \in 1 .. j /\ q + (L + 1) = q + L + 1
      BY <1>1, <1>4, <1>6, <2>1
    <2> QED BY <1>1, <1>5, <2>2
  <1>8. p + 1 <= Len(w) /\ j <= MaxLine
    <2>1. L \in Nat /\ L <= MaxLine /\ q + L + 2 <= Len(w)
      BY <1>4, <1>5
    <2> QED BY <1>6, <1>61, <1>7, <2>1
  <1>9. ASSUME w[p + 1] # Crlf PROVE AtSize(w, b, p + 1, Append(l, w[p + 1]), n)
    <2> DEFINE c == w[p + 1]
               a == Append(l, c)
    <2>1. c \in Nat
      BY <1>6, <1>8
    <2>2. a \in Seq(Nat) /\ Len(a) = j + 1 /\ a[j + 1] = c /\ \A i \in 1 .. j : a[i] = l[i]
      BY <2>1 DEF j
    <2> HIDE DEF a
    <2>20. Len(a) = j + 1
      BY <2>2
    <2>3. (p + 1) - Len(a) = q /\ q + (j + 1) = p + 1
      BY <1>6, <1>61, <2>20
    <2>4. ASSUME NEW i \in 1 .. j + 1 PROVE a[i] = w[q + i] /\ a[i] # Crlf
      <3>1. CASE i = j + 1
        BY <1>9, <2>2, <2>3, <3>1
      <3>2. CASE i # j + 1
        <4>1. i \in 1 .. j
          BY <1>6, <3>2
        <4> QED BY <1>1, <2>2, <4>1
      <3> QED BY <3>1, <3>2
    <2>40. \A i \in 1 .. Len(a) : a[i] = w[((p + 1) - Len(a)) + i] /\ a[i] # Crlf
      BY <2>20, <2>3, <2>4
    <2>41. (p + 1) - Len(a) \in Nat /\ <<(p + 1) - Len(a), n>> \in Marks(w, b)
      BY <1>60, <2>3
    <2>5. AtSize(w, b, p + 1, a, n)
      BY <2>2, <2>40, <2>41 DEF AtSize
    <2> QED BY <2>5 DEF a
  <1>10. ASSUME w[p + 1] = Crlf
         PROVE  /\ ~BadSize(l)
                /\ SizeOf(l) = 0 => n = Len(b) /\ EndAt(w, p + 1)
                /\ SizeOf(l) # 0 => AtChunk(w, b, p + 1, SizeOf(l), n)
    <2>1. ~(j < L)
      <3>1. SUFFICES ASSUME j < L PROVE FALSE
        OBVIOUS
      <3>2. j + 1 \in 1 .. L /\ q + (j + 1) = p + 1
        BY <1>1, <1>4, <1>6, <3>1
      <3> QED BY <1>4, <1>5, <1>10, <3>2
    <2>2. j = L
      BY <1>4, <1>6, <1>7, <2>1
    <2>3. l = h
      <3>1. Len(l) = Len(h)
        BY <2>2 DEF j, L
      <3>2. \A i \in 1 .. Len(l) : l[i] = h[i]
        BY <1>1, <1>5, <2>2 DEF j
      <3>3. h \in Seq(Nat)
        BY <1>4
      <3> QED BY <3>1, <3>2, <3>3, SameSeq
    <2>4. q + L + 1 = p + 1
      BY <1>6, <2>2
    <2> QED BY <1>4, <1>5, <2>3, <2>4
  <1> QED BY <1>8, <1>9, <1>10 DEF j

LEMMA ChunkStep ==
    ASSUME NEW w \in Seq(Nat), NEW b \in Seq(Nat)
    PROVE  \A p, n, m \in Nat : AtChunk(w, b, p, m, n) =>
              /\ p + 1 <= Len(w) /\ n + 1 <= Len(b) /\ w[p + 1] = b[n + 1] /\ m >= 1 /\ n + m <= Len(b)
              /\ m = 1 => AtChunkEnd(w, b, p + 1, n + 1)
              /\ m # 1 => AtChunk(w, b, p + 1, m - 1, n + 1)
  <1> TAKE p, n, m \in Nat
  <1> HAVE AtChunk(w, b, p, m, n)
  <1>1. /\ m \in Nat \ {0} /\ p + m + 1 <= Len(w) /\ n + m <= Len(b)
        /\ <<p + m + 1, n + m>> \in Marks(w, b)
        /\ \A i \in 1 .. m : w[p + i] = b[n + i]
        /\ w[p + m + 1] = Crlf
    BY DEF AtChunk
  <1> DEFINE W == Len(w)
             B == Len(b)
  <1>2. W \in Nat /\ B \in Nat /\ m \in Nat \ {0} /\ p + m + 1 <= W /\ n + m <= B
    BY <1>1
  <1> HIDE DEF W, B
  <1>3. p + 1 <= W /\ n + 1 <= B /\ m >= 1 /\ 1 \in 1 .. m
    BY <1>2
  <1>4. w[p + 1] = b[n + 1]
    BY <1>1, <1>3
  <1>5. ASSUME m = 1 PROVE AtChunkEnd(w, b, p + 1, n + 1)
    <2>1. p + m + 1 = (p + 1) + 1 /\ n + m = n + 1
      BY <1>5
    <2> QED BY <1>1, <2>1 DEF AtChunkEnd
  <1>6. ASSUME m # 1 PROVE AtChunk(w, b, p + 1, m - 1, n + 1)
    <2>1. m - 1 \in Nat \ {0} /\ (p + 1) + (m - 1) + 1 = p + m + 1 /\ (n + 1) + (m - 1) = n + m
      BY <1>2, <1>6
    <2>2. ASSUME NEW i \in 1 .. m - 1 PROVE w[(p + 1) + i] = b[(n + 1) + i]
      <3>1. i + 1 \in 1 .. m /\ (p + 1) + i = p + (i + 1) /\ (n + 1) + i = n + (i + 1)
        BY <1>2
      <3>2. \A k \in 1 .. m : w[p + k] = b[n + k]
        BY <1>1
      <3>3. w[p + (i + 1)] = b[n + (i + 1)]
        BY <3>1, <3>2
      <3> QED BY <3>1, <3>3
    <2> QED BY <1>1, <2>1, <2>2 DEF AtChunk
  <1> QED BY <1>2, <1>3, <1>4, <1>5, <1>6 DEF W, B

LEMMA TrailerStep ==
    ASSUME NEW w \in Seq(Nat), NEW p \in Nat
    PROVE  \A l, t : AtTrailer(w, p, l, t) =>
              /\ p + 1 <= Len(w) /\ Len(l) <= 1
              /\ w[p + 1] # Crlf => w[p + 1] = 1 /\ AtTrailer(w, p + 1, Append(l, w[p + 1]), t)
              /\ w[p + 1] = Crlf /\ l = <<>> => Len(w) = p + 1
              /\ w[p + 1] = Crlf /\ l # <<>> => Len(l) = 1 /\ t = 0 /\ AtTrailer(w, p + 1, <<>>, 1)
  <1> TAKE l, t
  <1> HAVE AtTrailer(w, p, l, t)
  <1>1. 1 # Crlf
    BY HttpAssumption
  <1>2. Len(<<>>) = 0 /\ Len(<<1>>) = 1 /\ <<1>> # <<>> /\ Append(<<>>, 1) = <<1>>
    OBVIOUS
  <1>3. p + 1 + 1 = p + 2 /\ p + 1 + 2 = p + 3 /\ p + 1 <= p + 2 /\ p + 1 <= p + 3
    OBVIOUS
  <1>4. CASE l = <<>> /\ Len(w) = p + 1 /\ w[p + 1] = Crlf
    BY <1>2, <1>4
  <1>5. CASE l = <<>> /\ t = 0 /\ Len(w) = p + 3 /\ w[p + 1] = 1 /\ w[p + 2] = Crlf /\ w[p + 3] = Crlf
    <2>1. AtTrailer(w, p + 1, <<1>>, t)
      BY <1>3, <1>5 DEF AtTrailer
    <2> QED BY <1>1, <1>2, <1>3, <1>5, <2>1
  <1>6. CASE l = <<1>> /\ t = 0 /\ Len(w) = p + 2 /\ w[p + 1] = Crlf /\ w[p + 2] = Crlf
    <2>1. AtTrailer(w, p + 1, <<>>, 1)
      BY <1>3, <1>6 DEF AtTrailer
    <2> QED BY <1>2, <1>3, <1>6, <2>1
  <1> QED BY <1>4, <1>5, <1>6 DEF AtTrailer

-----------------------------------------------------------------------------
(* The inductive invariant *)

Stages == {"ok", "error", "head", "exact", "rest", "size", "chunk", "chunkEnd", "trailer"}

\* What a genuine sender has put into the stream.
Framed ==
    /\ framing \in {"length", "chunked", "close", "none"}
    /\ (role = "request" => framing \in {"length", "none"}) /\ (framing = "none" => role = "request")
    /\ framing = "none" => intended = <<>>
    /\ lines = FramedHead(intended, framing)
    /\ framing # "chunked" => wire = intended
    /\ framing = "chunked" => \E M : Marked(wire, intended, M)

Meant ==
    /\ role \in {"response", "request"} /\ genuine \in BOOLEAN
    /\ lines \in Seq(HeaderLine) /\ wire \in Seq(Nat) /\ intended \in Seq(Nat)
    /\ reach \in Nat /\ reach <= HeadSize + Len(wire)
    /\ genuine => Framed

\* What the reader holds is within the caps.
Held ==
    /\ at \in Stages /\ got \in Nat /\ got <= reach
    /\ need \in Nat /\ trailers \in Nat /\ elapsed \in Nat /\ line \in Seq(Nat) /\ body \in Seq(Nat)
    /\ at = "head" => got < HeadSize /\ body = <<>>
    /\ at \in {"head", "chunk"} => line = <<>>
    /\ at \notin {"head", "error"} => got >= HeadSize
    /\ Len(body) + need <= MaxBody /\ Len(line) <= MaxLine + 1
    /\ trailers <= MaxTrailer + MaxLine /\ (at # "error" => trailers <= MaxTrailer)
    /\ at \notin {"trailer", "ok", "error"} => trailers = 0
    /\ at \in {"head", "rest", "size", "chunkEnd", "trailer"} => need = 0
    /\ at \in {"exact", "chunk"} => need > 0
    /\ elapsed < HttpDeadline + IoTimeout

\* What the head declared is what is being read.
OneStory ==
    /\ at = "exact" => DeclaredLengths(lines) \subseteq {Len(body) + need}
    /\ at = "rest" => DeclaredLengths(lines) = {}
    /\ at \in {"size", "chunk", "chunkEnd", "trailer"} => role = "response" /\ IsChunked(lines)
    /\ at = "ok" /\ ~(role = "response" /\ IsChunked(lines)) => DeclaredLengths(lines) \subseteq {Len(body)}

\* Symbols read past the head.
Past == got - HeadSize

Agrees(s, b) == Len(s) <= Len(b) /\ \A i \in 1 .. Len(s) : s[i] = b[i]

\* Why a genuine message may be refused.
Excused == reach < HeadSize + Len(wire) \/ silent \/ ~InTime \/ Len(intended) > MaxBody

\* Of a genuine message: what is read so far, and what is to come.
OnTrack ==
    /\ Agrees(body, intended)
    /\ at = "exact" => framing = "length" /\ Past = Len(body) /\ Past + need = Len(wire)
    /\ at = "rest" => framing = "close" /\ Past = Len(body)
    /\ at \in {"size", "chunk", "chunkEnd", "trailer"} => framing = "chunked"
    /\ at = "size" => AtSize(wire, intended, Past, line, Len(body))
    /\ at = "chunk" => AtChunk(wire, intended, Past, need, Len(body))
    /\ at = "chunkEnd" => line = <<>> /\ AtChunkEnd(wire, intended, Past, Len(body))
    /\ at = "trailer" => Len(body) = Len(intended) /\ AtTrailer(wire, Past, line, trailers)
    /\ at = "ok" /\ framing # "close" => Len(body) = Len(intended) /\ Past = Len(wire)
    /\ at = "error" => Excused

HttpInv == Meant /\ Held /\ OneStory /\ (genuine => OnTrack)

LEMMA HeadIs ==
    ASSUME NEW b \in Seq(Nat)
    PROVE  /\ FramedHead(b, "length") = <<LengthLine(Len(b))>>
           /\ FramedHead(b, "chunked") = <<ChunkedLine>>
           /\ FramedHead(b, "close") = <<>> /\ FramedHead(b, "none") = <<>>
           /\ \A how \in {"length", "chunked", "close", "none"} :
                FramedHead(b, how) \in Seq(HeaderLine) /\ Len(FramedHead(b, how)) <= 1
  <1>1. Len(b) \in Nat
    OBVIOUS
  <1>2. LengthLine(Len(b)) \in HeaderLine /\ ChunkedLine \in HeaderLine
    BY <1>1 DEF LengthLine, ChunkedLine, HeaderLine
  <1>3. /\ FramedHead(b, "length") = <<LengthLine(Len(b))>>
        /\ FramedHead(b, "chunked") = <<ChunkedLine>>
        /\ FramedHead(b, "close") = <<>> /\ FramedHead(b, "none") = <<>>
    BY DEF FramedHead
  <1>4. /\ <<LengthLine(Len(b))>> \in Seq(HeaderLine) /\ <<ChunkedLine>> \in Seq(HeaderLine) /\ <<>> \in Seq(HeaderLine)
        /\ Len(<<LengthLine(Len(b))>>) = 1 /\ Len(<<ChunkedLine>>) = 1 /\ Len(<<>>) = 0
    BY <1>2
  <1>5. ASSUME NEW how \in {"length", "chunked", "close", "none"}
        PROVE  FramedHead(b, how) \in Seq(HeaderLine) /\ Len(FramedHead(b, how)) <= 1
    <2>1. CASE how = "length"
      <3> DEFINE x == <<LengthLine(Len(b))>>
      <3>1. x \in Seq(HeaderLine) /\ Len(x) <= 1
        BY <1>4
      <3> HIDE DEF x
      <3>2. FramedHead(b, "length") = x
        BY <1>3 DEF x
      <3> QED BY <2>1, <3>1, <3>2
    <2>2. CASE how = "chunked"
      <3> DEFINE x == <<ChunkedLine>>
      <3>1. x \in Seq(HeaderLine) /\ Len(x) <= 1
        BY <1>4
      <3> HIDE DEF x
      <3>2. FramedHead(b, "chunked") = x
        BY <1>3 DEF x
      <3> QED BY <2>2, <3>1, <3>2
    <2>3. CASE how \in {"close", "none"}
      <3> DEFINE x == <<>>
      <3>1. x \in Seq(HeaderLine) /\ Len(x) <= 1
        BY <1>4
      <3> HIDE DEF x
      <3>2. FramedHead(b, "close") = x /\ FramedHead(b, "none") = x
        BY <1>3 DEF x
      <3> QED BY <2>3, <3>1, <3>2
    <2> QED BY <2>1, <2>2, <2>3
  <1> QED BY <1>3, <1>5

\* What the head a genuine sender writes declares.
LEMMA HeadSays ==
    ASSUME NEW b \in Seq(Nat)
    PROVE  /\ DeclaredLengths(FramedHead(b, "length")) = {Len(b)}
           /\ Codings(FramedHead(b, "length")) = {}
           /\ DeclaredLengths(FramedHead(b, "chunked")) = {} /\ IsChunked(FramedHead(b, "chunked"))
           /\ DeclaredLengths(FramedHead(b, "close")) = {} /\ Codings(FramedHead(b, "close")) = {}
           /\ DeclaredLengths(FramedHead(b, "none")) = {} /\ Codings(FramedHead(b, "none")) = {}
           /\ \A how \in {"length", "chunked", "close", "none"} : \A i, j \in DOMAIN FramedHead(b, how) :
                i = j /\ FramedHead(b, how)[i].name # "malformed"
  <1> DEFINE x == LengthLine(Len(b))
  <1>1. x.name = "content-length" /\ x.value = Len(b) /\ ChunkedLine.name = "transfer-encoding" /\ ChunkedLine.value = 1
    BY DEF LengthLine, ChunkedLine
  <1> HIDE DEF x
  <1>2. DOMAIN <<x>> = {1} /\ <<x>>[1] = x /\ DOMAIN <<ChunkedLine>> = {1} /\ <<ChunkedLine>>[1] = ChunkedLine /\ DOMAIN <<>> = {}
    OBVIOUS
  <1>3. FramedHead(b, "length") = <<x>> /\ FramedHead(b, "chunked") = <<ChunkedLine>> /\ FramedHead(b, "close") = <<>>
        /\ FramedHead(b, "none") = <<>>
    BY HeadIs DEF x
  <1>4. DeclaredLengths(<<x>>) = {Len(b)} /\ Codings(<<x>>) = {}
    BY <1>1, <1>2 DEF DeclaredLengths, Codings
  <1>5. DeclaredLengths(<<ChunkedLine>>) = {} /\ IsChunked(<<ChunkedLine>>)
    BY <1>1, <1>2 DEF DeclaredLengths, Codings, IsChunked
  <1>6. DeclaredLengths(<<>>) = {} /\ Codings(<<>>) = {}
    BY <1>2 DEF DeclaredLengths, Codings
  <1>7. ASSUME NEW how \in {"length", "chunked", "close", "none"},
               NEW i \in DOMAIN FramedHead(b, how), NEW j \in DOMAIN FramedHead(b, how)
        PROVE  i = j /\ FramedHead(b, how)[i].name # "malformed"
    <2>1. CASE how = "length"
      BY <1>1, <1>2, <1>3, <2>1
    <2>2. CASE how = "chunked"
      BY <1>1, <1>2, <1>3, <2>2
    <2>3. CASE how \in {"close", "none"}
      BY <1>2, <1>3, <2>3
    <2> QED BY <2>1, <2>2, <2>3
  <1> QED BY <1>3, <1>4, <1>5, <1>6, <1>7

LEMMA InitInv == HttpInit => HttpInv
  <1> SUFFICES ASSUME HttpInit PROVE HttpInv
    OBVIOUS
  <1>1. lines \in Seq(HeaderLine) /\ wire \in Seq(Nat) /\ intended \in Seq(Nat) /\ (genuine => Framed)
    <2>1. CASE genuine
      <3>1. /\ intended \in Bodies /\ framing \in {"length", "chunked", "close", "none"}
            /\ (role = "request" => framing \in {"length", "none"}) /\ (framing = "none" => role = "request")
            /\ framing = "none" => intended = <<>>
            /\ lines = FramedHead(intended, framing)
            /\ wire \in IF framing = "chunked" THEN ChunkedForms(intended) ELSE {intended}
        BY <2>1 DEF HttpInit
      <3>2. intended \in Seq(Nat)
        BY <3>1, HttpAssumption
      <3>3. lines \in Seq(HeaderLine)
        BY <3>1, <3>2, HeadIs
      <3>4. framing = "chunked" => wire \in Seq(Nat) /\ \E M : Marked(wire, intended, M)
        BY <3>1, <3>2, FormsMarked
      <3>5. framing # "chunked" => wire = intended
        BY <3>1
      <3> QED BY <3>1, <3>2, <3>3, <3>4, <3>5 DEF Framed
    <2>2. CASE ~genuine
      <3>1. intended = <<>> /\ lines \in StrangeHeads /\ wire \in StrangeBytes
        BY <2>2 DEF HttpInit
      <3> QED BY <2>2, <3>1, HttpAssumption
    <2> QED BY <2>1, <2>2
  <1> DEFINE L == Len(lines)
             W == Len(wire)
  <1>2. L \in Nat /\ W \in Nat /\ HeadSize = L + 2
    BY <1>1 DEF HeadSize
  <1>3. role \in {"response", "request"} /\ genuine \in BOOLEAN
    BY DEF HttpInit
  <1>4. reach \in 0 .. HeadSize + W \/ reach = HeadSize + W
    BY <1>3 DEF HttpInit
  <1>5. reach \in Nat /\ reach <= HeadSize + W
    <2> HIDE DEF L, W
    <2> QED BY <1>2, <1>4
  <1>6. Meant
    BY <1>1, <1>3, <1>5 DEF Meant
  <1>7. at = "head" /\ got = 0 /\ need = 0 /\ line = <<>> /\ trailers = 0 /\ body = <<>> /\ elapsed = 0
    BY DEF HttpInit
  <1>8. Len(<<>>) = 0 /\ <<>> \in Seq(Nat)
    OBVIOUS
  <1>9. 0 < HeadSize
    <2> HIDE DEF L
    <2> QED BY <1>2
  <1>10. /\ MaxBody \in Nat /\ MaxLine \in Nat /\ MaxTrailer \in Nat /\ HttpDeadline \in Nat /\ IoTimeout \in Nat
         /\ HttpDeadline > 0
    BY HttpAssumption
  <1>11. Held
    <2>1. Len(body) + need <= MaxBody /\ Len(line) <= MaxLine + 1 /\ trailers <= MaxTrailer /\ trailers <= MaxTrailer + MaxLine
          /\ elapsed < HttpDeadline + IoTimeout /\ got <= reach
      BY <1>5, <1>7, <1>8, <1>10
    <2> QED BY <1>7, <1>8, <1>9, <2>1 DEF Held, Stages
  <1>12. OneStory
    BY <1>7 DEF OneStory
  <1>13. OnTrack
    <2>1. Agrees(body, intended)
      BY <1>1, <1>7, <1>8 DEF Agrees
    <2> QED BY <1>7, <2>1 DEF OnTrack
  <1> QED BY <1>6, <1>11, <1>12, <1>13 DEF HttpInv

-----------------------------------------------------------------------------
(* The steps of the reader *)

LEMMA Caps ==
    /\ MaxHead \in Nat /\ MaxLine \in Nat /\ MaxTrailer \in Nat /\ MaxBody \in Nat
    /\ HttpDeadline \in Nat /\ IoTimeout \in Nat
    /\ MaxHead > 1 /\ MaxLine > 0 /\ MaxTrailer > 0 /\ HttpDeadline > 0
  BY HttpAssumption

LEMMA Appended ==
    ASSUME NEW s \in Seq(Nat), NEW c \in Nat
    PROVE  /\ Append(s, c) \in Seq(Nat) /\ Len(s) \in Nat /\ Len(Append(s, c)) = Len(s) + 1
           /\ Append(s, c)[Len(s) + 1] = c
           /\ \A i \in 1 .. Len(s) : Append(s, c)[i] = s[i]
  OBVIOUS

LEMMA AgreesMore ==
    ASSUME NEW s \in Seq(Nat), NEW b \in Seq(Nat), NEW c \in Nat,
           Agrees(s, b), Len(s) + 1 <= Len(b), c = b[Len(s) + 1]
    PROVE  Agrees(Append(s, c), b)
  <1> DEFINE a == Append(s, c)
             n == Len(s)
  <1>1. n \in Nat /\ Len(a) = n + 1 /\ a[n + 1] = c /\ \A i \in 1 .. n : a[i] = s[i]
    BY Appended
  <1>2. \A i \in 1 .. n : s[i] = b[i]
    BY DEF Agrees
  <1>3. n + 1 <= Len(b) /\ c = b[n + 1]
    OBVIOUS
  <1> HIDE DEF a, n
  <1>4. ASSUME NEW i \in 1 .. n + 1 PROVE a[i] = b[i]
    <2>1. CASE i = n + 1
      BY <1>1, <1>3, <2>1
    <2>2. CASE i # n + 1
      <3>1. i \in 1 .. n
        BY <1>1, <2>2
      <3> QED BY <1>1, <1>2, <3>1
    <2> QED BY <2>1, <2>2
  <1>5. Agrees(a, b)
    BY <1>1, <1>3, <1>4 DEF Agrees
  <1> QED BY <1>5 DEF a

\* No step changes what was sent.
LEMMA MeantStays ==
    ASSUME Meant, UNCHANGED messageVars
    PROVE  /\ Meant' /\ HeadSize' = HeadSize
           /\ role' = role /\ genuine' = genuine /\ intended' = intended /\ framing' = framing
           /\ lines' = lines /\ wire' = wire /\ reach' = reach
  <1>1. /\ role' = role /\ genuine' = genuine /\ intended' = intended /\ framing' = framing
        /\ lines' = lines /\ wire' = wire /\ reach' = reach
    BY DEF messageVars
  <1>2. HeadSize' = HeadSize
    BY <1>1 DEF HeadSize
  <1>3. Framed' <=> Framed
    BY <1>1 DEF Framed
  <1>4. Meant'
    BY <1>1, <1>2, <1>3 DEF Meant
  <1> QED BY <1>1, <1>2, <1>4

LEMMA MeantNumbers ==
    ASSUME Meant
    PROVE  /\ HeadSize \in Nat /\ HeadSize >= 2 /\ Len(wire) \in Nat /\ Len(intended) \in Nat
           /\ genuine => HeadSize <= 3
           /\ reach \in Nat /\ reach <= HeadSize + Len(wire)
  <1>1. lines \in Seq(HeaderLine) /\ wire \in Seq(Nat) /\ intended \in Seq(Nat)
    BY DEF Meant
  <1> DEFINE L == Len(lines)
             W == Len(wire)
  <1>2. L \in Nat /\ W \in Nat /\ Len(intended) \in Nat /\ HeadSize = L + 2
    BY <1>1 DEF HeadSize
  <1>3. genuine => L <= 1
    BY <1>1, HeadIs DEF Meant, Framed
  <1>4. reach \in Nat /\ reach <= HeadSize + W
    BY DEF Meant
  <1> HIDE DEF L, W
  <1>5. HeadSize \in Nat /\ HeadSize >= 2 /\ (genuine => HeadSize <= 3)
    BY <1>2, <1>3
  <1> QED BY <1>2, <1>4, <1>5 DEF W

\* One read.
LEMMA ReadsFacts ==
    ASSUME HttpInv, Reads
    PROVE  /\ got \in Nat /\ got' = got + 1 /\ got' \in Nat /\ got' <= reach' /\ got < reach
           /\ elapsed' \in Nat /\ elapsed' < HttpDeadline + IoTimeout
           /\ UNCHANGED messageVars /\ silent' = silent
           /\ got >= HeadSize => /\ Symbol \in Nat /\ Symbol = wire[Past + 1]
                                 /\ Past \in Nat /\ Past + 1 <= Len(wire) /\ Past' = Past + 1
  <1>1. /\ InTime /\ got < reach /\ got' = got + 1 /\ UNCHANGED messageVars /\ silent' = silent
        /\ IF role = "response" THEN \E d \in 0 .. IoTimeout : elapsed' = elapsed + d ELSE elapsed' = elapsed
    BY DEF Reads
  <1>2. Meant /\ got \in Nat /\ elapsed \in Nat /\ elapsed < HttpDeadline + IoTimeout
    BY DEF HttpInv, Held
  <1>3. reach' = reach /\ HeadSize' = HeadSize
    BY <1>1, <1>2, MeantStays
  <1>4. HeadSize \in Nat /\ Len(wire) \in Nat /\ reach \in Nat /\ reach <= HeadSize + Len(wire)
    BY <1>2, MeantNumbers
  <1>5. got' \in Nat /\ got' <= reach'
    BY <1>1, <1>2, <1>3, <1>4
  <1>6. elapsed' \in Nat /\ elapsed' < HttpDeadline + IoTimeout
    <2>1. CASE role = "response"
      <3>1. elapsed < HttpDeadline
        BY <1>1, <2>1 DEF InTime
      <3>2. PICK d \in 0 .. IoTimeout : elapsed' = elapsed + d
        BY <1>1, <2>1
      <3> QED BY <1>2, <3>1, <3>2, Caps
    <2>2. CASE role # "response"
      BY <1>1, <1>2, <2>2
    <2> QED BY <2>1, <2>2
  <1>7. ASSUME got >= HeadSize
        PROVE  /\ Symbol \in Nat /\ Symbol = wire[Past + 1]
               /\ Past \in Nat /\ Past + 1 <= Len(wire) /\ Past' = Past + 1
    <2> DEFINE W == Len(wire)
    <2>1. wire \in Seq(Nat) /\ W \in Nat /\ W = Len(wire)
      BY <1>2 DEF Meant
    <2> HIDE DEF W
    <2>2. Past \in Nat /\ Past + 1 <= W /\ Past' = Past + 1
      BY <1>1, <1>2, <1>3, <1>4, <1>7, <2>1 DEF Past
    <2>3. got + 1 - HeadSize = Past + 1
      BY <1>2, <1>4 DEF Past
    <2>4. Symbol = wire[Past + 1]
      BY <2>3 DEF Symbol
    <2>5. Past + 1 \in 1 .. Len(wire)
      BY <2>1, <2>2
    <2>6. wire[Past + 1] \in Nat
      BY <2>1, <2>5
    <2> QED BY <2>1, <2>2, <2>4, <2>6
  <1> QED BY <1>1, <1>2, <1>5, <1>6, <1>7

\* Before its end a genuine message has more to come.
LEMMA More ==
    ASSUME HttpInv, genuine, at \notin {"ok", "error", "rest"}
    PROVE  got < HeadSize + Len(wire)
  <1>1. Meant /\ Held /\ OnTrack
    BY DEF HttpInv
  <1> DEFINE W == Len(wire)
  <1>2. HeadSize \in Nat /\ W \in Nat
    BY <1>1, MeantNumbers
  <1>3. got \in Nat /\ need \in Nat /\ at \in Stages /\ wire \in Seq(Nat) /\ intended \in Seq(Nat) /\ line \in Seq(Nat)
        /\ Len(body) \in Nat
    BY <1>1 DEF Held, Meant
  <1>4. at # "head" => got >= HeadSize /\ Past \in Nat
    BY <1>1, <1>2, <1>3 DEF Held, Past
  <1>5. framing = "chunked" => \E M : Marked(wire, intended, M)
    BY <1>1 DEF Meant, Framed
  <1>6. at = "head" => got < HeadSize
    BY <1>1 DEF Held
  <1>7. at # "head" => Past + 1 <= W
    <2>1. CASE at = "exact"
      <3>1. Past + need = W /\ need > 0
        BY <1>1, <2>1 DEF OnTrack, Held
      <3>2. Past \in Nat
        BY <1>4, <2>1
      <3> HIDE DEF W
      <3> QED BY <1>2, <1>3, <3>1, <3>2
    <2>2. CASE at = "size"
      <3>1. framing = "chunked" /\ AtSize(wire, intended, Past, line, Len(body)) /\ Past \in Nat
        BY <1>1, <1>4, <2>2 DEF OnTrack
      <3> QED BY <1>3, <1>5, <3>1, SizeStep
    <2>3. CASE at = "chunk"
      <3>1. AtChunk(wire, intended, Past, need, Len(body)) /\ Past \in Nat
        BY <1>1, <1>4, <2>3 DEF OnTrack
      <3> QED BY <1>3, <3>1, ChunkStep
    <2>4. CASE at = "chunkEnd"
      <3>1. AtChunkEnd(wire, intended, Past, Len(body))
        BY <1>1, <2>4 DEF OnTrack
      <3> QED BY <3>1 DEF AtChunkEnd
    <2>5. CASE at = "trailer"
      <3>1. AtTrailer(wire, Past, line, trailers) /\ Past \in Nat
        BY <1>1, <1>4, <2>5 DEF OnTrack
      <3> QED BY <1>3, <3>1, TrailerStep
    <2> QED BY <1>3, <2>1, <2>2, <2>3, <2>4, <2>5 DEF Stages
  <1> HIDE DEF W
  <1>8. CASE at = "head"
    BY <1>2, <1>3, <1>6, <1>8 DEF W
  <1>9. CASE at # "head"
    <2>1. got - HeadSize + 1 <= W
      BY <1>7, <1>9 DEF Past
    <2>2. got < HeadSize + W
      BY <1>2, <1>3, <2>1
    <2> QED BY <2>2 DEF W
  <1> QED BY <1>8, <1>9

\* A message given up.
LEMMA GivenUp ==
    ASSUME HttpInv, at' = "error", UNCHANGED <<messageVars, got, need, line, trailers, body>>,
           elapsed' \in Nat, elapsed' < HttpDeadline + IoTimeout, genuine => Excused'
    PROVE  HttpInv'
  <1>1. /\ UNCHANGED messageVars
        /\ got' = got /\ need' = need /\ line' = line /\ trailers' = trailers /\ body' = body
    OBVIOUS
  <1>2. Meant /\ Held /\ (genuine => OnTrack)
    BY DEF HttpInv
  <1>3. /\ Meant' /\ HeadSize' = HeadSize /\ genuine' = genuine /\ intended' = intended /\ reach' = reach
    BY <1>1, <1>2, MeantStays
  <1>4. Held'
    BY <1>1, <1>2, <1>3 DEF Held, Stages
  <1>5. OneStory'
    BY DEF OneStory
  <1>6. genuine' => OnTrack'
    <2>1. genuine' => Agrees(body, intended)'
      BY <1>1, <1>2, <1>3 DEF OnTrack, Agrees
    <2> QED BY <1>3, <2>1 DEF OnTrack
  <1> QED BY <1>3, <1>4, <1>5, <1>6 DEF HttpInv

LEMMA RefusedInv ==
    ASSUME HttpInv, Refused, genuine => Excused
    PROVE  HttpInv'
  <1>1. at' = "error" /\ UNCHANGED <<messageVars, got, need, line, trailers, body, elapsed, silent>>
    BY DEF Refused
  <1>2. Meant /\ elapsed \in Nat /\ elapsed < HttpDeadline + IoTimeout
    BY DEF HttpInv, Held
  <1>3. UNCHANGED messageVars /\ elapsed' = elapsed /\ silent' = silent
    BY <1>1
  <1>4. role' = role /\ intended' = intended /\ wire' = wire /\ reach' = reach /\ HeadSize' = HeadSize
    BY <1>2, <1>3, MeantStays
  <1>5. Excused => Excused'
    BY <1>3, <1>4 DEF Excused, InTime
  <1> QED BY <1>1, <1>2, <1>3, <1>5, GivenUp

LEMMA HeadTooLargeInv == HttpInv /\ HeadTooLarge => HttpInv'
  <1> SUFFICES ASSUME HttpInv, HeadTooLarge PROVE HttpInv'
    OBVIOUS
  <1>1. at = "head" /\ got > MaxHead /\ Refused
    BY DEF HeadTooLarge
  <1>2. Meant /\ got \in Nat /\ got < HeadSize
    BY <1>1 DEF HttpInv, Held
  <1>3. ~genuine
    BY <1>1, <1>2, MeantNumbers, Caps
  <1> QED BY <1>1, <1>3, RefusedInv

LEMMA LineTooLongInv == HttpInv /\ LineTooLong => HttpInv'
  <1> SUFFICES ASSUME HttpInv, LineTooLong PROVE HttpInv'
    OBVIOUS
  <1>1. at \in {"size", "chunkEnd", "trailer"} /\ Len(line) > MaxLine /\ Refused
    BY DEF LineTooLong
  <1>2. Meant /\ Held /\ (genuine => OnTrack)
    BY DEF HttpInv
  <1>3. HeadSize \in Nat /\ got \in Nat /\ got >= HeadSize
    BY <1>1, <1>2, MeantNumbers DEF Held
  <1>4. Past \in Nat /\ line \in Seq(Nat) /\ wire \in Seq(Nat) /\ intended \in Seq(Nat) /\ Len(line) \in Nat
    BY <1>2, <1>3 DEF Past, Held, Meant
  <1>5. genuine => Len(line) <= MaxLine
    <2> SUFFICES ASSUME genuine PROVE Len(line) <= MaxLine
      OBVIOUS
    <2>1. CASE at = "size"
      <3>1. AtSize(wire, intended, Past, line, Len(body)) /\ \E M : Marked(wire, intended, M)
        BY <1>2, <2>1 DEF OnTrack, Meant, Framed
      <3> QED BY <1>4, <3>1, SizeStep
    <2>2. CASE at = "chunkEnd"
      <3>1. line = <<>>
        BY <1>2, <2>2 DEF OnTrack
      <3>2. Len(line) = 0
        BY <3>1
      <3> QED BY <3>2, Caps
    <2>3. CASE at = "trailer"
      <3>1. AtTrailer(wire, Past, line, trailers)
        BY <1>2, <2>3 DEF OnTrack
      <3>2. Len(line) <= 1
        BY <1>4, <3>1, TrailerStep
      <3> QED BY <1>4, <3>2, Caps
    <2> QED BY <1>1, <2>1, <2>2, <2>3
  <1>6. ~genuine
    BY <1>1, <1>4, <1>5, Caps
  <1> QED BY <1>1, <1>6, RefusedInv

LEMMA ClosedInv == HttpInv /\ Closed => HttpInv'
  <1> SUFFICES ASSUME HttpInv, Closed PROVE HttpInv'
    OBVIOUS
  <1>1. at \notin {"ok", "error", "rest"} /\ got = reach /\ Refused
    BY DEF Closed, Over
  <1>2. genuine => reach < HeadSize + Len(wire)
    BY <1>1, More
  <1> QED BY <1>1, <1>2, RefusedInv DEF Excused

LEMMA LateInv == HttpInv /\ Late => HttpInv'
  <1> SUFFICES ASSUME HttpInv, Late PROVE HttpInv'
    OBVIOUS
  <1>1. at' = "error" /\ UNCHANGED <<messageVars, got, need, line, trailers, body>>
    BY DEF Late
  <1>2. \/ ~InTime /\ elapsed' = elapsed /\ silent' = silent
        \/ InTime /\ silent' = TRUE /\ elapsed' = IF role = "response" THEN elapsed + IoTimeout ELSE elapsed
    BY DEF Late
  <1>3. Meant /\ elapsed \in Nat /\ elapsed < HttpDeadline + IoTimeout
    BY DEF HttpInv, Held
  <1>4. role' = role
    BY <1>1, <1>3, MeantStays
  <1>5. CASE ~InTime
    <2>1. elapsed' = elapsed
      BY <1>2, <1>5
    <2>2. ~InTime'
      BY <1>4, <1>5, <2>1 DEF InTime
    <2>3. Excused'
      BY <2>2 DEF Excused
    <2> QED BY <1>1, <1>3, <2>1, <2>3, GivenUp
  <1>6. CASE InTime
    <2>1. silent' = TRUE /\ elapsed' = IF role = "response" THEN elapsed + IoTimeout ELSE elapsed
      BY <1>2, <1>6
    <2>2. role = "response" => elapsed < HttpDeadline
      BY <1>6 DEF InTime
    <2>3. elapsed' \in Nat /\ elapsed' < HttpDeadline + IoTimeout
      BY <1>3, <2>1, <2>2, Caps
    <2>4. Excused'
      BY <2>1 DEF Excused
    <2> QED BY <1>1, <2>3, <2>4, GivenUp
  <1> QED BY <1>5, <1>6

LEMMA ReadHeadInv == HttpInv /\ ReadHead => HttpInv'
  <1> SUFFICES ASSUME HttpInv, ReadHead PROVE HttpInv'
    OBVIOUS
  <1>1. /\ at = "head" /\ got + 1 < HeadSize /\ Reads
        /\ at' = at /\ need' = need /\ line' = line /\ trailers' = trailers /\ body' = body
    BY DEF ReadHead
  <1>2. Meant /\ Held /\ (genuine => OnTrack)
    BY DEF HttpInv
  <1>3. /\ got' = got + 1 /\ got' \in Nat /\ got' <= reach' /\ UNCHANGED messageVars
        /\ elapsed' \in Nat /\ elapsed' < HttpDeadline + IoTimeout
    BY <1>1, ReadsFacts
  <1>4. Meant' /\ HeadSize' = HeadSize /\ genuine' = genuine /\ intended' = intended
    BY <1>2, <1>3, MeantStays
  <1>5. Held'
    BY <1>1, <1>2, <1>3, <1>4 DEF Held, Stages
  <1>6. OneStory'
    BY <1>1 DEF OneStory
  <1>7. genuine' => OnTrack'
    <2>1. genuine' => Agrees(body, intended)'
      BY <1>1, <1>2, <1>4 DEF OnTrack, Agrees
    <2> QED BY <1>1, <2>1 DEF OnTrack
  <1> QED BY <1>4, <1>5, <1>6, <1>7 DEF HttpInv

LEMMA ClosedRestInv == HttpInv /\ ClosedRest => HttpInv'
  <1> SUFFICES ASSUME HttpInv, ClosedRest PROVE HttpInv'
    OBVIOUS
  <1>1. /\ at = "rest" /\ at' = "ok" /\ UNCHANGED messageVars
        /\ got' = got /\ need' = need /\ line' = line /\ trailers' = trailers /\ body' = body /\ elapsed' = elapsed
    BY DEF ClosedRest
  <1>2. Meant /\ Held /\ OneStory /\ (genuine => OnTrack)
    BY DEF HttpInv
  <1>3. /\ Meant' /\ HeadSize' = HeadSize /\ genuine' = genuine /\ intended' = intended /\ framing' = framing
        /\ lines' = lines /\ reach' = reach
    BY <1>1, <1>2, MeantStays
  <1>4. Held'
    BY <1>1, <1>2, <1>3 DEF Held, Stages
  <1>5. DeclaredLengths(lines') = {}
    BY <1>1, <1>2, <1>3 DEF OneStory
  <1>6. OneStory'
    BY <1>1, <1>5 DEF OneStory
  <1>7. genuine' => OnTrack'
    <2>1. genuine' => Agrees(body, intended)' /\ framing' = "close"
      BY <1>1, <1>2, <1>3 DEF OnTrack, Agrees
    <2> QED BY <1>1, <2>1 DEF OnTrack
  <1> QED BY <1>3, <1>4, <1>6, <1>7 DEF HttpInv

LEMMA ReadExactInv == HttpInv /\ ReadExact => HttpInv'
  <1> SUFFICES ASSUME HttpInv, ReadExact PROVE HttpInv'
    OBVIOUS
  <1>1. /\ at = "exact" /\ Reads /\ body' = Append(body, Symbol) /\ need' = need - 1
        /\ at' = (IF need = 1 THEN "ok" ELSE "exact") /\ line' = line /\ trailers' = trailers
    BY DEF ReadExact
  <1>2. Meant /\ Held /\ OneStory /\ (genuine => OnTrack)
    BY DEF HttpInv
  <1>3. /\ got \in Nat /\ got >= HeadSize /\ need \in Nat /\ need > 0 /\ body \in Seq(Nat) /\ trailers = 0
        /\ Len(body) + need <= MaxBody
    BY <1>1, <1>2 DEF Held
  <1>4. /\ got' = got + 1 /\ got' \in Nat /\ got' <= reach' /\ UNCHANGED messageVars
        /\ elapsed' \in Nat /\ elapsed' < HttpDeadline + IoTimeout
        /\ Symbol \in Nat /\ Symbol = wire[Past + 1] /\ Past \in Nat /\ Past + 1 <= Len(wire) /\ Past' = Past + 1
    BY <1>1, <1>3, ReadsFacts
  <1>5. /\ Meant' /\ HeadSize' = HeadSize /\ genuine' = genuine /\ intended' = intended /\ framing' = framing
        /\ lines' = lines /\ wire' = wire /\ role' = role
    BY <1>2, <1>4, MeantStays
  <1>6. HeadSize \in Nat
    BY <1>2, MeantNumbers
  <1> DEFINE n == Len(body)
  <1>7. body' \in Seq(Nat) /\ n \in Nat /\ Len(body') = n + 1
    BY <1>1, <1>3, <1>4, Appended
  <1>8. n + need <= MaxBody /\ MaxBody \in Nat
    BY <1>3, Caps
  <1> HIDE DEF n
  <1>9. need' \in Nat /\ Len(body') + need' = n + need /\ (at' = "exact" => need' > 0) /\ (need = 1 => Len(body') = n + need)
        /\ got' >= HeadSize'
    <2>1. need' = need - 1 /\ need \in Nat /\ need > 0 /\ Len(body') = n + 1 /\ n \in Nat
      BY <1>1, <1>3, <1>7
    <2>2. got' = got + 1 /\ HeadSize' = HeadSize /\ got >= HeadSize /\ got \in Nat
      BY <1>3, <1>4, <1>5
    <2>3. at' = "exact" => need # 1
      BY <1>1
    <2> QED BY <1>6, <2>1, <2>2, <2>3
  <1>10. at' \in {"ok", "exact"} /\ (at' = "ok" => need = 1)
    BY <1>1
  <1>11. Held'
    <2>1. Len(body') + need' <= MaxBody
      BY <1>8, <1>9
    <2>2. /\ line' \in Seq(Nat) /\ Len(line') <= MaxLine + 1
          /\ trailers' \in Nat /\ trailers' <= MaxTrailer + MaxLine /\ trailers' <= MaxTrailer /\ trailers' = 0
      BY <1>1, <1>2, <1>3 DEF Held
    <2> QED BY <1>4, <1>7, <1>9, <1>10, <2>1, <2>2 DEF Held, Stages
  <1>12. OneStory'
    <2>1. DeclaredLengths(lines) \subseteq {n + need}
      BY <1>1, <1>2 DEF OneStory, n
    <2>2. DeclaredLengths(lines') \subseteq {Len(body') + need'} /\ (at' = "ok" => DeclaredLengths(lines') \subseteq {Len(body')})
      BY <1>5, <1>9, <1>10, <2>1
    <2> QED BY <1>10, <2>2 DEF OneStory
  <1>13. ASSUME genuine' PROVE OnTrack'
    <2>1. /\ Agrees(body, intended) /\ framing = "length" /\ Past = n /\ Past + need = Len(wire) /\ wire = intended
          /\ intended \in Seq(Nat)
      BY <1>1, <1>2, <1>5, <1>13 DEF OnTrack, n, Meant, Framed
    <2>2. n + 1 <= Len(intended) /\ Symbol = intended[n + 1]
      BY <1>4, <2>1
    <2>3. Agrees(Append(body, Symbol), intended)
      BY <1>3, <1>4, <2>1, <2>2, AgreesMore DEF n
    <2>4. Agrees(body', intended')
      BY <1>1, <1>5, <2>3
    <2> DEFINE W == Len(wire)
    <2>5. n + need = W /\ Past' = n + 1
      BY <1>4, <2>1
    <2>6. Past' = Len(body') /\ Past' + need' = Len(wire') /\ (at' = "ok" => Past' = Len(wire') /\ Len(body') = Len(intended'))
      BY <1>5, <1>7, <1>9, <1>10, <2>1, <2>5
    <2> QED BY <1>5, <1>10, <2>1, <2>4, <2>6 DEF OnTrack
  <1> QED BY <1>5, <1>11, <1>12, <1>13 DEF HttpInv

LEMMA ReadRestInv == HttpInv /\ ReadRest => HttpInv'
  <1> SUFFICES ASSUME HttpInv, ReadRest PROVE HttpInv'
    OBVIOUS
  <1>1. /\ at = "rest" /\ Reads /\ need' = need /\ line' = line /\ trailers' = trailers
        /\ IF Len(body) + 1 > MaxBody THEN at' = "error" /\ body' = body
           ELSE at' = "rest" /\ body' = Append(body, Symbol)
    BY DEF ReadRest
  <1>2. Meant /\ Held /\ OneStory /\ (genuine => OnTrack)
    BY DEF HttpInv
  <1>3. /\ got \in Nat /\ got >= HeadSize /\ need = 0 /\ body \in Seq(Nat) /\ trailers = 0
        /\ line \in Seq(Nat) /\ Len(line) <= MaxLine + 1
    BY <1>1, <1>2 DEF Held
  <1>4. /\ got' = got + 1 /\ got' \in Nat /\ got' <= reach' /\ UNCHANGED messageVars
        /\ elapsed' \in Nat /\ elapsed' < HttpDeadline + IoTimeout
        /\ Symbol \in Nat /\ Symbol = wire[Past + 1] /\ Past \in Nat /\ Past + 1 <= Len(wire) /\ Past' = Past + 1
    BY <1>1, <1>3, ReadsFacts
  <1>5. /\ Meant' /\ HeadSize' = HeadSize /\ genuine' = genuine /\ intended' = intended /\ framing' = framing
        /\ lines' = lines /\ wire' = wire /\ role' = role
    BY <1>2, <1>4, MeantStays
  <1>6. HeadSize \in Nat /\ Len(intended) \in Nat
    BY <1>2, MeantNumbers
  <1> DEFINE n == Len(body)
  <1>7. Append(body, Symbol) \in Seq(Nat) /\ n \in Nat /\ Len(Append(body, Symbol)) = n + 1
    BY <1>3, <1>4, Appended
  <1>8. MaxBody \in Nat /\ got' >= HeadSize' /\ n <= MaxBody
    BY <1>2, <1>3, <1>4, <1>5, <1>6, <1>7, Caps DEF Held
  <1>9. /\ at' \in {"rest", "error"} /\ body' \in Seq(Nat) /\ Len(body') + need' <= MaxBody /\ need' = 0
        /\ at' = "rest" => Len(body') = n + 1 /\ body' = Append(body, Symbol)
        /\ at' = "error" => body' = body /\ n + 1 > MaxBody
    <2>1. CASE n + 1 > MaxBody
      BY <1>1, <1>3, <1>7, <1>8, <2>1
    <2>2. CASE ~(n + 1 > MaxBody)
      <3>1. at' = "rest" /\ body' = Append(body, Symbol) /\ need' = 0
        BY <1>1, <1>3, <2>2
      <3>2. body' \in Seq(Nat) /\ Len(body') = n + 1
        BY <1>7, <3>1
      <3> HIDE DEF n
      <3>3. n + 1 + 0 <= MaxBody
        BY <1>7, <1>8, <2>2
      <3> QED BY <3>1, <3>2, <3>3
    <2> QED BY <2>1, <2>2
  <1>10. Held'
    <2>1. line' \in Seq(Nat) /\ Len(line') <= MaxLine + 1 /\ trailers' = 0
      BY <1>1, <1>3
    <2>2. 0 \in Nat /\ 0 <= MaxTrailer + MaxLine /\ 0 <= MaxTrailer
      BY Caps
    <2> QED BY <1>4, <1>8, <1>9, <2>1, <2>2 DEF Held, Stages
  <1>11. OneStory'
    <2>1. DeclaredLengths(lines') = {}
      BY <1>1, <1>2, <1>5 DEF OneStory
    <2> QED BY <1>9, <2>1 DEF OneStory
  <1>12. ASSUME genuine' PROVE OnTrack'
    <2>1. /\ Agrees(body, intended) /\ framing = "close" /\ Past = n /\ wire = intended /\ intended \in Seq(Nat)
      BY <1>1, <1>2, <1>5, <1>12 DEF OnTrack, n, Meant, Framed
    <2>2. n + 1 <= Len(intended) /\ Symbol = intended[n + 1]
      BY <1>4, <2>1
    <2>3. CASE at' = "rest"
      <3>1. Agrees(Append(body, Symbol), intended)
        BY <1>3, <1>4, <2>1, <2>2, AgreesMore DEF n
      <3>2. Agrees(body', intended')
        BY <1>5, <1>9, <2>3, <3>1
      <3>3. Past' = Len(body')
        BY <1>4, <1>9, <2>1, <2>3
      <3> QED BY <1>5, <2>1, <2>3, <3>2, <3>3 DEF OnTrack
    <2>4. CASE at' = "error"
      <3>1. Agrees(body', intended')
        BY <1>5, <1>9, <2>1, <2>4
      <3>2. Len(intended') > MaxBody
        <4> HIDE DEF n
        <4> QED BY <1>5, <1>6, <1>7, <1>8, <1>9, <2>2, <2>4
      <3> QED BY <2>4, <3>1, <3>2 DEF OnTrack, Excused
    <2> QED BY <1>9, <2>3, <2>4
  <1> QED BY <1>5, <1>10, <1>11, <1>12 DEF HttpInv

LEMMA ReadChunkInv == HttpInv /\ ReadChunk => HttpInv'
  <1> SUFFICES ASSUME HttpInv, ReadChunk PROVE HttpInv'
    OBVIOUS
  <1>1. /\ at = "chunk" /\ Reads /\ body' = Append(body, Symbol) /\ need' = need - 1
        /\ at' = (IF need = 1 THEN "chunkEnd" ELSE "chunk") /\ line' = line /\ trailers' = trailers
    BY DEF ReadChunk
  <1>2. Meant /\ Held /\ OneStory /\ (genuine => OnTrack)
    BY DEF HttpInv
  <1>3. /\ got \in Nat /\ got >= HeadSize /\ need \in Nat /\ need > 0 /\ body \in Seq(Nat) /\ trailers = 0
        /\ Len(body) + need <= MaxBody /\ line = <<>>
    BY <1>1, <1>2 DEF Held
  <1>4. /\ got' = got + 1 /\ got' \in Nat /\ got' <= reach' /\ UNCHANGED messageVars
        /\ elapsed' \in Nat /\ elapsed' < HttpDeadline + IoTimeout
        /\ Symbol \in Nat /\ Symbol = wire[Past + 1] /\ Past \in Nat /\ Past + 1 <= Len(wire) /\ Past' = Past + 1
    BY <1>1, <1>3, ReadsFacts
  <1>5. /\ Meant' /\ HeadSize' = HeadSize /\ genuine' = genuine /\ intended' = intended /\ framing' = framing
        /\ lines' = lines /\ wire' = wire /\ role' = role
    BY <1>2, <1>4, MeantStays
  <1>6. HeadSize \in Nat
    BY <1>2, MeantNumbers
  <1> DEFINE n == Len(body)
  <1>7. body' \in Seq(Nat) /\ n \in Nat /\ Len(body') = n + 1
    BY <1>1, <1>3, <1>4, Appended
  <1>8. n + need <= MaxBody /\ MaxBody \in Nat
    BY <1>3, Caps
  <1> HIDE DEF n
  <1>9. /\ need' \in Nat /\ Len(body') + need' = n + need /\ (need # 1 => need' > 0) /\ (need = 1 => need' = 0)
        /\ got' >= HeadSize'
    <2>1. need' = need - 1 /\ need \in Nat /\ need > 0 /\ Len(body') = n + 1 /\ n \in Nat
      BY <1>1, <1>3, <1>7
    <2>2. got' = got + 1 /\ HeadSize' = HeadSize /\ got >= HeadSize /\ got \in Nat
      BY <1>3, <1>4, <1>5
    <2> QED BY <1>6, <2>1, <2>2
  <1>10. at' \in {"chunkEnd", "chunk"} /\ (at' = "chunkEnd" => need = 1) /\ (at' = "chunk" => need # 1)
    BY <1>1
  <1>11. Held'
    <2>1. Len(body') + need' <= MaxBody
      BY <1>8, <1>9
    <2>2. /\ line' \in Seq(Nat) /\ Len(line') <= MaxLine + 1 /\ line' = <<>>
          /\ trailers' \in Nat /\ trailers' <= MaxTrailer + MaxLine /\ trailers' <= MaxTrailer /\ trailers' = 0
      BY <1>1, <1>2, <1>3 DEF Held
    <2> QED BY <1>4, <1>7, <1>9, <1>10, <2>1, <2>2 DEF Held, Stages
  <1>12. OneStory'
    BY <1>1, <1>2, <1>5, <1>10 DEF OneStory
  <1>13. ASSUME genuine' PROVE OnTrack'
    <2>1. /\ Agrees(body, intended) /\ framing = "chunked" /\ AtChunk(wire, intended, Past, need, n)
          /\ intended \in Seq(Nat) /\ wire \in Seq(Nat)
      BY <1>1, <1>2, <1>5, <1>13 DEF OnTrack, n, Meant
    <2>2. /\ n + 1 <= Len(intended) /\ wire[Past + 1] = intended[n + 1]
          /\ need = 1 => AtChunkEnd(wire, intended, Past + 1, n + 1)
          /\ need # 1 => AtChunk(wire, intended, Past + 1, need - 1, n + 1)
      <3>1. Past \in Nat /\ need \in Nat /\ n \in Nat
        BY <1>3, <1>4, <1>7
      <3> QED BY <2>1, <3>1, ChunkStep
    <2>3. Agrees(Append(body, Symbol), intended)
      BY <1>3, <1>4, <2>1, <2>2, AgreesMore DEF n
    <2>4. Agrees(body', intended')
      BY <1>1, <1>5, <2>3
    <2>5. need = 1 => AtChunkEnd(wire', intended', Past', Len(body'))
      BY <1>4, <1>5, <1>7, <2>2
    <2>6. need # 1 => AtChunk(wire', intended', Past', need', Len(body'))
      BY <1>1, <1>4, <1>5, <1>7, <2>2
    <2> QED BY <1>1, <1>3, <1>5, <1>10, <2>1, <2>4, <2>5, <2>6 DEF OnTrack
  <1> QED BY <1>5, <1>11, <1>12, <1>13 DEF HttpInv

\* A symbol of a line.
LEMMA LineGrows == HttpInv /\ ReadLine /\ Symbol # Crlf => HttpInv'
  <1> SUFFICES ASSUME HttpInv, ReadLine, Symbol # Crlf PROVE HttpInv'
    OBVIOUS
  <1>1. /\ at \in {"size", "chunkEnd", "trailer"} /\ Len(line) <= MaxLine /\ Reads
        /\ line' = Append(line, Symbol) /\ at' = at /\ need' = need /\ trailers' = trailers /\ body' = body
    BY DEF ReadLine
  <1>2. Meant /\ Held /\ OneStory /\ (genuine => OnTrack)
    BY DEF HttpInv
  <1>3. got \in Nat /\ got >= HeadSize /\ line \in Seq(Nat)
    BY <1>1, <1>2 DEF Held
  <1>4. /\ got' = got + 1 /\ got' \in Nat /\ got' <= reach' /\ UNCHANGED messageVars
        /\ elapsed' \in Nat /\ elapsed' < HttpDeadline + IoTimeout
        /\ Symbol \in Nat /\ Symbol = wire[Past + 1] /\ Past \in Nat /\ Past + 1 <= Len(wire) /\ Past' = Past + 1
    BY <1>1, <1>3, ReadsFacts
  <1>5. /\ Meant' /\ HeadSize' = HeadSize /\ genuine' = genuine /\ intended' = intended /\ framing' = framing
        /\ lines' = lines /\ wire' = wire /\ role' = role
    BY <1>2, <1>4, MeantStays
  <1>6. HeadSize \in Nat
    BY <1>2, MeantNumbers
  <1>7. got' >= HeadSize'
    BY <1>3, <1>4, <1>5, <1>6
  <1>8. line' \in Seq(Nat) /\ Len(line') <= MaxLine + 1
    <2> DEFINE n == Len(line)
    <2>1. line' \in Seq(Nat) /\ Len(line') = n + 1 /\ n \in Nat /\ n <= MaxLine
      BY <1>1, <1>3, <1>4, Appended
    <2> HIDE DEF n
    <2> QED BY <2>1, Caps
  <1>9. Held'
    <2>1. /\ at' \in {"size", "chunkEnd", "trailer"} /\ need' = 0 /\ body' \in Seq(Nat) /\ Len(body') + need' <= MaxBody
          /\ trailers' \in Nat /\ trailers' <= MaxTrailer + MaxLine /\ trailers' <= MaxTrailer
          /\ at' # "trailer" => trailers' = 0
      BY <1>1, <1>2 DEF Held
    <2> QED BY <1>4, <1>7, <1>8, <2>1 DEF Held, Stages
  <1>10. OneStory'
    BY <1>1, <1>2, <1>5 DEF OneStory
  <1>11. ASSUME genuine' PROVE OnTrack'
    <2>1. /\ Agrees(body, intended) /\ framing = "chunked" /\ intended \in Seq(Nat) /\ wire \in Seq(Nat)
          /\ \E M : Marked(wire, intended, M)
      BY <1>1, <1>2, <1>5, <1>11 DEF OnTrack, Meant, Framed
    <2>2. Agrees(body', intended')
      BY <1>1, <1>5, <2>1
    <2>3. CASE at = "size"
      <3>1. AtSize(wire, intended, Past, line, Len(body))
        BY <1>2, <1>5, <1>11, <2>3 DEF OnTrack
      <3>2. wire[Past + 1] # Crlf
        BY <1>4
      <3>3. AtSize(wire, intended, Past + 1, Append(line, wire[Past + 1]), Len(body))
        BY <1>3, <1>4, <2>1, <3>1, <3>2, SizeStep
      <3>4. AtSize(wire', intended', Past', line', Len(body'))
        BY <1>1, <1>4, <1>5, <3>3
      <3> QED BY <1>1, <1>5, <2>1, <2>2, <2>3, <3>4 DEF OnTrack
    <2>4. CASE at = "chunkEnd"
      <3>1. wire[Past + 1] = Crlf
        BY <1>2, <1>5, <1>11, <2>4 DEF OnTrack, AtChunkEnd
      <3> QED BY <1>4, <3>1
    <2>5. CASE at = "trailer"
      <3>1. Len(body) = Len(intended) /\ AtTrailer(wire, Past, line, trailers)
        BY <1>2, <1>5, <1>11, <2>5 DEF OnTrack
      <3>2. wire[Past + 1] # Crlf
        BY <1>4
      <3>3. AtTrailer(wire, Past + 1, Append(line, wire[Past + 1]), trailers)
        BY <1>4, <2>1, <3>1, <3>2, TrailerStep
      <3>4. Len(body') = Len(intended') /\ AtTrailer(wire', Past', line', trailers')
        BY <1>1, <1>4, <1>5, <3>1, <3>3
      <3> QED BY <1>1, <1>5, <2>1, <2>2, <2>5, <3>4 DEF OnTrack
    <2> QED BY <1>1, <2>3, <2>4, <2>5
  <1> QED BY <1>5, <1>9, <1>10, <1>11 DEF HttpInv

\* What every end of a line leaves alone.
LEMMA LineEndFacts ==
    ASSUME HttpInv, ReadLine, Symbol = Crlf
    PROVE  /\ at \in {"size", "chunkEnd", "trailer"} /\ Len(line) <= MaxLine /\ Len(line) \in Nat
           /\ line' = <<>> /\ at' = AfterLine(line) /\ body' = body
           /\ need' = (IF at' = "chunk" THEN SizeOf(line) ELSE 0)
           /\ trailers' = (IF at = "trailer" THEN trailers + Len(line) ELSE trailers)
           /\ got' \in Nat /\ got' <= reach' /\ got' >= HeadSize'
           /\ elapsed' \in Nat /\ elapsed' < HttpDeadline + IoTimeout
           /\ Past \in Nat /\ Past + 1 <= Len(wire) /\ Past' = Past + 1 /\ wire[Past + 1] = Crlf
           /\ Meant' /\ genuine' = genuine /\ intended' = intended /\ framing' = framing
           /\ lines' = lines /\ wire' = wire /\ role' = role
           /\ line \in Seq(Nat) /\ body \in Seq(Nat) /\ Len(body) \in Nat /\ trailers \in Nat
           /\ wire \in Seq(Nat) /\ intended \in Seq(Nat)
           /\ need = 0 /\ Len(body) <= MaxBody /\ trailers <= MaxTrailer /\ (at # "trailer" => trailers = 0)
           /\ role = "response" /\ IsChunked(lines)
           /\ genuine => OnTrack /\ Agrees(body, intended) /\ framing = "chunked" /\ \E M : Marked(wire, intended, M)
  <1>1. /\ at \in {"size", "chunkEnd", "trailer"} /\ Len(line) <= MaxLine /\ Reads /\ body' = body
        /\ line' = <<>> /\ at' = AfterLine(line)
        /\ need' = (IF at' = "chunk" THEN SizeOf(line) ELSE 0)
        /\ trailers' = (IF at = "trailer" THEN trailers + Len(line) ELSE trailers)
    BY DEF ReadLine
  <1>2. Meant /\ Held /\ OneStory /\ (genuine => OnTrack)
    BY DEF HttpInv
  <1>3. /\ got \in Nat /\ got >= HeadSize /\ line \in Seq(Nat) /\ body \in Seq(Nat) /\ trailers \in Nat
        /\ need = 0 /\ Len(body) + need <= MaxBody /\ trailers <= MaxTrailer /\ (at # "trailer" => trailers = 0)
    BY <1>1, <1>2 DEF Held
  <1>4. /\ got' = got + 1 /\ got' \in Nat /\ got' <= reach' /\ UNCHANGED messageVars
        /\ elapsed' \in Nat /\ elapsed' < HttpDeadline + IoTimeout
        /\ Symbol = wire[Past + 1] /\ Past \in Nat /\ Past + 1 <= Len(wire) /\ Past' = Past + 1
    BY <1>1, <1>3, ReadsFacts
  <1>5. /\ Meant' /\ HeadSize' = HeadSize /\ genuine' = genuine /\ intended' = intended /\ framing' = framing
        /\ lines' = lines /\ wire' = wire /\ role' = role
    BY <1>2, <1>4, MeantStays
  <1>6. HeadSize \in Nat
    BY <1>2, MeantNumbers
  <1>7. got' >= HeadSize'
    BY <1>3, <1>4, <1>5, <1>6
  <1>8. Len(line) \in Nat /\ Len(body) \in Nat
    BY <1>3
  <1>9. Len(body) <= MaxBody
    BY <1>3, <1>8
  <1>10. role = "response" /\ IsChunked(lines)
    BY <1>1, <1>2 DEF OneStory
  <1>11. wire \in Seq(Nat) /\ intended \in Seq(Nat)
    BY <1>2 DEF Meant
  <1>12. genuine => OnTrack /\ Agrees(body, intended) /\ framing = "chunked" /\ \E M : Marked(wire, intended, M)
    <2>1. genuine => OnTrack /\ Agrees(body, intended) /\ framing = "chunked" /\ Framed
      BY <1>1, <1>2 DEF OnTrack, Meant
    <2> QED BY <2>1 DEF Framed
  <1> QED BY <1>1, <1>3, <1>4, <1>5, <1>7, <1>8, <1>9, <1>10, <1>11, <1>12

\* A size line is whole: a chunk follows, or the trailer section.
LEMMA SizeEnds == HttpInv /\ ReadLine /\ Symbol = Crlf /\ at = "size" => HttpInv'
  <1> SUFFICES ASSUME HttpInv, ReadLine, Symbol = Crlf, at = "size" PROVE HttpInv'
    OBVIOUS
  <1>1. /\ line' = <<>> /\ at' = AfterLine(line) /\ body' = body
        /\ need' = (IF at' = "chunk" THEN SizeOf(line) ELSE 0) /\ trailers' = 0
        /\ got' \in Nat /\ got' <= reach' /\ got' >= HeadSize'
        /\ elapsed' \in Nat /\ elapsed' < HttpDeadline + IoTimeout
    BY LineEndFacts
  <1>2. /\ Past \in Nat /\ Past + 1 <= Len(wire) /\ Past' = Past + 1 /\ wire[Past + 1] = Crlf
        /\ Meant' /\ genuine' = genuine /\ intended' = intended /\ framing' = framing
        /\ lines' = lines /\ wire' = wire /\ role' = role
    BY LineEndFacts
  <1>3. /\ line \in Seq(Nat) /\ body \in Seq(Nat) /\ Len(body) \in Nat
        /\ wire \in Seq(Nat) /\ intended \in Seq(Nat) /\ Len(body) <= MaxBody
        /\ role = "response" /\ IsChunked(lines)
    BY LineEndFacts
  <1>4. SizeOf(line) \in Nat
    BY <1>3, BeforeTyped, ValueTyped DEF SizeOf
  <1> DEFINE m == SizeOf(line)
             n == Len(body)
  <1>5. /\ at' \in {"error", "trailer", "chunk"}
        /\ at' = "error" => BadSize(line) \/ (m # 0 /\ n + m > MaxBody)
        /\ at' = "trailer" => m = 0
        /\ at' = "chunk" => m # 0 /\ n + m <= MaxBody
    <2>1. at' = IF BadSize(line) THEN "error" ELSE IF m = 0 THEN "trailer" ELSE IF ChunkFits(m) THEN "chunk" ELSE "error"
      BY <1>1 DEF AfterLine
    <2>2. ChunkFits(m) <=> n + m <= MaxBody
      BY DEF ChunkFits
    <2> HIDE DEF m, n
    <2>3. ~(n + m <= MaxBody) => n + m > MaxBody
      BY <1>3, <1>4, Caps DEF m, n
    <2> QED BY <2>1, <2>2, <2>3
  <1> HIDE DEF m, n
  <1>6. /\ need' \in Nat /\ n + need' <= MaxBody /\ (at' = "chunk" => need' = m /\ need' > 0) /\ (at' = "trailer" => need' = 0)
    <2>1. m \in Nat /\ n \in Nat /\ n <= MaxBody /\ need' = IF at' = "chunk" THEN m ELSE 0
      BY <1>1, <1>3, <1>4 DEF m, n
    <2> QED BY <1>5, <2>1, Caps
  <1>7. Held'
    <2>1. Len(body') + need' <= MaxBody /\ body' \in Seq(Nat)
      BY <1>1, <1>3, <1>6 DEF n
    <2>2. 0 \in Nat /\ 0 <= MaxTrailer + MaxLine /\ 0 <= MaxTrailer /\ <<>> \in Seq(Nat) /\ Len(<<>>) <= MaxLine + 1
      BY Caps
    <2> QED BY <1>1, <1>5, <1>6, <2>1, <2>2 DEF Held, Stages
  <1>8. OneStory'
    BY <1>2, <1>3, <1>5 DEF OneStory
  <1>9. ASSUME genuine' PROVE OnTrack'
    <2>1. /\ Agrees(body, intended) /\ framing = "chunked" /\ \E M : Marked(wire, intended, M)
          /\ AtSize(wire, intended, Past, line, n)
      BY <1>2, <1>9, LineEndFacts DEF OnTrack, n
    <2>2. Agrees(body', intended')
      BY <1>1, <1>2, <2>1
    <2>3. /\ ~BadSize(line)
          /\ m = 0 => n = Len(intended) /\ EndAt(wire, Past + 1)
          /\ m # 0 => AtChunk(wire, intended, Past + 1, m, n)
      BY <1>2, <1>3, <2>1, SizeStep DEF m
    <2>4. m # 0 => n + m <= Len(intended)
      BY <2>3 DEF AtChunk
    <2>5. CASE at' = "error"
      <3>1. n + m > MaxBody /\ m # 0
        BY <1>5, <2>3, <2>5
      <3>2. Len(intended) \in Nat
        BY <1>3
      <3>3. Len(intended') > MaxBody
        BY <1>2, <1>3, <1>4, <2>4, <3>1, <3>2, Caps DEF m, n
      <3> QED BY <2>2, <2>5, <3>3 DEF OnTrack, Excused
    <2>6. CASE at' = "trailer"
      <3>1. n = Len(intended) /\ EndAt(wire, Past + 1)
        BY <1>5, <2>3, <2>6
      <3>2. AtTrailer(wire, Past + 1, <<>>, 0)
        BY <1>2, <3>1 DEF EndAt, AtTrailer
      <3>3. Len(body') = Len(intended') /\ AtTrailer(wire', Past', line', trailers')
        BY <1>1, <1>2, <3>1, <3>2 DEF n
      <3> QED BY <1>2, <2>1, <2>2, <2>6, <3>3 DEF OnTrack
    <2>7. CASE at' = "chunk"
      <3>1. AtChunk(wire, intended, Past + 1, m, n) /\ need' = m
        BY <1>5, <1>6, <2>3, <2>7
      <3>2. AtChunk(wire', intended', Past', need', Len(body'))
        BY <1>1, <1>2, <3>1 DEF n
      <3> QED BY <1>2, <2>1, <2>2, <2>7, <3>2 DEF OnTrack
    <2> QED BY <1>5, <2>5, <2>6, <2>7
  <1> QED BY <1>2, <1>7, <1>8, <1>9 DEF HttpInv

\* The line end after a chunk.
LEMMA ChunkEnds == HttpInv /\ ReadLine /\ Symbol = Crlf /\ at = "chunkEnd" => HttpInv'
  <1> SUFFICES ASSUME HttpInv, ReadLine, Symbol = Crlf, at = "chunkEnd" PROVE HttpInv'
    OBVIOUS
  <1>1. /\ line' = <<>> /\ at' = AfterLine(line) /\ body' = body
        /\ need' = (IF at' = "chunk" THEN SizeOf(line) ELSE 0) /\ trailers' = 0
        /\ got' \in Nat /\ got' <= reach' /\ got' >= HeadSize'
        /\ elapsed' \in Nat /\ elapsed' < HttpDeadline + IoTimeout
    BY LineEndFacts
  <1>2. /\ Past \in Nat /\ Past' = Past + 1
        /\ Meant' /\ genuine' = genuine /\ intended' = intended /\ framing' = framing
        /\ lines' = lines /\ wire' = wire /\ role' = role
    BY LineEndFacts
  <1>3. /\ body \in Seq(Nat) /\ Len(body) \in Nat /\ Len(body) <= MaxBody
        /\ role = "response" /\ IsChunked(lines)
    BY LineEndFacts
  <1>4. at' = IF line = <<>> THEN "size" ELSE "error"
    BY <1>1 DEF AfterLine
  <1>5. at' \in {"size", "error"} /\ (at' = "error" => line # <<>>) /\ need' = 0
    BY <1>1, <1>4
  <1>6. Held'
    <2>1. Len(body') + need' <= MaxBody /\ body' \in Seq(Nat)
      <3> DEFINE n == Len(body)
      <3>1. n \in Nat /\ n <= MaxBody /\ Len(body') = n
        BY <1>1, <1>3
      <3> HIDE DEF n
      <3>2. Len(body') + need' <= MaxBody
        BY <1>5, <3>1
      <3> QED BY <1>1, <1>3, <3>2
    <2>2. 0 \in Nat /\ 0 <= MaxTrailer + MaxLine /\ 0 <= MaxTrailer /\ <<>> \in Seq(Nat) /\ Len(<<>>) <= MaxLine + 1
      BY Caps
    <2> QED BY <1>1, <1>5, <2>1, <2>2 DEF Held, Stages
  <1>7. OneStory'
    BY <1>2, <1>3, <1>5 DEF OneStory
  <1>8. ASSUME genuine' PROVE OnTrack'
    <2>1. /\ Agrees(body, intended) /\ framing = "chunked" /\ line = <<>>
          /\ AtChunkEnd(wire, intended, Past, Len(body))
      BY <1>2, <1>8, LineEndFacts DEF OnTrack
    <2>2. Agrees(body', intended') /\ at' = "size"
      BY <1>1, <1>2, <1>4, <2>1
    <2>3. AtSize(wire, intended, Past + 1, <<>>, Len(body))
      <3>1. <<Past + 1, Len(body)>> \in Marks(wire, intended)
        BY <2>1 DEF AtChunkEnd
      <3>2. Len(<<>>) = 0 /\ (Past + 1) - 0 = Past + 1 /\ Past + 1 \in Nat
        BY <1>2
      <3>3. \A i \in 1 .. 0 : FALSE
        OBVIOUS
      <3> QED BY <3>1, <3>2, <3>3 DEF AtSize
    <2>4. AtSize(wire', intended', Past', line', Len(body'))
      BY <1>1, <1>2, <2>3
    <2> QED BY <1>2, <2>1, <2>2, <2>4 DEF OnTrack
  <1> QED BY <1>2, <1>6, <1>7, <1>8 DEF HttpInv

\* A line of the trailer section, or the blank one that ends the message.
LEMMA TrailerEnds == HttpInv /\ ReadLine /\ Symbol = Crlf /\ at = "trailer" => HttpInv'
  <1> SUFFICES ASSUME HttpInv, ReadLine, Symbol = Crlf, at = "trailer" PROVE HttpInv'
    OBVIOUS
  <1> DEFINE k == Len(line)
             t == trailers
  <1>1. /\ line' = <<>> /\ at' = AfterLine(line) /\ body' = body
        /\ need' = (IF at' = "chunk" THEN SizeOf(line) ELSE 0) /\ trailers' = t + k
        /\ got' \in Nat /\ got' <= reach' /\ got' >= HeadSize'
        /\ elapsed' \in Nat /\ elapsed' < HttpDeadline + IoTimeout
    BY LineEndFacts
  <1>2. /\ Past \in Nat /\ Past + 1 <= Len(wire) /\ Past' = Past + 1 /\ wire[Past + 1] = Crlf
        /\ Meant' /\ genuine' = genuine /\ intended' = intended /\ framing' = framing
        /\ lines' = lines /\ wire' = wire /\ role' = role
    BY LineEndFacts
  <1>3. /\ body \in Seq(Nat) /\ Len(body) \in Nat /\ Len(body) <= MaxBody /\ wire \in Seq(Nat)
        /\ role = "response" /\ IsChunked(lines)
    BY LineEndFacts
  <1>4. k \in Nat /\ k <= MaxLine /\ t \in Nat /\ t <= MaxTrailer
    BY LineEndFacts
  <1>5. at' = IF line = <<>> THEN "ok" ELSE IF t + k > MaxTrailer THEN "error" ELSE "trailer"
    BY <1>1 DEF AfterLine
  <1>6. line = <<>> => k = 0
    OBVIOUS
  <1> HIDE DEF k, t
  <1>7. /\ at' \in {"ok", "error", "trailer"} /\ need' = 0
        /\ at' = "ok" => line = <<>>
        /\ at' = "error" => line # <<>> /\ t + k > MaxTrailer
        /\ at' = "trailer" => line # <<>> /\ ~(t + k > MaxTrailer)
    BY <1>1, <1>5
  <1>8. trailers' \in Nat /\ trailers' <= MaxTrailer + MaxLine /\ (at' # "error" => trailers' <= MaxTrailer)
    BY <1>1, <1>4, <1>6, <1>7, Caps
  <1>9. Held'
    <2>1. Len(body') + need' <= MaxBody /\ body' \in Seq(Nat)
      <3> DEFINE n == Len(body)
      <3>1. n \in Nat /\ n <= MaxBody /\ Len(body') = n
        BY <1>1, <1>3
      <3> HIDE DEF n
      <3>2. Len(body') + need' <= MaxBody
        BY <1>7, <3>1
      <3> QED BY <1>1, <1>3, <3>2
    <2>2. 0 \in Nat /\ <<>> \in Seq(Nat) /\ Len(<<>>) <= MaxLine + 1
      BY Caps
    <2> QED BY <1>1, <1>7, <1>8, <2>1, <2>2 DEF Held, Stages
  <1>10. OneStory'
    BY <1>2, <1>3, <1>7 DEF OneStory
  <1>11. ASSUME genuine' PROVE OnTrack'
    <2>1. /\ Agrees(body, intended) /\ framing = "chunked" /\ Len(body) = Len(intended)
          /\ AtTrailer(wire, Past, line, t)
      BY <1>2, <1>11, LineEndFacts DEF OnTrack, t
    <2>2. Agrees(body', intended') /\ Len(body') = Len(intended')
      BY <1>1, <1>2, <2>1
    <2>3. /\ line = <<>> => Len(wire) = Past + 1
          /\ line # <<>> => k = 1 /\ t = 0 /\ AtTrailer(wire, Past + 1, <<>>, 1)
      BY <1>2, <1>3, <2>1, TrailerStep DEF k
    <2>4. CASE at' = "ok"
      <3>1. Past' = Len(wire')
        BY <1>2, <1>7, <2>3, <2>4
      <3> QED BY <2>2, <2>4, <3>1 DEF OnTrack
    <2>5. CASE at' = "error"
      <3>1. k = 1 /\ t = 0 /\ t + k > MaxTrailer
        BY <1>7, <2>3, <2>5
      <3> QED BY <3>1, Caps
    <2>6. CASE at' = "trailer"
      <3>1. k = 1 /\ t = 0 /\ AtTrailer(wire, Past + 1, <<>>, 1)
        BY <1>7, <2>3, <2>6
      <3>2. trailers' = 1
        BY <1>1, <3>1
      <3>3. AtTrailer(wire', Past', line', trailers')
        BY <1>1, <1>2, <3>1, <3>2
      <3> QED BY <1>2, <2>1, <2>2, <2>6, <3>3 DEF OnTrack
    <2> QED BY <1>7, <2>4, <2>5, <2>6
  <1> QED BY <1>2, <1>9, <1>10, <1>11 DEF HttpInv

LEMMA ReadLineInv == HttpInv /\ ReadLine => HttpInv'
  <1>1. ReadLine => at \in {"size", "chunkEnd", "trailer"}
    BY DEF ReadLine
  <1> QED BY <1>1, LineGrows, SizeEnds, ChunkEnds, TrailerEnds

\* The last place of a finite set of places.
LEMMA LastPlace ==
    ASSUME NEW N \in Nat, NEW c \in SUBSET (1 .. N), c # {}
    PROVE  \E i \in c : \A j \in c : j <= i
  <1> DEFINE T == {k \in Nat : \E i \in c : k = N - i}
  <1>1. T \in SUBSET Nat
    OBVIOUS
  <1>2. T # {}
    <2>1. PICK i \in c : TRUE
      OBVIOUS
    <2>2. i \in 1 .. N
      OBVIOUS
    <2>3. N - i \in Nat
      BY <2>2
    <2> QED BY <2>3
  <1>3. PICK k \in T : \A h \in T : k <= h
    BY <1>1, <1>2, LeastElement
  <1>4. PICK i \in c : k = N - i
    BY <1>3
  <1>5. ASSUME NEW j \in c PROVE j <= i
    <2>1. i \in 1 .. N /\ j \in 1 .. N
      OBVIOUS
    <2>2. N - j \in Nat
      BY <2>1
    <2>3. N - j \in T
      BY <2>2
    <2>4. k <= N - j
      BY <1>3, <2>3
    <2> HIDE DEF T
    <2> QED BY <1>4, <2>1, <2>4
  <1> QED BY <1>5

\* A head that is not refused declares one length at most.
LEMMA OneLength ==
    ASSUME Meant, ~BadHead(lines), DeclaredLengths(lines) # {}
    PROVE  DeclaredLengths(lines) = {Declared} /\ Declared \in Nat /\ Declared <= MaxBody
  <1> DEFINE c == {i \in DOMAIN lines : lines[i].name = "content-length"}
             N == Len(lines)
             last == CHOOSE i \in c : \A j \in c : j <= i
  <1>1. lines \in Seq(HeaderLine) /\ role \in {"response", "request"}
    BY DEF Meant
  <1>2. N \in Nat /\ DOMAIN lines = 1 .. N
    BY <1>1
  <1>3. DeclaredLengths(lines) = {lines[i].value : i \in c}
    BY DEF DeclaredLengths
  <1>4. c # {}
    BY <1>3
  <1>5. \E i \in c : \A j \in c : j <= i
    <2>1. c \in SUBSET (1 .. N)
      BY <1>2
    <2> HIDE DEF c, N
    <2> QED BY <1>2, <1>4, <2>1, LastPlace
  <1>6. last \in c
    <2> HIDE DEF c
    <2> QED BY <1>5
  <1>7. Declared = lines[last].value
    BY DEF Declared
  <1>8. last \in DOMAIN lines
    BY <1>6
  <1> HIDE DEF last
  <1>9. lines[last] \in HeaderLine
    BY <1>1, <1>8
  <1>10. Declared \in Nat /\ Declared \in DeclaredLengths(lines)
    BY <1>3, <1>6, <1>7, <1>9 DEF HeaderLine
  <1>11. Declared <= MaxBody
    <2>1. ~(Declared > MaxBody)
      BY <1>10 DEF BadHead
    <2> QED BY <1>10, <2>1, Caps
  <1>12. ASSUME NEW x \in DeclaredLengths(lines) PROVE x = Declared
    <2>1. CASE role = "response"
      BY <1>10, <2>1 DEF BadHead
    <2>2. CASE role # "response"
      <3>1. \A i, j \in DOMAIN lines :
              ~(i # j /\ lines[i].name = "content-length" /\ lines[j].name = "content-length")
        BY <2>2 DEF BadHead
      <3>2. PICK i \in c : x = lines[i].value
        BY <1>3
      <3>3. i = last
        BY <1>6, <3>1, <3>2
      <3> QED BY <1>7, <3>2, <3>3
    <2> QED BY <2>1, <2>2
  <1> QED BY <1>10, <1>11, <1>12

\* A genuine head is refused for its length alone.
LEMMA GenuineHead ==
    ASSUME Meant, genuine
    PROVE  /\ BadHead(lines) => Len(intended) > MaxBody
           /\ framing = "length" => DeclaredLengths(lines) = {Len(intended)} /\ ~IsChunked(lines)
           /\ framing = "chunked" => role = "response" /\ IsChunked(lines)
           /\ framing = "close" => role = "response" /\ ~IsChunked(lines) /\ DeclaredLengths(lines) = {}
           /\ framing = "none" => role = "request" /\ DeclaredLengths(lines) = {}
  <1>1. /\ framing \in {"length", "chunked", "close", "none"}
        /\ (role = "request" => framing \in {"length", "none"}) /\ (framing = "none" => role = "request")
        /\ lines = FramedHead(intended, framing) /\ intended \in Seq(Nat) /\ role \in {"response", "request"}
    BY DEF Meant, Framed
  <1>2. \A i, j \in DOMAIN lines : i = j /\ lines[i].name # "malformed"
    BY <1>1, HeadSays
  <1>3. /\ framing = "length" => DeclaredLengths(lines) = {Len(intended)} /\ Codings(lines) = {}
        /\ framing = "chunked" => DeclaredLengths(lines) = {} /\ IsChunked(lines)
        /\ framing \in {"close", "none"} => DeclaredLengths(lines) = {} /\ Codings(lines) = {}
    BY <1>1, HeadSays
  <1>4. Codings(lines) = {} => ~IsChunked(lines)
    BY DEF IsChunked
  <1>5. DeclaredLengths(lines) \subseteq {Len(intended)}
    BY <1>1, <1>3
  <1>6. BadHead(lines) => Len(intended) > MaxBody
    <2>1. role = "request" => Codings(lines) = {}
      BY <1>1, <1>3
    <2> QED BY <1>1, <1>2, <1>5, <2>1 DEF BadHead
  <1> QED BY <1>1, <1>3, <1>4, <1>6

LEMMA ParseHeadInv == HttpInv /\ ParseHead => HttpInv'
  <1> SUFFICES ASSUME HttpInv, ParseHead PROVE HttpInv'
    OBVIOUS
  <1> DEFINE Bad == BadHead(lines)
             Chunky == role = "response" /\ IsChunked(lines)
             Some == DeclaredLengths(lines) # {}
  <1>1. /\ at = "head" /\ got + 1 = HeadSize /\ Reads
        /\ line' = line /\ trailers' = trailers /\ body' = body
        /\ need' = (IF at' = "exact" THEN Declared ELSE 0)
        /\ at' = IF Bad THEN "error" ELSE IF Chunky THEN "size"
                 ELSE IF Some THEN (IF Declared = 0 THEN "ok" ELSE "exact")
                 ELSE IF role = "request" THEN "ok" ELSE "rest"
    BY DEF ParseHead
  <1> HIDE DEF Bad, Chunky, Some
  <1>2. /\ Bad => at' = "error"
        /\ ~Bad /\ Chunky => at' = "size"
        /\ ~Bad /\ ~Chunky /\ Some => at' = IF Declared = 0 THEN "ok" ELSE "exact"
        /\ ~Bad /\ ~Chunky /\ ~Some => at' = IF role = "request" THEN "ok" ELSE "rest"
    BY <1>1
  <1>3. Meant /\ Held /\ (genuine => OnTrack)
    BY DEF HttpInv
  <1>4. body = <<>> /\ line = <<>> /\ trailers = 0
    BY <1>1, <1>3 DEF Held
  <1>5. /\ got \in Nat /\ got' = got + 1 /\ got' \in Nat /\ got' <= reach' /\ UNCHANGED messageVars
        /\ elapsed' \in Nat /\ elapsed' < HttpDeadline + IoTimeout
    BY <1>1, ReadsFacts
  <1>6. /\ Meant' /\ HeadSize' = HeadSize /\ genuine' = genuine /\ intended' = intended /\ framing' = framing
        /\ lines' = lines /\ wire' = wire /\ role' = role
    BY <1>3, <1>5, MeantStays
  <1>7. HeadSize \in Nat /\ Len(wire) \in Nat /\ Len(intended) \in Nat
    BY <1>3, MeantNumbers
  <1>8. got' = HeadSize' /\ got' >= HeadSize' /\ Past' = 0
    BY <1>1, <1>5, <1>6, <1>7 DEF Past
  <1>9. ~Bad /\ Some => DeclaredLengths(lines) = {Declared} /\ Declared \in Nat /\ Declared <= MaxBody
    BY <1>3, OneLength DEF Bad, Some
  <1>10. at' \in {"error", "size", "ok", "exact", "rest"}
    BY <1>2
  <1>11. at' = "exact" => ~Bad /\ ~Chunky /\ Some /\ Declared # 0
    BY <1>2
  <1>12. /\ at' = "rest" => ~Bad /\ ~Chunky /\ ~Some /\ role # "request"
         /\ at' = "size" => ~Bad /\ Chunky
         /\ at' = "ok" => ~Bad /\ ~Chunky /\ (Some => Declared = 0) /\ (~Some => role = "request")
         /\ at' = "error" => Bad
    BY <1>2
  <1>13. Len(<<>>) = 0 /\ <<>> \in Seq(Nat) /\ body' = <<>> /\ line' = <<>> /\ trailers' = 0
    BY <1>1, <1>4
  <1>14. need' \in Nat /\ need' <= MaxBody /\ (at' = "exact" => need' = Declared /\ need' > 0) /\ (at' # "exact" => need' = 0)
    <2>1. CASE at' = "exact"
      <3>1. need' = Declared
        BY <1>1, <2>1
      <3> QED BY <1>9, <1>11, <2>1, <3>1
    <2>2. CASE at' # "exact"
      <3>1. need' = 0
        BY <1>1, <2>2
      <3> QED BY <2>2, <3>1, Caps
    <2> QED BY <2>1, <2>2
  <1>15. Held'
    <2>1. Len(body') = 0 /\ Len(line') = 0
      BY <1>13
    <2>4. ASSUME NEW z, z = 0, NEW x \in Nat, x <= MaxBody PROVE z + x <= MaxBody /\ z <= MaxLine + 1
      BY <2>4, Caps
    <2>5. need' \in Nat /\ need' <= MaxBody /\ 0 <= MaxBody
      BY <1>14, Caps
    <2>3. Len(body') + need' <= MaxBody /\ Len(line') <= MaxLine + 1
      BY <2>1, <2>4, <2>5
    <2>2. 0 \in Nat /\ 0 <= MaxTrailer + MaxLine /\ 0 <= MaxTrailer
      BY Caps
    <2> QED BY <1>5, <1>8, <1>10, <1>13, <1>14, <2>2, <2>3 DEF Held, Stages
  <1>16. OneStory'
    <2>1. at' = "exact" => DeclaredLengths(lines') \subseteq {Len(body') + need'}
      <3>1. at' = "exact" => DeclaredLengths(lines') = {need'} /\ need' \in Nat
        BY <1>6, <1>9, <1>11, <1>14
      <3>2. Len(body') = 0
        BY <1>13
      <3>4. ASSUME NEW z, z = 0, NEW x \in Nat PROVE z + x = x
        BY <3>4
      <3>3. need' \in Nat => Len(body') + need' = need'
        BY <3>2, <3>4
      <3> QED BY <3>1, <3>3
    <2>2. at' = "rest" => DeclaredLengths(lines') = {}
      BY <1>6, <1>12 DEF Some
    <2>3. at' = "size" => role' = "response" /\ IsChunked(lines')
      BY <1>6, <1>12 DEF Chunky
    <2>4. at' = "ok" => DeclaredLengths(lines') \subseteq {Len(body')}
      <3>1. CASE at' = "ok" /\ Some
        BY <1>6, <1>9, <1>12, <1>13, <3>1
      <3>2. CASE at' = "ok" /\ ~Some
        BY <1>6, <3>2 DEF Some
      <3> QED BY <3>1, <3>2
    <2> QED BY <1>10, <2>1, <2>2, <2>3, <2>4 DEF OneStory
  <1>17. ASSUME genuine' PROVE OnTrack'
    <2>0. Meant /\ genuine
      BY <1>3, <1>6, <1>17
    <2>1. /\ framing \in {"length", "chunked", "close", "none"}
          /\ framing = "none" => intended = <<>>
          /\ framing # "chunked" => wire = intended
          /\ framing = "chunked" => \E M : Marked(wire, intended, M)
          /\ wire \in Seq(Nat) /\ intended \in Seq(Nat)
      BY <2>0 DEF Meant, Framed
    <2>2. /\ Bad => Len(intended) > MaxBody
          /\ framing = "length" => DeclaredLengths(lines) = {Len(intended)} /\ ~Chunky
          /\ framing = "chunked" => Chunky
          /\ framing = "close" => role = "response" /\ ~Chunky /\ ~Some
          /\ framing = "none" => role = "request" /\ ~Chunky /\ ~Some
      BY <2>0, GenuineHead DEF Bad, Chunky, Some
    <2>3. Agrees(body', intended')
      BY <1>6, <1>7, <1>13 DEF Agrees
    <2>4. CASE at' = "error"
      BY <1>6, <1>12, <2>2, <2>3, <2>4 DEF OnTrack, Excused
    <2>5. CASE at' = "size"
      <3>1. framing = "chunked"
        BY <1>12, <2>1, <2>2, <2>5
      <3>2. <<0, 0>> \in Marks(wire, intended)
        <4>1. Marked(wire, intended, Marks(wire, intended))
          BY <2>1, <3>1 DEF Marks
        <4>2. \A M : Marked(wire, intended, M) => <<0, 0>> \in M
          BY DEF Marked, Linked
        <4> QED BY <4>1, <4>2
      <3>3. AtSize(wire, intended, 0, <<>>, 0)
        BY <1>13, <3>2 DEF AtSize
      <3>4. AtSize(wire', intended', Past', line', Len(body'))
        BY <1>6, <1>8, <1>13, <3>3
      <3> QED BY <1>6, <2>3, <2>5, <3>1, <3>4 DEF OnTrack
    <2>6. CASE at' = "exact"
      <3>1. framing = "length"
        BY <1>11, <2>1, <2>2, <2>6
      <3>2. Declared = Len(intended) /\ wire = intended
        BY <1>9, <1>11, <2>1, <2>2, <2>6, <3>1
      <3>3. Past' = Len(body') /\ Past' + need' = Len(wire')
        <4>1. Len(body') = 0 /\ Past' = 0
          BY <1>8, <1>13
        <4>2. need' = Len(wire') /\ need' \in Nat
          BY <1>6, <1>14, <2>6, <3>2
        <4> QED BY <4>1, <4>2
      <3> QED BY <1>6, <2>3, <2>6, <3>1, <3>3 DEF OnTrack
    <2>7. CASE at' = "rest"
      <3>1. framing = "close"
        BY <1>12, <2>1, <2>2, <2>7 DEF Some
      <3>2. Past' = Len(body')
        BY <1>8, <1>13
      <3> QED BY <1>6, <2>3, <2>7, <3>1, <3>2 DEF OnTrack
    <2>8. CASE at' = "ok" /\ framing = "none"
      <3>1. wire = intended /\ intended = <<>>
        BY <2>1, <2>8
      <3>2. Len(body') = Len(intended') /\ Past' = Len(wire')
        BY <1>6, <1>8, <1>13, <3>1
      <3> QED BY <2>3, <2>8, <3>2 DEF OnTrack
    <2>9. CASE at' = "ok" /\ framing # "none"
      <3>1. framing = "length"
        BY <1>12, <2>1, <2>2, <2>9
      <3>2. Some
        BY <2>2, <3>1 DEF Some
      <3>3. Declared = 0 /\ Declared = Len(intended) /\ wire = intended
        BY <1>9, <1>12, <2>1, <2>2, <2>9, <3>1, <3>2
      <3>4. Len(body') = Len(intended') /\ Past' = Len(wire')
        BY <1>6, <1>8, <1>13, <3>3
      <3> QED BY <2>3, <2>9, <3>4 DEF OnTrack
    <2> QED BY <1>10, <2>4, <2>5, <2>6, <2>7, <2>8, <2>9
  <1> QED BY <1>6, <1>15, <1>16, <1>17 DEF HttpInv

-----------------------------------------------------------------------------
(* The result *)

LEMMA NextInv == HttpInv /\ [HttpNext]_httpVars => HttpInv'
  <1> SUFFICES ASSUME HttpInv, [HttpNext]_httpVars PROVE HttpInv'
    OBVIOUS
  <1>1. CASE HttpNext
    BY <1>1, ReadHeadInv, ParseHeadInv, HeadTooLargeInv, ReadExactInv, ReadRestInv, ClosedRestInv,
       ReadLineInv, LineTooLongInv, ReadChunkInv, ClosedInv, LateInv DEF HttpNext
  <1>2. CASE UNCHANGED httpVars
    <2>1. /\ UNCHANGED messageVars /\ at' = at /\ got' = got /\ need' = need /\ line' = line
          /\ trailers' = trailers /\ body' = body /\ elapsed' = elapsed /\ silent' = silent
      BY <1>2 DEF httpVars, readerVars
    <2>2. Meant /\ Held /\ OneStory /\ (genuine => OnTrack)
      BY DEF HttpInv
    <2>3. /\ Meant' /\ HeadSize' = HeadSize /\ genuine' = genuine /\ intended' = intended /\ framing' = framing
          /\ lines' = lines /\ wire' = wire /\ role' = role /\ reach' = reach
      BY <2>1, <2>2, MeantStays
    <2>4. Held'
      BY <2>1, <2>2, <2>3 DEF Held
    <2>5. OneStory'
      BY <2>1, <2>2, <2>3 DEF OneStory
    <2>6. Past' = Past /\ (Excused' <=> Excused)
      BY <2>1, <2>3 DEF Past, Excused, InTime
    <2>7. genuine' => OnTrack'
      BY <2>1, <2>2, <2>3, <2>6 DEF OnTrack
    <2> QED BY <2>3, <2>4, <2>5, <2>7 DEF HttpInv
  <1> QED BY <1>1, <1>2

LEMMA InvHonest == HttpInv => MessageHonest
  <1> SUFFICES ASSUME HttpInv PROVE MessageHonest
    OBVIOUS
  <1>1. Meant /\ Held /\ OneStory /\ (genuine => OnTrack)
    BY DEF HttpInv
  <1>2. HeadSize \in Nat /\ Len(wire) \in Nat /\ reach \in Nat
    BY <1>1, MeantNumbers
  <1>3. body \in Seq(Nat) /\ intended \in Seq(Nat) /\ got \in Nat
    BY <1>1 DEF Held, Meant
  <1>4. HttpTypeOK
    <2>1. got \in 0 .. reach
      BY <1>1, <1>2 DEF Held
    <2> QED BY <1>1, <2>1 DEF Held, HttpTypeOK, Stages, Over
  <1>5. TrickleBounded
    BY <1>1 DEF Held, TrickleBounded
  <1>6. genuine => (Len(body) = Len(intended) => body = intended) /\ IsPrefix(body, intended)
    <2> SUFFICES ASSUME genuine PROVE (Len(body) = Len(intended) => body = intended) /\ IsPrefix(body, intended)
      OBVIOUS
    <2>1. Len(body) <= Len(intended) /\ \A i \in 1 .. Len(body) : body[i] = intended[i]
      BY <1>1 DEF OnTrack, Agrees
    <2>2. Len(body) = Len(intended) => body = intended
      BY <1>3, <2>1, SameSeq
    <2>3. IsPrefix(body, intended)
      <3> DEFINE n == Len(body)
      <3>1. n \in Nat /\ n <= Len(intended) /\ Len(intended) \in Nat
        BY <1>3, <2>1
      <3>2. SubSeq(body, 1, n) = [i \in 1 .. n |-> body[i]] /\ SubSeq(intended, 1, n) = [i \in 1 .. n |-> intended[i]]
        BY <1>3, <3>1
      <3>3. SubSeq(body, 1, n) = SubSeq(intended, 1, n)
        BY <2>1, <3>2
      <3> QED BY <3>1, <3>3 DEF IsPrefix
    <2> QED BY <2>2, <2>3
  <1>7. FramingHonest
    <2>1. ASSUME genuine, at = "ok" PROVE IF framing = "close" THEN IsPrefix(body, intended)
                                          ELSE body = intended /\ got = HeadSize + Len(wire)
      <3>1. CASE framing = "close"
        BY <1>6, <2>1, <3>1
      <3>2. CASE framing # "close"
        <4>1. Len(body) = Len(intended) /\ got - HeadSize = Len(wire)
          BY <1>1, <2>1, <3>2 DEF OnTrack, Past
        <4>2. got = HeadSize + Len(wire)
          BY <1>2, <1>3, <4>1
        <4> QED BY <1>6, <2>1, <3>2, <4>1, <4>2
      <3> QED BY <3>1, <3>2
    <2>2. genuine /\ at = "error" => reach < HeadSize + Len(wire) \/ silent \/ ~InTime \/ Len(intended) > MaxBody
      BY <1>1 DEF OnTrack, Excused
    <2>3. at = "ok" /\ ~(role = "response" /\ IsChunked(lines)) => DeclaredLengths(lines) \subseteq {Len(body)}
      BY <1>1 DEF OneStory
    <2> QED BY <2>1, <2>2, <2>3 DEF FramingHonest
  <1> QED BY <1>4, <1>5, <1>7 DEF MessageHonest

\* Whatever a sender writes and wherever the stream breaks off, read_response
\* and read_request (http.rs) buffer no more than their caps allow; a genuine
\* body, in one piece or in any number of chunks of any sizes, is returned as
\* it was sent, and is refused only when it was cut off, late or over the
\* cap; an accepted message is as long as it declares; and the exchange is
\* over by the deadline and one read's timeout (announce_over, tracker.rs).
THEOREM MessagesAlwaysHonest == HttpSpec => []MessageHonest
  <1>1. HttpInit => HttpInv
    BY InitInv
  <1>2. HttpInv /\ [HttpNext]_httpVars => HttpInv'
    BY NextInv
  <1>3. HttpInv => MessageHonest
    BY InvHonest
  <1> QED BY <1>1, <1>2, <1>3, PTL DEF HttpSpec

=============================================================================
