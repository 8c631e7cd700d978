--------------------------- MODULE RegistryProofs ---------------------------
(***************************************************************************)
(* Proofs about the registry.  Most of what is claimed only ever grows, so *)
(* the argument rests on the places where something is lost: a crash, a    *)
(* removal that deletes the data and a torrent that is forgotten.  The     *)
(* first is covered by keeping claims within what is synced or scanned (or *)
(* was written over by a connection that outlived a stop);                 *)
(* the other two need to know how the call got there, so the invariant     *)
(* also says which calls may still have such a step before them.           *)
(***************************************************************************)
EXTENDS Registry, TLAPS

Losing == {"delete_data", "forget"}

Special == Losing \cup {"add_resume"}

\* No step of s loses anything or makes an entry.
Plain(s) == \A n \in 1 .. Len(s) : s[n] \notin Special

\* What may be left of an add and of a removal that ends in the step e.
Adding ==
    {<<"add_torrent", "add_resume", "acknowledge">>, <<"add_resume", "acknowledge">>,
     <<"add_torrent", "add_resume", "drop_magnet">>, <<"add_resume", "drop_magnet">>}

Stopping(e) ==
    {<<"snapshot", "fsync", "take", "disconnect", "unlink_torrent", "unlink_resume", e>>,
     <<"fsync", "take", "disconnect", "unlink_torrent", "unlink_resume", e>>,
     <<"take", "disconnect", "unlink_torrent", "unlink_resume", e>>,
     <<"disconnect", "unlink_torrent", "unlink_resume", e>>}

Unlinking(e) ==
    {<<"unlink_torrent", "unlink_resume", e>>, <<"unlink_resume", e>>}

\* Where the running call stands: an add has no entry yet; a removal has no
\* scan beside it, no engine once it unlinks, and no record when it deletes.
CallStands ==
    \/ Plain(call)
    \/ call \in Adding /\ ~hosted
    \/ \E e \in Losing :
          /\ job = "none"
          /\ \/ call \in Stopping(e)
             \/ call \in Unlinking(e) /\ ~live
             \/ call = <<e>> /\ ~live /\ ~resumeFile

\* What a record may hold.
Record == [have : SUBSET Piece, verified : SUBSET Piece, wanted : Wanted]

\* Claims stay within what backs them.
ClaimsBacked ==
    /\ platter \subseteq cache
    /\ have \subseteq cache \cup scanned \cup spoiled
    /\ verified \subseteq platter \cup scanned \cup spoiled
    /\ engine \subseteq cache \cup scanned \cup spoiled
    /\ snap \subseteq cache \cup scanned \cup spoiled
    /\ found \subseteq cache \cup spoiled
    /\ resumeFile => record.verified \subseteq platter \cup scanned \cup spoiled

\* Who is there when: engine, scan and entry.
Presence ==
    /\ ~up => call = <<>> /\ ~live /\ job = "none"
    /\ live => hosted
    /\ ~live => engine = {} /\ snap = {}
    /\ scanning <=> job # "none"
    /\ job # "none" => hosted /\ ~live
    /\ job # "hashed" => found = {}

RegistryInv == TypeOK /\ CallStands /\ ClaimsBacked /\ Presence

-----------------------------------------------------------------------------
(* Sequences of steps *)

\* What is left of a plain call is plain.
LEMMA PlainTail ==
    ASSUME NEW s \in Seq(StepName), s # <<>>, Plain(s)
    PROVE  Tail(s) \in Seq(StepName) /\ Plain(Tail(s))
  <1>1. Tail(s) \in Seq(StepName) /\ Len(Tail(s)) = Len(s) - 1 /\ Len(s) \in Nat
    OBVIOUS
  <1>2. \A n \in 1 .. Len(Tail(s)) : Tail(s)[n] = s[n + 1] /\ n + 1 \in 1 .. Len(s)
    BY <1>1
  <1> QED BY <1>1, <1>2 DEF Plain

\* Plain steps put before a plain call leave it plain.
LEMMA PlainConcat ==
    ASSUME NEW a \in Seq(StepName), NEW b \in Seq(StepName), Plain(a), Plain(b)
    PROVE  a \o b \in Seq(StepName) /\ Plain(a \o b)
  <1>1. a \o b \in Seq(StepName) /\ Len(a \o b) = Len(a) + Len(b)
        /\ Len(a) \in Nat /\ Len(b) \in Nat
    OBVIOUS
  <1>2. ASSUME NEW n \in 1 .. Len(a \o b) PROVE (a \o b)[n] \notin Special
    <2>1. CASE n <= Len(a)
      <3>1. (a \o b)[n] = a[n] /\ n \in 1 .. Len(a)
        BY <1>1, <2>1
      <3> QED BY <3>1 DEF Plain
    <2>2. CASE n > Len(a)
      <3>1. (a \o b)[n] = b[n - Len(a)] /\ n - Len(a) \in 1 .. Len(b)
        BY <1>1, <2>2
      <3> QED BY <3>1 DEF Plain
    <2> QED BY <1>1, <2>1, <2>2
  <1> QED BY <1>1, <1>2 DEF Plain

\* A list of a few plain steps is plain.
LEMMA PlainLists ==
    ASSUME NEW w \in StepName \ Special, NEW x \in StepName \ Special,
           NEW y \in StepName \ Special, NEW z \in StepName \ Special
    PROVE  /\ <<w>> \in Seq(StepName) /\ Plain(<<w>>)
           /\ <<w, x>> \in Seq(StepName) /\ Plain(<<w, x>>)
           /\ <<w, x, y>> \in Seq(StepName) /\ Plain(<<w, x, y>>)
           /\ <<w, x, y, z>> \in Seq(StepName) /\ Plain(<<w, x, y, z>>)
  <1>1. <<w>> \in Seq(StepName) /\ Plain(<<w>>)
    <2>1. ASSUME NEW n \in 1 .. Len(<<w>>) PROVE <<w>>[n] \notin Special
      <3>1. n \in {1}
        OBVIOUS
      <3> QED BY <3>1
    <2> QED BY <2>1 DEF Plain
  <1>2. <<w, x>> \in Seq(StepName) /\ Plain(<<w, x>>)
    <2>1. ASSUME NEW n \in 1 .. Len(<<w, x>>) PROVE <<w, x>>[n] \notin Special
      <3>1. n \in {1, 2}
        OBVIOUS
      <3> QED BY <3>1
    <2> QED BY <2>1 DEF Plain
  <1>3. <<w, x, y>> \in Seq(StepName) /\ Plain(<<w, x, y>>)
    <2>1. ASSUME NEW n \in 1 .. Len(<<w, x, y>>) PROVE <<w, x, y>>[n] \notin Special
      <3>1. n \in {1, 2, 3}
        OBVIOUS
      <3> QED BY <3>1
    <2> QED BY <2>1 DEF Plain
  <1>4. <<w, x, y, z>> \in Seq(StepName) /\ Plain(<<w, x, y, z>>)
    <2>1. ASSUME NEW n \in 1 .. Len(<<w, x, y, z>>) PROVE <<w, x, y, z>>[n] \notin Special
      <3>1. n \in {1, 2, 3, 4}
        OBVIOUS
      <3> QED BY <3>1
    <2> QED BY <2>1 DEF Plain
  <1> QED BY <1>1, <1>2, <1>3, <1>4

\* The steps the calls are made of are plain, but for adds and removals.
LEMMA PlainSteps ==
    /\ <<>> \in Seq(StepName) /\ Plain(<<>>)
    /\ StopSteps \in Seq(StepName) /\ Plain(StopSteps)
    /\ PersistSteps \in Seq(StepName) /\ Plain(PersistSteps)
    /\ \A e \in {"refresh", "reconcile", "detach", "write", "acknowledge", "drop_magnet"} :
          <<e>> \in Seq(StepName) /\ Plain(<<e>>)
    /\ <<"reconcile", "write">> \in Seq(StepName) /\ Plain(<<"reconcile", "write">>)
    /\ <<"publish", "reconcile">> \in Seq(StepName) /\ Plain(<<"publish", "reconcile">>)
    /\ <<"snapshot", "fsync", "write">> \in Seq(StepName)
    /\ Plain(<<"snapshot", "fsync", "write">>)
  <1> DEFINE S == StepName \ Special
  <1>1. {"snapshot", "fsync", "take", "disconnect", "refresh", "limits", "reconcile",
         "persist", "detach", "write", "acknowledge", "drop_magnet", "publish"} \subseteq S
    BY DEF StepName, Special, Losing
  <1> HIDE DEF S
  <1>2. \A w, x, y, z \in S :
           /\ <<w>> \in Seq(StepName) /\ Plain(<<w>>)
           /\ <<w, x>> \in Seq(StepName) /\ Plain(<<w, x>>)
           /\ <<w, x, y>> \in Seq(StepName) /\ Plain(<<w, x, y>>)
           /\ <<w, x, y, z>> \in Seq(StepName) /\ Plain(<<w, x, y, z>>)
    BY PlainLists DEF S
  <1>3. StopSteps \in Seq(StepName) /\ Plain(StopSteps)
    BY <1>1, <1>2, Zenon DEF StopSteps
  <1>4. PersistSteps \in Seq(StepName) /\ Plain(PersistSteps)
    BY <1>1, <1>2, Zenon DEF PersistSteps
  <1>5. \A e \in {"refresh", "reconcile", "detach", "write", "acknowledge", "drop_magnet"} :
          <<e>> \in Seq(StepName) /\ Plain(<<e>>)
    <2>1. ASSUME NEW e \in {"refresh", "reconcile", "detach", "write", "acknowledge", "drop_magnet"}
          PROVE  e \in S
      BY <1>1
    <2>2. \A e \in S : <<e>> \in Seq(StepName) /\ Plain(<<e>>)
      BY <1>2, Zenon
    <2> QED BY <2>1, <2>2, Zenon
  <1>6. /\ <<"reconcile", "write">> \in Seq(StepName) /\ Plain(<<"reconcile", "write">>)
        /\ <<"publish", "reconcile">> \in Seq(StepName) /\ Plain(<<"publish", "reconcile">>)
    BY <1>1, <1>2, Zenon
  <1>7. <<"snapshot", "fsync", "write">> \in Seq(StepName)
        /\ Plain(<<"snapshot", "fsync", "write">>)
    BY <1>1, <1>2, Zenon
  <1>8. <<>> \in Seq(StepName) /\ Plain(<<>>)
    BY DEF Plain
  <1> QED BY <1>3, <1>4, <1>5, <1>6, <1>7, <1>8

\* Two lists in a row are the list of their entries.
LEMMA ConcatIs ==
    ASSUME NEW S, NEW a \in Seq(S), NEW b \in Seq(S), NEW c \in Seq(S),
           Len(c) = Len(a) + Len(b),
           \A i \in 1 .. Len(a) : c[i] = a[i],
           \A i \in 1 .. Len(b) : c[i + Len(a)] = b[i]
    PROVE  a \o b = c
  <1>1. Len(a \o b) = Len(c) /\ a \o b \in Seq(S) /\ Len(a) \in Nat /\ Len(b) \in Nat
    OBVIOUS
  <1>2. ASSUME NEW i \in 1 .. Len(c) PROVE (a \o b)[i] = c[i]
    <2>1. CASE i \in 1 .. Len(a)
      BY <2>1
    <2>2. CASE i \notin 1 .. Len(a)
      <3>1. i - Len(a) \in 1 .. Len(b) /\ i = (i - Len(a)) + Len(a)
        BY <2>2, <1>1
      <3>2. (a \o b)[i] = b[i - Len(a)]
        BY <2>2, <1>1
      <3> QED BY <3>1, <3>2
    <2> QED BY <2>1, <2>2
  <1> QED BY <1>1, <1>2

\* The steps of a removal that has an engine to stop.
LEMMA StopThenUnlink ==
    ASSUME NEW e \in StepName
    PROVE  StopSteps \o <<"unlink_torrent", "unlink_resume", e>>
           = <<"snapshot", "fsync", "take", "disconnect", "unlink_torrent",
               "unlink_resume", e>>
  <1> DEFINE a == <<"snapshot", "fsync", "take", "disconnect">>
             b == <<"unlink_torrent", "unlink_resume", e>>
             c == <<"snapshot", "fsync", "take", "disconnect", "unlink_torrent",
                    "unlink_resume", e>>
  <1>1. a \in Seq(StepName) /\ b \in Seq(StepName) /\ c \in Seq(StepName)
    BY DEF StepName
  <1>2. Len(a) = 4 /\ Len(b) = 3 /\ Len(c) = 7
    OBVIOUS
  <1>3. \A i \in 1 .. 4 : c[i] = a[i]
    OBVIOUS
  <1>4. \A i \in 1 .. 3 : c[i + 4] = b[i]
    OBVIOUS
  <1> HIDE DEF a, b, c
  <1>5. /\ Len(c) = Len(a) + Len(b)
        /\ \A i \in 1 .. Len(a) : c[i] = a[i]
        /\ \A i \in 1 .. Len(b) : c[i + Len(a)] = b[i]
    BY <1>2, <1>3, <1>4
  <1>6. a \o b = c
    BY <1>1, <1>5, ConcatIs, Zenon
  <1> QED BY <1>6, Zenon DEF a, b, c, StopSteps

\* How an add goes on.
LEMMA AddingWalk ==
    ASSUME NEW s \in Adding
    PROVE  \/ Head(s) = "add_torrent" /\ Tail(s) \in Adding
           \/ Head(s) = "add_resume" /\ Tail(s) \in {<<"acknowledge">>, <<"drop_magnet">>}
  <1> DEFINE a1 == <<"add_torrent", "add_resume", "acknowledge">>
             a2 == <<"add_resume", "acknowledge">>
             b1 == <<"add_torrent", "add_resume", "drop_magnet">>
             b2 == <<"add_resume", "drop_magnet">>
  <1>1. /\ Head(a1) = "add_torrent" /\ Tail(a1) = a2
        /\ Head(b1) = "add_torrent" /\ Tail(b1) = b2
    OBVIOUS
  <1>2. /\ Head(a2) = "add_resume" /\ Tail(a2) = <<"acknowledge">>
        /\ Head(b2) = "add_resume" /\ Tail(b2) = <<"drop_magnet">>
    OBVIOUS
  <1>3. Adding = {a1, a2, b1, b2}
    BY Zenon DEF Adding
  <1> HIDE DEF a1, a2, b1, b2
  <1> QED BY <1>1, <1>2, <1>3, Zenon

\* How a removal goes on while it stops the engine.
LEMMA StoppingWalk ==
    ASSUME NEW e, NEW s \in Stopping(e)
    PROVE  \/ Head(s) \in {"snapshot", "fsync", "take"} /\ Tail(s) \in Stopping(e)
           \/ Head(s) = "disconnect" /\ Tail(s) \in Unlinking(e)
  <1> DEFINE a1 == <<"snapshot", "fsync", "take", "disconnect", "unlink_torrent",
                     "unlink_resume", e>>
             a2 == <<"fsync", "take", "disconnect", "unlink_torrent", "unlink_resume", e>>
             a3 == <<"take", "disconnect", "unlink_torrent", "unlink_resume", e>>
             a4 == <<"disconnect", "unlink_torrent", "unlink_resume", e>>
             b1 == <<"unlink_torrent", "unlink_resume", e>>
  <1>1. Head(a1) = "snapshot" /\ Tail(a1) = a2
    OBVIOUS
  <1>2. Head(a2) = "fsync" /\ Tail(a2) = a3
    OBVIOUS
  <1>3. Head(a3) = "take" /\ Tail(a3) = a4
    OBVIOUS
  <1>4. Head(a4) = "disconnect" /\ Tail(a4) = b1
    OBVIOUS
  <1>5. Stopping(e) = {a1, a2, a3, a4} /\ b1 \in Unlinking(e)
    BY Zenon DEF Stopping, Unlinking
  <1> HIDE DEF a1, a2, a3, a4, b1
  <1> QED BY <1>1, <1>2, <1>3, <1>4, <1>5, Zenon

\* How it goes on after that.
LEMMA UnlinkingWalk ==
    ASSUME NEW e, NEW s \in Unlinking(e)
    PROVE  \/ Head(s) = "unlink_torrent" /\ Tail(s) \in Unlinking(e)
           \/ Head(s) = "unlink_resume" /\ Tail(s) = <<e>>
  <1> DEFINE b1 == <<"unlink_torrent", "unlink_resume", e>>
             b2 == <<"unlink_resume", e>>
  <1>1. Head(b1) = "unlink_torrent" /\ Tail(b1) = b2
    OBVIOUS
  <1>2. Head(b2) = "unlink_resume" /\ Tail(b2) = <<e>>
    OBVIOUS
  <1>3. Unlinking(e) = {b1, b2}
    BY Zenon DEF Unlinking
  <1> HIDE DEF b1, b2
  <1> QED BY <1>1, <1>2, <1>3, Zenon

\* Where the call stands follows from the step it is at.
LEMMA StandsAt ==
    ASSUME CallStands, call # <<>>
    PROVE  /\ Head(call) \notin Special \cup
                 {"snapshot", "fsync", "take", "disconnect", "unlink_torrent",
                  "unlink_resume", "add_torrent"} => Plain(call)
           /\ Head(call) \in {"snapshot", "fsync", "take", "disconnect"} =>
                 \/ Plain(call)
                 \/ \E e \in Losing : job = "none" /\ call \in Stopping(e)
           /\ Head(call) \in {"unlink_torrent", "unlink_resume"} =>
                 \/ Plain(call)
                 \/ \E e \in Losing : job = "none" /\ call \in Unlinking(e) /\ ~live
           /\ Head(call) = "add_torrent" => Plain(call) \/ (call \in Adding /\ ~hosted)
  <1>1. CASE Plain(call)
    BY <1>1
  <1>2. CASE call \in Adding /\ ~hosted
    BY <1>2, AddingWalk DEF Special, Losing
  <1>3. CASE \E e \in Losing : /\ job = "none"
                               /\ \/ call \in Stopping(e)
                                  \/ call \in Unlinking(e) /\ ~live
                                  \/ call = <<e>> /\ ~live /\ ~resumeFile
    <2>1. PICK e \in Losing : /\ job = "none"
                              /\ \/ call \in Stopping(e)
                                 \/ call \in Unlinking(e) /\ ~live
                                 \/ call = <<e>> /\ ~live /\ ~resumeFile
      BY <1>3
    <2>2. CASE call \in Stopping(e)
      BY <2>1, <2>2, StoppingWalk DEF Special, Losing
    <2>3. CASE call \in Unlinking(e) /\ ~live
      BY <2>1, <2>3, UnlinkingWalk DEF Special, Losing
    <2>4. CASE call = <<e>>
      <3>1. Head(<<e>>) = e
        OBVIOUS
      <3>2. Head(call) \in Special
        BY <2>4, <3>1, Zenon DEF Special, Losing
      <3> QED BY <3>2 DEF Special, Losing
    <2> QED BY <2>1, <2>2, <2>3, <2>4
  <1> QED BY <1>1, <1>2, <1>3 DEF CallStands

\* The special steps are only reached the way they should be.
LEMMA StandsAtSpecial ==
    ASSUME TypeOK, CallStands, call # <<>>, Head(call) \in Special
    PROVE  \/ /\ Head(call) = "add_resume"
              /\ ~hosted
              /\ Tail(call) \in {<<"acknowledge">>, <<"drop_magnet">>}
           \/ /\ Head(call) \in Losing
              /\ job = "none" /\ ~live /\ ~resumeFile
              /\ Tail(call) = <<>>
  <1>1. ~Plain(call)
    <2>1. 1 \in 1 .. Len(call) /\ call[1] = Head(call)
      BY DEF TypeOK
    <2> QED BY <2>1 DEF Plain
  <1>2. CASE call \in Adding /\ ~hosted
    BY <1>2, AddingWalk DEF Special, Losing
  <1>3. CASE \E e \in Losing : /\ job = "none"
                               /\ \/ call \in Stopping(e)
                                  \/ call \in Unlinking(e) /\ ~live
                                  \/ call = <<e>> /\ ~live /\ ~resumeFile
    <2>1. PICK e \in Losing : /\ job = "none"
                              /\ \/ call \in Stopping(e)
                                 \/ call \in Unlinking(e) /\ ~live
                                 \/ call = <<e>> /\ ~live /\ ~resumeFile
      BY <1>3
    <2>2. call \notin Stopping(e)
      BY StoppingWalk DEF Special, Losing
    <2>3. call \notin Unlinking(e)
      BY UnlinkingWalk DEF Special, Losing
    <2>4. call = <<e>> /\ ~live /\ ~resumeFile
      BY <2>1, <2>2, <2>3
    <2>5. Head(<<e>>) = e /\ Tail(<<e>>) = <<>>
      OBVIOUS
    <2> QED BY <2>1, <2>4, <2>5
  <1> QED BY <1>1, <1>2, <1>3 DEF CallStands

\* A step that only plain calls have: what is left after it has added plain
\* steps is plain.
LEMMA PlainStep ==
    ASSUME TypeOK, CallStands, call # <<>>,
           Head(call) \notin Special \cup
               {"snapshot", "fsync", "take", "disconnect", "unlink_torrent",
                "unlink_resume", "add_torrent"},
           NEW more \in Seq(StepName), Plain(more)
    PROVE  more \o Tail(call) \in Seq(StepName) /\ Plain(more \o Tail(call))
  <1>1. Plain(call)
    BY StandsAt
  <1>2. Tail(call) \in Seq(StepName) /\ Plain(Tail(call))
    BY <1>1, PlainTail DEF TypeOK
  <1> QED BY <1>2, PlainConcat

\* Putting no step before the rest changes nothing.
LEMMA ProceedTail ==
    ASSUME TypeOK, call # <<>>
    PROVE  <<>> \o Tail(call) = Tail(call) /\ Tail(call) \in Seq(StepName)
  BY DEF TypeOK

\* A step of stop_live leaves the call where it should stand.
LEMMA StopStep ==
    ASSUME TypeOK, CallStands, call # <<>>,
           Head(call) \in {"snapshot", "fsync", "take", "disconnect"},
           Proceed(<<>>), job' = job,
           Head(call) = "disconnect" => ~live'
    PROVE  call' \in Seq(StepName) /\ CallStands'
  <1>1. call' = Tail(call) /\ call' \in Seq(StepName)
    BY ProceedTail DEF Proceed
  <1>2. CASE Plain(call)
    <2>1. Plain(Tail(call))
      BY <1>2, PlainTail DEF TypeOK
    <2> QED BY <1>1, <2>1 DEF CallStands, Plain
  <1>3. CASE \E e \in Losing : job = "none" /\ call \in Stopping(e)
    <2>1. PICK e \in Losing : job = "none" /\ call \in Stopping(e)
      BY <1>3
    <2>2. CASE Tail(call) \in Stopping(e)
      BY <1>1, <2>1, <2>2 DEF CallStands, Stopping
    <2>3. CASE Head(call) = "disconnect" /\ Tail(call) \in Unlinking(e)
      BY <1>1, <2>1, <2>3 DEF CallStands, Unlinking
    <2> QED BY <2>1, <2>2, <2>3, StoppingWalk
  <1> QED BY <1>1, <1>2, <1>3, StandsAt

\* A call that ends stands where it should, and so does one whose steps are
\* plain.
LEMMA PlainStands ==
    ASSUME Plain(call')
    PROVE  CallStands'
  BY DEF CallStands, Plain

\* What runs beside a call moves none of what its standing depends on.
LEMMA StandsBeside ==
    ASSUME CallStands, call' = call, hosted' = hosted, job' = job, live' = live,
           resumeFile' = resumeFile
    PROVE  CallStands'
  BY DEF CallStands, Plain, Adding, Stopping, Unlinking

-----------------------------------------------------------------------------
(* Every step keeps the call where it should stand *)

\* A call begins, or there is none.
LEMMA BeginStands ==
    ASSUME RegistryInv,
           \/ Operator \/ PersistTick \/ AttachNetwork \/ DetachNetwork
           \/ FinishScan \/ FailScan \/ Crash \/ LoadAll
           \/ \E f \in Fetcher : CompleteMagnet(f)
    PROVE  call' \in Seq(StepName) /\ CallStands'
  <1> USE DEF RegistryInv
  <1>0. ASSUME Plain(call'), call' \in Seq(StepName)
        PROVE  call' \in Seq(StepName) /\ CallStands'
    BY <1>0, PlainStands
  <1>1. ASSUME PersistTick PROVE call' \in Seq(StepName) /\ CallStands'
    BY <1>0, <1>1, PlainSteps DEF PersistTick, Begin
  <1>2. ASSUME \/ List \/ AttachNetwork \/ SetOption \/ FinishScan
               \/ \E b \in BOOLEAN : SetPaused(b) \/ SetSeedRatio(b)
        PROVE  call' \in Seq(StepName) /\ CallStands'
    BY <1>0, <1>2, PlainSteps
       DEF List, AttachNetwork, SetOption, FinishScan, SetPaused, SetSeedRatio, Begin
  <1>3. ASSUME DetachNetwork PROVE call' \in Seq(StepName) /\ CallStands'
    <2> DEFINE first == IF live THEN StopSteps ELSE <<>>
    <2>1. call' = first \o <<"detach">> \o PersistSteps
      BY <1>3 DEF DetachNetwork, Begin
    <2>2. first \in Seq(StepName) /\ Plain(first)
      BY PlainSteps
    <2> HIDE DEF first
    <2>3. first \o <<"detach">> \in Seq(StepName) /\ Plain(first \o <<"detach">>)
      BY <2>2, PlainSteps, PlainConcat
    <2>4. first \o <<"detach">> \o PersistSteps \in Seq(StepName)
          /\ Plain(first \o <<"detach">> \o PersistSteps)
      BY <2>3, PlainSteps, PlainConcat
    <2> QED BY <1>0, <2>1, <2>4
  <1>4. ASSUME NEW b \in BOOLEAN, AddTorrent(b)
        PROVE  call' \in Seq(StepName) /\ CallStands'
    <2>1. call' = <<"add_torrent", "add_resume", "acknowledge">> /\ ~hosted'
      BY <1>4 DEF AddTorrent, Begin
    <2>2. call' \in Adding
      BY <2>1, Zenon DEF Adding
    <2>3. call' \in Seq(StepName)
      BY <2>1 DEF StepName
    <2> QED BY <2>1, <2>2, <2>3 DEF CallStands, Adding
  <1>5. ASSUME NEW b \in BOOLEAN, RemoveTorrent(b)
        PROVE  call' \in Seq(StepName) /\ CallStands'
    <2> DEFINE e == IF b THEN "delete_data" ELSE "forget"
               ends == <<"unlink_torrent", "unlink_resume", e>>
    <2>1. /\ call' = (IF live THEN StopSteps ELSE <<>>) \o ends
          /\ job' = job /\ live' = live /\ ~scanning
      BY <1>5 DEF RemoveTorrent, Begin, scanVars, engineVars
    <2>2. e \in Losing /\ e \in StepName
      BY DEF Losing, StepName
    <2> HIDE DEF e
    <2>3. job' = "none"
      BY <2>1 DEF Presence
    <2>4. CASE live
      <3>1. call' = <<"snapshot", "fsync", "take", "disconnect", "unlink_torrent",
                      "unlink_resume", e>>
        BY <2>1, <2>2, <2>4, StopThenUnlink
      <3>2. call' \in Stopping(e)
        BY <3>1, Zenon DEF Stopping
      <3>3. call' \in Seq(StepName)
        BY <2>2, <3>1 DEF StepName
      <3> QED BY <2>2, <2>3, <3>2, <3>3 DEF CallStands, Stopping
    <2>5. CASE ~live
      <3>1. call' = ends
        BY <2>1, <2>5
      <3>2. call' \in Unlinking(e)
        BY <3>1, Zenon DEF Unlinking
      <3>3. call' \in Seq(StepName)
        BY <2>2, <3>1 DEF StepName
      <3> QED BY <2>1, <2>2, <2>3, <2>5, <3>2, <3>3 DEF CallStands, Unlinking
    <2> QED BY <2>4, <2>5
  <1>6. ASSUME NEW f \in Fetcher, CompleteMagnet(f)
        PROVE  call' \in Seq(StepName) /\ CallStands'
    <2>1. CASE hosted
      BY <1>0, <1>6, <2>1, PlainSteps DEF CompleteMagnet, Idle
    <2>2. CASE ~hosted
      <3>1. call' = <<"add_torrent", "add_resume", "drop_magnet">> /\ ~hosted'
        BY <1>6, <2>2 DEF CompleteMagnet
      <3>2. call' \in Adding
        BY <3>1, Zenon DEF Adding
      <3>3. call' \in Seq(StepName)
        BY <3>1 DEF StepName
      <3> QED BY <3>1, <3>2, <3>3 DEF CallStands, Adding
    <2> QED BY <2>1, <2>2
  <1>7. ASSUME BeginVerify \/ AddMagnet \/ RemoveMagnet \/ FailScan \/ Crash \/ LoadAll
        PROVE  call' \in Seq(StepName) /\ CallStands'
    <2>1. call' = <<>>
      BY <1>7 DEF BeginVerify, AddMagnet, RemoveMagnet, FailScan, Crash, LoadAll,
                  Idle, Presence
    <2> QED BY <1>0, <2>1, PlainSteps
  <1> QED BY <1>1, <1>2, <1>3, <1>4, <1>5, <1>6, <1>7 DEF Operator

\* What runs without the lock leaves the call alone.
LEMMA BesideStands ==
    ASSUME RegistryInv,
           \/ ScanRun
           \/ \E i \in Piece : EnginePiece(i) \/ LateBlock(i)
           \/ \E f \in Fetcher : SpawnFetch(f) \/ FetchRound(f) \/ FetchEnds(f)
    PROVE  call' \in Seq(StepName) /\ CallStands'
  <1> USE DEF RegistryInv
  <1>1. CASE ScanRun
    <2>1. call' = call /\ hosted' = hosted /\ job # "none"
      BY <1>1 DEF ScanRun, entryVars
    <2> QED BY <2>1 DEF CallStands, TypeOK, Plain, Adding
  <1>2. CASE \/ \E i \in Piece : EnginePiece(i) \/ LateBlock(i)
             \/ \E f \in Fetcher : SpawnFetch(f) \/ FetchRound(f) \/ FetchEnds(f)
    <2>1. /\ call' = call /\ hosted' = hosted /\ job' = job /\ live' = live
          /\ resumeFile' = resumeFile
      BY <1>2 DEF EnginePiece, LateBlock, SpawnFetch, FetchRound, FetchEnds, entryVars,
                  engineVars, scanVars, fileVars
    <2> QED BY <2>1, StandsBeside DEF TypeOK
  <1> QED BY <1>1, <1>2

\* The steps of a call keep it where it should stand.
LEMMA StepStands ==
    ASSUME RegistryInv, Step
    PROVE  call' \in Seq(StepName) /\ CallStands'
  <1> USE DEF RegistryInv
  <1>0. ASSUME NEW more \in Seq(StepName), Plain(more), call # <<>>, Proceed(more),
               Head(call) \notin Special \cup
                  {"snapshot", "fsync", "take", "disconnect", "unlink_torrent",
                   "unlink_resume", "add_torrent"}
        PROVE  call' \in Seq(StepName) /\ CallStands'
    BY <1>0, PlainStep, PlainStands DEF Proceed
  <1>1. ASSUME call' = <<>> PROVE call' \in Seq(StepName) /\ CallStands'
    BY <1>1, PlainSteps, PlainStands
  <1>2. ASSUME \/ Refresh \/ DropNetwork \/ WriteResume \/ DropMagnet \/ Acknowledge
        PROVE  call' \in Seq(StepName) /\ CallStands'
    <2>1. /\ call # <<>> /\ Proceed(<<>>)
          /\ Head(call) \in {"refresh", "detach", "write", "drop_magnet", "acknowledge"}
      BY <1>2 DEF Refresh, DropNetwork, WriteResume, DropMagnet, Acknowledge, AtStep
    <2> QED BY <1>0, <2>1, PlainSteps DEF Special, Losing
  <1>3. ASSUME NEW why \in Wanted \ {"operator"}, SeedLimits(why)
        PROVE  call' \in Seq(StepName) /\ CallStands'
    <2>1. /\ call # <<>> /\ Head(call) = "limits"
          /\ Proceed(StopSteps \o <<"write">>) \/ Proceed(<<>>)
      BY <1>3 DEF SeedLimits, AtStep
    <2>2. StopSteps \o <<"write">> \in Seq(StepName) /\ Plain(StopSteps \o <<"write">>)
      BY PlainSteps, PlainConcat
    <2> QED BY <1>0, <2>1, <2>2, PlainSteps DEF Special, Losing
  <1>4. ASSUME Reconcile PROVE call' \in Seq(StepName) /\ CallStands'
    <2>1. /\ call # <<>> /\ Head(call) = "reconcile"
          /\ Proceed(StopSteps) \/ Proceed(<<>>)
      BY <1>4 DEF Reconcile, AtStep
    <2> QED BY <1>0, <2>1, PlainSteps DEF Special, Losing
  <1>5. ASSUME Persist PROVE call' \in Seq(StepName) /\ CallStands'
    <2>1. /\ call # <<>> /\ Head(call) = "persist"
          /\ Proceed(<<"snapshot", "fsync", "write">>) \/ Proceed(<<>>)
      BY <1>5 DEF Persist, AtStep
    <2> QED BY <1>0, <2>1, PlainSteps DEF Special, Losing
  <1>6. ASSUME PublishResume PROVE call' \in Seq(StepName) /\ CallStands'
    <2>1. call # <<>> /\ Head(call) = "publish" /\ (Proceed(<<>>) \/ call' = <<>>)
      BY <1>6 DEF PublishResume, AtStep, Abort
    <2> QED BY <1>0, <1>1, <2>1, PlainSteps DEF Special, Losing
  <1>7. ASSUME Snapshot \/ Fsync \/ TakeHave \/ Disconnect
        PROVE  call' \in Seq(StepName) /\ CallStands'
    <2>1. /\ call # <<>> /\ Proceed(<<>>) /\ job' = job
          /\ Head(call) \in {"snapshot", "fsync", "take", "disconnect"}
          /\ Head(call) = "disconnect" => ~live'
      BY <1>7 DEF Snapshot, Fsync, TakeHave, Disconnect, AtStep, scanVars
    <2> QED BY <2>1, StopStep
  <1>8. ASSUME AddTorrentFile PROVE call' \in Seq(StepName) /\ CallStands'
    <2>1. /\ call # <<>> /\ Head(call) = "add_torrent" /\ hosted' = hosted
          /\ Proceed(<<>>) \/ call' = <<>>
      BY <1>8 DEF AddTorrentFile, AtStep, Abort, entryVars
    <2>2. CASE Proceed(<<>>)
      <3>1. call' = Tail(call) /\ call' \in Seq(StepName)
        BY <2>1, <2>2, ProceedTail DEF Proceed
      <3>2. CASE Plain(call)
        BY <2>1, <3>1, <3>2, PlainTail, PlainStands DEF TypeOK
      <3>3. CASE call \in Adding /\ ~hosted
        <4>1. Tail(call) \in Adding
          BY <2>1, <3>3, AddingWalk
        <4> QED BY <2>1, <3>1, <3>3, <4>1 DEF CallStands, Adding
      <3> QED BY <2>1, <3>2, <3>3, StandsAt
    <2> QED BY <1>1, <2>1, <2>2
  <1>9. ASSUME UnlinkTorrent \/ UnlinkResume
        PROVE  call' \in Seq(StepName) /\ CallStands'
    <2>1. /\ call # <<>> /\ Head(call) \in {"unlink_torrent", "unlink_resume"}
          /\ live' = live /\ job' = job
          /\ \/ call' = <<>>
             \/ Proceed(<<>>) /\ (Head(call) = "unlink_resume" => ~resumeFile')
      BY <1>9 DEF UnlinkTorrent, UnlinkResume, AtStep, Abort, engineVars, scanVars
    <2>2. CASE Proceed(<<>>) /\ (Head(call) = "unlink_resume" => ~resumeFile')
      <3>1. call' = Tail(call) /\ call' \in Seq(StepName)
        BY <2>1, <2>2, ProceedTail DEF Proceed
      <3>2. CASE Plain(call)
        BY <2>1, <3>1, <3>2, PlainTail, PlainStands DEF TypeOK
      <3>3. CASE \E e \in Losing : job = "none" /\ call \in Unlinking(e) /\ ~live
        <4>1. PICK e \in Losing : job = "none" /\ call \in Unlinking(e) /\ ~live
          BY <3>3
        <4>2. CASE Tail(call) \in Unlinking(e)
          BY <2>1, <3>1, <4>1, <4>2 DEF CallStands, Unlinking
        <4>3. CASE Head(call) = "unlink_resume" /\ Tail(call) = <<e>>
          BY <2>1, <2>2, <3>1, <4>1, <4>3 DEF CallStands
        <4> QED BY <4>1, <4>2, <4>3, UnlinkingWalk
      <3> QED BY <2>1, <3>2, <3>3, StandsAt
    <2> QED BY <1>1, <2>1, <2>2
  <1>10. ASSUME AddResumeFile PROVE call' \in Seq(StepName) /\ CallStands'
    <2>1. /\ call # <<>> /\ Head(call) = "add_resume"
          /\ Proceed(<<>>) \/ call' = <<>>
      BY <1>10 DEF AddResumeFile, AtStep, Abort
    <2>2. CASE Proceed(<<>>)
      <3>1. call' = Tail(call)
        BY <2>1, <2>2, ProceedTail DEF Proceed
      <3>2. Tail(call) \in {<<"acknowledge">>, <<"drop_magnet">>}
        BY <2>1, StandsAtSpecial DEF Special, Losing
      <3> QED BY <3>1, <3>2, PlainSteps, PlainStands
    <2> QED BY <1>1, <2>1, <2>2
  <1>11. ASSUME DeleteData \/ Forget PROVE call' \in Seq(StepName) /\ CallStands'
    <2>1. call # <<>> /\ Head(call) \in Losing /\ Proceed(<<>>)
      BY <1>11 DEF DeleteData, Forget, AtStep, Losing
    <2>2. call' = Tail(call)
      BY <2>1, ProceedTail DEF Proceed
    <2>3. Tail(call) = <<>>
      BY <2>1, StandsAtSpecial DEF Special, Losing
    <2> QED BY <1>1, <2>2, <2>3
  <1> QED BY <1>2, <1>3, <1>4, <1>5, <1>6, <1>7, <1>8, <1>9, <1>10, <1>11 DEF Step

-----------------------------------------------------------------------------
(* Every step keeps the claims backed *)

\* A record of what the entry holds.
LEMMA RecordFields ==
    ASSUME NEW h \in SUBSET Piece, NEW v \in SUBSET Piece, NEW w \in Wanted
    PROVE  /\ [have |-> h, verified |-> v, wanted |-> w] \in Record
           /\ [have |-> h, verified |-> v, wanted |-> w].verified = v
  BY DEF Record

\* The parts of the type invariant, each about variables that change together.
CoreTyped == up \in BOOLEAN /\ network \in BOOLEAN /\ asked \in BOOLEAN
EntryTyped ==
    /\ hosted \in BOOLEAN /\ wanted \in Wanted /\ scanning \in BOOLEAN
    /\ have \in SUBSET Piece /\ verified \in SUBSET Piece
EngineTyped == live \in BOOLEAN /\ engine \in SUBSET Piece /\ snap \in SUBSET Piece
ScanTyped == job \in {"none", "hashing", "hashed"} /\ found \in SUBSET Piece
MagnetTyped ==
    pending \in {"no", "new", "claimed"} /\ fetch \in [Fetcher -> {"off", "idle", "round", "got"}]
DataTyped ==
    /\ cache \in SUBSET Piece /\ platter \in SUBSET Piece /\ scanned \in SUBSET Piece
    /\ stray \in SUBSET Piece /\ spoiled \in SUBSET Piece
FileTyped ==
    torrentFile \in BOOLEAN /\ magnetFile \in BOOLEAN /\ resumeFile \in BOOLEAN /\ record \in Record

LEMMA TypeParts ==
    TypeOK <=> /\ call \in Seq(StepName) /\ CoreTyped /\ EntryTyped /\ EngineTyped
               /\ ScanTyped /\ MagnetTyped /\ DataTyped /\ FileTyped
  BY Zenon DEF TypeOK, CoreTyped, EntryTyped, EngineTyped, ScanTyped, MagnetTyped, DataTyped, FileTyped, Record

LEMMA PartsRest ==
    /\ EntryTyped /\ UNCHANGED entryVars => EntryTyped'
    /\ EngineTyped /\ UNCHANGED engineVars => EngineTyped'
    /\ ScanTyped /\ UNCHANGED scanVars => ScanTyped'
    /\ MagnetTyped /\ UNCHANGED magnetVars => MagnetTyped'
    /\ DataTyped /\ UNCHANGED dataVars => DataTyped'
    /\ FileTyped /\ UNCHANGED fileVars => FileTyped'
  <1>1. EntryTyped /\ UNCHANGED entryVars => EntryTyped'
    BY DEF EntryTyped, entryVars
  <1>2. EngineTyped /\ UNCHANGED engineVars => EngineTyped'
    BY DEF EngineTyped, engineVars
  <1>3. ScanTyped /\ UNCHANGED scanVars => ScanTyped'
    BY DEF ScanTyped, scanVars
  <1>4. MagnetTyped /\ UNCHANGED magnetVars => MagnetTyped'
    BY DEF MagnetTyped, magnetVars
  <1>5. DataTyped /\ UNCHANGED dataVars => DataTyped'
    BY DEF DataTyped, dataVars
  <1>6. FileTyped /\ UNCHANGED fileVars => FileTyped'
    BY DEF FileTyped, fileVars
  <1> QED BY <1>1, <1>2, <1>3, <1>4, <1>5, <1>6

\* Types alone, for the actions with the longest bodies.
LEMMA TypesStand ==
    ASSUME TypeOK, call' \in Seq(StepName),
           \/ AddTorrentFile \/ UnlinkTorrent \/ UnlinkResume \/ Disconnect \/ Reconcile
           \/ AddMagnet \/ RemoveMagnet \/ FinishScan \/ FailScan
    PROVE  TypeOK'
  <1>0. CoreTyped /\ EntryTyped /\ EngineTyped /\ ScanTyped /\ MagnetTyped /\ DataTyped /\ FileTyped
    BY TypeParts
  <1>1. SUFFICES /\ CoreTyped' /\ EntryTyped' /\ EngineTyped' /\ ScanTyped' /\ MagnetTyped'
                 /\ DataTyped' /\ FileTyped'
    BY Zenon DEF TypeOK, CoreTyped, EntryTyped, EngineTyped, ScanTyped, MagnetTyped, DataTyped, FileTyped,
                 Record
  <1>2. CASE AddTorrentFile \/ UnlinkTorrent \/ UnlinkResume
    <2>1. /\ UNCHANGED <<up, network, entryVars, engineVars, scanVars, magnetVars, dataVars>>
          /\ CoreTyped' /\ FileTyped'
      BY <1>0, <1>2 DEF AddTorrentFile, UnlinkTorrent, UnlinkResume, CoreTyped, FileTyped
    <2> QED BY <1>0, <2>1, PartsRest
  <1>3. CASE Disconnect \/ Reconcile
    <2>1. /\ UNCHANGED <<entryVars, scanVars, magnetVars, fileVars>>
          /\ CoreTyped' /\ EngineTyped'
      BY <1>0, <1>3 DEF Disconnect, Reconcile, CoreTyped, EngineTyped, EntryTyped
    <2>2. DataTyped'
      BY <1>0, <1>3, RegistryAssumption DEF Disconnect, Reconcile, DataTyped, dataVars
    <2> QED BY <1>0, <2>1, <2>2, PartsRest
  <1>4. CASE AddMagnet \/ RemoveMagnet
    <2>1. /\ UNCHANGED <<entryVars, engineVars, scanVars, dataVars>>
          /\ CoreTyped' /\ MagnetTyped' /\ FileTyped'
      BY <1>0, <1>4 DEF AddMagnet, RemoveMagnet, CoreTyped, MagnetTyped, FileTyped
    <2> QED BY <1>0, <2>1, PartsRest
  <1>5. CASE FinishScan \/ FailScan
    <2>1. /\ UNCHANGED <<engineVars, magnetVars, fileVars>>
          /\ CoreTyped' /\ ScanTyped'
      BY <1>0, <1>5 DEF FinishScan, FailScan, CoreTyped, ScanTyped
    <2>2. EntryTyped'
      BY <1>0, <1>5 DEF FinishScan, FailScan, EntryTyped, ScanTyped
    <2>3. DataTyped'
      BY <1>0, <1>5 DEF FinishScan, FailScan, DataTyped, ScanTyped, dataVars
    <2> QED BY <1>0, <2>1, <2>2, <2>3, PartsRest
  <1> QED BY <1>2, <1>3, <1>4, <1>5

\* A step of a call.
LEMMA StepBacked ==
    ASSUME RegistryInv, Step, call' \in Seq(StepName)
    PROVE  TypeOK' /\ ClaimsBacked' /\ Presence'
  <1>0. AddTorrentFile \/ UnlinkTorrent \/ UnlinkResume \/ Disconnect \/ Reconcile => TypeOK'
    BY TypesStand DEF RegistryInv
  <1> USE DEF RegistryInv, TypeOK, ClaimsBacked, Presence, AtStep,
              entryVars, engineVars, scanVars, magnetVars, dataVars, fileVars
  <1>1. CASE Refresh
    BY <1>1 DEF Refresh
  <1>2. CASE Persist
    BY <1>2 DEF Persist
  <1>3. CASE Snapshot
    BY <1>3 DEF Snapshot
  <1>4. CASE Fsync
    BY <1>4 DEF Fsync
  <1>5. CASE TakeHave
    BY <1>5 DEF TakeHave
  <1>6. CASE Disconnect
    <2>1. TypeOK'
      BY <1>0, <1>6
    <2>2. ClaimsBacked'
      BY <1>6 DEF Disconnect
    <2>3. Presence'
      BY <1>6 DEF Disconnect
    <2> QED BY <2>1, <2>2, <2>3
  <1>7. CASE DropNetwork
    BY <1>7 DEF DropNetwork
  <1>8. CASE WriteResume
    <2>1. TypeOK'
      <3>1. resumeFile' \in BOOLEAN /\ record' \in Record
        <4>1. record \in Record
          BY DEF Record
        <4>2. [have |-> have, verified |-> verified, wanted |-> wanted] \in Record
          BY RecordFields
        <4> QED BY <1>8, <4>1, <4>2 DEF WriteResume
      <3> QED BY <1>8, <3>1 DEF WriteResume, Record
    <2>2. ClaimsBacked'
      BY <1>8 DEF WriteResume
    <2>3. Presence'
      BY <1>8 DEF WriteResume
    <2> QED BY <2>1, <2>2, <2>3
  <1>9. CASE PublishResume
    <2>1. TypeOK'
      <3>1. resumeFile' \in BOOLEAN /\ record' \in Record
        <4>1. record \in Record
          BY DEF Record
        <4>2. [have |-> have, verified |-> verified, wanted |-> wanted] \in Record
          BY RecordFields
        <4> QED BY <1>9, <4>1, <4>2 DEF PublishResume
      <3> QED BY <1>9, <3>1 DEF PublishResume, Record
    <2>2. ClaimsBacked'
      BY <1>9 DEF PublishResume
    <2>3. Presence'
      BY <1>9 DEF PublishResume
    <2> QED BY <2>1, <2>2, <2>3
  <1>10. CASE AddTorrentFile
    <2>1. TypeOK'
      BY <1>0, <1>10
    <2>2. ClaimsBacked'
      BY <1>10 DEF AddTorrentFile
    <2>3. Presence'
      BY <1>10 DEF AddTorrentFile
    <2> QED BY <2>1, <2>2, <2>3
  <1>11. CASE DropMagnet
    BY <1>11 DEF DropMagnet
  <1>12. CASE Acknowledge
    BY <1>12 DEF Acknowledge
  <1>13. CASE UnlinkTorrent
    <2>1. TypeOK'
      BY <1>0, <1>13
    <2>2. ClaimsBacked'
      BY <1>13 DEF UnlinkTorrent
    <2>3. Presence'
      BY <1>13 DEF UnlinkTorrent
    <2> QED BY <2>1, <2>2, <2>3
  <1>14. CASE UnlinkResume
    <2>1. TypeOK'
      BY <1>0, <1>14
    <2>2. ClaimsBacked'
      BY <1>14 DEF UnlinkResume
    <2>3. Presence'
      BY <1>14 DEF UnlinkResume
    <2> QED BY <2>1, <2>2, <2>3
  <1>15. CASE Reconcile
    <2>1. TypeOK'
      BY <1>0, <1>15
    <2>2. ClaimsBacked'
      BY <1>15 DEF Reconcile
    <2>3. Presence'
      BY <1>15 DEF Reconcile
    <2> QED BY <2>1, <2>2, <2>3
  <1>16. ASSUME NEW why \in Wanted \ {"operator"}, SeedLimits(why)
        PROVE  TypeOK' /\ ClaimsBacked' /\ Presence'
    BY <1>16 DEF SeedLimits
  <1>17. CASE AddResumeFile
    <2>1. ~hosted
      BY <1>17, StandsAtSpecial DEF AddResumeFile, Special, Losing
    <2> DEFINE new == [have |-> {}, verified |-> {}, wanted |-> wanted]
    <2>2. new \in Record /\ new.verified = {}
      BY RecordFields
    <2> HIDE DEF new
    <2>3. UNCHANGED <<up, network, wanted, engineVars, found, magnetVars, dataVars,
                      magnetFile, asked>> /\ up
      BY <1>17 DEF AddResumeFile
    <2>4. \/ /\ resumeFile' /\ record' = new /\ hosted' /\ scanning'
             /\ resumeFile' \in BOOLEAN /\ hosted' \in BOOLEAN /\ scanning' \in BOOLEAN
             /\ have' = {} /\ verified' = {} /\ job' = "hashing"
             /\ torrentFile' = torrentFile
          \/ /\ UNCHANGED <<hosted, scanning, have, verified, job, resumeFile, record>>
             /\ torrentFile' \in BOOLEAN
      BY <1>17, Zenon DEF AddResumeFile, new
    <2>5. record \in Record
      BY DEF Record
    <2>6. record' \in Record
      BY <2>2, <2>4, <2>5
    <2>7. TypeOK'
      BY <2>3, <2>4, <2>6 DEF Record
    <2>8. ClaimsBacked'
      BY <2>2, <2>3, <2>4
    <2>9. Presence'
      BY <2>1, <2>3, <2>4
    <2> QED BY <2>7, <2>8, <2>9
  <1>18. CASE DeleteData
    <2>1. job = "none" /\ ~live /\ ~resumeFile
      BY <1>18, StandsAtSpecial DEF DeleteData, Special, Losing
    <2> QED BY <1>18, <2>1 DEF DeleteData
  <1>19. CASE Forget
    <2>1. job = "none" /\ ~live /\ ~resumeFile
      BY <1>19, StandsAtSpecial DEF Forget, Special, Losing
    <2> QED BY <1>19, <2>1 DEF Forget
  <1> QED BY <1>1, <1>2, <1>3, <1>4, <1>5, <1>6, <1>7, <1>8, <1>9, <1>10, <1>11, <1>12, <1>13, <1>14, <1>15, <1>16, <1>17, <1>18, <1>19 DEF Step

\* A call that begins, or one that is over at once.
LEMMA BeginBacked ==
    ASSUME RegistryInv, call' \in Seq(StepName),
           \/ Operator \/ PersistTick \/ AttachNetwork \/ DetachNetwork
           \/ FinishScan \/ FailScan
           \/ \E f \in Fetcher : CompleteMagnet(f)
    PROVE  TypeOK' /\ ClaimsBacked' /\ Presence'
  <1>8. AddMagnet \/ RemoveMagnet \/ FinishScan \/ FailScan => TypeOK'
    BY TypesStand DEF RegistryInv
  <1> USE DEF RegistryInv, TypeOK, ClaimsBacked, Presence, Idle, Wanted,
              entryVars, engineVars, scanVars, magnetVars, dataVars, fileVars
  <1>0. ASSUME UNCHANGED <<up, hosted, scanning, have, verified, engineVars, scanVars,
                           magnetVars, dataVars, fileVars>>,
               up, network' \in BOOLEAN, wanted' \in Wanted, asked' \in BOOLEAN
        PROVE  TypeOK' /\ ClaimsBacked' /\ Presence'
    <2>1. TypeOK'
      BY <1>0
    <2>2. ClaimsBacked' /\ Presence'
      BY <1>0
    <2> QED BY <2>1, <2>2
  <1>1. CASE List \/ SetOption \/ PersistTick \/ AttachNetwork \/ DetachNetwork
    <2>1. /\ UNCHANGED <<up, hosted, scanning, have, verified, engineVars, scanVars,
                         magnetVars, dataVars, fileVars>>
          /\ up /\ network' \in BOOLEAN /\ wanted' \in Wanted /\ asked' \in BOOLEAN
      BY <1>1 DEF List, SetOption, PersistTick, AttachNetwork, DetachNetwork, Begin
    <2> QED BY <1>0, <2>1, Zenon
  <1>2. ASSUME NEW b \in BOOLEAN,
               SetPaused(b) \/ SetSeedRatio(b) \/ AddTorrent(b) \/ RemoveTorrent(b)
        PROVE  TypeOK' /\ ClaimsBacked' /\ Presence'
    <2>1. /\ UNCHANGED <<up, hosted, scanning, have, verified, engineVars, scanVars,
                         magnetVars, dataVars, fileVars>>
          /\ up /\ network' \in BOOLEAN /\ wanted' \in Wanted /\ asked' \in BOOLEAN
      BY <1>2 DEF SetPaused, SetSeedRatio, AddTorrent, RemoveTorrent, Begin
    <2> QED BY <1>0, <2>1, Zenon
  <1>3. CASE BeginVerify
    BY <1>3 DEF BeginVerify
  <1>4. CASE AddMagnet \/ RemoveMagnet
    <2>1. TypeOK'
      BY <1>4, <1>8
    <2>2. ClaimsBacked'
      BY <1>4 DEF AddMagnet, RemoveMagnet
    <2>3. Presence'
      BY <1>4 DEF AddMagnet, RemoveMagnet
    <2> QED BY <2>1, <2>2, <2>3
  <1>5. CASE FinishScan
    <2>1. TypeOK'
      BY <1>5, <1>8
    <2>2. ClaimsBacked'
      BY <1>5 DEF FinishScan, Begin
    <2>3. Presence'
      BY <1>5 DEF FinishScan, Begin
    <2> QED BY <2>1, <2>2, <2>3
  <1>6. CASE FailScan
    <2>1. TypeOK'
      BY <1>6, <1>8
    <2>2. ClaimsBacked' /\ Presence'
      BY <1>6 DEF FailScan
    <2> QED BY <2>1, <2>2
  <1>7. ASSUME NEW f \in Fetcher, CompleteMagnet(f)
        PROVE  TypeOK' /\ ClaimsBacked' /\ Presence'
    BY <1>7 DEF CompleteMagnet
  <1> QED BY <1>1, <1>2, <1>3, <1>4, <1>5, <1>6, <1>7 DEF Operator

\* What runs without the lock, and a crash and a restart.
LEMMA BesideBacked ==
    ASSUME RegistryInv, call' \in Seq(StepName),
           \/ ScanRun
           \/ \E i \in Piece : EnginePiece(i) \/ LateBlock(i)
           \/ \E f \in Fetcher : SpawnFetch(f) \/ FetchRound(f) \/ FetchEnds(f)
           \/ Crash \/ LoadAll
    PROVE  TypeOK' /\ ClaimsBacked' /\ Presence'
  <1> USE DEF RegistryInv, TypeOK, ClaimsBacked, Presence,
              entryVars, engineVars, scanVars, magnetVars, dataVars, fileVars
  <1>1. CASE ScanRun
    BY <1>1 DEF ScanRun
  <1>2. ASSUME NEW i \in Piece, EnginePiece(i)
        PROVE  TypeOK' /\ ClaimsBacked' /\ Presence'
    BY <1>2 DEF EnginePiece
  <1>6. ASSUME NEW i \in Piece, LateBlock(i)
        PROVE  TypeOK' /\ ClaimsBacked' /\ Presence'
    <2>1. TypeOK'
      BY <1>6 DEF LateBlock
    <2>2. ClaimsBacked'
      BY <1>6 DEF LateBlock
    <2>3. Presence'
      BY <1>6 DEF LateBlock
    <2> QED BY <2>1, <2>2, <2>3
  <1>3. ASSUME NEW f \in Fetcher, SpawnFetch(f) \/ FetchRound(f) \/ FetchEnds(f)
        PROVE  TypeOK' /\ ClaimsBacked' /\ Presence'
    BY <1>3 DEF SpawnFetch, FetchRound, FetchEnds, Idle
  <1>4. CASE Crash
    <2>1. platter \subseteq platter' /\ platter' \subseteq cache' /\ cache' \subseteq cache
      BY <1>4 DEF Crash
    <2> QED BY <1>4, <2>1 DEF Crash, Wanted
  <1>5. CASE LoadAll
    BY <1>5 DEF LoadAll, Loads
  <1> QED BY <1>1, <1>2, <1>3, <1>4, <1>5, <1>6

-----------------------------------------------------------------------------
(* The theorems *)

\* The invariant holds initially.
LEMMA InitRegistryInv == Init => RegistryInv
  <1> SUFFICES ASSUME Init PROVE RegistryInv
    OBVIOUS
  <1>1. TypeOK
    BY RegistryAssumption, PlainSteps DEF Init, TypeOK, Wanted
  <1>2. CallStands
    BY PlainSteps DEF Init, CallStands
  <1>3. ClaimsBacked /\ Presence
    BY DEF Init, ClaimsBacked, Presence
  <1> QED BY <1>1, <1>2, <1>3 DEF RegistryInv

\* And every step keeps it.
LEMMA NextRegistryInv == RegistryInv /\ [Next]_vars => RegistryInv'
  <1> SUFFICES ASSUME RegistryInv, [Next]_vars PROVE RegistryInv'
    OBVIOUS
  <1>1. CASE Step
    BY <1>1, StepStands, StepBacked DEF RegistryInv
  <1>2. CASE \/ Operator \/ PersistTick \/ AttachNetwork \/ DetachNetwork
             \/ FinishScan \/ FailScan
             \/ \E f \in Fetcher : CompleteMagnet(f)
    BY <1>2, BeginStands, BeginBacked DEF RegistryInv
  <1>3. CASE \/ ScanRun
             \/ \E i \in Piece : EnginePiece(i) \/ LateBlock(i)
             \/ \E f \in Fetcher : SpawnFetch(f) \/ FetchRound(f) \/ FetchEnds(f)
    BY <1>3, BesideStands, BesideBacked DEF RegistryInv
  <1>4. CASE Crash \/ LoadAll
    BY <1>4, BeginStands, BesideBacked DEF RegistryInv
  <1>5. CASE UNCHANGED vars
    <2> USE <1>5 DEF vars, entryVars, engineVars, scanVars, magnetVars, dataVars, fileVars
    <2>1. TypeOK'
      BY DEF RegistryInv, TypeOK
    <2>2. CallStands'
      BY StandsBeside DEF RegistryInv
    <2>3. ClaimsBacked' /\ Presence'
      BY DEF RegistryInv, ClaimsBacked, Presence
    <2> QED BY <2>1, <2>2, <2>3 DEF RegistryInv
  <1> QED BY <1>1, <1>2, <1>3, <1>4, <1>5 DEF Next

\* Whatever the pieces, the fetch threads and the faults, the registry stays
\* where the invariant says: steps of a call, the engine beside them and
\* crashes anywhere included.
THEOREM RegistryInvariant == Spec => []RegistryInv
  BY InitRegistryInv, NextRegistryInv, PTL DEF Spec

\* The registry's state has its type, for any torrent.
THEOREM RegistryTypeCorrect == Spec => []TypeOK
  <1>1. RegistryInv => TypeOK
    BY DEF RegistryInv
  <1> QED BY <1>1, RegistryInvariant, PTL

\* What a restart believes unread was synced or read back, or written over since
\* by a connection that outlived a stop, for any torrent and any mix of failing
\* syncs, writes and crashes (persist_progress, stop_live, finish_scan).
THEOREM RegistryRecordBacked == Spec => []RecordBacked
  <1>1. RegistryInv => RecordBacked
    BY DEF RegistryInv, ClaimsBacked, RecordBacked
  <1> QED BY <1>1, RegistryInvariant, PTL

\* What the registry publishes and the engine serves can be read back, but
\* for what a scan claimed without a sync and what a connection that outlived a
\* stop wrote over (refresh, load_one, start_live, finish_attach).
THEOREM RegistryHeldIsReadable == Spec => []HeldIsReadable
  <1>1. RegistryInv => HeldIsReadable
    BY DEF RegistryInv, ClaimsBacked, HeldIsReadable
  <1> QED BY <1>1, RegistryInvariant, PTL

\* No engine of the registry's runs beside a scan, and the mark is there as long
\* as the scan is, while connections that outlived a stop write on (begin_verify,
\* finish_scan, reconcile, remove).
THEOREM RegistryScanAlone == Spec => []ScanAlone
  <1>1. RegistryInv => ScanAlone
    BY DEF RegistryInv, Presence, ScanAlone
  <1> QED BY <1>1, RegistryInvariant, PTL

-----------------------------------------------------------------------------
(* What runs and what the record says agree when the lock is free.  While a *)
(* call runs they may differ, so the invariant says which step of the call  *)
(* will bring them together, and that the call gets there.                  *)

\* The steps at which a call may end early.
Aborting == {"publish", "add_torrent", "add_resume", "unlink_torrent", "unlink_resume"}

\* The call will come to a step of E.
Due(s, E) ==
    \E n \in 1 .. Len(s) : s[n] \in E /\ \A k \in 1 .. n : s[k] \notin Aborting

Stops == {"snapshot", "fsync", "take", "disconnect"}

\* A call that drops the network stops the engine first, if there is one.
DetachWaits(s, running) ==
    \A n \in 1 .. Len(s) : s[n] = "detach" =>
        /\ \A k \in 1 .. n - 1 : s[k] \in Stops
        /\ running => \E m \in 1 .. n - 1 : s[m] = "disconnect"

\* An engine has a network, and one that should not run is about to stop.
LiveInv ==
    /\ live => network
    /\ live /\ Paused => Due(call, {"reconcile", "disconnect"})
    /\ DetachWaits(call, live)
    /\ ~up => ~hosted

\* A record that differs from the entry is about to be written.
WrittenInv == hosted /\ record.wanted # wanted => Due(call, {"write"})

\* A step that is due stays due until the call is at it.
LEMMA DueTail ==
    ASSUME NEW s \in Seq(StepName), s # <<>>, NEW E, Due(s, E)
    PROVE  /\ Head(s) \notin Aborting
           /\ Head(s) \notin E => Due(Tail(s), E)
  <1>1. PICK n \in 1 .. Len(s) : s[n] \in E /\ \A k \in 1 .. n : s[k] \notin Aborting
    BY DEF Due
  <1>2. Head(s) = s[1] /\ Len(s) \in Nat /\ Len(Tail(s)) = Len(s) - 1
        /\ \A k \in 1 .. Len(s) - 1 : Tail(s)[k] = s[k + 1]
    OBVIOUS
  <1>3. Head(s) \notin Aborting
    BY <1>1, <1>2
  <1>4. ASSUME Head(s) \notin E PROVE Due(Tail(s), E)
    <2>1. n # 1
      BY <1>1, <1>2, <1>4
    <2>2. n - 1 \in 1 .. Len(Tail(s)) /\ Tail(s)[n - 1] = s[n]
      BY <1>2, <2>1
    <2>3. ASSUME NEW k \in 1 .. n - 1 PROVE Tail(s)[k] \notin Aborting
      <3>1. k + 1 \in 1 .. n /\ k \in 1 .. Len(s) - 1
        BY <1>2
      <3> QED BY <1>1, <1>2, <3>1
    <2> QED BY <1>1, <2>2, <2>3 DEF Due
  <1> QED BY <1>3, <1>4

\* Steps put before a call that cannot end it early leave what is due, and
\* what they come to themselves is due.
LEMMA DueConcat ==
    ASSUME NEW a \in Seq(StepName), NEW b \in Seq(StepName), NEW E
    PROVE  /\ Due(a, E) => Due(a \o b, E)
           /\ Due(b, E) /\ (\A n \in 1 .. Len(a) : a[n] \notin Aborting) => Due(a \o b, E)
  <1>1. /\ Len(a \o b) = Len(a) + Len(b) /\ Len(a) \in Nat /\ Len(b) \in Nat
        /\ \A n \in 1 .. Len(a) : (a \o b)[n] = a[n]
        /\ \A n \in 1 .. Len(a) + Len(b) : n > Len(a) => (a \o b)[n] = b[n - Len(a)]
    OBVIOUS
  <1>2. ASSUME Due(a, E) PROVE Due(a \o b, E)
    <2>1. PICK n \in 1 .. Len(a) : a[n] \in E /\ \A k \in 1 .. n : a[k] \notin Aborting
      BY <1>2 DEF Due
    <2>2. n \in 1 .. Len(a \o b) /\ \A k \in 1 .. n : k \in 1 .. Len(a)
      BY <1>1
    <2> QED BY <1>1, <2>1, <2>2 DEF Due
  <1>3. ASSUME Due(b, E), \A n \in 1 .. Len(a) : a[n] \notin Aborting
        PROVE  Due(a \o b, E)
    <2>1. PICK n \in 1 .. Len(b) : b[n] \in E /\ \A k \in 1 .. n : b[k] \notin Aborting
      BY <1>3 DEF Due
    <2>2. n + Len(a) \in 1 .. Len(a \o b) /\ n + Len(a) > Len(a)
          /\ (n + Len(a)) - Len(a) = n
      BY <1>1
    <2>3. (a \o b)[n + Len(a)] = b[n]
      BY <1>1, <2>2
    <2>4. ASSUME NEW k \in 1 .. n + Len(a) PROVE (a \o b)[k] \notin Aborting
      <3>1. CASE k \in 1 .. Len(a)
        BY <1>1, <1>3, <3>1
      <3>2. CASE k \notin 1 .. Len(a)
        <4>1. k - Len(a) \in 1 .. n /\ k > Len(a) /\ k \in 1 .. Len(a) + Len(b)
          BY <1>1, <3>2
        <4> QED BY <1>1, <2>1, <4>1
      <3> QED BY <3>1, <3>2
    <2> QED BY <2>1, <2>2, <2>3, <2>4 DEF Due
  <1> QED BY <1>2, <1>3

\* Nothing is due in a call that is over.
LEMMA NothingDue == ASSUME NEW E PROVE ~Due(<<>>, E)
  BY DEF Due

\* A detach keeps waiting for the engine to stop.
LEMMA DetachTail ==
    ASSUME NEW s \in Seq(StepName), s # <<>>, NEW before, NEW after,
           DetachWaits(s, before), after => before,
           Head(s) = "disconnect" => ~after
    PROVE  DetachWaits(Tail(s), after)
  <1>1. Head(s) = s[1] /\ Len(s) \in Nat /\ Len(Tail(s)) = Len(s) - 1
        /\ \A k \in 1 .. Len(s) - 1 : Tail(s)[k] = s[k + 1]
    OBVIOUS
  <1> SUFFICES ASSUME NEW n \in 1 .. Len(Tail(s)), Tail(s)[n] = "detach"
               PROVE  /\ \A k \in 1 .. n - 1 : Tail(s)[k] \in Stops
                      /\ after => \E m \in 1 .. n - 1 : Tail(s)[m] = "disconnect"
    BY DEF DetachWaits
  <1>2. n + 1 \in 1 .. Len(s) /\ s[n + 1] = "detach"
    BY <1>1
  <1>3. /\ \A k \in 1 .. (n + 1) - 1 : s[k] \in Stops
        /\ before => \E m \in 1 .. (n + 1) - 1 : s[m] = "disconnect"
    BY <1>2 DEF DetachWaits
  <1>4. ASSUME NEW k \in 1 .. n - 1 PROVE Tail(s)[k] \in Stops
    <2>1. k + 1 \in 1 .. (n + 1) - 1 /\ k \in 1 .. Len(s) - 1
      BY <1>1
    <2> QED BY <1>1, <1>3, <2>1
  <1>5. ASSUME after PROVE \E m \in 1 .. n - 1 : Tail(s)[m] = "disconnect"
    <2>1. PICK m \in 1 .. (n + 1) - 1 : s[m] = "disconnect"
      BY <1>3, <1>5
    <2>2. m # 1
      BY <1>1, <1>5, <2>1
    <2>3. m - 1 \in 1 .. n - 1 /\ m - 1 \in 1 .. Len(s) - 1 /\ (m - 1) + 1 = m
      BY <1>1, <2>2
    <2> QED BY <1>1, <2>1, <2>3
  <1> QED BY <1>4, <1>5

\* A call without such a step does not wait for it, whatever the rest.
LEMMA NoDetach ==
    ASSUME NEW s, NEW running, \A n \in 1 .. Len(s) : s[n] # "detach"
    PROVE  DetachWaits(s, running)
  BY DEF DetachWaits

\* A call that is at a step which stops nothing has no detach behind it, and
\* steps other than it put before the rest leave it so.
LEMMA DetachConcat ==
    ASSUME NEW s \in Seq(StepName), s # <<>>, NEW before, NEW running,
           DetachWaits(s, before), Head(s) \notin Stops,
           NEW a \in Seq(StepName), \A n \in 1 .. Len(a) : a[n] # "detach"
    PROVE  DetachWaits(a \o Tail(s), running)
  <1>1. Head(s) = s[1] /\ Len(s) \in Nat /\ Len(Tail(s)) = Len(s) - 1
        /\ \A k \in 1 .. Len(s) - 1 : Tail(s)[k] = s[k + 1]
    OBVIOUS
  <1>2. ASSUME NEW n \in 1 .. Len(Tail(s)) PROVE Tail(s)[n] # "detach"
    <2>1. n + 1 \in 1 .. Len(s) /\ 1 \in 1 .. (n + 1) - 1 /\ Tail(s)[n] = s[n + 1]
      BY <1>1
    <2> QED BY <1>1, <2>1 DEF DetachWaits
  <1>3. Tail(s) \in Seq(StepName)
    OBVIOUS
  <1>4. /\ Len(a \o Tail(s)) = Len(a) + Len(Tail(s)) /\ Len(a) \in Nat /\ Len(Tail(s)) \in Nat
        /\ \A n \in 1 .. Len(a) : (a \o Tail(s))[n] = a[n]
        /\ \A n \in 1 .. Len(a) + Len(Tail(s)) : n > Len(a) =>
              (a \o Tail(s))[n] = Tail(s)[n - Len(a)]
    BY <1>3
  <1>5. ASSUME NEW n \in 1 .. Len(a \o Tail(s)) PROVE (a \o Tail(s))[n] # "detach"
    <2>1. CASE n \in 1 .. Len(a)
      BY <1>4, <2>1
    <2>2. CASE n \notin 1 .. Len(a)
      <3>1. n - Len(a) \in 1 .. Len(Tail(s)) /\ n > Len(a)
            /\ n \in 1 .. Len(a) + Len(Tail(s))
        BY <1>4, <2>2
      <3> QED BY <1>2, <1>4, <3>1
    <2> QED BY <2>1, <2>2
  <1> QED BY <1>5, NoDetach

\* The invariant of the next state, from facts about that state.
LEMMA LiveFrom ==
    ASSUME live' => network',
           live' /\ wanted' # "running" => Due(call', {"reconcile", "disconnect"}),
           DetachWaits(call', live'), ~up' => ~hosted'
    PROVE  LiveInv'
  BY DEF LiveInv, Paused, Due, DetachWaits, Aborting, Stops

LEMMA WrittenFrom ==
    ASSUME hosted' /\ record'.wanted # wanted' => Due(call', {"write"})
    PROVE  WrittenInv'
  BY DEF WrittenInv, Due, Aborting

\* A step that starts no engine, changes no wish and adds no step.
LEMMA TailLive ==
    ASSUME TypeOK, LiveInv, call # <<>>, Proceed(<<>>),
           live' => live, wanted' = wanted, live' => network', ~up' => ~hosted',
           Head(call) = "disconnect" => ~live',
           Head(call) = "reconcile" => ~live' \/ ~Paused
    PROVE  LiveInv'
  <1>1. call' = Tail(call) /\ call \in Seq(StepName)
    BY ProceedTail DEF Proceed, TypeOK
  <1>2. DetachWaits(call, live)
    BY DEF LiveInv
  <1>3. DetachWaits(call', live')
    BY <1>1, <1>2, DetachTail
  <1>4. ASSUME live', wanted' # "running" PROVE Due(call', {"reconcile", "disconnect"})
    <2>1. Due(call, {"reconcile", "disconnect"}) /\ Paused
      BY <1>4 DEF LiveInv, Paused
    <2>2. Head(call) \notin {"reconcile", "disconnect"}
      BY <1>4, <2>1
    <2> QED BY <1>1, <2>1, <2>2, DueTail
  <1> QED BY <1>3, <1>4, LiveFrom

\* A step at which the call may end: there is no engine that should stop.
LEMMA AbortLive ==
    ASSUME TypeOK, LiveInv, call # <<>>, Head(call) \in Aborting, call' = <<>>,
           live' => live, wanted' = wanted, live' => network', ~up' => ~hosted'
    PROVE  LiveInv'
  <1>1. ~Due(call, {"reconcile", "disconnect"})
    BY DueTail DEF TypeOK
  <1>2. ~(live' /\ wanted' # "running")
    BY <1>1 DEF LiveInv, Paused
  <1>3. DetachWaits(call', live')
    BY DEF DetachWaits
  <1> QED BY <1>2, <1>3, LiveFrom

\* A step that puts others before the rest.
LEMMA ConcatLive ==
    ASSUME TypeOK, LiveInv, call # <<>>, Head(call) \notin Stops,
           NEW more \in Seq(StepName), Proceed(more),
           \A n \in 1 .. Len(more) : more[n] # "detach" /\ more[n] \notin Aborting,
           live' => network', ~up' => ~hosted',
           \/ Due(more, {"reconcile", "disconnect"})
           \/ ~live' \/ wanted' = "running"
           \/ (live' => live) /\ wanted' = wanted /\ Head(call) # "reconcile"
    PROVE  LiveInv'
  <1>1. call' = more \o Tail(call) /\ call \in Seq(StepName) /\ Tail(call) \in Seq(StepName)
    BY DEF Proceed, TypeOK
  <1>2. DetachWaits(call, live)
    BY DEF LiveInv
  <1>3. DetachWaits(call', live')
    BY <1>1, <1>2, DetachConcat
  <1>4. ASSUME live', wanted' # "running" PROVE Due(call', {"reconcile", "disconnect"})
    <2>1. CASE Due(more, {"reconcile", "disconnect"})
      BY <1>1, <2>1, DueConcat
    <2>2. CASE live /\ wanted' = wanted /\ Head(call) # "reconcile"
      <3>1. Due(call, {"reconcile", "disconnect"})
        BY <1>4, <2>2 DEF LiveInv, Paused
      <3>2. Head(call) \notin {"reconcile", "disconnect"}
        BY <2>2 DEF Stops
      <3>3. Due(Tail(call), {"reconcile", "disconnect"})
        BY <1>1, <3>1, <3>2, DueTail
      <3> QED BY <1>1, <3>3, DueConcat
    <2> QED BY <1>4, <2>1, <2>2
  <1> QED BY <1>3, <1>4, LiveFrom

\* What the steps that are put before the rest of a call come to.
LEMMA StopsDue ==
    /\ <<>> \in Seq(StepName) /\ StopSteps \in Seq(StepName)
    /\ StopSteps \o <<"write">> \in Seq(StepName)
    /\ <<"snapshot", "fsync", "write">> \in Seq(StepName)
    /\ \A more \in {<<>>, StopSteps, StopSteps \o <<"write">>,
                    <<"snapshot", "fsync", "write">>} :
          \A n \in 1 .. Len(more) : more[n] # "detach" /\ more[n] \notin Aborting
    /\ Due(StopSteps, {"reconcile", "disconnect"})
    /\ Due(StopSteps \o <<"write">>, {"reconcile", "disconnect"})
    /\ Due(StopSteps \o <<"write">>, {"write"})
    /\ Due(<<"reconcile", "write">>, {"reconcile", "disconnect"})
    /\ Due(<<"reconcile", "write">>, {"write"})
  <1> DEFINE a == <<"snapshot", "fsync", "take", "disconnect">>
             b == <<"write">>
             c == <<"snapshot", "fsync", "take", "disconnect", "write">>
             d == <<"snapshot", "fsync", "write">>
             e == <<"reconcile", "write">>
  <1>1. a \in Seq(StepName) /\ b \in Seq(StepName) /\ c \in Seq(StepName)
        /\ d \in Seq(StepName) /\ e \in Seq(StepName) /\ <<>> \in Seq(StepName)
    BY DEF StepName
  <1>2. Len(a) = 4 /\ Len(b) = 1 /\ Len(c) = 5 /\ Len(d) = 3 /\ Len(e) = 2 /\ Len(<<>>) = 0
    OBVIOUS
  <1>3. a[1] = "snapshot" /\ a[2] = "fsync" /\ a[3] = "take" /\ a[4] = "disconnect"
    OBVIOUS
  <1>4. c[1] = "snapshot" /\ c[2] = "fsync" /\ c[3] = "take" /\ c[4] = "disconnect"
        /\ c[5] = "write" /\ b[1] = "write"
    OBVIOUS
  <1>5. d[1] = "snapshot" /\ d[2] = "fsync" /\ d[3] = "write"
    OBVIOUS
  <1>6. e[1] = "reconcile" /\ e[2] = "write"
    OBVIOUS
  <1> HIDE DEF a, b, c, d, e
  <1>7. a \o b = c
    <2>1. /\ Len(c) = Len(a) + Len(b)
          /\ \A i \in 1 .. Len(a) : c[i] = a[i]
          /\ \A i \in 1 .. Len(b) : c[i + Len(a)] = b[i]
      <3>1. \A i \in 1 .. 4 : c[i] = a[i]
        BY <1>3, <1>4
      <3>2. \A i \in 1 .. 1 : c[i + 4] = b[i]
        BY <1>4
      <3> QED BY <1>2, <3>1, <3>2
    <2> QED BY <1>1, <2>1, ConcatIs
  <1>8. StopSteps = a /\ StopSteps \o <<"write">> = c
    BY <1>7, Zenon DEF StopSteps, a, b
  <1>9. /\ \A n \in 1 .. 4 : a[n] # "detach" /\ a[n] \notin Aborting
        /\ \A n \in 1 .. 5 : c[n] # "detach" /\ c[n] \notin Aborting
        /\ \A n \in 1 .. 3 : d[n] # "detach" /\ d[n] \notin Aborting
        /\ \A n \in 1 .. 2 : e[n] # "detach" /\ e[n] \notin Aborting
    BY <1>3, <1>4, <1>5, <1>6 DEF Aborting
  <1>10. Due(a, {"reconcile", "disconnect"})
    <2>1. 4 \in 1 .. Len(a) /\ \A k \in 1 .. 4 : a[k] \notin Aborting
      BY <1>2, <1>9
    <2> QED BY <1>3, <2>1 DEF Due
  <1>11. Due(c, {"reconcile", "disconnect"})
    <2>1. 4 \in 1 .. Len(c) /\ \A k \in 1 .. 4 : c[k] \notin Aborting
      BY <1>2, <1>9
    <2> QED BY <1>4, <2>1 DEF Due
  <1>12. Due(c, {"write"})
    <2>1. 5 \in 1 .. Len(c) /\ \A k \in 1 .. 5 : c[k] \notin Aborting
      BY <1>2, <1>9
    <2> QED BY <1>4, <2>1 DEF Due
  <1>13. Due(e, {"reconcile", "disconnect"})
    <2>1. 1 \in 1 .. Len(e) /\ \A k \in 1 .. 1 : e[k] \notin Aborting
      BY <1>2, <1>9
    <2> QED BY <1>6, <2>1 DEF Due
  <1>14. Due(e, {"write"})
    <2>1. 2 \in 1 .. Len(e) /\ \A k \in 1 .. 2 : e[k] \notin Aborting
      BY <1>2, <1>9
    <2> QED BY <1>6, <2>1 DEF Due
  <1>15. \A more \in {<<>>, a, c, d} :
            \A n \in 1 .. Len(more) : more[n] # "detach" /\ more[n] \notin Aborting
    BY <1>2, <1>9
  <1>16. d = <<"snapshot", "fsync", "write">> /\ e = <<"reconcile", "write">>
    BY Zenon DEF d, e
  <1> QED BY <1>1, <1>8, <1>10, <1>11, <1>12, <1>13, <1>14, <1>15, <1>16, Zenon

\* A step of a call leaves no engine that nobody stops.
LEMMA StepLive ==
    ASSUME RegistryInv, LiveInv, Step
    PROVE  LiveInv'
  <1> USE DEF RegistryInv
  <1>0. call \in Seq(StepName) /\ (live => network /\ hosted) /\ (~up => ~hosted)
        /\ live \in BOOLEAN /\ network \in BOOLEAN
    BY DEF TypeOK, Presence, LiveInv
  <1>1. ASSUME \/ Refresh \/ Snapshot \/ Fsync \/ TakeHave \/ Disconnect
               \/ WriteResume \/ DropMagnet \/ Acknowledge \/ DeleteData \/ Forget
        PROVE  LiveInv'
    <2>1. /\ call # <<>> /\ Proceed(<<>>) /\ wanted' = wanted /\ network' = network
          /\ live' => live
          /\ up' = up /\ up
          /\ Head(call) # "reconcile"
          /\ Head(call) = "disconnect" => ~live'
      <3>1. CASE Refresh \/ TakeHave \/ Snapshot
        BY <3>1 DEF Refresh, TakeHave, Snapshot, AtStep, entryVars, engineVars
      <3>2. CASE Fsync
        BY <3>2 DEF Fsync, AtStep
      <3>3. CASE Disconnect
        BY <3>3 DEF Disconnect, AtStep, entryVars
      <3>4. CASE DropMagnet \/ Acknowledge
        <4>1. /\ AtStep("drop_magnet") \/ AtStep("acknowledge")
              /\ Proceed(<<>>) /\ UNCHANGED <<up, network, wanted, live>>
          BY <3>4, Zenon DEF DropMagnet, Acknowledge, entryVars, engineVars
        <4> QED BY <4>1 DEF AtStep
      <3>6. CASE WriteResume
        <4>1. /\ AtStep("write") /\ Proceed(<<>>)
              /\ UNCHANGED <<up, network, wanted, live>>
          BY <3>6, Zenon DEF WriteResume, entryVars, engineVars
        <4> QED BY <4>1 DEF AtStep
      <3>5. CASE DeleteData \/ Forget
        BY <3>5 DEF DeleteData, Forget, AtStep, engineVars
      <3> QED BY <1>1, <3>1, <3>2, <3>3, <3>4, <3>5, <3>6
    <2> QED BY <1>0, <2>1, TailLive
  <1>2. ASSUME DropNetwork PROVE LiveInv'
    <2>1. /\ call # <<>> /\ Proceed(<<>>) /\ wanted' = wanted /\ live' = live
          /\ up' = up /\ up /\ Head(call) = "detach"
      BY <1>2 DEF DropNetwork, AtStep, entryVars, engineVars
    <2>2. DetachWaits(call, live) /\ 1 \in 1 .. Len(call) /\ call[1] = "detach"
      BY <1>0, <2>1 DEF LiveInv
    <2>3. live => \E m \in 1 .. 1 - 1 : call[m] = "disconnect"
      BY <2>2 DEF DetachWaits
    <2>4. ~live'
      BY <2>1, <2>3
    <2> QED BY <1>0, <2>1, <2>4, TailLive
  <1>3. ASSUME NEW why \in Wanted \ {"operator"}, SeedLimits(why) PROVE LiveInv'
    <2>1. /\ call # <<>> /\ Head(call) = "limits" /\ network' = network /\ live' = live
          /\ up' = up /\ up
          /\ \/ Proceed(StopSteps \o <<"write">>)
             \/ wanted' = wanted /\ Proceed(<<>>)
      BY <1>3 DEF SeedLimits, AtStep, engineVars
    <2>2. Head(call) \notin Stops /\ Head(call) # "reconcile"
      BY <2>1 DEF Stops
    <2> QED BY <1>0, <2>1, <2>2, StopsDue, ConcatLive, Zenon
  <1>4. ASSUME Reconcile PROVE LiveInv'
    <2>1. /\ call # <<>> /\ Head(call) = "reconcile" /\ network' = network
          /\ wanted' = wanted /\ up' = up /\ up
      BY <1>4 DEF Reconcile, AtStep, entryVars
    <2>2. Head(call) \notin Stops
      BY <2>1 DEF Stops
    <2>3. \/ Proceed(StopSteps) /\ live' = live
          \/ Proceed(<<>>) /\ (live' => network) /\ (~live' \/ wanted' = "running")
      <3>1. CASE /\ network /\ hosted /\ (Paused \/ scanning)
                 /\ Proceed(IF live THEN StopSteps ELSE <<>>) /\ live' = live
        BY <1>0, <3>1
      <3>2. CASE /\ network /\ hosted /\ ~Paused /\ ~scanning /\ ~live
                 /\ Proceed(<<>>)
        BY <2>1, <3>2 DEF Paused
      <3>3. CASE /\ ~network \/ ~hosted \/ (~Paused /\ ~scanning)
                 /\ Proceed(<<>>) /\ live' = live
        BY <1>0, <2>1, <3>3 DEF Paused
      <3> QED BY <1>4, <3>1, <3>2, <3>3 DEF Reconcile
    <2>4. live' => network'
      BY <1>0, <2>1, <2>3
    <2> QED BY <1>0, <2>1, <2>2, <2>3, <2>4, StopsDue, ConcatLive, Zenon
  <1>5. ASSUME Persist PROVE LiveInv'
    <2>1. /\ call # <<>> /\ Head(call) = "persist" /\ network' = network /\ live' = live
          /\ wanted' = wanted /\ up' = up /\ up
          /\ Proceed(<<"snapshot", "fsync", "write">>) \/ Proceed(<<>>)
      BY <1>5 DEF Persist, AtStep, engineVars, entryVars
    <2>2. Head(call) \notin Stops /\ Head(call) # "reconcile"
      BY <2>1 DEF Stops
    <2> QED BY <1>0, <2>1, <2>2, StopsDue, ConcatLive, Zenon
  <1>6. ASSUME PublishResume \/ AddTorrentFile \/ AddResumeFile \/ UnlinkTorrent \/ UnlinkResume
        PROVE  LiveInv'
    <2>1. /\ call # <<>> /\ wanted' = wanted /\ network' = network /\ live' = live
          /\ up' = up /\ up
          /\ Head(call) \in Aborting
          /\ Proceed(<<>>) \/ call' = <<>>
      BY <1>6 DEF PublishResume, AddTorrentFile, AddResumeFile, UnlinkTorrent, UnlinkResume,
                  AtStep, Abort, entryVars, engineVars, Aborting
    <2>2. Head(call) # "reconcile" /\ Head(call) # "disconnect"
      BY <2>1 DEF Aborting
    <2> QED BY <1>0, <2>1, <2>2, TailLive, AbortLive
  <1> QED BY <1>1, <1>2, <1>3, <1>4, <1>5, <1>6 DEF Step

\* The call detach_network makes.
LEMMA DetachCall ==
    ASSUME NEW running \in BOOLEAN, NEW s \in Seq(StepName),
           s = (IF running THEN StopSteps ELSE <<>>) \o <<"detach">> \o PersistSteps
    PROVE  DetachWaits(s, running)
  <1> DEFINE a == <<"snapshot", "fsync", "take", "disconnect">>
             b == <<"detach">>
             c == <<"snapshot", "fsync", "take", "disconnect", "detach">>
             p == <<"refresh", "limits", "reconcile", "persist">>
             d == IF running THEN c ELSE b
             k == IF running THEN 5 ELSE 1
  <1>1. a \in Seq(StepName) /\ b \in Seq(StepName) /\ c \in Seq(StepName) /\ p \in Seq(StepName)
    BY DEF StepName
  <1>2. Len(a) = 4 /\ Len(b) = 1 /\ Len(c) = 5 /\ Len(p) = 4
    OBVIOUS
  <1>3. a[1] = "snapshot" /\ a[2] = "fsync" /\ a[3] = "take" /\ a[4] = "disconnect"
    OBVIOUS
  <1>4. c[1] = "snapshot" /\ c[2] = "fsync" /\ c[3] = "take" /\ c[4] = "disconnect"
        /\ c[5] = "detach" /\ b[1] = "detach"
    OBVIOUS
  <1>5. p[1] = "refresh" /\ p[2] = "limits" /\ p[3] = "reconcile" /\ p[4] = "persist"
    OBVIOUS
  <1>6. <<>> \o b = b
    OBVIOUS
  <1>7. StopSteps = a /\ PersistSteps = p /\ <<"detach">> = b
    BY Zenon DEF StopSteps, PersistSteps
  <1>0. (running => d = c /\ k = 5) /\ (~running => d = b /\ k = 1)
    OBVIOUS
  <1> HIDE DEF a, b, c, p, d, k
  <1>8. a \o b = c
    <2>1. /\ Len(c) = Len(a) + Len(b)
          /\ \A i \in 1 .. Len(a) : c[i] = a[i]
          /\ \A i \in 1 .. Len(b) : c[i + Len(a)] = b[i]
      <3>1. \A i \in 1 .. 4 : c[i] = a[i]
        BY <1>3, <1>4
      <3>2. \A i \in 1 .. 1 : c[i + 4] = b[i]
        BY <1>4
      <3> QED BY <1>2, <3>1, <3>2
    <2> QED BY <1>1, <2>1, ConcatIs
  <1>9. s = d \o p /\ d \in Seq(StepName) /\ Len(d) = k /\ k \in 1 .. 5
    <2>1. CASE running
      <3>1. s = (StopSteps \o <<"detach">>) \o PersistSteps
        BY <2>1, Zenon
      <3>2. s = c \o p
        BY <1>7, <1>8, <3>1, Zenon
      <3>3. d = c /\ k = 5
        BY <1>0, <2>1
      <3>4. s = d \o p /\ d \in Seq(StepName) /\ Len(d) = k
        BY <1>1, <1>2, <3>2, <3>3, Zenon
      <3>5. k \in 1 .. 5
        BY <3>3
      <3> QED BY <3>4, <3>5, Zenon
    <2>2. CASE ~running
      <3>1. s = (<<>> \o <<"detach">>) \o PersistSteps
        BY <2>2, Zenon
      <3>2. s = b \o p
        BY <1>6, <1>7, <3>1, Zenon
      <3>3. d = b /\ k = 1
        BY <1>0, <2>2
      <3>4. s = d \o p /\ d \in Seq(StepName) /\ Len(d) = k
        BY <1>1, <1>2, <3>2, <3>3, Zenon
      <3>5. k \in 1 .. 5
        BY <3>3
      <3> QED BY <3>4, <3>5, Zenon
    <2> QED BY <2>1, <2>2
  <1>10. /\ \A n \in 1 .. k - 1 : d[n] \in Stops
         /\ running => k = 5 /\ d[4] = "disconnect"
    <2>1. CASE running
      BY <1>0, <1>4, <2>1 DEF Stops
    <2>2. CASE ~running
      BY <1>0, <2>2
    <2> QED BY <2>1, <2>2
  <1>11. Len(s) = k + 4 /\ (\A n \in 1 .. k : s[n] = d[n])
         /\ \A n \in 1 .. k + 4 : n > k => s[n] = p[n - k]
    <2>1. ASSUME NEW x \in Seq(StepName), NEW y \in Seq(StepName)
          PROVE  /\ Len(x \o y) = Len(x) + Len(y)
                 /\ \A n \in 1 .. Len(x) : (x \o y)[n] = x[n]
                 /\ \A n \in 1 .. Len(x) + Len(y) : n > Len(x) => (x \o y)[n] = y[n - Len(x)]
      OBVIOUS
    <2>2. /\ Len(d \o p) = Len(d) + Len(p)
          /\ \A n \in 1 .. Len(d) : (d \o p)[n] = d[n]
          /\ \A n \in 1 .. Len(d) + Len(p) : n > Len(d) => (d \o p)[n] = p[n - Len(d)]
      BY <1>1, <1>9, <2>1
    <2> QED BY <1>2, <1>9, <2>2
  <1> SUFFICES ASSUME NEW n \in 1 .. Len(s), s[n] = "detach"
               PROVE  /\ \A j \in 1 .. n - 1 : s[j] \in Stops
                      /\ running => \E m \in 1 .. n - 1 : s[m] = "disconnect"
    BY DEF DetachWaits
  <1>12. n <= k
    <2> SUFFICES ASSUME n > k PROVE FALSE
      BY <1>9
    <2>0. n \in 1 .. k + 4
      BY <1>11, Zenon
    <2>1. n - k \in 1 .. 4 /\ s[n] = p[n - k]
      BY <1>9, <1>11, <2>0
    <2>2. n - k = 1 \/ n - k = 2 \/ n - k = 3 \/ n - k = 4
      BY <1>9, <2>1
    <2> QED BY <1>5, <2>1, <2>2
  <1>13. n = k
    <2> SUFFICES ASSUME n < k PROVE FALSE
      BY <1>9, <1>12
    <2>1. n \in 1 .. k - 1 /\ n \in 1 .. k
      BY <1>9
    <2> QED BY <1>10, <1>11, <2>1 DEF Stops
  <1>14. \A j \in 1 .. n - 1 : s[j] \in Stops
    <2>1. \A j \in 1 .. k - 1 : j \in 1 .. k
      BY <1>9
    <2> QED BY <1>10, <1>11, <1>13, <2>1
  <1>15. ASSUME running PROVE \E m \in 1 .. n - 1 : s[m] = "disconnect"
    <2>1. k = 5 /\ 4 \in 1 .. n - 1 /\ s[4] = d[4]
      BY <1>9, <1>10, <1>11, <1>13, <1>15
    <2> QED BY <1>10, <1>15, <2>1
  <1> QED BY <1>14, <1>15

\* A call that begins, ends at once or crashes leaves no such engine either.
LEMMA BeginLive ==
    ASSUME RegistryInv, RegistryInv', LiveInv,
           \/ Operator \/ PersistTick \/ AttachNetwork \/ DetachNetwork
           \/ FinishScan \/ FailScan \/ Crash \/ LoadAll
           \/ \E f \in Fetcher : CompleteMagnet(f)
    PROVE  LiveInv'
  <1>0. /\ (live => network /\ hosted) /\ (~up => ~hosted) /\ (live' => hosted')
        /\ call' \in Seq(StepName) /\ live \in BOOLEAN /\ live' \in BOOLEAN
        /\ (job # "none" => ~live) /\ (~up => ~live)
    BY DEF RegistryInv, TypeOK, Presence, LiveInv
  <1>1. ASSUME Idle PROVE ~(live /\ Paused)
    BY <1>1, NothingDue DEF Idle, LiveInv
  \* With the lock free and no wish changed, only a detach needs a look.
  <1>2. ASSUME up, up', Idle, UNCHANGED <<live, wanted>>, network => network',
               \A n \in 1 .. Len(call') : call'[n] # "detach"
        PROVE  LiveInv'
    <2>1. DetachWaits(call', live')
      BY <1>2, NoDetach
    <2>2. ~(live' /\ wanted' # "running") /\ (live' => network')
      BY <1>0, <1>1, <1>2 DEF Paused
    <2> QED BY <1>2, <2>1, <2>2, LiveFrom
  <1>3. ASSUME NEW s \in {<<>>, <<"refresh">>, <<"write">>, <<"reconcile">>,
                          <<"reconcile", "write">>, <<"publish", "reconcile">>,
                          <<"refresh", "limits", "reconcile", "persist">>,
                          <<"add_torrent", "add_resume", "acknowledge">>,
                          <<"add_torrent", "add_resume", "drop_magnet">>,
                          <<"unlink_torrent", "unlink_resume", "delete_data">>,
                          <<"unlink_torrent", "unlink_resume", "forget">>,
                          <<"snapshot", "fsync", "take", "disconnect", "unlink_torrent",
                            "unlink_resume", "delete_data">>,
                          <<"snapshot", "fsync", "take", "disconnect", "unlink_torrent",
                            "unlink_resume", "forget">>},
               NEW n \in 1 .. Len(s)
        PROVE  s[n] # "detach"
    <2>0. /\ Len(<<>>) = 0 /\ Len(<<"refresh">>) = 1 /\ Len(<<"write">>) = 1
          /\ Len(<<"reconcile">>) = 1 /\ Len(<<"reconcile", "write">>) = 2
          /\ Len(<<"publish", "reconcile">>) = 2
          /\ Len(<<"refresh", "limits", "reconcile", "persist">>) = 4
          /\ Len(<<"add_torrent", "add_resume", "acknowledge">>) = 3
          /\ Len(<<"add_torrent", "add_resume", "drop_magnet">>) = 3
          /\ Len(<<"unlink_torrent", "unlink_resume", "delete_data">>) = 3
          /\ Len(<<"unlink_torrent", "unlink_resume", "forget">>) = 3
          /\ Len(<<"snapshot", "fsync", "take", "disconnect", "unlink_torrent",
                   "unlink_resume", "delete_data">>) = 7
          /\ Len(<<"snapshot", "fsync", "take", "disconnect", "unlink_torrent",
                   "unlink_resume", "forget">>) = 7
      OBVIOUS
    <2>1. Len(s) \in {0, 1, 2, 3, 4, 7}
      BY <1>3, <2>0, Zenon
    <2>2. \A m \in {0, 1, 2, 3, 4, 7} : \A j \in 1 .. m : j \in 1 .. 7
      OBVIOUS
    <2>3. n \in 1 .. 7
      BY <2>1, <2>2, Zenon
    <2> QED BY <1>3, <2>3
  <1>4. ASSUME PersistTick \/ List \/ SetOption \/ AttachNetwork PROVE LiveInv'
    <2>1. up /\ up' /\ Idle /\ UNCHANGED <<live, wanted>> /\ (network => network')
      BY <1>4 DEF PersistTick, List, SetOption, AttachNetwork, Begin, Idle, entryVars, engineVars
    <2>2. call' \in {<<"refresh">>, <<"write">>, <<"reconcile">>,
                     <<"refresh", "limits", "reconcile", "persist">>}
      BY <1>4, Zenon DEF PersistTick, List, SetOption, AttachNetwork, Begin, PersistSteps
    <2> QED BY <1>2, <1>3, <2>1, <2>2
  <1>5. ASSUME NEW b \in BOOLEAN, SetPaused(b) \/ SetSeedRatio(b) PROVE LiveInv'
    <2>1. /\ call' = <<"reconcile", "write">>
          /\ UNCHANGED <<up, network, live>> /\ up
      BY <1>5, Zenon DEF SetPaused, SetSeedRatio, Begin, Idle, engineVars
    <2>2. \A n \in 1 .. Len(call') : call'[n] # "detach"
      BY <1>3, <2>1
    <2>3. DetachWaits(call', live')
      BY <2>2, NoDetach
    <2>4. Due(call', {"reconcile", "disconnect"})
      BY <2>1, StopsDue
    <2>5. (live' => network') /\ (~up' => ~hosted')
      BY <1>0, <2>1
    <2> QED BY <2>3, <2>4, <2>5, LiveFrom
  <1>6. ASSUME NEW b \in BOOLEAN, AddTorrent(b) PROVE LiveInv'
    <2>1. /\ call' = <<"add_torrent", "add_resume", "acknowledge">>
          /\ UNCHANGED <<up, network, live>> /\ up /\ ~hosted
      BY <1>6, Zenon DEF AddTorrent, Begin, Idle, engineVars
    <2>2. \A n \in 1 .. Len(call') : call'[n] # "detach"
      BY <1>3, <2>1
    <2>3. DetachWaits(call', live') /\ ~live'
      BY <1>0, <2>1, <2>2, NoDetach
    <2> QED BY <2>1, <2>3, LiveFrom
  <1>7. ASSUME NEW b \in BOOLEAN, RemoveTorrent(b) PROVE LiveInv'
    <2>1. /\ up /\ up' /\ Idle /\ UNCHANGED <<live, wanted>> /\ (network => network')
      BY <1>7, Zenon DEF RemoveTorrent, Begin, Idle, engineVars, entryVars
    <2> DEFINE e == IF b THEN "delete_data" ELSE "forget"
               ends == <<"unlink_torrent", "unlink_resume", e>>
    <2>2. call' = (IF live THEN StopSteps ELSE <<>>) \o ends
      BY <1>7 DEF RemoveTorrent, Begin
    <2>3. e \in {"delete_data", "forget"} /\ e \in StepName
      BY DEF StepName
    <2> HIDE DEF e
    <2>4. CASE live
      <3>1. call' = <<"snapshot", "fsync", "take", "disconnect", "unlink_torrent",
                      "unlink_resume", e>>
        BY <2>2, <2>3, <2>4, StopThenUnlink
      <3> QED BY <1>2, <1>3, <2>1, <2>3, <3>1
    <2>5. CASE ~live
      <3>1. call' = ends
        BY <2>2, <2>5
      <3> QED BY <1>2, <1>3, <2>1, <2>3, <3>1
    <2> QED BY <2>4, <2>5
  <1>8. ASSUME BeginVerify \/ AddMagnet \/ RemoveMagnet \/ FailScan PROVE LiveInv'
    <2>1. /\ up /\ up' /\ Idle /\ UNCHANGED <<live, wanted>> /\ (network => network')
          /\ call' = <<>>
      <3>1. CASE BeginVerify \/ FailScan
        BY <3>1 DEF BeginVerify, FailScan, Idle, engineVars
      <3>2. CASE AddMagnet \/ RemoveMagnet
        BY <3>2 DEF AddMagnet, RemoveMagnet, Idle, engineVars, entryVars
      <3> QED BY <1>8, <3>1, <3>2
    <2> QED BY <1>2, <1>3, <2>1
  <1>9. ASSUME FinishScan PROVE LiveInv'
    <2>1. /\ up /\ up' /\ Idle /\ UNCHANGED <<live, wanted>> /\ (network => network')
          /\ call' = <<"publish", "reconcile">>
      BY <1>9, Zenon DEF FinishScan, Begin, Idle, engineVars
    <2> QED BY <1>2, <1>3, <2>1
  <1>10. ASSUME NEW f \in Fetcher, CompleteMagnet(f) PROVE LiveInv'
    <2>1. CASE hosted
      <3>1. /\ up /\ up' /\ Idle /\ UNCHANGED <<live, wanted>> /\ (network => network')
            /\ call' = <<>>
        BY <1>10, <2>1, Zenon DEF CompleteMagnet, Idle, engineVars
      <3> QED BY <1>2, <1>3, <3>1
    <2>2. CASE ~hosted
      <3>1. /\ call' = <<"add_torrent", "add_resume", "drop_magnet">>
            /\ UNCHANGED <<up, live>> /\ up
        BY <1>10, <2>2, Zenon DEF CompleteMagnet, Idle, engineVars
      <3>2. \A n \in 1 .. Len(call') : call'[n] # "detach"
        BY <1>3, <3>1
      <3>3. DetachWaits(call', live') /\ ~live'
        BY <1>0, <2>2, <3>1, <3>2, NoDetach
      <3> QED BY <3>1, <3>3, LiveFrom
    <2> QED BY <2>1, <2>2
  <1>11. ASSUME DetachNetwork PROVE LiveInv'
    <2>1. /\ up /\ up' /\ Idle /\ UNCHANGED <<live, wanted, network>> /\ network
          /\ call' = (IF live THEN StopSteps ELSE <<>>) \o <<"detach">> \o PersistSteps
      BY <1>11, Zenon DEF DetachNetwork, Begin, Idle, engineVars, entryVars
    <2>2. DetachWaits(call', live)
      BY <1>0, <2>1, DetachCall
    <2>3. DetachWaits(call', live') /\ ~(live' /\ wanted' # "running")
      BY <1>1, <2>1, <2>2 DEF Paused
    <2> QED BY <2>1, <2>3, LiveFrom
  <1>12. ASSUME Crash \/ LoadAll PROVE LiveInv'
    <2>1. call' = <<>> /\ ~live' /\ (~up' => ~hosted')
      BY <1>0, <1>12 DEF Crash, LoadAll, engineVars, RegistryInv, Presence
    <2>2. DetachWaits(call', live')
      BY <1>3, <2>1, NoDetach
    <2> QED BY <2>1, <2>2, LiveFrom
  <1> QED BY <1>4, <1>5, <1>6, <1>7, <1>8, <1>9, <1>10, <1>11, <1>12 DEF Operator

\* Every step keeps the engine's part of the invariant.
LEMMA NextLive == RegistryInv /\ RegistryInv' /\ LiveInv /\ [Next]_vars => LiveInv'
  <1> SUFFICES ASSUME RegistryInv, RegistryInv', LiveInv, [Next]_vars PROVE LiveInv'
    OBVIOUS
  <1>1. CASE Step
    BY <1>1, StepLive
  <1>2. CASE \/ Operator \/ PersistTick \/ AttachNetwork \/ DetachNetwork
             \/ FinishScan \/ FailScan \/ Crash \/ LoadAll
             \/ \E f \in Fetcher : CompleteMagnet(f)
    BY <1>2, BeginLive
  <1>3. CASE \/ ScanRun
             \/ \E i \in Piece : EnginePiece(i) \/ LateBlock(i)
             \/ \E f \in Fetcher : SpawnFetch(f) \/ FetchRound(f) \/ FetchEnds(f)
             \/ UNCHANGED vars
    <2>1. UNCHANGED <<call, live, network, wanted, up, hosted>>
      BY <1>3 DEF ScanRun, EnginePiece, LateBlock, SpawnFetch, FetchRound, FetchEnds, vars,
                  entryVars, engineVars
    <2> QED BY <2>1 DEF LiveInv, Paused, Due, DetachWaits
  <1> QED BY <1>1, <1>2, <1>3 DEF Next

\* An engine has a network, and one that should not run is about to stop.
LEMMA LiveInvariant == Spec => []LiveInv
  <1>1. Init => LiveInv
    BY DEF Init, LiveInv, DetachWaits
  <1>2. RegistryInv /\ RegistryInv' /\ LiveInv /\ [Next]_vars => LiveInv'
    BY NextLive
  <1> QED BY <1>1, <1>2, RegistryInvariant, PTL DEF Spec

\* Whenever the lock is free, an engine that runs is hosted, wanted, not being
\* scanned and has a network, whatever fails (reconcile, stop_live,
\* detach_network, enforce_seed_limits).
THEOREM RegistryLiveIsWanted == Spec => []LiveIsWanted
  <1>1. RegistryInv /\ LiveInv => LiveIsWanted
    BY NothingDue DEF RegistryInv, Presence, LiveInv, LiveIsWanted, Idle
  <1> QED BY <1>1, RegistryInvariant, LiveInvariant, PTL

\* Where nothing is due, the record and the entry agree, and keep agreeing if
\* neither moves.
LEMMA AgreedWritten ==
    ASSUME WrittenInv, ~Due(call, {"write"}), hosted' => hosted,
           record' = record, wanted' = wanted
    PROVE  WrittenInv'
  <1>1. ~(hosted' /\ record'.wanted # wanted')
    BY DEF WrittenInv
  <1> QED BY <1>1, WrittenFrom

\* A step that changes neither the entry's wish nor the record.
LEMMA ConcatWritten ==
    ASSUME TypeOK, WrittenInv, call # <<>>, Head(call) # "write",
           NEW more \in Seq(StepName), Proceed(more),
           \A n \in 1 .. Len(more) : more[n] \notin Aborting,
           hosted' => hosted, record' = record, wanted' = wanted
    PROVE  WrittenInv'
  <1>1. call' = more \o Tail(call) /\ call \in Seq(StepName) /\ Tail(call) \in Seq(StepName)
    BY DEF Proceed, TypeOK
  <1>2. CASE ~Due(call, {"write"})
    BY <1>2, AgreedWritten
  <1>3. CASE Due(call, {"write"})
    <2>1. Due(Tail(call), {"write"})
      BY <1>1, <1>3, DueTail
    <2>2. Due(call', {"write"})
      BY <1>1, <2>1, DueConcat
    <2> QED BY <2>2, WrittenFrom
  <1> QED BY <1>2, <1>3

\* A step of a call leaves no difference that nobody writes.
LEMMA StepWritten ==
    ASSUME "write" \notin Faults, RegistryInv, WrittenInv, Step
    PROVE  WrittenInv'
  <1> USE DEF RegistryInv
  <1>1. ASSUME Refresh \/ Snapshot \/ Fsync \/ TakeHave \/ Disconnect \/ DropNetwork
               \/ DropMagnet \/ Acknowledge \/ Reconcile \/ Persist
        PROVE  WrittenInv'
    <2>1. /\ call # <<>> /\ Head(call) # "write" /\ UNCHANGED <<hosted, record, wanted>>
          /\ \E more \in {<<>>, StopSteps, <<"snapshot", "fsync", "write">>} : Proceed(more)
      <3>1. CASE Refresh \/ Snapshot \/ TakeHave \/ Disconnect
        BY <3>1 DEF Refresh, Snapshot, TakeHave, Disconnect, AtStep, entryVars, fileVars
      <3>2. CASE Fsync \/ DropNetwork
        BY <3>2 DEF Fsync, DropNetwork, AtStep, entryVars, fileVars
      <3>3. CASE DropMagnet \/ Acknowledge
        BY <3>3, Zenon DEF DropMagnet, Acknowledge, AtStep, entryVars, fileVars
      <3>4. CASE Reconcile
        <4>1. AtStep("reconcile") /\ UNCHANGED <<hosted, record, wanted>>
              /\ (Proceed(StopSteps) \/ Proceed(<<>>))
          BY <3>4 DEF Reconcile, entryVars, fileVars
        <4> QED BY <4>1 DEF AtStep
      <3>5. CASE Persist
        <4>1. AtStep("persist") /\ UNCHANGED <<hosted, record, wanted>>
              /\ (Proceed(<<"snapshot", "fsync", "write">>) \/ Proceed(<<>>))
          BY <3>5 DEF Persist, entryVars, fileVars
        <4> QED BY <4>1 DEF AtStep
      <3> QED BY <1>1, <3>1, <3>2, <3>3, <3>4, <3>5
    <2> QED BY <2>1, StopsDue, ConcatWritten, Zenon
  <1>2. ASSUME NEW why \in Wanted \ {"operator"}, SeedLimits(why) PROVE WrittenInv'
    <2>1. /\ call # <<>> /\ Head(call) # "write" /\ UNCHANGED <<hosted, record>>
          /\ \/ Proceed(StopSteps \o <<"write">>)
             \/ wanted' = wanted /\ Proceed(<<>>)
      BY <1>2 DEF SeedLimits, AtStep, fileVars
    <2>2. CASE Proceed(StopSteps \o <<"write">>)
      <3>1. call' = (StopSteps \o <<"write">>) \o Tail(call) /\ Tail(call) \in Seq(StepName)
        BY <2>1, <2>2 DEF Proceed, TypeOK
      <3>2. Due(call', {"write"})
        BY <3>1, StopsDue, DueConcat
      <3> QED BY <3>2, WrittenFrom
    <2>3. CASE wanted' = wanted /\ Proceed(<<>>)
      BY <2>1, <2>3, StopsDue, ConcatWritten, Zenon
    <2> QED BY <2>1, <2>2, <2>3
  <1>3. ASSUME WriteResume \/ PublishResume \/ AddResumeFile PROVE WrittenInv'
    <2>1. wanted' = wanted
          /\ \E h, v \in SUBSET Piece : record' = [have |-> h, verified |-> v, wanted |-> wanted]
      <3>1. have \in SUBSET Piece /\ verified \in SUBSET Piece /\ {} \in SUBSET Piece
        BY DEF TypeOK
      <3>2. CASE WriteResume
        BY <3>1, <3>2, Zenon DEF WriteResume, entryVars
      <3>3. CASE PublishResume
        BY <3>1, <3>3, Zenon DEF PublishResume, entryVars
      <3>4. CASE AddResumeFile
        BY <3>1, <3>4, Zenon DEF AddResumeFile
      <3> QED BY <1>3, <3>2, <3>3, <3>4
    <2>2. record'.wanted = wanted'
      BY <2>1
    <2> QED BY <2>2, WrittenFrom
  <1>4. ASSUME AddTorrentFile \/ UnlinkTorrent \/ UnlinkResume PROVE WrittenInv'
    <2>1. /\ call # <<>> /\ UNCHANGED <<hosted, record, wanted>>
          /\ Head(call) \in {"add_torrent", "unlink_torrent", "unlink_resume"}
      BY <1>4, Zenon DEF AddTorrentFile, UnlinkTorrent, UnlinkResume, AtStep, entryVars
    <2>2. Head(call) \in Aborting /\ call \in Seq(StepName)
      BY <2>1 DEF Aborting, TypeOK
    <2>3. ~Due(call, {"write"})
      BY <2>1, <2>2, DueTail
    <2> QED BY <2>1, <2>3, AgreedWritten
  <1>5. ASSUME DeleteData \/ Forget PROVE WrittenInv'
    BY <1>5, WrittenFrom DEF DeleteData, Forget
  <1> QED BY <1>1, <1>2, <1>3, <1>4, <1>5 DEF Step

\* So do a call that begins, a crash and a restart.
LEMMA BeginWritten ==
    ASSUME RegistryInv, LiveInv, WrittenInv,
           \/ Operator \/ PersistTick \/ AttachNetwork \/ DetachNetwork
           \/ FinishScan \/ FailScan \/ Crash \/ LoadAll
           \/ \E f \in Fetcher : CompleteMagnet(f)
    PROVE  WrittenInv'
  <1>0. ASSUME Idle PROVE ~Due(call, {"write"})
    BY <1>0, NothingDue DEF Idle
  <1>1. ASSUME \/ PersistTick \/ List \/ SetOption \/ AttachNetwork \/ DetachNetwork
               \/ \E b \in BOOLEAN : RemoveTorrent(b)
        PROVE  WrittenInv'
    <2>1. Idle /\ UNCHANGED <<hosted, wanted, record>>
      BY <1>1, Zenon DEF PersistTick, List, SetOption, AttachNetwork, DetachNetwork,
                         RemoveTorrent, Begin, entryVars, fileVars
    <2> QED BY <1>0, <2>1, AgreedWritten
  <1>2. ASSUME BeginVerify \/ AddMagnet \/ RemoveMagnet \/ FailScan \/ FinishScan
        PROVE  WrittenInv'
    <2>1. Idle /\ UNCHANGED <<hosted, wanted, record>>
      BY <1>2, Zenon DEF BeginVerify, AddMagnet, RemoveMagnet, FailScan, FinishScan, Begin,
                         entryVars, fileVars
    <2> QED BY <1>0, <2>1, AgreedWritten
  <1>3. ASSUME NEW b \in BOOLEAN, SetPaused(b) \/ SetSeedRatio(b) PROVE WrittenInv'
    <2>1. call' = <<"reconcile", "write">>
      BY <1>3, Zenon DEF SetPaused, SetSeedRatio, Begin
    <2> QED BY <2>1, StopsDue, WrittenFrom
  <1>4. ASSUME NEW b \in BOOLEAN, AddTorrent(b) PROVE WrittenInv'
    BY <1>4, WrittenFrom DEF AddTorrent
  <1>5. ASSUME NEW f \in Fetcher, CompleteMagnet(f) PROVE WrittenInv'
    <2>1. CASE hosted
      BY <1>0, <1>5, <2>1, AgreedWritten DEF CompleteMagnet, fileVars
    <2>2. CASE ~hosted
      BY <1>5, <2>2, WrittenFrom DEF CompleteMagnet
    <2> QED BY <2>1, <2>2
  <1>6. ASSUME Crash PROVE WrittenInv'
    BY <1>6, WrittenFrom DEF Crash
  <1>7. ASSUME LoadAll PROVE WrittenInv'
    <2>1. record' = record /\ ~hosted
      BY <1>7 DEF LoadAll, LiveInv
    <2>2. CASE Loads
      BY <1>7, <2>1, <2>2, WrittenFrom DEF LoadAll
    <2>3. CASE ~Loads
      BY <1>7, <2>1, <2>3, WrittenFrom DEF LoadAll, entryVars
    <2> QED BY <2>2, <2>3
  <1> QED BY <1>1, <1>2, <1>3, <1>4, <1>5, <1>6, <1>7 DEF Operator

\* As long as records can be written, the lock is free only when what runs,
\* what is wanted and what the record says agree: syncs, scans, starts and
\* unlinks may fail and crashes come at any step (reconcile, stop_live,
\* enforce_seed_limits, set_paused, load_one).
THEOREM RegistryStateAgrees ==
    ASSUME "write" \notin Faults
    PROVE  Spec => []StateAgrees
  <1>1. Init => WrittenInv
    BY DEF Init, WrittenInv
  <1>2. RegistryInv /\ LiveInv /\ WrittenInv /\ [Next]_vars => WrittenInv'
    <2> SUFFICES ASSUME RegistryInv, LiveInv, WrittenInv, [Next]_vars PROVE WrittenInv'
      OBVIOUS
    <2>1. CASE Step
      BY <2>1, StepWritten
    <2>2. CASE \/ Operator \/ PersistTick \/ AttachNetwork \/ DetachNetwork
               \/ FinishScan \/ FailScan \/ Crash \/ LoadAll
               \/ \E f \in Fetcher : CompleteMagnet(f)
      BY <2>2, BeginWritten
    <2>3. CASE \/ ScanRun
               \/ \E i \in Piece : EnginePiece(i) \/ LateBlock(i)
               \/ \E f \in Fetcher : SpawnFetch(f) \/ FetchRound(f) \/ FetchEnds(f)
               \/ UNCHANGED vars
      <3>1. UNCHANGED <<call, wanted, hosted, record>>
        BY <2>3 DEF ScanRun, EnginePiece, LateBlock, SpawnFetch, FetchRound, FetchEnds, vars,
                    entryVars, fileVars
      <3> QED BY <3>1 DEF WrittenInv, Due
    <2> QED BY <2>1, <2>2, <2>3 DEF Next
  <1>3. WrittenInv => WantedRecorded
    BY NothingDue DEF WrittenInv, WantedRecorded, Idle
  <1>4. LiveIsWanted /\ WantedRecorded => StateAgrees
    BY DEF StateAgrees
  <1> QED BY <1>1, <1>2, <1>3, <1>4, RegistryInvariant, LiveInvariant, RegistryLiveIsWanted, PTL
          DEF Spec

-----------------------------------------------------------------------------
(* What was acknowledged is on disk.  Adds and removals change the files one *)
(* by one, so the invariant ties what is on disk to how far they have come.  *)

AddSteps == {"add_torrent", "acknowledge", "drop_magnet"}

Removing == {"unlink_torrent", "unlink_resume", "delete_data", "forget"}

\* No step of s is one of E.
Without(s, E) == \A n \in 1 .. Len(s) : s[n] \notin E

\* A pending magnet has its file, a stopped daemon has none.
MagnetsFiled ==
    /\ pending # "no" => magnetFile
    /\ ~up => pending = "no" /\ \A f \in Fetcher : fetch[f] = "off"

\* Where the add or the removal stands: nothing is acknowledged that a removal
\* is taking away, an add that may take the .torrent away again leaves a
\* magnet, and an add answers once both files are there.
FilesFollow ==
    /\ ~Without(call, Removing) => ~asked
    /\ call \in Adding =>
          /\ asked => pending # "no"
          /\ Head(call) = "add_resume" => torrentFile
    /\ ~Without(call, AddSteps) =>
          \/ call \in Adding
          \/ Tail(call) = <<>> /\ hosted /\ torrentFile /\ resumeFile
             /\ Head(call) \notin {"add_torrent", "add_resume"}

\* A fetch thread whose magnet is gone finds nothing acknowledged, or an entry.
FetchesFollow ==
    (\E f \in Fetcher : fetch[f] # "off") /\ asked /\ ~hosted => pending # "no"

DiskInv == AcknowledgedOnDisk /\ MagnetsFiled /\ FilesFollow /\ FetchesFollow

\* A step comes first or later.
LEMMA WithoutTail ==
    ASSUME NEW s \in Seq(StepName), s # <<>>, NEW E
    PROVE  /\ Without(s, E) <=> Head(s) \notin E /\ Without(Tail(s), E)
  <1>1. Head(s) = s[1] /\ Len(s) \in Nat /\ Len(s) # 0 /\ Len(Tail(s)) = Len(s) - 1
        /\ \A k \in 1 .. Len(s) - 1 : Tail(s)[k] = s[k + 1]
    OBVIOUS
  <1>2. ASSUME Without(s, E) PROVE Head(s) \notin E /\ Without(Tail(s), E)
    <2>1. Head(s) \notin E
      BY <1>1, <1>2 DEF Without
    <2>2. ASSUME NEW k \in 1 .. Len(Tail(s)) PROVE Tail(s)[k] \notin E
      <3>1. k \in 1 .. Len(s) - 1 /\ k + 1 \in 1 .. Len(s)
        BY <1>1
      <3> QED BY <1>1, <1>2, <3>1 DEF Without
    <2> QED BY <2>1, <2>2 DEF Without
  <1>3. ASSUME Head(s) \notin E, Without(Tail(s), E) PROVE Without(s, E)
    <2>1. ASSUME NEW k \in 1 .. Len(s) PROVE s[k] \notin E
      <3>1. CASE k = 1
        BY <1>1, <1>3, <3>1
      <3>2. CASE k # 1
        <4>1. k - 1 \in 1 .. Len(s) - 1 /\ (k - 1) + 1 = k
          BY <1>1, <3>2
        <4> QED BY <1>1, <1>3, <4>1 DEF Without
      <3> QED BY <3>1, <3>2
    <2> QED BY <2>1 DEF Without
  <1> QED BY <1>2, <1>3

LEMMA WithoutConcat ==
    ASSUME NEW a \in Seq(StepName), NEW b \in Seq(StepName), NEW E,
           Without(a, E), Without(b, E)
    PROVE  Without(a \o b, E)
  <1>1. /\ Len(a \o b) = Len(a) + Len(b) /\ Len(a) \in Nat /\ Len(b) \in Nat
        /\ \A n \in 1 .. Len(a) : (a \o b)[n] = a[n]
        /\ \A n \in 1 .. Len(a) + Len(b) : n > Len(a) => (a \o b)[n] = b[n - Len(a)]
    OBVIOUS
  <1>2. ASSUME NEW n \in 1 .. Len(a \o b) PROVE (a \o b)[n] \notin E
    <2>1. CASE n \in 1 .. Len(a)
      BY <1>1, <2>1 DEF Without
    <2>2. CASE n \notin 1 .. Len(a)
      <3>1. n - Len(a) \in 1 .. Len(b) /\ n > Len(a) /\ n \in 1 .. Len(a) + Len(b)
        BY <1>1, <2>2
      <3> QED BY <1>1, <3>1 DEF Without
    <2> QED BY <2>1, <2>2
  <1> QED BY <1>2 DEF Without

\* A short list, step by step.
LEMMA WithoutList ==
    ASSUME NEW E, NEW w, w \notin E
    PROVE  /\ Without(<<>>, E) /\ Without(<<w>>, E)
           /\ \A x : x \notin E => Without(<<w, x>>, E)
           /\ \A x, y : x \notin E /\ y \notin E => Without(<<w, x, y>>, E)
           /\ \A x, y, z : x \notin E /\ y \notin E /\ z \notin E => Without(<<w, x, y, z>>, E)
  <1>1. Without(<<>>, E)
    BY DEF Without
  <1>2. Without(<<w>>, E)
    <2>1. ASSUME NEW n \in 1 .. Len(<<w>>) PROVE <<w>>[n] \notin E
      <3>1. n \in {1}
        OBVIOUS
      <3> QED BY <3>1
    <2> QED BY <2>1 DEF Without
  <1>3. ASSUME NEW x, x \notin E PROVE Without(<<w, x>>, E)
    <2>1. ASSUME NEW n \in 1 .. Len(<<w, x>>) PROVE <<w, x>>[n] \notin E
      <3>1. n \in {1, 2}
        OBVIOUS
      <3> QED BY <1>3, <3>1
    <2> QED BY <2>1 DEF Without
  <1>4. ASSUME NEW x, NEW y, x \notin E, y \notin E PROVE Without(<<w, x, y>>, E)
    <2>1. ASSUME NEW n \in 1 .. Len(<<w, x, y>>) PROVE <<w, x, y>>[n] \notin E
      <3>1. n \in {1, 2, 3}
        OBVIOUS
      <3> QED BY <1>4, <3>1
    <2> QED BY <2>1 DEF Without
  <1>5. ASSUME NEW x, NEW y, NEW z, x \notin E, y \notin E, z \notin E
        PROVE  Without(<<w, x, y, z>>, E)
    <2>1. ASSUME NEW n \in 1 .. Len(<<w, x, y, z>>) PROVE <<w, x, y, z>>[n] \notin E
      <3>1. n \in {1, 2, 3, 4}
        OBVIOUS
      <3> QED BY <1>5, <3>1
    <2> QED BY <2>1 DEF Without
  <1> QED BY <1>1, <1>2, <1>3, <1>4, <1>5

\* The lists of steps that neither add nor remove.
LEMMA WithoutSteps ==
    ASSUME NEW E, E = AddSteps \cup Removing
    PROVE  /\ \A s \in {<<>>, <<"refresh">>, <<"write">>, <<"reconcile">>, <<"detach">>,
                        <<"reconcile", "write">>, <<"publish", "reconcile">>,
                        <<"snapshot", "fsync", "write">>} :
                 s \in Seq(StepName) /\ Without(s, E)
           /\ StopSteps \in Seq(StepName) /\ Without(StopSteps, E)
           /\ PersistSteps \in Seq(StepName) /\ Without(PersistSteps, E)
           /\ StopSteps \o <<"write">> \in Seq(StepName) /\ Without(StopSteps \o <<"write">>, E)
  <1>1. \A w \in {"refresh", "write", "reconcile", "detach", "publish", "snapshot", "fsync",
                  "take", "disconnect", "limits", "persist"} : w \notin E
    BY DEF AddSteps, Removing
  <1>2. \A s \in {<<>>, <<"refresh">>, <<"write">>, <<"reconcile">>, <<"detach">>,
                  <<"reconcile", "write">>, <<"publish", "reconcile">>,
                  <<"snapshot", "fsync", "write">>} : Without(s, E)
    <2>1. /\ "refresh" \notin E /\ "write" \notin E /\ "reconcile" \notin E /\ "detach" \notin E
          /\ "publish" \notin E /\ "snapshot" \notin E /\ "fsync" \notin E
      BY <1>1, Zenon
    <2>2. /\ Without(<<>>, E) /\ Without(<<"refresh">>, E) /\ Without(<<"write">>, E)
          /\ Without(<<"reconcile">>, E) /\ Without(<<"detach">>, E)
      BY <2>1, WithoutList, Zenon
    <2>3. /\ Without(<<"reconcile", "write">>, E) /\ Without(<<"publish", "reconcile">>, E)
      BY <2>1, WithoutList, Zenon
    <2>4. Without(<<"snapshot", "fsync", "write">>, E)
      BY <2>1, WithoutList, Zenon
    <2> QED BY <2>2, <2>3, <2>4
  <1>3. Without(StopSteps, E) /\ Without(PersistSteps, E) /\ Without(<<"write">>, E)
    BY <1>1, <1>2, WithoutList, Zenon DEF StopSteps, PersistSteps
  <1>4. Without(StopSteps \o <<"write">>, E)
    BY <1>3, PlainSteps, WithoutConcat
  <1> QED BY <1>2, <1>3, <1>4, PlainSteps, StopsDue, Zenon

\* A part of a set of steps that are not there is not there.
LEMMA WithoutPart ==
    ASSUME NEW s, NEW E, NEW F, F \subseteq E, Without(s, E)
    PROVE  Without(s, F)
  BY DEF Without

\* An add has a step of its own left.
LEMMA AddingAdds == ASSUME NEW s \in Adding PROVE ~Without(s, AddSteps)
  <1>1. /\ Len(<<"add_torrent", "add_resume", "acknowledge">>) = 3
        /\ Len(<<"add_torrent", "add_resume", "drop_magnet">>) = 3
        /\ Len(<<"add_resume", "acknowledge">>) = 2
        /\ Len(<<"add_resume", "drop_magnet">>) = 2
    OBVIOUS
  <1>2. /\ <<"add_torrent", "add_resume", "acknowledge">>[1] = "add_torrent"
        /\ <<"add_torrent", "add_resume", "drop_magnet">>[1] = "add_torrent"
        /\ <<"add_resume", "acknowledge">>[2] = "acknowledge"
        /\ <<"add_resume", "drop_magnet">>[2] = "drop_magnet"
    OBVIOUS
  <1>3. \A m \in {2, 3} : 1 \in 1 .. m /\ 2 \in 1 .. m
    OBVIOUS
  <1>4. \E n \in {1, 2} : s[n] \in AddSteps /\ n \in 1 .. Len(s)
    <2>1. CASE s = <<"add_torrent", "add_resume", "acknowledge">>
      BY <1>1, <1>2, <1>3, <2>1, Zenon DEF AddSteps
    <2>2. CASE s = <<"add_torrent", "add_resume", "drop_magnet">>
      BY <1>1, <1>2, <1>3, <2>2, Zenon DEF AddSteps
    <2>3. CASE s = <<"add_resume", "acknowledge">>
      BY <1>1, <1>2, <1>3, <2>3, Zenon DEF AddSteps
    <2>4. CASE s = <<"add_resume", "drop_magnet">>
      BY <1>1, <1>2, <1>3, <2>4, Zenon DEF AddSteps
    <2> QED BY <2>1, <2>2, <2>3, <2>4, Zenon DEF Adding
  <1> QED BY <1>4 DEF Without

\* The invariant of the next state, from facts about that state.
LEMMA FilesFrom ==
    ASSUME ~Without(call', Removing) => ~asked',
           call' \in Adding => /\ asked' => pending' # "no"
                               /\ Head(call') = "add_resume" => torrentFile',
           ~Without(call', AddSteps) =>
              \/ call' \in Adding
              \/ Tail(call') = <<>> /\ hosted' /\ torrentFile' /\ resumeFile'
                 /\ Head(call') \notin {"add_torrent", "add_resume"}
    PROVE  FilesFollow'
  BY DEF FilesFollow, Without, Adding

\* A call that adds nothing, and removes nothing that was acknowledged.
LEMMA FilesQuiet ==
    ASSUME Without(call', AddSteps), Without(call', Removing) \/ ~asked'
    PROVE  FilesFollow'
  BY AddingAdds, FilesFrom

LEMMA OverFollows == ASSUME call' = <<>> PROVE FilesFollow'
  <1>1. Without(call', AddSteps) /\ Without(call', Removing)
    BY DEF Without
  <1> QED BY <1>1, FilesQuiet

\* A call at a step that is none of an add's has none of them before it.
LEMMA NoAddLeft ==
    ASSUME TypeOK, FilesFollow, call # <<>>,
           Head(call) \notin AddSteps \cup {"add_resume"}
    PROVE  Without(Tail(call), AddSteps) /\ Tail(call) \in Seq(StepName)
  <1>1. call \in Seq(StepName) /\ Tail(call) \in Seq(StepName)
    BY DEF TypeOK
  <1>2. call \notin Adding
    BY AddingWalk DEF AddSteps
  <1>3. CASE Without(call, AddSteps)
    BY <1>1, <1>3, WithoutTail
  <1>4. CASE Tail(call) = <<>>
    <2>1. Without(<<>>, AddSteps)
      BY DEF Without
    <2> QED BY <1>1, <1>4, <2>1, Zenon
  <1> QED BY <1>1, <1>2, <1>3, <1>4 DEF FilesFollow

\* A step outside adds and removals, with the files and the answers as they were.
LEMMA QuietDisk ==
    ASSUME TypeOK, DiskInv, call # <<>>, Head(call) \notin AddSteps \cup {"add_resume"},
           NEW more \in Seq(StepName), Proceed(more), Without(more, AddSteps \cup Removing),
           UNCHANGED <<up, hosted, pending, fetch, torrentFile, magnetFile, asked>>,
           resumeFile => resumeFile'
    PROVE  DiskInv'
  <1>1. call' = more \o Tail(call) /\ call \in Seq(StepName)
    BY DEF Proceed, TypeOK
  <1>2. Without(Tail(call), AddSteps) /\ Tail(call) \in Seq(StepName)
    BY NoAddLeft DEF DiskInv
  <1>3. Without(more, AddSteps) /\ Without(more, Removing)
    BY WithoutPart
  <1>4. Without(call', AddSteps)
    BY <1>1, <1>2, <1>3, WithoutConcat
  <1>5. Without(call', Removing) \/ ~asked'
    <2>1. CASE ~asked
      BY <2>1
    <2>2. CASE Without(call, Removing)
      <3>1. Without(Tail(call), Removing)
        BY <1>1, <2>2, WithoutTail
      <3> QED BY <1>1, <1>2, <1>3, <3>1, WithoutConcat
    <2> QED BY <2>1, <2>2 DEF DiskInv, FilesFollow
  <1>6. FilesFollow'
    BY <1>4, <1>5, FilesQuiet
  <1>7. AcknowledgedOnDisk' /\ MagnetsFiled' /\ FetchesFollow'
    BY DEF DiskInv, AcknowledgedOnDisk, MagnetsFiled, FetchesFollow
  <1> QED BY <1>6, <1>7 DEF DiskInv

\* A step of a call keeps what was acknowledged on disk.
LEMMA StepDisk ==
    ASSUME "unlink" \notin Faults, RegistryInv, DiskInv, Step
    PROVE  DiskInv'
  <1> USE DEF RegistryInv
  <1>0. call \in Seq(StepName) /\ <<>> \in Seq(StepName)
        /\ Without(<<>>, AddSteps \cup Removing)
    BY WithoutSteps DEF TypeOK
  <1>1. ASSUME Refresh \/ Snapshot \/ Fsync \/ TakeHave \/ Disconnect \/ DropNetwork
        PROVE  DiskInv'
    <2>1. /\ call # <<>> /\ Proceed(<<>>)
          /\ Head(call) \in {"refresh", "snapshot", "fsync", "take", "disconnect", "detach"}
          /\ UNCHANGED <<up, hosted, pending, fetch, torrentFile, magnetFile, asked, resumeFile>>
      BY <1>1 DEF Refresh, Snapshot, Fsync, TakeHave, Disconnect, DropNetwork, AtStep,
                  entryVars, magnetVars, fileVars
    <2>2. Head(call) \notin AddSteps \cup {"add_resume"}
      BY <2>1 DEF AddSteps
    <2> QED BY <1>0, <2>1, <2>2, QuietDisk
  <1>2. ASSUME Reconcile \/ Persist \/ \E why \in Wanted \ {"operator"} : SeedLimits(why)
        PROVE  DiskInv'
    <2>1. /\ call # <<>>
          /\ Head(call) \in {"reconcile", "persist", "limits"}
          /\ UNCHANGED <<up, hosted, pending, fetch, torrentFile, magnetFile, asked, resumeFile>>
          /\ \E more \in {<<>>, StopSteps, <<"snapshot", "fsync", "write">>,
                          StopSteps \o <<"write">>} : Proceed(more)
      <3>1. CASE Reconcile
        <4>1. /\ AtStep("reconcile") /\ (Proceed(StopSteps) \/ Proceed(<<>>))
              /\ UNCHANGED <<up, hosted, pending, fetch, torrentFile, magnetFile, asked,
                             resumeFile>>
          BY <3>1 DEF Reconcile, entryVars, magnetVars, fileVars
        <4> QED BY <4>1 DEF AtStep
      <3>2. CASE Persist
        <4>1. /\ AtStep("persist")
              /\ (Proceed(<<"snapshot", "fsync", "write">>) \/ Proceed(<<>>))
              /\ UNCHANGED <<up, hosted, pending, fetch, torrentFile, magnetFile, asked,
                             resumeFile>>
          BY <3>2 DEF Persist, entryVars, magnetVars, fileVars
        <4> QED BY <4>1 DEF AtStep
      <3>3. ASSUME NEW why \in Wanted \ {"operator"}, SeedLimits(why)
            PROVE  /\ AtStep("limits")
                   /\ (Proceed(StopSteps \o <<"write">>) \/ Proceed(<<>>))
                   /\ UNCHANGED <<up, hosted, pending, fetch, torrentFile, magnetFile, asked,
                                  resumeFile>>
        BY <3>3 DEF SeedLimits, entryVars, magnetVars, fileVars
      <3> QED BY <1>2, <3>1, <3>2, <3>3, Zenon DEF AtStep
    <2>2. Head(call) \notin AddSteps \cup {"add_resume"}
      BY <2>1 DEF AddSteps
    <2> QED BY <2>1, <2>2, WithoutSteps, QuietDisk, Zenon
  <1>3. ASSUME WriteResume \/ PublishResume PROVE DiskInv'
    <2>1. /\ call # <<>> /\ Head(call) \in {"write", "publish"}
          /\ UNCHANGED <<up, hosted, pending, fetch, torrentFile, magnetFile, asked>>
          /\ resumeFile => resumeFile'
          /\ Proceed(<<>>) \/ call' = <<>>
      BY <1>3 DEF WriteResume, PublishResume, AtStep, Abort, entryVars, magnetVars
    <2>2. Head(call) \notin AddSteps \cup {"add_resume"}
      BY <2>1 DEF AddSteps
    <2>3. CASE Proceed(<<>>)
      BY <1>0, <2>1, <2>2, <2>3, QuietDisk
    <2>4. CASE call' = <<>>
      <3>1. AcknowledgedOnDisk' /\ MagnetsFiled' /\ FetchesFollow'
        BY <2>1 DEF DiskInv, AcknowledgedOnDisk, MagnetsFiled, FetchesFollow
      <3> QED BY <2>4, <3>1, OverFollows DEF DiskInv
    <2> QED BY <2>1, <2>3, <2>4
  <1>4. ASSUME UnlinkTorrent \/ UnlinkResume PROVE DiskInv'
    <2>1. /\ call # <<>> /\ Proceed(<<>>) /\ Head(call) \in {"unlink_torrent", "unlink_resume"}
          /\ UNCHANGED <<up, hosted, pending, fetch, magnetFile, asked>>
      BY <1>4, Zenon DEF UnlinkTorrent, UnlinkResume, AtStep, entryVars, magnetVars
    <2>2. Head(call) \notin AddSteps \cup {"add_resume"} /\ Head(call) \in Removing
      BY <2>1 DEF AddSteps, Removing
    <2>3. ~asked
      BY <1>0, <2>1, <2>2, WithoutTail DEF DiskInv, FilesFollow
    <2>4. call' = Tail(call)
      BY <2>1, ProceedTail DEF Proceed
    <2>5. Without(call', AddSteps)
      BY <2>1, <2>2, <2>4, NoAddLeft DEF DiskInv
    <2>6. FilesFollow'
      BY <2>1, <2>3, <2>5, FilesQuiet
    <2>7. AcknowledgedOnDisk' /\ MagnetsFiled' /\ FetchesFollow'
      BY <2>1, <2>3 DEF DiskInv, AcknowledgedOnDisk, MagnetsFiled, FetchesFollow
    <2> QED BY <2>6, <2>7 DEF DiskInv
  <1>5. ASSUME DeleteData \/ Forget PROVE DiskInv'
    <2>1. /\ call # <<>> /\ Proceed(<<>>) /\ Head(call) \in Losing /\ ~hosted'
          /\ UNCHANGED <<up, pending, fetch, torrentFile, magnetFile, resumeFile, asked>>
      BY <1>5, Zenon DEF DeleteData, Forget, AtStep, magnetVars, fileVars, Losing
    <2>2. Head(call) \in Removing
      BY <2>1 DEF Removing, Losing
    <2>3. ~asked
      BY <1>0, <2>1, <2>2, WithoutTail DEF DiskInv, FilesFollow
    <2>4. call' = Tail(call)
      BY <2>1, ProceedTail DEF Proceed
    <2>5. Tail(call) = <<>>
      BY <2>1, StandsAtSpecial DEF Special, Losing
    <2>6. FilesFollow'
      BY <2>4, <2>5, OverFollows
    <2>7. AcknowledgedOnDisk' /\ MagnetsFiled' /\ FetchesFollow'
      BY <2>1, <2>3 DEF DiskInv, AcknowledgedOnDisk, MagnetsFiled, FetchesFollow
    <2> QED BY <2>6, <2>7 DEF DiskInv
  <1>6. ASSUME DropMagnet \/ Acknowledge PROVE DiskInv'
    <2>1. /\ call # <<>> /\ Proceed(<<>>) /\ Head(call) \in {"drop_magnet", "acknowledge"}
          /\ UNCHANGED <<up, hosted, fetch, torrentFile, resumeFile>>
          /\ pending' # "no" => pending' = pending /\ magnetFile' = magnetFile
          /\ up
      BY <1>6, Zenon DEF DropMagnet, Acknowledge, AtStep, entryVars, magnetVars, fileVars
    <2>2. Head(call) \in AddSteps /\ Head(call) \notin {"add_torrent", "add_resume"}
      BY <2>1 DEF AddSteps
    <2>3. call \notin Adding
      BY <2>2, AddingWalk
    <2>4. Tail(call) = <<>> /\ hosted /\ torrentFile /\ resumeFile
      BY <1>0, <2>1, <2>2, <2>3, WithoutTail DEF DiskInv, FilesFollow
    <2>5. call' = Tail(call)
      BY <2>1, ProceedTail DEF Proceed
    <2>6. FilesFollow'
      BY <2>4, <2>5, OverFollows
    <2>7. AcknowledgedOnDisk' /\ MagnetsFiled' /\ FetchesFollow'
      BY <2>1, <2>4 DEF DiskInv, AcknowledgedOnDisk, MagnetsFiled, FetchesFollow
    <2> QED BY <2>6, <2>7 DEF DiskInv
  <1>7. ASSUME AddTorrentFile PROVE DiskInv'
    <2>1. /\ call # <<>> /\ Head(call) = "add_torrent"
          /\ UNCHANGED <<up, hosted, pending, fetch, magnetFile, resumeFile, asked>>
          /\ \/ torrentFile' /\ Proceed(<<>>)
             \/ torrentFile' = torrentFile /\ call' = <<>>
      BY <1>7 DEF AddTorrentFile, AtStep, Abort, entryVars, magnetVars
    <2>2. AcknowledgedOnDisk' /\ MagnetsFiled' /\ FetchesFollow'
      BY <2>1 DEF DiskInv, AcknowledgedOnDisk, MagnetsFiled, FetchesFollow
    <2>3. CASE call' = <<>>
      BY <2>2, <2>3, OverFollows DEF DiskInv
    <2>4. CASE torrentFile' /\ Proceed(<<>>)
      <3>1. call' = Tail(call)
        BY <2>1, <2>4, ProceedTail DEF Proceed
      <3>2. Head(call) \in AddSteps
        BY <2>1 DEF AddSteps
      <3>3. call \in Adding
        BY <1>0, <2>1, <3>2, WithoutTail DEF DiskInv, FilesFollow
      <3>4. call' \in Adding
        BY <2>1, <3>1, <3>3, AddingWalk
      <3>5. ~Without(call', Removing) => ~asked'
        <4>1. Without(call, Removing) => Without(Tail(call), Removing)
          BY <1>0, <2>1, WithoutTail
        <4> QED BY <2>1, <3>1, <4>1 DEF DiskInv, FilesFollow
      <3>6. asked' => pending' # "no"
        BY <2>1, <3>3 DEF DiskInv, FilesFollow
      <3>7. FilesFollow'
        BY <2>4, <3>4, <3>5, <3>6, FilesFrom
      <3> QED BY <2>2, <3>7 DEF DiskInv
    <2> QED BY <2>1, <2>3, <2>4
  <1>8. ASSUME AddResumeFile PROVE DiskInv'
    <2>1. call # <<>> /\ Head(call) = "add_resume"
          /\ UNCHANGED <<up, pending, fetch, magnetFile, asked>>
      BY <1>8, Zenon DEF AddResumeFile, AtStep, magnetVars
    <2>2. Tail(call) \in {<<"acknowledge">>, <<"drop_magnet">>}
      BY <2>1, StandsAtSpecial DEF Special, Losing
    <2>3. PICK w \in {"acknowledge", "drop_magnet"} : Tail(call) = <<w>>
      BY <2>2
    <2>4. Head(<<w>>) = w /\ Tail(<<w>>) = <<>> /\ <<w>> # <<>> /\ <<w>> \in Seq(StepName)
      BY DEF StepName
    <2>5. w \in AddSteps /\ w \notin Removing /\ w \notin {"add_torrent", "add_resume"}
      BY DEF AddSteps, Removing
    <2>6. ~Without(<<w>>, AddSteps)
      BY <2>4, <2>5, WithoutTail
    <2>7. ~Without(call, AddSteps)
      BY <1>0, <2>1, <2>3, <2>6, WithoutTail
    <2>8. call \in Adding
      BY <2>1, <2>3, <2>4, <2>7 DEF DiskInv, FilesFollow
    <2>9. torrentFile /\ (asked => pending # "no") /\ (asked => magnetFile)
      BY <2>1, <2>8 DEF DiskInv, FilesFollow, MagnetsFiled
    <2>10. CASE /\ Proceed(<<>>) /\ resumeFile' = TRUE /\ hosted' = TRUE
                /\ torrentFile' = torrentFile
      <3>1. call' = <<w>>
        BY <2>1, <2>3, <2>10, ProceedTail DEF Proceed
      <3>2. Without(call', Removing)
        BY <2>5, <3>1, WithoutList
      <3>3. call' \notin Adding
        BY <2>4, <2>5, <3>1, AddingWalk
      <3>4. FilesFollow'
        BY <2>4, <2>5, <2>9, <2>10, <3>1, <3>2, <3>3, FilesFrom
      <3>5. AcknowledgedOnDisk' /\ MagnetsFiled' /\ FetchesFollow'
        BY <2>1, <2>9, <2>10 DEF DiskInv, AcknowledgedOnDisk, MagnetsFiled, FetchesFollow
      <3> QED BY <3>4, <3>5 DEF DiskInv
    <2>11. CASE call' = <<>> /\ hosted' = hosted
      <3>1. AcknowledgedOnDisk' /\ MagnetsFiled' /\ FetchesFollow'
        BY <2>1, <2>9, <2>11 DEF DiskInv, AcknowledgedOnDisk, MagnetsFiled, FetchesFollow
      <3> QED BY <2>11, <3>1, OverFollows DEF DiskInv
    <2> QED BY <1>8, <2>10, <2>11, Zenon DEF AddResumeFile, Abort
  <1> QED BY <1>1, <1>2, <1>3, <1>4, <1>5, <1>6, <1>7, <1>8 DEF Step

\* And so does everything else: calls that begin, threads beside them, a
\* crash and a restart.
LEMMA OtherDisk ==
    ASSUME "unlink" \notin Faults, RegistryInv, DiskInv,
           \/ Operator \/ PersistTick \/ AttachNetwork \/ DetachNetwork
           \/ ScanRun \/ FinishScan \/ FailScan \/ Crash \/ LoadAll
           \/ \E i \in Piece : EnginePiece(i) \/ LateBlock(i)
           \/ \E f \in Fetcher : \/ CompleteMagnet(f) \/ SpawnFetch(f)
                                 \/ FetchRound(f) \/ FetchEnds(f)
    PROVE  DiskInv'
  <1> DEFINE E == AddSteps \cup Removing
  <1> HIDE DEF E
  <1>0. /\ AcknowledgedOnDisk /\ MagnetsFiled /\ FilesFollow /\ FetchesFollow
        /\ fetch \in [Fetcher -> {"off", "idle", "round", "got"}]
        /\ ~up => call = <<>>
    BY DEF DiskInv, RegistryInv, TypeOK, Presence
  \* A call that touches no files.
  <1>1. ASSUME UNCHANGED <<up, hosted, pending, fetch, torrentFile, magnetFile, resumeFile,
                           asked>>,
               Without(call', E)
        PROVE  DiskInv'
    <2>1. Without(call', AddSteps) /\ Without(call', Removing)
      BY <1>1, WithoutPart DEF E
    <2>2. AcknowledgedOnDisk' /\ MagnetsFiled' /\ FetchesFollow'
      BY <1>0, <1>1 DEF AcknowledgedOnDisk, MagnetsFiled, FetchesFollow
    <2> QED BY <2>1, <2>2, FilesQuiet DEF DiskInv
  <1>2. ASSUME PersistTick \/ List \/ SetOption \/ AttachNetwork PROVE DiskInv'
    <2>1. UNCHANGED <<up, hosted, pending, fetch, torrentFile, magnetFile, resumeFile, asked>>
      BY <1>2, Zenon DEF PersistTick, List, SetOption, AttachNetwork, entryVars, magnetVars,
                         fileVars
    <2>2. call' \in {<<"refresh">>, <<"write">>, <<"reconcile">>, PersistSteps}
      BY <1>2, Zenon DEF PersistTick, List, SetOption, AttachNetwork, Begin
    <2>3. Without(call', E)
      BY <2>2, WithoutSteps, Zenon DEF E
    <2> QED BY <1>1, <2>1, <2>3
  <1>3. ASSUME FinishScan \/ \E b \in BOOLEAN : SetPaused(b) \/ SetSeedRatio(b)
        PROVE  DiskInv'
    <2>1. UNCHANGED <<up, hosted, pending, fetch, torrentFile, magnetFile, resumeFile, asked>>
      BY <1>3, Zenon DEF FinishScan, SetPaused, SetSeedRatio, magnetVars, fileVars
    <2>2. call' \in {<<"reconcile", "write">>, <<"publish", "reconcile">>}
      BY <1>3, Zenon DEF FinishScan, SetPaused, SetSeedRatio, Begin
    <2>3. Without(call', E)
      BY <2>2, WithoutSteps, Zenon DEF E
    <2> QED BY <1>1, <2>1, <2>3
  <1>4. ASSUME DetachNetwork PROVE DiskInv'
    <2>1. UNCHANGED <<up, hosted, pending, fetch, torrentFile, magnetFile, resumeFile, asked>>
      BY <1>4, Zenon DEF DetachNetwork, entryVars, magnetVars, fileVars
    <2> DEFINE first == IF live THEN StopSteps ELSE <<>>
    <2>2. call' = first \o <<"detach">> \o PersistSteps
      BY <1>4 DEF DetachNetwork, Begin
    <2>3. first \in Seq(StepName) /\ Without(first, E)
      BY WithoutSteps DEF E
    <2> HIDE DEF first
    <2>4. <<"detach">> \in Seq(StepName) /\ Without(<<"detach">>, E)
          /\ PersistSteps \in Seq(StepName) /\ Without(PersistSteps, E)
      BY WithoutSteps, Zenon DEF E
    <2>5. first \o <<"detach">> \in Seq(StepName) /\ Without(first \o <<"detach">>, E)
      <3>1. first \o <<"detach">> \in Seq(StepName)
        BY <2>3, <2>4
      <3>2. Without(first \o <<"detach">>, E)
        BY <2>3, <2>4, WithoutConcat, Zenon
      <3> QED BY <3>1, <3>2
    <2>6. Without(call', E)
      BY <2>2, <2>4, <2>5, WithoutConcat
    <2> QED BY <1>1, <2>1, <2>6
  <1>5. ASSUME BeginVerify \/ FailScan PROVE DiskInv'
    <2>1. UNCHANGED <<up, hosted, pending, fetch, torrentFile, magnetFile, resumeFile, asked>>
          /\ call' = <<>>
      BY <1>5 DEF BeginVerify, FailScan, Idle, magnetVars, fileVars
    <2>2. Without(call', E)
      BY <2>1, WithoutSteps DEF E
    <2> QED BY <1>1, <2>1, <2>2
  <1>6. ASSUME AddMagnet \/ RemoveMagnet PROVE DiskInv'
    <2>1. /\ call' = <<>> /\ UNCHANGED <<up, fetch>> /\ up
          /\ \/ asked' /\ magnetFile' /\ pending' = "new"
             \/ ~asked' /\ pending' = "no"
      BY <1>6 DEF AddMagnet, RemoveMagnet, Idle
    <2>2. AcknowledgedOnDisk' /\ MagnetsFiled' /\ FetchesFollow'
      BY <2>1 DEF AcknowledgedOnDisk, MagnetsFiled, FetchesFollow
    <2> QED BY <2>1, <2>2, OverFollows DEF DiskInv
  <1>7. ASSUME NEW b \in BOOLEAN, AddTorrent(b) PROVE DiskInv'
    <2>1. /\ call' = <<"add_torrent", "add_resume", "acknowledge">>
          /\ UNCHANGED <<up, hosted, pending, fetch, torrentFile, magnetFile, resumeFile>> /\ up
          /\ asked' => asked /\ pending # "no"
      BY <1>7 DEF AddTorrent, Begin, Idle, magnetVars, fileVars
    <2>2. call' \in Adding /\ Head(call') = "add_torrent"
      <3>1. Head(<<"add_torrent", "add_resume", "acknowledge">>) = "add_torrent"
        OBVIOUS
      <3> QED BY <2>1, <3>1, Zenon DEF Adding
    <2>3. Without(call', Removing)
      <3>1. /\ "add_torrent" \notin Removing /\ "add_resume" \notin Removing
            /\ "acknowledge" \notin Removing
        BY DEF Removing
      <3> QED BY <2>1, <3>1, WithoutList, Zenon
    <2>4. FilesFollow'
      BY <2>1, <2>2, <2>3, FilesFrom
    <2>5. AcknowledgedOnDisk' /\ MagnetsFiled' /\ FetchesFollow'
      BY <1>0, <2>1 DEF AcknowledgedOnDisk, MagnetsFiled, FetchesFollow
    <2> QED BY <2>4, <2>5 DEF DiskInv
  <1>8. ASSUME NEW b \in BOOLEAN, RemoveTorrent(b) PROVE DiskInv'
    <2> DEFINE e == IF b THEN "delete_data" ELSE "forget"
               ends == <<"unlink_torrent", "unlink_resume", e>>
               first == IF live THEN StopSteps ELSE <<>>
    <2>1. /\ call' = first \o ends
          /\ UNCHANGED <<up, hosted, pending, fetch, torrentFile, magnetFile, resumeFile>>
          /\ ~asked' /\ up
      BY <1>8 DEF RemoveTorrent, Begin, Idle, entryVars, magnetVars, fileVars
    <2>2. e \in {"delete_data", "forget"}
      OBVIOUS
    <2>3. first \in Seq(StepName) /\ Without(first, E)
      BY WithoutSteps DEF E
    <2> HIDE DEF e, first
    <2>4. ends \in Seq(StepName)
      BY <2>2 DEF StepName
    <2>5. "unlink_torrent" \notin AddSteps /\ "unlink_resume" \notin AddSteps /\ e \notin AddSteps
      BY <2>2 DEF AddSteps
    <2>6. Without(ends, AddSteps)
      BY <2>5, WithoutList
    <2> HIDE DEF ends
    <2>7. Without(first, AddSteps)
      BY <2>3, WithoutPart DEF E
    <2>8. Without(call', AddSteps)
      BY <2>1, <2>3, <2>4, <2>6, <2>7, WithoutConcat
    <2>9. FilesFollow'
      BY <2>1, <2>8, FilesQuiet
    <2>10. AcknowledgedOnDisk' /\ MagnetsFiled' /\ FetchesFollow'
      BY <1>0, <2>1 DEF AcknowledgedOnDisk, MagnetsFiled, FetchesFollow
    <2> QED BY <2>9, <2>10 DEF DiskInv
  <1>9. ASSUME NEW f \in Fetcher, CompleteMagnet(f) PROVE DiskInv'
    <2>1. /\ fetch[f] = "got" /\ up /\ call = <<>>
          /\ UNCHANGED <<up, hosted, pending, torrentFile, magnetFile, resumeFile, asked>>
          /\ fetch' = [fetch EXCEPT ![f] = "off"]
      BY <1>9 DEF CompleteMagnet, Idle, fileVars
    <2>2. (\E g \in Fetcher : fetch'[g] # "off") => \E g \in Fetcher : fetch[g] # "off"
      BY <1>0, <2>1
    <2>3. AcknowledgedOnDisk' /\ MagnetsFiled' /\ FetchesFollow'
      BY <1>0, <2>1, <2>2 DEF AcknowledgedOnDisk, MagnetsFiled, FetchesFollow
    <2>4. CASE hosted
      <3>1. call' = <<>>
        BY <1>9, <2>1, <2>4 DEF CompleteMagnet
      <3> QED BY <2>3, <3>1, OverFollows DEF DiskInv
    <2>5. CASE ~hosted
      <3>1. call' = <<"add_torrent", "add_resume", "drop_magnet">>
        BY <1>9, <2>5 DEF CompleteMagnet
      <3>2. call' \in Adding /\ Head(call') = "add_torrent"
        <4>1. Head(<<"add_torrent", "add_resume", "drop_magnet">>) = "add_torrent"
          OBVIOUS
        <4> QED BY <3>1, <4>1, Zenon DEF Adding
      <3>3. Without(call', Removing)
        <4>1. /\ "add_torrent" \notin Removing /\ "add_resume" \notin Removing
              /\ "drop_magnet" \notin Removing
          BY DEF Removing
        <4> QED BY <3>1, <4>1, WithoutList, Zenon
      <3>4. asked' => pending' # "no"
        BY <1>0, <2>1, <2>5 DEF FetchesFollow
      <3>5. FilesFollow'
        BY <3>2, <3>3, <3>4, FilesFrom
      <3> QED BY <2>3, <3>5 DEF DiskInv
    <2> QED BY <2>4, <2>5
  <1>10. ASSUME NEW f \in Fetcher, SpawnFetch(f) PROVE DiskInv'
    <2>1. /\ call' = <<>> /\ pending = "new" /\ pending' = "claimed" /\ up /\ up' = up
          /\ UNCHANGED <<torrentFile, magnetFile, resumeFile, asked>>
      BY <1>10 DEF SpawnFetch, Idle, fileVars
    <2>2. AcknowledgedOnDisk' /\ MagnetsFiled' /\ FetchesFollow'
      BY <1>0, <2>1 DEF AcknowledgedOnDisk, MagnetsFiled, FetchesFollow
    <2> QED BY <2>1, <2>2, OverFollows DEF DiskInv
  <1>11. ASSUME NEW f \in Fetcher, FetchRound(f) \/ FetchEnds(f) PROVE DiskInv'
    <2>1. /\ fetch[f] # "off"
          /\ UNCHANGED <<up, call, hosted, pending, torrentFile, magnetFile, resumeFile, asked>>
      BY <1>11 DEF FetchRound, FetchEnds, entryVars, fileVars
    <2>2. up
      BY <1>0, <2>1 DEF MagnetsFiled
    <2>3. AcknowledgedOnDisk' /\ MagnetsFiled' /\ FetchesFollow'
      BY <1>0, <2>1, <2>2 DEF AcknowledgedOnDisk, MagnetsFiled, FetchesFollow
    <2>4. FilesFollow'
      BY <1>0, <2>1 DEF FilesFollow, Without
    <2> QED BY <2>3, <2>4 DEF DiskInv
  <1>12. ASSUME ScanRun \/ \E i \in Piece : EnginePiece(i) \/ LateBlock(i) PROVE DiskInv'
    <2>1. UNCHANGED <<up, call, hosted, pending, fetch, torrentFile, magnetFile, resumeFile,
                      asked>>
      BY <1>12 DEF ScanRun, EnginePiece, LateBlock, entryVars, magnetVars, fileVars
    <2>2. AcknowledgedOnDisk' /\ MagnetsFiled' /\ FetchesFollow'
      BY <1>0, <2>1 DEF AcknowledgedOnDisk, MagnetsFiled, FetchesFollow
    <2>3. FilesFollow'
      BY <1>0, <2>1 DEF FilesFollow, Without
    <2> QED BY <2>2, <2>3 DEF DiskInv
  <1>13. ASSUME Crash PROVE DiskInv'
    <2>1. /\ call' = <<>> /\ pending' = "no" /\ fetch' = [f \in Fetcher |-> "off"]
          /\ UNCHANGED <<torrentFile, magnetFile, resumeFile, asked>>
      BY <1>13, Zenon DEF Crash, fileVars
    <2>2. AcknowledgedOnDisk' /\ MagnetsFiled' /\ FetchesFollow'
      BY <1>0, <2>1 DEF AcknowledgedOnDisk, MagnetsFiled, FetchesFollow
    <2> QED BY <2>1, <2>2, OverFollows DEF DiskInv
  <1>14. ASSUME LoadAll PROVE DiskInv'
    <2>1. /\ ~up /\ up' /\ call' = <<>>
          /\ UNCHANGED <<torrentFile, resumeFile, asked, fetch>>
      BY <1>0, <1>14 DEF LoadAll
    <2>2. pending = "no" /\ \A f \in Fetcher : fetch'[f] = "off"
      BY <1>0, <2>1 DEF MagnetsFiled
    <2>3. MagnetsFiled' /\ FetchesFollow'
      <3>1. pending' # "no" => magnetFile'
        <4>1. CASE Loads
          <5>1. pending' = pending
            BY <1>14, <4>1, Zenon DEF LoadAll
          <5> QED BY <2>2, <5>1
        <4>2. CASE ~Loads
          <5>1. magnetFile' = magnetFile /\ pending' = IF magnetFile THEN "new" ELSE "no"
            BY <1>14, <4>2, Zenon DEF LoadAll
          <5> QED BY <5>1
        <4> QED BY <4>1, <4>2
      <3> QED BY <2>1, <2>2, <3>1 DEF MagnetsFiled, FetchesFollow
    <2>4. AcknowledgedOnDisk'
      <3>1. CASE Loads
        BY <2>1, <3>1 DEF Loads, AcknowledgedOnDisk
      <3>2. CASE ~Loads
        BY <1>0, <1>14, <2>1, <3>2 DEF LoadAll, AcknowledgedOnDisk
      <3> QED BY <3>1, <3>2
    <2> QED BY <2>1, <2>3, <2>4, OverFollows DEF DiskInv
  <1> QED BY <1>2, <1>3, <1>4, <1>5, <1>6, <1>7, <1>8, <1>9, <1>10, <1>11, <1>12, <1>13, <1>14
          DEF Operator

\* As long as files can be unlinked, what was acknowledged is on disk, as a
\* torrent's pair of files or as a magnet: writes, syncs and scans may fail
\* and a crash may come between any two files (add_torrent, complete_magnet,
\* remove, load_all).
THEOREM RegistryAcknowledgedOnDisk ==
    ASSUME "unlink" \notin Faults
    PROVE  Spec => []AcknowledgedOnDisk
  <1>1. Init => DiskInv
    BY DEF Init, DiskInv, AcknowledgedOnDisk, MagnetsFiled, FilesFollow, FetchesFollow,
           Without, Adding
  <1>2. RegistryInv /\ DiskInv /\ [Next]_vars => DiskInv'
    <2> SUFFICES ASSUME RegistryInv, DiskInv, [Next]_vars PROVE DiskInv'
      OBVIOUS
    <2>1. CASE Step
      BY <2>1, StepDisk
    <2>2. CASE Next /\ ~Step
      BY <2>2, OtherDisk DEF Next
    <2>3. CASE UNCHANGED vars
      BY <2>3 DEF vars, entryVars, magnetVars, fileVars, DiskInv, AcknowledgedOnDisk,
                  MagnetsFiled, FilesFollow, FetchesFollow, Without
    <2> QED BY <2>1, <2>2, <2>3
  <1>3. DiskInv => AcknowledgedOnDisk
    BY DEF DiskInv
  <1> QED BY <1>1, <1>2, <1>3, RegistryInvariant, PTL DEF Spec

=============================================================================
